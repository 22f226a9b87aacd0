--------------------------- MODULE MCSopAutomation ---------------------------
(* Small instances of SopAutomation for TLC.                               *)
EXTENDS SopAutomation, TLC

CONSTANTS w1, w2

OneWorker == {w1}
TwoWorkers == {w1, w2}

\* Every kind of step; an action that needs an approval first, or after a gate.
Mixed == {<<"change", "manual">>, <<"read", "gated">>, <<"gated", "change">>}
TwoReads == {<<"read", "read">>}
ActionThenGate == {<<"change", "gated">>}
GateThenAction == {<<"gated", "read">>}
TwoManuals == {<<"manual", "manual">>}
=============================================================================
