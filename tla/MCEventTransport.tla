-------------------------- MODULE MCEventTransport --------------------------
(* Small instances of EventTransport for TLC.                              *)
EXTENDS EventTransport, TLC

CONSTANTS c1, c2, h1, h2

OneConsumerSet == {c1}
TwoConsumers == {c1, c2}
OneHandler == {h1}
TwoHandlers == {h1, h2}
NoneInvalid == {}
SecondInvalid == {2}

Symmetric == Permutations(TwoConsumers) \cup Permutations(TwoHandlers)
=============================================================================
