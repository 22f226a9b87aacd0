---------------------------- MODULE MCAuditChain ----------------------------
(* Small instances of AuditChain for TLC.                                  *)
EXTENDS AuditChain, TLC

CONSTANTS t1, t2, r1, r2, j1

TwoTenants == {t1, t2}
ThreeEvents == 1 .. 3
TwoOwners == [e \in ThreeEvents |-> IF e < 3 THEN t1 ELSE t2]
TwoRequests == {r1, r2}
OneSealer == {j1}
=============================================================================
