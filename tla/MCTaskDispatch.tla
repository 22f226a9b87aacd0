--------------------------- MODULE MCTaskDispatch ---------------------------
(* A small instance of TaskDispatch for TLC: both agents support the type  *)
(* of the first task, the others go to anyone; one agent has less room.    *)
EXTENDS TaskDispatch

CONSTANTS a1, a2

NewerAble == [t \in Tasks |-> IF t > 2 THEN {a1} ELSE {}]
OneAble == [t \in Tasks |-> IF t = 1 THEN {a1} ELSE {}]
BothAble == [t \in Tasks |-> IF t = 1 THEN {a1, a2} ELSE {}]
Rooms == [a \in Agents |-> IF a = a1 THEN 1 ELSE 2]
EqualRooms == [a \in Agents |-> 1]
=============================================================================
