------------------------- MODULE MCFailoverDetector -------------------------
(* The instance of FailoverDetector that TLC checks.                       *)
EXTENDS FailoverDetector

MCSights == {[up |-> {1, 2}, critical |-> FALSE], [up |-> {1, 2}, critical |-> TRUE],
             [up |-> {2}, critical |-> FALSE], [up |-> {}, critical |-> FALSE]}

=============================================================================
