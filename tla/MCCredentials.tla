--------------------------- MODULE MCCredentials ---------------------------
(* Credentials for TLC. *)
EXTENDS Credentials, TLC

\* The operations run in one process; the other one only starts, reads and dies.
OneProcess == [o \in Ops |-> "p1"]

\* The tasks are interchangeable.
TaskSymmetry == Permutations(Tasks)
=============================================================================
