----------------------------- MODULE DurableLog -----------------------------
(***************************************************************************)
(* What a session file promises, without bytes, files or repairs: a log    *)
(* that grows by one item at a time and is at most one item ahead of what  *)
(* callers were told.  A crash and a recovery leave it alone; opening the  *)
(* session acknowledges all of it.                                         *)
(***************************************************************************)
EXTENDS Naturals, Sequences

CONSTANT Items     \* the logs there can be
VARIABLES durable, \* what a recovery would find
          acked    \* what callers were told

vars == <<durable, acked>>

Init == durable = <<>> /\ acked = <<>>

\* An append reaches the log, not yet its caller.
Persist == /\ durable = acked
           /\ durable' \in Items /\ Len(durable') = Len(durable) + 1
           /\ SubSeq(durable', 1, Len(durable)) = durable
           /\ UNCHANGED acked

\* The append returns, or the session is opened with it.
Acknowledge == acked' = durable /\ UNCHANGED durable

\* The session is deleted.
Erase == durable' = <<>> /\ acked' = <<>>

Next == Persist \/ Acknowledge \/ Erase
Spec == Init /\ [][Next]_vars
=============================================================================
