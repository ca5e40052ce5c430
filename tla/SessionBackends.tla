--------------------------- MODULE SessionBackends ---------------------------
(***************************************************************************)
(* The memory backend and the SQLite backend side by side, given the same  *)
(* calls: what the shared conformance suite samples                        *)
(* (packages/agent/src/harness/session/testing), over every short          *)
(* sequence of writes, repairs and forks.  The backends number their       *)
(* mutations differently after a branch fork, so answers are compared by   *)
(* ids and order.  New ids are UUIDv7: fresh and increasing.               *)
(***************************************************************************)
EXTENDS SqliteTree

CONSTANT Limits      \* limits the queries try

VARIABLE state       \* the memory backend

vars == <<tables, fork, state>>

Memory == INSTANCE SessionState

Init == SqlInit /\ state = Memory!EmptyState

Fresh == Ids \ state.usedIds
Targets == DOMAIN entries \cup {None}

BranchForks == [entryId : Ids \cup {None}, position : {"before", "at", None}]

CreateLane(l, at) == createLane(l, at) /\ Memory!createLane(l, at)
MoveLane(l, to) == moveLane(l, to) /\ Memory!moveLane(l, to)
AppendEntry(id, t, l) == appendEntry(id, t, l) /\ Memory!appendEntry(id, t, l)
StartOperation(id, l) ==
  /\ appendRecord(id, l, "operation_started", None)
  /\ Memory!appendRecord(id, l, "operation_started", None)
FinishOperation(id, l, run) ==
  /\ appendRecord(id, l, "operation_finished", run)
  /\ Memory!appendRecord(id, l, "operation_finished", run)
SetName(text) == setName(text) /\ Memory!setName(text)
SetLabel(id, text) == setLabel(id, text) /\ Memory!setLabel(id, text)
Repair == repairBranchCache /\ UNCHANGED state
Delete == delete /\ UNCHANGED state
ForkReads ==
  /\ \/ forkReadsEntries \/ forkReadsLanes \/ forkReadsTips
     \/ forkReadsBranch \/ forkReadsRows
     \/ \E o \in BranchForks : forkSelectsTarget(o)
  /\ UNCHANGED state
ForkCommits == forkCommits /\ Memory!fork(fork.scope, fork.target)
ForkLeaves == forkLeaves /\ UNCHANGED state

Next ==
  \/ \E l \in Lanes, id \in Targets : CreateLane(l, id) \/ MoveLane(l, id)
  \/ /\ Fresh # {}
     /\ \E l \in DOMAIN lanes : \/ \E t \in Types : AppendEntry(Min(Fresh), t, l)
                                \/ StartOperation(Min(Fresh), l)
                                \/ \E run \in DOMAIN records : FinishOperation(Min(Fresh), l, run)
  \/ \E text \in Texts \cup {None} : \/ SetName(text)
                                     \/ \E id \in DOMAIN entries : SetLabel(id, text)
  \/ Repair \/ Delete
  \/ ForkReads \/ ForkCommits \/ ForkLeaves

Spec == Init /\ [][Next]_vars

----------------------------------------------------------------------------
(* Properties *)

\* A fork in progress changes no table, so whatever state they are in also
\* occurs with none; the costly properties look there.
Idle == fork.phase = "idle"

\* A call is refused by one backend exactly when the other refuses it, and
\* they agree where a branch fork ends.
RefusalsAgree == Idle =>
  /\ \A l \in Lanes, id \in Ids \cup {None} :
       /\ canCreateLane(l, id) <=> Memory!canCreateLane(state, l, id)
       /\ canMoveLane(l, id) <=> Memory!canMoveLane(state, l, id)
  /\ \A l \in Lanes, id \in Ids :
       /\ canAppendEntry(id, l) <=> Memory!canAppend(state, id, l)
       /\ canStart(id, l) <=> Memory!canStart(state, id, l)
  /\ \A id \in Ids : canLabel(id) <=> Memory!canLabel(state, id)
  /\ \A o \in BranchForks :
       /\ canFork(o) <=> Memory!canFork(state, o)
       /\ canFork(o) => forkTarget(o) = Memory!forkTarget(state, o)

BySeq(table) == ByRank(DOMAIN table, LAMBDA id : table[id].seq)

\* The two backends hold the same session: entries, records, lanes, open
\* operations, facts and message counts.
ContentsAgree == Idle =>
  /\ BySeq(entries) = [i \in DOMAIN state.entries |-> state.entries[i].id]
  /\ \A e \in Range(state.entries) :
       entries[e.id].parent = e.parent /\ entries[e.id].type = e.type
  /\ BySeq(records) = [i \in DOMAIN state.records |-> state.records[i].id]
  /\ DOMAIN lanes = DOMAIN state.lanes
  /\ \A l \in DOMAIN lanes :
       /\ lanes[l].leaf = state.lanes[l]
       /\ Memory!findOpenOperations(state, l) = IF lanes[l].open = None THEN <<>> ELSE <<lanes[l].open>>
  /\ latestFact(None) = state.name
  /\ \A id \in Ids : latestFact(id) = state.labels[id]
  /\ messageCount = state.messageCount

\* The bounds, orders, filters and cursors of a branch query.
Queries ==
  LET Query(stopTypes, stopIds) ==
        [order : {"newestFirst", "oldestFirst"}, type : {None, "message"}, cursor : Targets,
         stopAtType : stopTypes, stopAtId : stopIds, limit : Limits \cup {None}]
  IN Query({None}, Targets) \cup Query({"custom"}, {None})

\* The cache is what a repair would build: one branch for every leaf of the
\* tree, with exactly the entries between the leaf and its root.
CacheIsFresh == Idle =>
  /\ Range(branches) = {[tip |-> id, rows |-> PathRows(entries, id)] : id \in Leaves(entries)}
  /\ \A b, c \in DOMAIN branches : branches[b] = branches[c] => b = c

Page(last, after, limit) == Limit([i \in 1..last - after |-> after + i], limit)

\* Every sequence number handed out is one item of the log.
LogIsGapFree ==
  /\ Cardinality(DOMAIN entries) + Cardinality(DOMAIN records)
       + Cardinality(laneMoves) + Cardinality(facts) = nextSeq - 1
  /\ \A after \in 0..nextSeq - 1, limit \in Limits \cup {None} :
       getLog(after, limit) = Page(nextSeq - 1, after, limit)
  /\ \A after \in 0..state.sequence, limit \in Limits \cup {None} :
       LET log == Memory!getLog(state, after, limit)
       IN [i \in DOMAIN log |-> log[i].seq] = Page(state.sequence, after, limit)

\* A branch query over the cache returns what walking the parent links does,
\* and a reader that pages through getLog misses nothing and sees nothing twice.
QueriesAgree == Idle =>
  /\ \A start \in DOMAIN entries, q \in Queries :
       LET At(seq) == IF q.cursor = None THEN q ELSE [q EXCEPT !.cursor = seq]
           found == Memory!findEntriesOnBranch(state, start, At(Memory!getEntry(state, q.cursor).seq))
       IN findEntriesOnBranch(start, At(entries[q.cursor].seq)) = [i \in DOMAIN found |-> found[i].id]
  /\ LogIsGapFree

\* fork reads without a snapshot; what it writes is a session all the same
\* (entries with their parents, lanes and branches that lead to entries),
\* unless its source is deleted meanwhile.
ForkIsSound ==
  fork.phase = "tips" /\ ~fork.deleted /\ buildable(fork.entries, fork.tips) =>
    /\ \A id \in DOMAIN fork.entries : fork.entries[id].parent \in DOMAIN fork.entries \cup {None}
    /\ \A l \in DOMAIN fork.lanes : fork.lanes[l] \in DOMAIN fork.entries \cup {None}
    /\ fork.tips = Leaves(fork.entries)
=============================================================================
