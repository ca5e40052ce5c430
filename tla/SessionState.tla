---------------------------- MODULE SessionState ----------------------------
(***************************************************************************)
(* The session state the memory and JSONL backends share                   *)
(* (packages/agent/src/harness/session/state.ts, memory.ts): every write   *)
(* is a numbered mutation, validated and applied to one object; a fork is  *)
(* a list of mutations applied to a fresh one.  The queries read the same  *)
(* object.  SessionBackends runs it beside the SQLite backend.             *)
(*                                                                         *)
(* A write that throws changes nothing, so each action is a write that     *)
(* succeeds.  Payloads, timestamps and token counts are left out; the      *)
(* record types other than the two that open and close an operation act    *)
(* like a finish of nothing.                                               *)
(***************************************************************************)
EXTENDS Naturals, Sequences, SequencesExt

CONSTANTS Ids,    \* ids of entries and records
          Lanes,  \* lane names
          Main,   \* the lane every session has
          Texts,  \* session names and labels
          None    \* null and undefined

VARIABLE state

EmptyState ==
  [sequence |-> 0, usedIds |-> {}, entries |-> <<>>, records |-> <<>>,
   openOperations |-> [l \in Lanes |-> <<>>], lanes |-> (Main :> None),
   log |-> <<>>, name |-> None, labels |-> [id \in Ids |-> None], messageCount |-> 0]

nextSequence(s) == s.sequence + 1
EntryIds(s) == {e.id : e \in Range(s.entries)}
getEntry(s, id) == CHOOSE e \in Range(s.entries) : e.id = id
validTarget(s, id) == id # None => id \in EntryIds(s)

----------------------------------------------------------------------------
(* Mutations *)

entryMutation(lane, entry) == [kind |-> "entry", seq |-> entry.seq, lane |-> lane, entry |-> entry]
recordMutation(record) == [kind |-> "record", seq |-> record.seq, record |-> record]
laneMutation(seq, lane, leaf) == [kind |-> "lane", seq |-> seq, lane |-> lane, leaf |-> leaf]
nameMutation(seq, text) == [kind |-> "name", seq |-> seq, name |-> text]
labelMutation(seq, id, text) == [kind |-> "label", seq |-> seq, target |-> id, label |-> text]

\* applyMutation throws on anything else.
Valid(s, m) ==
  /\ m.seq = nextSequence(s)
  /\ m.kind = "entry" =>
       /\ m.entry.id \notin s.usedIds
       /\ m.lane # None => m.lane \in DOMAIN s.lanes /\ m.entry.parent = s.lanes[m.lane]
       /\ validTarget(s, m.entry.parent)
  /\ m.kind = "record" => m.record.lane \in DOMAIN s.lanes /\ m.record.id \notin s.usedIds
  /\ m.kind = "lane" => validTarget(s, m.leaf)
  /\ m.kind = "label" => m.target \in EntryIds(s)

Logged(s, m) == [s EXCEPT !.sequence = m.seq, !.log = Append(@, m)]

applyEntry(s, m) ==
  [Logged(s, [m EXCEPT !.lane = None]) EXCEPT
     !.usedIds = @ \cup {m.entry.id},
     !.entries = Append(@, m.entry),
     !.lanes = IF m.lane = None THEN @ ELSE [@ EXCEPT ![m.lane] = m.entry.id],
     !.messageCount = IF m.entry.type = "message" THEN @ + 1 ELSE @]

applyRecord(s, m) ==
  LET r == m.record
  IN [Logged(s, m) EXCEPT
        !.usedIds = @ \cup {r.id},
        !.records = Append(@, r),
        !.openOperations[r.lane] =
           CASE r.type = "operation_started"  -> Append(@, r.id)
             [] r.type = "operation_finished" -> SelectSeq(@, LAMBDA id : id # r.runId)]

applyMutation(s, m) ==
  CASE m.kind = "entry"  -> applyEntry(s, m)
    [] m.kind = "record" -> applyRecord(s, m)
    [] m.kind = "lane"   -> [Logged(s, m) EXCEPT !.lanes = (m.lane :> m.leaf) @@ @]
    [] m.kind = "name"   -> [Logged(s, m) EXCEPT !.name = m.name]
    [] m.kind = "label"  -> [Logged(s, m) EXCEPT !.labels[m.target] = m.label]

----------------------------------------------------------------------------
(* Queries *)

\* The entries from start to the root.
walkToRoot(s, start) ==
  LET walk[id \in EntryIds(s) \cup {None}] ==
        IF id = None THEN <<>> ELSE <<getEntry(s, id)>> \o walk[getEntry(s, id).parent]
  IN walk[start]

\* A query: [order, type, cursor, stopAtType, stopAtId, limit], None when absent.
matchesEntryQuery(e, q) ==
  /\ q.type # None => e.type = q.type
  /\ q.cursor # None => IF q.order = "oldestFirst" THEN e.seq > q.cursor ELSE e.seq < q.cursor

Take(seq, limit) == IF limit = None \/ Len(seq) <= limit THEN seq ELSE SubSeq(seq, 1, limit)

\* The scan ends after the first entry that reaches a bound, inclusive.
Bounded(seq, q) ==
  LET hits == {i \in DOMAIN seq : seq[i].id = q.stopAtId \/ seq[i].type = q.stopAtType}
  IN IF hits = {} THEN seq ELSE SubSeq(seq, 1, CHOOSE i \in hits : \A j \in hits : i <= j)

findEntriesOnBranch(s, start, q) ==
  LET walk == walkToRoot(s, start)
      scan == IF q.order = "oldestFirst" THEN Reverse(walk) ELSE walk
  IN Take(SelectSeq(Bounded(scan, q), LAMBDA e : matchesEntryQuery(e, q)), q.limit)

getLog(s, afterSeq, limit) == Take(SelectSeq(s.log, LAMBDA m : m.seq > afterSeq), limit)

\* The operation open on a lane, as appendRecord and recovery look it up.
findOpenOperations(s, lane) == Reverse(s.openOperations[lane])

----------------------------------------------------------------------------
(* Writes *)

canCreateLane(s, lane, at) == lane \notin DOMAIN s.lanes /\ validTarget(s, at)
canMoveLane(s, lane, to) == lane \in DOMAIN s.lanes /\ validTarget(s, to)
canAppend(s, id, lane) == lane \in DOMAIN s.lanes /\ id \notin s.usedIds
canStart(s, id, lane) == canAppend(s, id, lane) /\ findOpenOperations(s, lane) = <<>>
canLabel(s, id) == id \in EntryIds(s)

Do(m) == Valid(state, m) /\ state' = applyMutation(state, m)

createLane(lane, at) ==
  canCreateLane(state, lane, at) /\ Do(laneMutation(nextSequence(state), lane, at))

moveLane(lane, to) ==
  canMoveLane(state, lane, to) /\ Do(laneMutation(nextSequence(state), lane, to))

appendEntry(id, type, lane) ==
  /\ canAppend(state, id, lane)
  /\ Do(entryMutation(lane, [id |-> id, parent |-> state.lanes[lane], type |-> type,
                             seq |-> nextSequence(state)]))

appendRecord(id, lane, type, runId) ==
  /\ IF type = "operation_started" THEN canStart(state, id, lane)
                                   ELSE canAppend(state, id, lane)
  /\ Do(recordMutation([id |-> id, lane |-> lane, type |-> type, runId |-> runId,
                        seq |-> nextSequence(state)]))

setName(text) == Do(nameMutation(nextSequence(state), text))
setLabel(id, text) ==
  canLabel(state, id) /\ Do(labelMutation(nextSequence(state), id, text))

----------------------------------------------------------------------------
(* Forks *)

\* The options of a branch fork: [entryId, position], None when absent.
forkSelects(s, o) == IF o.entryId # None THEN o.entryId ELSE s.lanes[Main]
canFork(s, o) ==
  forkSelects(s, o) # None => /\ forkSelects(s, o) \in EntryIds(s)
                              /\ getEntry(s, forkSelects(s, o)).type = "message"

forkTarget(s, o) ==
  LET selected == forkSelects(s, o)
  IN IF selected # None /\ (o.position = "before" \/ (o.position = None /\ o.entryId # None))
     THEN getEntry(s, selected).parent ELSE selected

\* Entries, lanes, name, labels: renumbered from 1.
createForkMutations(s, scope, target) ==
  LET copied == IF scope = "tree" THEN s.entries ELSE Reverse(walkToRoot(s, target))
      leaves == IF scope = "tree" THEN s.lanes ELSE (Main :> target)
      lanes == SetToSeq(DOMAIN leaves)
      labelled == SelectSeq(copied, LAMBDA e : s.labels[e.id] # None)
      names == IF s.name = None THEN <<>> ELSE <<s.name>>
      base == Len(copied) + Len(lanes)
  IN [i \in DOMAIN copied |-> entryMutation(None, [copied[i] EXCEPT !.seq = i])]
     \o [i \in DOMAIN lanes |-> laneMutation(Len(copied) + i, lanes[i], leaves[lanes[i]])]
     \o [i \in DOMAIN names |-> nameMutation(base + i, names[i])]
     \o [i \in DOMAIN labelled |->
           labelMutation(base + Len(names) + i, labelled[i].id, s.labels[labelled[i].id])]

\* A mutation that applyMutation refuses ends the fork with an error.
replay(s, m) == IF Valid(s, m) THEN applyMutation(s, m) ELSE [s EXCEPT !.sequence = None]

fork(scope, target) ==
  state' = FoldLeft(replay, EmptyState, createForkMutations(state, scope, target))
=============================================================================
