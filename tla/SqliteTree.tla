----------------------------- MODULE SqliteTree -----------------------------
(***************************************************************************)
(* The tables of one SQLite session and the transactions over them         *)
(* (packages/session-backends/sqlite-node/src/sqlite: repo.ts,             *)
(* branch-cache.ts, storage/).  Branches are cached: branch_entries holds, *)
(* for every leaf of the tree, the rows from the root to it, branch_tips   *)
(* its leaf, and a branch query reads the cache and never the parent       *)
(* links.  branches joins the two tables; branch ids are UUIDv7 and sort   *)
(* in the order of creation, so it is a sequence.                          *)
(*                                                                         *)
(* Writes are transactions of the lease holder (SqliteLease), one step     *)
(* each.  fork reads its source in separate statements without a lease, so *)
(* a writer of another process may commit between any two of them.         *)
(***************************************************************************)
EXTENDS Naturals, Sequences, FiniteSets, SequencesExt, FiniteSetsExt

CONSTANTS Ids,          \* ids of entries and records
          Lanes,        \* lane names
          Main,         \* the lane every session has
          Texts,        \* session names and labels
          None,         \* NULL
          MaxNext,      \* bound on the next_seq writes reach
          MaxForks,     \* bound on the forks the session goes on as
          MaxRaces      \* bound on the writes beside one fork

ASSUME MainIsALane == Main \in Lanes
ASSUME NoneIsNothing == None \notin Ids \cup Lanes \cup Texts
ASSUME Bounds == {MaxNext, MaxForks, MaxRaces} \subseteq Nat

Types == {"message", "custom"}

VARIABLES entries,      \* id -> [seq, parent, type]
          records,      \* id -> [seq, lane, type, runId]
          lanes,        \* lane -> [leaf, open]
          laneMoves,    \* set of [seq, lane, leaf]
          facts,        \* set of [seq, key, value]; the key of the name is None
          branches,     \* sequence of [tip, rows]
          nextSeq,
          messageCount,
          fork          \* what fork has read so far

tables == <<entries, records, lanes, laneMoves, facts, branches, nextSeq, messageCount>>

NoFork == [phase |-> "idle", count |-> 0, races |-> 0, deleted |-> FALSE, scope |-> "tree", target |-> None,
           branch |-> 0, leafSeq |-> 0, entries |-> <<>>, lanes |-> <<>>, tips |-> {}]

SqlInit ==
  /\ entries = <<>> /\ records = <<>>
  /\ lanes = (Main :> [leaf |-> None, open |-> None])
  /\ laneMoves = {} /\ facts = {}
  /\ branches = <<>>
  /\ nextSeq = 1 /\ messageCount = 0
  /\ fork = NoFork

\* A write of the session while fork reads it, from another process.
Races == IF fork.phase = "idle" THEN UNCHANGED fork
         ELSE /\ fork.races < MaxRaces /\ ~fork.deleted
              /\ fork' = [fork EXCEPT !.races = @ + 1]

\* fork reads no records, and facts last, with its commit: beside it these
\* writes are as good as before or after it.
Apart == fork.phase = "idle" /\ UNCHANGED fork

advanceSequence == nextSeq < MaxNext /\ nextSeq' = nextSeq + 1

\* A set in the order of a key that tells its elements apart (ORDER BY).
ByRank(S, key(_)) ==
  [i \in 1..Cardinality(S) |->
     CHOOSE x \in S : Cardinality({y \in S : key(y) <= key(x)}) = i]

----------------------------------------------------------------------------
(* The branch cache *)

\* Rows of an entry table from the root to an entry, by parent links.
PathIds(table, leaf) ==
  LET up[id \in DOMAIN table \cup {None}] ==
        IF id = None THEN {} ELSE {id} \cup up[table[id].parent]
  IN up[leaf]
PathRows(table, leaf) ==
  {[id |-> id, seq |-> table[id].seq, type |-> table[id].type] : id \in PathIds(table, leaf)}

readBranchTipBranchId(tip) == {b \in DOMAIN branches : branches[b].tip = tip}
BranchesContaining(id) == {b \in DOMAIN branches : \E r \in branches[b].rows : r.id = id}
readCachedBranch(id) == Min(BranchesContaining(id))
RowsThrough(b, seq) == {r \in branches[b].rows : r.seq <= seq}

\* No tip and no branch to copy from: the append throws.
canCache(parent) ==
  parent = None \/ readBranchTipBranchId(parent) # {} \/ BranchesContaining(parent) # {}

\* Mutant: a new branch copies all of the branch it leaves.
MutAppendEntryToBranchCache(row, parent) ==
  IF parent # None /\ readBranchTipBranchId(parent) # {}
  THEN \E b \in readBranchTipBranchId(parent) :
         branches' = [branches EXCEPT ![b] = [tip |-> row.id, rows |-> @.rows \cup {row}]]
  ELSE branches' = Append(branches,
         [tip |-> row.id,
          rows |-> {row} \cup IF parent = None THEN {} ELSE branches[readCachedBranch(parent)].rows])

\* A branch that ends in the parent is extended; otherwise a new one copies
\* the rows up to the parent from the first that holds it.
appendEntryToBranchCache(row, parent) ==
  IF parent # None /\ readBranchTipBranchId(parent) # {}
  THEN \E b \in readBranchTipBranchId(parent) :
         branches' = [branches EXCEPT ![b] = [tip |-> row.id, rows |-> @.rows \cup {row}]]
  ELSE branches' = Append(branches,
         [tip |-> row.id,
          rows |-> {row} \cup IF parent = None THEN {}
                              ELSE RowsThrough(readCachedBranch(parent), entries[parent].seq)])

\* The cache of a table, built tip after tip.
BuiltBranches(table, tips) == [b \in DOMAIN tips |-> [tip |-> tips[b], rows |-> PathRows(table, tips[b])]]

Leaves(table) == {id \in DOMAIN table : \A c \in DOMAIN table : table[c].parent # id}

\* repairBranchCache: releases the repository's own storage, takes the lease
\* and rebuilds the cache from the parent links, leaves in order of seq.
\* The branch ids change, so a branch fork has just looked up is gone.
repairBranchCache ==
  LET tips == ByRank(Leaves(entries), LAMBDA id : entries[id].seq)
  IN /\ branches' = BuiltBranches(entries, tips)
     /\ UNCHANGED <<entries, records, lanes, laneMoves, facts, nextSeq, messageCount>>
     /\ IF fork.phase = "idle" THEN UNCHANGED fork
        ELSE /\ fork.races < MaxRaces /\ ~fork.deleted
             /\ fork' = [fork EXCEPT !.races = @ + 1, !.branch = 0]

----------------------------------------------------------------------------
(* Writes *)

rowExists(id) == id # None => id \in DOMAIN entries

canCreateLane(lane, at) == lane \notin DOMAIN lanes /\ rowExists(at)
canMoveLane(lane, to) == lane \in DOMAIN lanes /\ rowExists(to)
\* Mutant: records are not looked at.
MutUnusedId(id) == id \notin DOMAIN entries
unusedId(id) == id \notin DOMAIN entries \cup DOMAIN records
canAppendEntry(id, lane) ==
  lane \in DOMAIN lanes /\ rowExists(lanes[lane].leaf) /\ unusedId(id) /\ canCache(lanes[lane].leaf)
canAppendRecord(id, lane) == lane \in DOMAIN lanes /\ unusedId(id)
canStart(id, lane) == canAppendRecord(id, lane) /\ lanes[lane].open = None
canLabel(id) == id \in DOMAIN entries

\* The move of a lane, logged.
setLane(lane, leaf) ==
  /\ laneMoves' = laneMoves \cup {[seq |-> nextSeq, lane |-> lane, leaf |-> leaf]}
  /\ advanceSequence /\ Races
  /\ UNCHANGED <<entries, records, facts, branches, messageCount>>

createLane(lane, at) ==
  /\ canCreateLane(lane, at)
  /\ lanes' = lanes @@ (lane :> [leaf |-> at, open |-> None])
  /\ setLane(lane, at)

moveLane(lane, to) ==
  /\ canMoveLane(lane, to)
  /\ lanes' = [lanes EXCEPT ![lane].leaf = to]
  /\ setLane(lane, to)

appendEntry(id, type, lane) ==
  LET parent == lanes[lane].leaf
  IN /\ canAppendEntry(id, lane)
     /\ entries' = entries @@ (id :> [seq |-> nextSeq, parent |-> parent, type |-> type])
     /\ lanes' = [lanes EXCEPT ![lane].leaf = id]
     /\ appendEntryToBranchCache([id |-> id, seq |-> nextSeq, type |-> type], parent)
     /\ messageCount' = messageCount + (IF type = "message" THEN 1 ELSE 0)
     /\ advanceSequence /\ Races
     /\ UNCHANGED <<records, laneMoves, facts>>

appendRecord(id, lane, type, runId) ==
  /\ IF type = "operation_started" THEN canStart(id, lane) ELSE canAppendRecord(id, lane)
  /\ records' = records @@ (id :> [seq |-> nextSeq, lane |-> lane, type |-> type, runId |-> runId])
  /\ lanes' = [lanes EXCEPT ![lane].open = IF type = "operation_started" THEN id
                                           ELSE IF @ = runId THEN None ELSE @]
  /\ advanceSequence /\ Apart
  /\ UNCHANGED <<entries, laneMoves, facts, branches, messageCount>>

appendFact(key, value) ==
  /\ facts' = facts \cup {[seq |-> nextSeq, key |-> key, value |-> value]}
  /\ advanceSequence /\ Apart
  /\ UNCHANGED <<entries, records, lanes, laneMoves, branches, messageCount>>

setName(text) == appendFact(None, text)
setLabel(id, text) == canLabel(id) /\ appendFact(id, text)

\* delete takes every row of the session.  Beside a fork it shows in what
\* the fork still reads; otherwise it ends the session.
delete ==
  /\ fork.phase # "idle" /\ fork.races < MaxRaces /\ ~fork.deleted
  /\ entries' = <<>> /\ records' = <<>> /\ lanes' = <<>>
  /\ laneMoves' = {} /\ facts' = {} /\ branches' = <<>>
  /\ fork' = [fork EXCEPT !.races = @ + 1, !.deleted = TRUE, !.branch = 0]
  /\ UNCHANGED <<nextSeq, messageCount>>

----------------------------------------------------------------------------
(* Queries *)

Ascending(rows) == ByRank(rows, LAMBDA x : x.seq)
Descending(rows) == Reverse(Ascending(rows))
Limit(seq, limit) == IF limit = None \/ Len(seq) <= limit THEN seq ELSE SubSeq(seq, 1, limit)

\* Mutant: the first fact wins.
MutLatestFact(key) ==
  LET rows == {f \in facts : f.key = key}
  IN IF rows = {} THEN None
     ELSE (CHOOSE f \in rows : \A g \in rows : f.seq <= g.seq).value

latestFact(key) ==
  LET rows == {f \in facts : f.key = key}
  IN IF rows = {} THEN None
     ELSE (CHOOSE f \in rows : \A g \in rows : g.seq <= f.seq).value

\* The rows of a cached branch within the bounds of a query
\* [order, type, cursor, stopAtType, stopAtId, limit].
queryCachedBranchRows(b, leafSeq, q) ==
  LET oldest == q.order = "oldestFirst"
      rows == RowsThrough(b, leafSeq)
      stops == {r.seq : r \in {x \in rows : \/ q.stopAtType # None /\ x.type = q.stopAtType
                                            \/ q.stopAtId # None /\ x.id = q.stopAtId}}
      selected == {r \in rows :
                     /\ stops # {} => IF oldest THEN r.seq <= Min(stops) ELSE r.seq >= Max(stops)
                     /\ q.cursor # None => IF oldest THEN r.seq > q.cursor ELSE r.seq < q.cursor
                     /\ q.type # None => r.type = q.type}
  IN Limit(IF oldest THEN Ascending(selected) ELSE Descending(selected), q.limit)

\* Mutant: rows cut by a limit are expected to reach the root as well.
MutValidCachedBranchRows(rows, q) ==
  LET path == Ascending(Range(rows))
  IN rows # <<>> /\ q.type = None =>
       /\ q.stopAtId = None /\ q.stopAtType = None /\ q.cursor = None
          => entries[path[1].id].parent = None
       /\ \A i \in 2..Len(path) : entries[path[i].id].parent = path[i - 1].id

\* Unfiltered rows must chain, and reach the root when nothing cut them off.
validCachedBranchRows(rows, q) ==
  LET path == Ascending(Range(rows))
  IN rows # <<>> /\ q.type = None =>
       /\ /\ q.stopAtId = None /\ q.stopAtType = None /\ q.cursor = None
          /\ q.order = "oldestFirst" \/ q.limit = None
          => entries[path[1].id].parent = None
       /\ \A i \in 2..Len(path) : entries[path[i].id].parent = path[i - 1].id

findEntriesOnBranch(start, q) ==
  LET b == readCachedBranch(start)
      leafSeq == (CHOOSE r \in branches[b].rows : r.id = start).seq
      rows == queryCachedBranchRows(b, leafSeq, q)
  IN IF BranchesContaining(start) # {} /\ validCachedBranchRows(rows, q)
     THEN [i \in DOMAIN rows |-> rows[i].id] ELSE <<None>>

\* The four tables are read one after the other, each with the limit, then
\* merged and cut.
getLog(afterSeq, limit) ==
  LET page(seqs) == Range(Limit(ByRank({n \in seqs : n > afterSeq}, LAMBDA n : n), limit))
      merged == page({entries[id].seq : id \in DOMAIN entries})
                \cup page({records[id].seq : id \in DOMAIN records})
                \cup page({m.seq : m \in laneMoves}) \cup page({f.seq : f \in facts})
  IN Limit(ByRank(merged, LAMBDA n : n), limit)

----------------------------------------------------------------------------
(* Forks *)

forkSelects(o) == IF o.entryId # None THEN o.entryId ELSE lanes[Main].leaf
canFork(o) ==
  forkSelects(o) # None =>
    forkSelects(o) \in DOMAIN entries /\ entries[forkSelects(o)].type = "message"

forkTarget(o) ==
  IF forkSelects(o) # None /\ (o.position = "before" \/ (o.position = None /\ o.entryId # None))
  THEN entries[forkSelects(o)].parent ELSE forkSelects(o)

forkReadsEntries ==
  /\ fork.phase = "idle" /\ fork.count < MaxForks
  /\ fork' = [NoFork EXCEPT !.count = fork.count + 1, !.phase = "entries", !.entries = entries]
  /\ UNCHANGED tables

forkReadsLanes ==
  /\ fork.phase = "entries"
  /\ fork' = [fork EXCEPT !.phase = "lanes", !.lanes = [l \in DOMAIN lanes |-> lanes[l].leaf]]
  /\ UNCHANGED tables

forkReadsTips ==
  /\ fork.phase = "lanes"
  /\ fork' = [fork EXCEPT !.phase = "tips", !.tips = {branches[b].tip : b \in DOMAIN branches}]
  /\ UNCHANGED tables

\* Branch scope, with options [entryId, position]: the target is looked up,
\* and then the branch it is cached on.
forkSelectsTarget(o) ==
  /\ fork.phase = "idle" /\ fork.count < MaxForks /\ canFork(o)
  /\ fork' = [NoFork EXCEPT !.count = fork.count + 1, !.scope = "branch",
                            !.target = forkTarget(o), !.lanes = (Main :> forkTarget(o)),
                            !.phase = IF forkTarget(o) = None THEN "tips" ELSE "target"]
  /\ UNCHANGED tables

forkReadsBranch ==
  /\ fork.phase = "target" /\ BranchesContaining(fork.target) # {}
  /\ fork' = [fork EXCEPT !.phase = "branch", !.branch = readCachedBranch(fork.target),
                          !.leafSeq = entries[fork.target].seq]
  /\ UNCHANGED tables

forkReadsRows ==
  /\ fork.phase = "branch"
  /\ LET ids == IF fork.branch \in DOMAIN branches
                THEN {r.id : r \in RowsThrough(fork.branch, fork.leafSeq)} ELSE {}
     IN fork' = [fork EXCEPT !.phase = "tips", !.tips = {fork.target},
                             !.entries = [id \in ids |-> entries[id]]]
  /\ UNCHANGED tables

\* Mutant: an entry that was not copied ends the walk.
MutBuildable(table, tips) == TRUE

\* buildCachedBranch walks from every tip to the root and throws on a gap.
buildable(table, tips) ==
  LET up[n \in Nat] == IF n = 0 THEN tips
                       ELSE {table[id].parent : id \in up[n - 1] \cap DOMAIN table} \ {None}
  IN \A n \in 0..Cardinality(DOMAIN table) : up[n] \subseteq DOMAIN table

\* Name and labels are read last; the transaction writes the new session,
\* renumbered from 1.
forkCommits ==
  LET rank(id) == Cardinality({x \in DOMAIN fork.entries : fork.entries[x].seq <= fork.entries[id].seq})
      copied == [id \in DOMAIN fork.entries |-> [fork.entries[id] EXCEPT !.seq = rank(id)]]
      moved == IF fork.scope = "tree" THEN SetToSeq(DOMAIN fork.lanes) ELSE <<>>
      labelled == {id \in Ids : /\ latestFact(id) # None
                                /\ fork.scope = "branch" => id \in DOMAIN fork.entries}
      keys == (IF latestFact(None) = None THEN <<>> ELSE <<None>>) \o SetToSeq(labelled)
      n == Cardinality(DOMAIN copied)
  IN /\ fork.phase = "tips" /\ fork.races = 0 /\ buildable(fork.entries, fork.tips)
     /\ entries' = copied /\ records' = <<>>
     /\ lanes' = [l \in DOMAIN fork.lanes |-> [leaf |-> fork.lanes[l], open |-> None]]
     /\ laneMoves' = {[seq |-> n + i, lane |-> moved[i], leaf |-> fork.lanes[moved[i]]] : i \in DOMAIN moved}
     /\ facts' = {[seq |-> n + Len(moved) + i, key |-> keys[i], value |-> latestFact(keys[i])] : i \in DOMAIN keys}
     /\ branches' = BuiltBranches(copied, SetToSeq(fork.tips))
     /\ nextSeq' = n + Len(moved) + Len(keys) + 1
     /\ messageCount' = Cardinality({id \in DOMAIN copied : copied[id].type = "message"})
     /\ fork' = [NoFork EXCEPT !.count = fork.count]

\* fork throws, or made its session beside a writer: the model stays with
\* the source, unless that was deleted, and such a fork does not count.
forkLeaves ==
  /\ ~fork.deleted
  /\ \/ fork.phase = "target" /\ BranchesContaining(fork.target) = {}
     \/ fork.phase = "tips" /\ (fork.races > 0 \/ ~buildable(fork.entries, fork.tips))
  /\ fork' = [NoFork EXCEPT !.count = fork.count - 1]
  /\ UNCHANGED tables
=============================================================================
