---------------------------- MODULE JsonlStorage ----------------------------
(***************************************************************************)
(* The file of a JSONL session (agent/src/harness/session/jsonl): a header *)
(* line and one line per mutation.  JsonlSessionStorage appends the line   *)
(* of a mutation before it applies it, load replays the file and repairs   *)
(* its tail, and the process may die between any two writes.               *)
(*                                                                         *)
(* A mutation is its sequence number and the id it introduces; the state   *)
(* it builds is the sequence of mutations applied (what each one does to   *)
(* lanes, entries and labels is state.ts, not this module).  Bytes are     *)
(* abstracted to pieces: an append writes its JSON text and a newline, in  *)
(* one write or with a cut inside the text or before the newline.          *)
(***************************************************************************)
EXTENDS Naturals, Sequences

CONSTANTS
  Ids,              \* ids of entries and records
  Forks,            \* concurrent calls of fork on this session as the source
  ForkWhileOpen,    \* TRUE: fork may run while a storage of the session is live
  ConcurrentLoads,  \* TRUE: two loads of the file may overlap
  Chunked,          \* TRUE: a load may read between two writes of one append
  PartialFailure    \* TRUE: an append may fail after some of its bytes landed

ASSUME Modes == {ForkWhileOpen, ConcurrentLoads, Chunked, PartialFailure} \subseteq BOOLEAN

VARIABLES
  file,     \* contents of the session's file
  tmp,      \* contents of the file with ".tmp" appended to its path
  live,     \* a JsonlSessionStorage of the session is open
  applied,  \* the mutations applied to its SessionState, header first
  append,   \* the append (or create) under way
  loads,    \* the loads under way: open's, and one per fork
  acked     \* what callers were told is durable, header first

vars == <<file, tmp, live, applied, append, loads, acked>>

Loaders == {"open"} \cup Forks
Header == [seq |-> 0, id |-> "header"]
Mutation(seq, id) == [seq |-> seq, id |-> id]

----------------------------------------------------------------------------
(* File contents: lines of pieces, and whether the last line is ended *)

Empty == [lines |-> <<>>, ended |-> TRUE]
NoFile == [lines |-> <<>>, ended |-> FALSE]  \* as no file's contents are
Piece(m, part) == [m |-> m, part |-> part]   \* part: "json", "head" or "tail"

\* Bytes go to the end: on a line of their own only if the last one is ended.
AddPiece(c, p) ==
  IF c.ended THEN [lines |-> Append(c.lines, <<p>>), ended |-> FALSE]
  ELSE [c EXCEPT !.lines[Len(c.lines)] = Append(@, p)]
AddNewline(c) ==
  IF c.ended THEN [c EXCEPT !.lines = Append(@, <<>>)] ELSE [c EXCEPT !.ended = TRUE]

\* JSON.parse succeeds on the text of one mutation and nothing else.
Text(m) == {<<Piece(m, "json")>>, <<Piece(m, "head"), Piece(m, "tail")>>}
Parses(line) == line # <<>> /\ line \in Text(line[1].m)
Decoded(line) == line[1].m

\* What load does with line i: the header first, then consecutive sequence
\* numbers and unused ids (applyMutation).
ValidAt(c, i) ==
  /\ Parses(c.lines[i])
  /\ LET m == Decoded(c.lines[i])
     IN IF i = 1 THEN m = Header
        ELSE /\ m.seq = i - 1
             /\ \A j \in 1..(i - 1) : Decoded(c.lines[j]).id # m.id
Prefix(c) == CHOOSE n \in 0..Len(c.lines) :
               /\ \A i \in 1..n : ValidAt(c, i)
               /\ n < Len(c.lines) => ~ValidAt(c, n + 1)
Replayed(c) == [i \in 1..Prefix(c) |-> Decoded(c.lines[i])]

\* The last line, and only that one, is not JSON: a torn append.
TornTail(c) == /\ Prefix(c) > 0 /\ Prefix(c) = Len(c.lines) - 1
               /\ ~Parses(c.lines[Len(c.lines)])
Intact(c) == Len(c.lines) > 0 /\ Prefix(c) = Len(c.lines)
\* The valid prefix with its newline, as the repair publishes it.
Repaired(c) == [lines |-> SubSeq(c.lines, 1, Prefix(c)), ended |-> TRUE]
----------------------------------------------------------------------------
\* An open handle is "on" the file at a path, or on one that lost its name.
NoAppend == [m |-> Header, on |-> "gone", phase |-> "idle"]
NoLoad == [phase |-> "idle", content |-> Empty, on |-> "gone"]

Init ==
  /\ file = NoFile /\ tmp = NoFile
  /\ live = FALSE /\ applied = <<>>
  /\ append = NoAppend
  /\ loads = [l \in Loaders |-> NoLoad]
  /\ acked = <<>>

Idle == append.phase = "idle"
Loading(l) == loads[l].phase # "idle"

----------------------------------------------------------------------------
(* JsonlSessionStorage: create and the serial queue of appends *)

\* create: the header goes into a new file, which then is the session's.
StartCreate ==
  /\ file = NoFile /\ Idle /\ ~live /\ \A l \in Loaders : ~Loading(l)
  /\ file' = Empty
  /\ append' = [m |-> Header, on |-> "session", phase |-> "opened"]
  /\ UNCHANGED <<tmp, live, applied, loads, acked>>

\* A queued operation begins: validate, build the mutation, open the file.
StartAppend(id) ==
  /\ live /\ Idle /\ file # NoFile
  /\ \A i \in DOMAIN applied : applied[i].id # id
  /\ append' = [m |-> Mutation(Len(applied), id), on |-> "session", phase |-> "opened"]
  /\ UNCHANGED <<file, tmp, live, applied, loads, acked>>

\* Some of the bytes land: a piece of the text, or all of it but the newline.
WriteSome ==
  /\ append.phase = "opened"
  /\ \E part \in {"head", "json"} :
       /\ file' = IF append.on = "session" THEN AddPiece(file, Piece(append.m, part))
                  ELSE file
       /\ append' = [append EXCEPT !.phase = part]
  /\ UNCHANGED <<tmp, live, applied, loads, acked>>

\* The (remaining) bytes land.
Written(c) == CASE append.phase = "opened" -> AddNewline(AddPiece(c, Piece(append.m, "json")))
                [] append.phase = "head" -> AddNewline(AddPiece(c, Piece(append.m, "tail")))
                [] append.phase = "json" -> AddNewline(c)
WriteRest ==
  /\ append.phase \in {"opened", "head", "json"}
  /\ file' = IF append.on = "session" THEN Written(file) ELSE file
  /\ append' = [append EXCEPT !.phase = "written"]
  /\ UNCHANGED <<tmp, live, applied, loads, acked>>

\* appendFile resolves: apply the mutation and tell the caller.
AppendReturns ==
  /\ append.phase = "written"
  /\ applied' = Append(applied, append.m)
  /\ acked' = Append(acked, append.m)
  /\ live' = TRUE
  /\ append' = NoAppend
  /\ UNCHANGED <<file, tmp, loads>>

\* appendFile rejects: nothing is applied and the queue goes on.
AppendFails ==
  /\ append.phase = "opened" \/ (PartialFailure /\ append.phase \in {"head", "json"})
  /\ append' = NoAppend
  /\ UNCHANGED <<file, tmp, live, applied, loads, acked>>

\* The process dies: only the disk, and what callers were told, remains.
Crash ==
  /\ live' = FALSE /\ applied' = <<>>
  /\ append' = NoAppend
  /\ loads' = [l \in Loaders |-> NoLoad]
  /\ UNCHANGED <<file, tmp, acked>>

\* Mutant: delete reports success although the file is still there.
MutDelete ==
  /\ file # NoFile /\ ~live /\ Idle /\ \A l \in Loaders : ~Loading(l)
  /\ acked' = <<>>
  /\ UNCHANGED <<file, tmp, live, applied, append, loads>>
\* JsonlSessionRepo.delete, by an owner that holds no open storage.
Delete ==
  /\ file # NoFile /\ ~live /\ Idle /\ \A l \in Loaders : ~Loading(l)
  /\ file' = NoFile /\ acked' = <<>>
  /\ UNCHANGED <<tmp, live, applied, append, loads>>

----------------------------------------------------------------------------
(* JsonlSessionStorage.load, called by open and by fork *)

\* Process ownership: a session is opened once.  fork loads its own copy.  A
\* session being created is not yet known to anyone.
MayLoad(l) ==
  /\ ~Loading(l) /\ (live \/ Idle)
  /\ ConcurrentLoads \/ \A k \in Loaders : ~Loading(k)
  /\ (l = "open" \/ ~ForkWhileOpen) => ~live /\ Idle

LoadReads(l) ==
  /\ MayLoad(l) /\ file # NoFile
  /\ ~Chunked => append.phase \in {"idle", "opened", "written"}
  /\ loads' = [loads EXCEPT ![l] = [phase |-> "read", content |-> file, on |-> "gone"]]
  /\ UNCHANGED <<file, tmp, live, applied, append, acked>>

\* load returns: open has a storage, fork a source to copy from.
Opened(l) ==
  IF l = "open" THEN /\ live' = TRUE
                     /\ applied' = Replayed(loads[l].content)
                     /\ acked' = Replayed(loads[l].content)
  ELSE UNCHANGED <<live, applied, acked>>
Returns(l) == Opened(l) /\ loads' = [loads EXCEPT ![l] = NoLoad] /\ UNCHANGED append

\* load rejects.
Rejects(l) ==
  /\ loads' = [loads EXCEPT ![l] = NoLoad]
  /\ UNCHANGED <<live, applied, append, acked>>

\* No header, or an invalid line that is no torn tail.
LoadThrows(l) ==
  /\ loads[l].phase = "read"
  /\ ~Intact(loads[l].content) /\ ~TornTail(loads[l].content)
  /\ Rejects(l)
  /\ UNCHANGED <<file, tmp>>

LoadIntact(l) ==
  /\ loads[l].phase = "read" /\ Intact(loads[l].content) /\ loads[l].content.ended
  /\ Returns(l)
  /\ UNCHANGED <<file, tmp>>

\* Mutant: load accepts the last line without ending it.
MutLoadEndsLine(l) ==
  /\ loads[l].phase = "read" /\ Intact(loads[l].content) /\ ~loads[l].content.ended
  /\ Returns(l)
  /\ UNCHANGED <<file, tmp>>
\* The last line is whole but not ended: append the newline, by path.
LoadEndsLine(l) ==
  /\ loads[l].phase = "read" /\ Intact(loads[l].content) /\ ~loads[l].content.ended
  /\ \/ Returns(l) /\ file' = AddNewline(file)
     \/ Rejects(l) /\ UNCHANGED file
  /\ UNCHANGED tmp

\* publishFileAtomically: writeFile creates the temporary file, or empties it
\* under whoever else has it open, ...
LoadStages(l) ==
  /\ loads[l].phase = "read" /\ TornTail(loads[l].content)
  /\ tmp' = Empty
  /\ loads' = [loads EXCEPT ![l].phase = "staging", ![l].on = "tmp"]
  /\ UNCHANGED <<file, live, applied, append, acked>>

\* ... and fills it through its handle, wherever that file now is.
LoadFills(l) ==
  /\ loads[l].phase = "staging"
  /\ tmp' = IF loads[l].on = "tmp" THEN Repaired(loads[l].content) ELSE tmp
  /\ file' = IF loads[l].on = "session" THEN Repaired(loads[l].content) ELSE file
  /\ loads' = [loads EXCEPT ![l].phase = "staged"]
  /\ UNCHANGED <<live, applied, append, acked>>

\* A rename or a removal, seen by the handles that stay open.
Renamed(h) == IF h.on = "tmp" THEN [h EXCEPT !.on = "session"] ELSE [h EXCEPT !.on = "gone"]
Removed(h) == IF h.on = "tmp" THEN [h EXCEPT !.on = "gone"] ELSE h

\* The rename, which is atomic.
LoadPublishes(l) ==
  /\ loads[l].phase = "staged" /\ tmp # NoFile
  /\ file' = tmp /\ tmp' = NoFile
  /\ append' = Renamed(append)
  /\ loads' = [k \in Loaders |-> IF k = l THEN NoLoad ELSE Renamed(loads[k])]
  /\ Opened(l)

\* Staging or renaming fails - the temporary file may be gone: it is removed.
LoadAborts(l) ==
  /\ loads[l].phase \in {"staging", "staged"}
  /\ tmp' = NoFile
  /\ loads' = [k \in Loaders |-> IF k = l THEN NoLoad ELSE Removed(loads[k])]
  /\ UNCHANGED <<file, live, applied, append, acked>>

LoadStep(l) == \/ LoadReads(l) \/ LoadThrows(l) \/ LoadIntact(l) \/ LoadEndsLine(l)
               \/ LoadStages(l) \/ LoadFills(l) \/ LoadPublishes(l) \/ LoadAborts(l)

Next == \/ StartCreate
        \/ \E id \in Ids : StartAppend(id)
        \/ WriteSome \/ WriteRest \/ AppendReturns \/ AppendFails
        \/ Crash \/ Delete
        \/ \E l \in Loaders : LoadStep(l)

Spec == Init /\ [][Next]_vars
----------------------------------------------------------------------------
(* Properties *)

Mutations == [seq : Nat, id : Ids \cup {"header"}]
Log == Seq(Mutations)

\* Durability: whatever callers were told is in the file and is what a load
\* replays first - now, and so after a crash at this very moment.  And the
\* load does not throw: the file is intact or has a torn tail.
AckedSurvive ==
  /\ Len(acked) <= Len(Replayed(file)) /\ SubSeq(Replayed(file), 1, Len(acked)) = acked
  /\ acked # <<>> => Intact(file) \/ TornTail(file)

\* The file as a durable log.  Every crash, repair and load of the file is a
\* step of that log, or none at all.
Durable == INSTANCE DurableLog WITH durable <- Replayed(file), Items <- Log
ImplementsLog == Durable!Spec
=============================================================================
