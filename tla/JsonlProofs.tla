---------------------------- MODULE JsonlProofs ----------------------------
(***************************************************************************)
(* Durability of the JSONL session file, and that it implements the log of *)
(* DurableLog, for every set of ids and forks.                             *)
(***************************************************************************)
EXTENDS JsonlStorage, TLAPS

\* Each leaf goes to Zenon unless it names another prover.
USE ZenonT(60)

\* The conditions under which the file is durable: one load of the file at a
\* time, no append that fails half-way, and loads beside an open storage
\* only see whole appends.
Supported == /\ ~ConcurrentLoads /\ ~PartialFailure
             /\ Chunked => ~ForkWhileOpen

Pieces == [m : Mutations, part : {"json", "head", "tail"}]
Contents == [lines : Seq(Seq(Pieces)), ended : BOOLEAN]

\* A log as applyMutation accepts it: the header, then consecutive sequence
\* numbers and unused ids.
WellFormed(log) ==
  /\ log \in Log
  /\ Len(log) > 0 => log[1] = Header
  /\ \A i \in 1..Len(log) : log[i].seq = i - 1
  /\ \A i, j \in 1..Len(log) : i # j => log[i].id # log[j].id

\* The contents are the lines of a log, and perhaps the beginning of one more.
Torn(c, log) == /\ Len(c.lines) = Len(log) + 1 /\ ~c.ended
                /\ \E m \in Mutations : c.lines[Len(log) + 1] = <<Piece(m, "head")>>
Whole(c, log) == Len(c.lines) = Len(log)
Reads(c, log) == /\ Len(log) <= Len(c.lines)
                 /\ \A i \in 1..Len(log) : c.lines[i] \in Text(log[i])
                 /\ Whole(c, log) \/ Torn(c, log)

durable == Replayed(file)

FileInv ==
  /\ file \in Contents /\ (file # NoFile /\ file.lines = <<>> => file.ended)
  /\ WellFormed(durable) /\ Reads(file, durable)
  /\ acked \in Log
  /\ durable = acked \/ \E m \in Mutations : durable = Append(acked, m)
  /\ file = NoFile => acked = <<>>

AppendInv ==
  /\ append.phase \in {"idle", "opened", "head", "json", "written"}
  /\ append.phase # "idle" => /\ append.on = "session" /\ file # NoFile
                              /\ append.m \in Mutations /\ WellFormed(Append(acked, append.m))
  /\ append.phase = "opened" => file.ended /\ Whole(file, durable) /\ durable = acked
  /\ append.phase = "head" => /\ durable = acked /\ ~file.ended
                              /\ Len(file.lines) = Len(durable) + 1
                              /\ file.lines[Len(durable) + 1] = <<Piece(append.m, "head")>>
  /\ append.phase = "json" => /\ durable = Append(acked, append.m) /\ ~file.ended
                              /\ Whole(file, durable)
  /\ append.phase = "written" => /\ durable = Append(acked, append.m) /\ file.ended
                                 /\ Whole(file, durable)

LiveInv ==
  /\ live \in BOOLEAN
  /\ live => /\ applied = acked /\ acked # <<>> /\ file # NoFile
             /\ Idle => file.ended /\ Whole(file, durable) /\ durable = acked
  /\ ~live => applied = <<>> /\ (~Idle => acked = <<>>)

LoadInv ==
  /\ DOMAIN loads = Loaders
  /\ \A l \in Loaders : loads[l].phase \in {"idle", "read", "staging", "staged"}
  /\ \A l, k \in Loaders : Loading(l) /\ Loading(k) => l = k
  /\ \A l \in Loaders : loads[l].phase = "read" =>
       \/ ~live /\ Idle /\ loads[l].content = file /\ file # NoFile
       \/ l # "open" /\ Intact(loads[l].content) /\ loads[l].content.ended
  /\ \A l \in Loaders : loads[l].phase \in {"staging", "staged"} =>
       /\ ~live /\ Idle /\ loads[l].content = file /\ TornTail(file)
       /\ loads[l].on = "tmp" /\ file # NoFile
  /\ \A l \in Loaders : loads[l].phase = "staged" => tmp = Repaired(file)

JsonlInv == FileInv /\ AppendInv /\ LiveInv /\ LoadInv
----------------------------------------------------------------------------
(* File contents and the logs they hold.                                   *)

\* The text of a mutation parses and decodes to it; the beginning of one does not parse.
LEMMA TextDecodes ==
  ASSUME NEW m, NEW line, line \in Text(m)
  PROVE  Parses(line) /\ Decoded(line) = m
BY SMTT(60) DEF Text, Parses, Decoded, Piece

LEMMA HeadDoesNotParse ==
  ASSUME NEW m
  PROVE  ~Parses(<<Piece(m, "head")>>)
BY DEF Text, Parses, Decoded, Piece

\* A log the contents hold is what load replays.
LEMMA ReadsReplays ==
  ASSUME NEW c \in Contents, NEW log, WellFormed(log), Reads(c, log)
  PROVE  Prefix(c) = Len(log) /\ Replayed(c) = log
<1> DEFINE n == Len(log)
           P(k) == /\ \A i \in 1..k : ValidAt(c, i)
                   /\ k < Len(c.lines) => ~ValidAt(c, k + 1)
<1>1. n \in Nat /\ Len(c.lines) \in Nat /\ n \in 0..Len(c.lines)
    BY SMTT(60) DEF WellFormed, Log, Reads, Contents
<1>2. ASSUME NEW i \in 1..n PROVE ValidAt(c, i) /\ Decoded(c.lines[i]) = log[i]
  <2>1. \A j \in 1..i : Decoded(c.lines[j]) = log[j] /\ Parses(c.lines[j])
      BY <1>1, TextDecodes, SMTT(60) DEF Reads
  <2>2. i = 1 => log[i] = Header
      BY <1>1, SMTT(60) DEF WellFormed
  <2>3. i # 1 => log[i].seq = i - 1 /\ \A j \in 1..(i - 1) : log[j].id # log[i].id
      BY <1>1, SMTT(60) DEF WellFormed
  <2> QED
      BY <1>1, <2>1, <2>2, <2>3, SMTT(60) DEF ValidAt
<1>3. n < Len(c.lines) => ~ValidAt(c, n + 1)
  <2>1. Whole(c, log) \/ ~Parses(c.lines[n + 1])
      BY HeadDoesNotParse DEF Reads, Torn
  <2> QED
      BY <1>1, <2>1, SMTT(60) DEF Whole, ValidAt
<1>4. P(n)
    BY <1>2, <1>3
<1>5. ASSUME NEW k \in 0..Len(c.lines), P(k) PROVE k = n
  <2>1. CASE k < n
    <3>1. k + 1 \in 1..n
        BY <1>1, <2>1, SMTT(60)
    <3> QED
        BY <1>1, <1>2, <1>5, <2>1, <3>1, SMTT(60)
  <2>2. CASE n < k
    <3>1. n + 1 \in 1..k /\ n < Len(c.lines)
        BY <1>1, <2>2, SMTT(60)
    <3> QED
        BY <1>3, <1>5, <3>1
  <2> QED
      BY <1>1, <2>1, <2>2, SMTT(60)
<1>6. Prefix(c) = n
  <2> HIDE DEF P
  <2>1. Prefix(c) = CHOOSE k \in 0..Len(c.lines) : P(k)
      BY DEF Prefix, P
  <2> QED
      BY <1>1, <1>4, <1>5, <2>1
<1>7. Replayed(c) = [i \in 1..n |-> log[i]]
    BY <1>2, <1>6 DEF Replayed
<1>8. [i \in 1..n |-> log[i]] = log
    BY SMTT(60) DEF WellFormed, Log
<1> QED
    BY <1>6, <1>7, <1>8

\* Whole contents are intact and those with one line begun have a torn tail.
LEMMA ReadsLoads ==
  ASSUME NEW c \in Contents, NEW log, WellFormed(log), Reads(c, log)
  PROVE  /\ Intact(c) <=> log # <<>> /\ Whole(c, log)
         /\ TornTail(c) <=> log # <<>> /\ Torn(c, log)
         /\ ~(Whole(c, log) /\ Torn(c, log))
<1>1. Prefix(c) = Len(log) /\ Len(log) \in Nat /\ Len(c.lines) \in Nat
    BY ReadsReplays, SMTT(60) DEF WellFormed, Log, Contents
<1>2. log # <<>> <=> Len(log) > 0
    BY SMTT(60) DEF WellFormed, Log
<1>3. Intact(c) <=> log # <<>> /\ Whole(c, log)
    BY <1>1, <1>2 DEF Intact, Whole, Reads
<1>4. Torn(c, log) => ~Parses(c.lines[Len(c.lines)]) /\ Len(c.lines) = Len(log) + 1
    BY HeadDoesNotParse DEF Torn
<1>5. TornTail(c) <=> log # <<>> /\ Torn(c, log)
    BY <1>1, <1>2, <1>4, SMTT(60) DEF TornTail, Whole, Reads
<1> QED
    BY <1>1, <1>3, <1>5, SMTT(60) DEF Whole, Torn

LEMMA MutationText ==
  ASSUME NEW m \in Mutations
  PROVE  /\ Piece(m, "json") \in Pieces /\ Piece(m, "head") \in Pieces /\ Piece(m, "tail") \in Pieces
         /\ <<Piece(m, "json")>> \in Text(m)
         /\ <<Piece(m, "head"), Piece(m, "tail")>> \in Text(m)
BY DEF Pieces, Piece, Text

\* Appending to ended contents begins a line.
LEMMA BeginsLine ==
  ASSUME NEW c \in Contents, c.ended, NEW p \in Pieces
  PROVE  /\ AddPiece(c, p) \in Contents
         /\ AddPiece(c, p).lines = Append(c.lines, <<p>>) /\ ~AddPiece(c, p).ended
BY SMTT(60) DEF AddPiece, Contents

\* The rest of a line that was begun.
LEMMA ContinuesLine ==
  ASSUME NEW c \in Contents, ~c.ended, NEW p \in Pieces, c.lines # <<>>
  PROVE  /\ AddPiece(c, p) \in Contents
         /\ AddPiece(c, p).lines = [c.lines EXCEPT ![Len(c.lines)] = Append(c.lines[Len(c.lines)], p)]
         /\ ~AddPiece(c, p).ended
<1> DEFINE n == Len(c.lines)
           ls == [c.lines EXCEPT ![n] = Append(c.lines[n], p)]
<1>1. n \in 1..Len(c.lines) /\ c.lines[n] \in Seq(Pieces)
    BY SMTT(60) DEF Contents
<1>2. ls \in Seq(Seq(Pieces))
    BY <1>1, SMTT(60) DEF Contents
<1>3. AddPiece(c, p) = [c EXCEPT !.lines = ls]
    BY DEF AddPiece, Contents
<1> QED
    BY <1>2, <1>3 DEF Contents

\* A newline ends the last line and nothing else.
LEMMA EndsLine ==
  ASSUME NEW c \in Contents, ~c.ended
  PROVE  /\ AddNewline(c) \in Contents
         /\ AddNewline(c).lines = c.lines /\ AddNewline(c).ended
BY DEF AddNewline, Contents

\* A well-formed log grows by the next mutation.
LEMMA ExtendsLog ==
  ASSUME NEW log, WellFormed(log), NEW m \in Mutations,
         m.seq = Len(log), log = <<>> => m = Header,
         \A i \in 1..Len(log) : log[i].id # m.id
  PROVE  WellFormed(Append(log, m))
<1>1. log \in Log /\ Len(log) \in Nat /\ Append(log, m) \in Log /\ Len(Append(log, m)) = Len(log) + 1
    BY SMTT(60) DEF WellFormed, Log
<1>2. /\ \A i \in 1..Len(log) : Append(log, m)[i] = log[i]
      /\ Append(log, m)[Len(log) + 1] = m
    BY <1>1, SMTT(60) DEF Log
<1>3. \A i \in 1..Len(log) + 1 : i \in 1..Len(log) \/ i = Len(log) + 1
    BY <1>1, SMTT(60)
<1>4. Append(log, m)[1] = Header
    BY <1>1, <1>2, SMTT(60) DEF WellFormed, Log
<1>5. \A i \in 1..Len(log) + 1 : Append(log, m)[i].seq = i - 1
    BY <1>1, <1>2, <1>3, SMTT(60) DEF WellFormed
<1>6. \A i, j \in 1..Len(log) + 1 : i # j => Append(log, m)[i].id # Append(log, m)[j].id
    BY <1>1, <1>2, <1>3 DEF WellFormed
<1> QED
    BY <1>1, <1>4, <1>5, <1>6 DEF WellFormed
\* What each write does to the log the contents hold: the beginning of a line leaves it, ...
LEMMA HeadLands ==
  ASSUME NEW c \in Contents, c.ended, NEW log, WellFormed(log), Reads(c, log), Whole(c, log),
         NEW m \in Mutations
  PROVE  LET d == AddPiece(c, Piece(m, "head"))
         IN /\ d \in Contents /\ ~d.ended /\ Reads(d, log)
            /\ Len(d.lines) = Len(log) + 1 /\ d.lines[Len(log) + 1] = <<Piece(m, "head")>>
<1> DEFINE d == AddPiece(c, Piece(m, "head"))
<1>1. d \in Contents /\ d.lines = Append(c.lines, <<Piece(m, "head")>>) /\ ~d.ended
    BY MutationText, BeginsLine
<1> HIDE DEF d
<1>2. Len(c.lines) = Len(log) /\ Len(log) \in Nat /\ c.lines \in Seq(Seq(Pieces))
    BY SMTT(60) DEF Whole, WellFormed, Log, Contents
<1>3. /\ Len(d.lines) = Len(log) + 1 /\ d.lines[Len(log) + 1] = <<Piece(m, "head")>>
      /\ \A i \in 1..Len(log) : d.lines[i] = c.lines[i]
    BY <1>1, <1>2, MutationText, SMTT(60)
<1>4. Torn(d, log)
    BY <1>1, <1>3 DEF Torn
<1>5. Reads(d, log)
    BY <1>2, <1>3, <1>4, SMTT(60) DEF Reads
<1> QED
    BY <1>1, <1>3, <1>5 DEF d

\* ... all of its text adds the mutation, ...
LEMMA JsonLands ==
  ASSUME NEW c \in Contents, c.ended, NEW log, WellFormed(log), Reads(c, log), Whole(c, log),
         NEW m \in Mutations
  PROVE  LET d == AddPiece(c, Piece(m, "json"))
         IN d \in Contents /\ ~d.ended /\ Reads(d, Append(log, m)) /\ Whole(d, Append(log, m))
<1> DEFINE d == AddPiece(c, Piece(m, "json"))
<1>1. d \in Contents /\ d.lines = Append(c.lines, <<Piece(m, "json")>>) /\ ~d.ended
    BY MutationText, BeginsLine
<1> HIDE DEF d
<1>2. Len(c.lines) = Len(log) /\ Len(log) \in Nat /\ c.lines \in Seq(Seq(Pieces)) /\ log \in Seq(Mutations)
    BY SMTT(60) DEF Whole, WellFormed, Log, Contents
<1>3. /\ Len(d.lines) = Len(log) + 1 /\ d.lines[Len(log) + 1] = <<Piece(m, "json")>>
      /\ \A i \in 1..Len(log) : d.lines[i] = c.lines[i]
    BY <1>1, <1>2, MutationText, SMTT(60)
<1>4. /\ Len(Append(log, m)) = Len(log) + 1 /\ Append(log, m)[Len(log) + 1] = m
      /\ \A i \in 1..Len(log) : Append(log, m)[i] = log[i]
    BY <1>2, SMTT(60)
<1>5. \A i \in 1..Len(log) + 1 : d.lines[i] \in Text(Append(log, m)[i])
  <2> TAKE i \in 1..Len(log) + 1
  <2>1. CASE i = Len(log) + 1
      BY <1>3, <1>4, <2>1, MutationText
  <2>2. CASE i \in 1..Len(log)
      BY <1>3, <1>4, <2>2 DEF Reads
  <2> QED
      BY <1>2, <2>1, <2>2, SMTT(60)
<1> QED
    BY <1>1, <1>2, <1>3, <1>4, <1>5, SMTT(60) DEF Reads, Whole, d

LEMMA TwoPieces ==
  ASSUME NEW h \in Pieces, NEW t \in Pieces
  PROVE  Append(<<h>>, t) = <<h, t>>
<1>1. /\ Append(<<h>>, t) \in Seq(Pieces) /\ Len(Append(<<h>>, t)) = 2
      /\ Append(<<h>>, t)[1] = h /\ Append(<<h>>, t)[2] = t
    BY SMTT(60)
<1>2. <<h, t>> \in Seq(Pieces) /\ Len(<<h, t>>) = 2 /\ <<h, t>>[1] = h /\ <<h, t>>[2] = t
    BY SMTT(60)
<1>3. Append(<<h>>, t) = [i \in 1..2 |-> Append(<<h>>, t)[i]]
    BY <1>1, SMTT(60)
<1>4. <<h, t>> = [i \in 1..2 |-> <<h, t>>[i]]
    BY <1>2, SMTT(60)
<1>5. \A i \in 1..2 : i = 1 \/ i = 2
    BY SMTT(60)
<1> QED
    BY <1>1, <1>2, <1>3, <1>4, <1>5

\* ... and so does the rest of a text that was begun.
LEMMA TailLands ==
  ASSUME NEW c \in Contents, ~c.ended, NEW log, WellFormed(log), Reads(c, log),
         NEW m \in Mutations,
         Len(c.lines) = Len(log) + 1, c.lines[Len(log) + 1] = <<Piece(m, "head")>>
  PROVE  LET d == AddPiece(c, Piece(m, "tail"))
         IN d \in Contents /\ ~d.ended /\ Reads(d, Append(log, m)) /\ Whole(d, Append(log, m))
<1> DEFINE d == AddPiece(c, Piece(m, "tail"))
<1>1. Len(log) \in Nat /\ c.lines \in Seq(Seq(Pieces)) /\ log \in Seq(Mutations)
    BY SMTT(60) DEF WellFormed, Log, Contents
<1>2. c.lines # <<>>
    BY <1>1, SMTT(60)
<1>3. /\ d \in Contents /\ ~d.ended
      /\ d.lines = [c.lines EXCEPT ![Len(c.lines)] = Append(c.lines[Len(c.lines)], Piece(m, "tail"))]
    BY <1>2, MutationText, ContinuesLine
<1> HIDE DEF d
<1>4. Append(<<Piece(m, "head")>>, Piece(m, "tail")) = <<Piece(m, "head"), Piece(m, "tail")>>
    BY MutationText, TwoPieces
<1>5. /\ Len(d.lines) = Len(log) + 1
      /\ d.lines[Len(log) + 1] = <<Piece(m, "head"), Piece(m, "tail")>>
      /\ \A i \in 1..Len(log) : d.lines[i] = c.lines[i]
  <2>1. Len(log) + 1 \in DOMAIN c.lines /\ DOMAIN c.lines = 1..Len(log) + 1
      BY <1>1, SMTT(60)
  <2>2. d.lines[Len(log) + 1] = Append(c.lines[Len(log) + 1], Piece(m, "tail"))
      BY <1>3, <2>1
  <2>3. d.lines \in Seq(Seq(Pieces)) /\ DOMAIN d.lines = DOMAIN c.lines
      BY <1>3 DEF Contents
  <2>4. Len(d.lines) = Len(log) + 1
      BY <1>1, <2>1, <2>3, SMTT(60)
  <2>5. \A i \in 1..Len(log) : d.lines[i] = c.lines[i]
      BY <1>1, <1>3, <2>1, SMTT(60)
  <2> QED
      BY <1>4, <2>2, <2>4, <2>5
<1>6. /\ Len(Append(log, m)) = Len(log) + 1 /\ Append(log, m)[Len(log) + 1] = m
      /\ \A i \in 1..Len(log) : Append(log, m)[i] = log[i]
    BY <1>1, SMTT(60)
<1>7. \A i \in 1..Len(log) + 1 : d.lines[i] \in Text(Append(log, m)[i])
  <2> TAKE i \in 1..Len(log) + 1
  <2>1. CASE i = Len(log) + 1
      BY <1>5, <1>6, <2>1, MutationText
  <2>2. CASE i \in 1..Len(log)
      BY <1>5, <1>6, <2>2 DEF Reads
  <2> QED
      BY <1>1, <2>1, <2>2, SMTT(60)
<1> QED
    BY <1>1, <1>3, <1>5, <1>6, <1>7, SMTT(60) DEF Reads, Whole, d

\* A newline changes no log.
LEMMA NewlineLands ==
  ASSUME NEW c \in Contents, ~c.ended, NEW log, Reads(c, log), Whole(c, log)
  PROVE  LET d == AddNewline(c) IN d \in Contents /\ d.ended /\ Reads(d, log) /\ Whole(d, log)
BY EndsLine DEF Reads, Whole

\* A repair keeps the log and ends its last line.
LEMMA RepairKeepsLog ==
  ASSUME NEW c \in Contents, NEW log, WellFormed(log), Reads(c, log)
  PROVE  LET d == Repaired(c) IN d \in Contents /\ d.ended /\ Reads(d, log) /\ Whole(d, log)
<1> DEFINE d == Repaired(c)
<1>1. Len(log) \in Nat /\ c.lines \in Seq(Seq(Pieces)) /\ Len(log) <= Len(c.lines)
    BY SMTT(60) DEF WellFormed, Log, Contents, Reads
<1>2. d = [lines |-> SubSeq(c.lines, 1, Len(log)), ended |-> TRUE]
    BY ReadsReplays DEF Repaired
<1>3. /\ SubSeq(c.lines, 1, Len(log)) \in Seq(Seq(Pieces)) /\ Len(SubSeq(c.lines, 1, Len(log))) = Len(log)
      /\ \A i \in 1..Len(log) : SubSeq(c.lines, 1, Len(log))[i] = c.lines[i]
    BY <1>1, SMTT(60)
<1> QED
    BY <1>1, <1>2, <1>3, SMTT(60) DEF Contents, Reads, Whole
----------------------------------------------------------------------------
(* The steps.  Each preserves the invariant and is a step of the log, or   *)
(* leaves it alone.                                                        *)

LogStep ==
  \/ durable' = durable /\ acked' = acked
  \/ durable = acked /\ acked' = acked /\ \E m \in Mutations : durable' = Append(durable, m)
  \/ durable' = durable /\ acked' = durable
  \/ durable' = <<>> /\ acked' = <<>>

\* What the invariant says of the file, in the form the steps use.
LEMMA FileFacts ==
  ASSUME FileInv
  PROVE  /\ file \in Contents /\ WellFormed(durable) /\ Reads(file, durable)
         /\ durable \in Seq(Mutations) /\ Len(durable) \in Nat
         /\ acked \in Seq(Mutations) /\ Len(acked) \in Nat
BY SMTT(60) DEF FileInv, WellFormed, Log

\* The log of a new file, given what the write put there.
LEMMA NewLog ==
  ASSUME NEW log, WellFormed(log), file' \in Contents, Reads(file', log)
  PROVE  durable' = log
BY ReadsReplays DEF durable

\* Beside an open storage or a create, loads have read intact contents and repair nothing.
LEMMA LoadsBesideAppend ==
  ASSUME LoadInv, live \/ ~Idle, loads' = loads
  PROVE  LoadInv'
<1>1. \A l \in Loaders : loads[l].phase \notin {"staging", "staged"}
    BY DEF LoadInv
<1>2. \A l \in Loaders : loads[l].phase = "read" =>
         l # "open" /\ Intact(loads[l].content) /\ loads[l].content.ended
    BY DEF LoadInv
<1> QED
    BY <1>1, <1>2 DEF LoadInv, Loading

LEMMA StartCreateStep ==
  ASSUME JsonlInv, StartCreate
  PROVE  JsonlInv' /\ LogStep
<1> USE DEF JsonlInv, StartCreate
<1>1. Empty \in Contents /\ WellFormed(<<>>) /\ Reads(Empty, <<>>) /\ Reads(NoFile, <<>>) /\ NoFile \in Contents
    BY SMTT(60) DEF Empty, NoFile, Contents, WellFormed, Reads, Whole, Log
<1>2. durable' = <<>> /\ durable = <<>> /\ acked = <<>> /\ acked' = <<>>
    BY <1>1, NewLog, ReadsReplays DEF durable, FileInv
<1>3. Header \in Mutations /\ WellFormed(<<Header>>) /\ Append(<<>>, Header) = <<Header>>
    BY SMTT(60) DEF Header, Mutations, WellFormed, Log
<1>4. FileInv'
    BY <1>1, <1>2 DEF FileInv, Empty, Log
<1>5. AppendInv'
    BY <1>2, <1>3 DEF AppendInv, Empty, NoFile, Whole
<1>6. LiveInv'
    BY <1>2 DEF LiveInv, Idle
<1>7. LoadInv'
    BY DEF LoadInv, Loading
<1> QED
    BY <1>2, <1>4, <1>5, <1>6, <1>7 DEF LogStep

LEMMA StartAppendStep ==
  ASSUME JsonlInv, NEW id \in Ids, StartAppend(id)
  PROVE  JsonlInv' /\ LogStep
<1> USE DEF JsonlInv, StartAppend
<1> DEFINE m == Mutation(Len(applied), id)
<1>1. /\ live /\ Idle /\ applied = acked /\ acked # <<>> /\ durable = acked
      /\ file.ended /\ Whole(file, durable) /\ file # NoFile
    BY DEF LiveInv
<1>2. durable' = durable /\ acked' = acked /\ applied' = applied
    BY DEF durable
<1>3. m \in Mutations /\ m.seq = Len(acked) /\ m.id = id
    BY <1>1, FileFacts DEF Mutation, Mutations
<1>4. \A i \in 1..Len(acked) : acked[i].id # m.id
    BY <1>1, <1>3, FileFacts, SMTT(60)
<1>5. WellFormed(Append(acked, m))
    BY <1>1, <1>3, <1>4, FileFacts, ExtendsLog
<1>6. FileInv'
    BY <1>2 DEF FileInv
<1>7. AppendInv'
    BY <1>1, <1>2, <1>3, <1>5 DEF AppendInv, Whole
<1>8. LiveInv'
    BY <1>1, <1>2 DEF LiveInv, Idle
<1>9. LoadInv'
    BY <1>1, LoadsBesideAppend
<1> QED
    BY <1>2, <1>6, <1>7, <1>8, <1>9 DEF LogStep

\* What the writes of an append have in common.
LEMMA WriteFrame ==
  ASSUME JsonlInv, ~Idle, append'.phase # "idle",
         live' = live, applied' = applied, acked' = acked, loads' = loads,
         file' # NoFile
  PROVE  LiveInv' /\ LoadInv'
<1>1. LiveInv'
    BY DEF JsonlInv, LiveInv, Idle
<1> QED
    BY <1>1, LoadsBesideAppend DEF JsonlInv

LEMMA WriteSomeStep ==
  ASSUME JsonlInv, WriteSome
  PROVE  JsonlInv' /\ LogStep
<1> USE DEF JsonlInv
<1>1. PICK part \in {"head", "json"} :
         /\ file' = AddPiece(file, Piece(append.m, part))
         /\ append' = [append EXCEPT !.phase = part]
    BY DEF WriteSome, AppendInv
<1>2. /\ append.phase = "opened" /\ append.on = "session" /\ append.m \in Mutations
      /\ file.ended /\ Whole(file, durable) /\ durable = acked
      /\ WellFormed(Append(acked, append.m))
      /\ live' = live /\ applied' = applied /\ acked' = acked /\ loads' = loads
    BY DEF WriteSome, AppendInv
<1>3. append'.phase = part /\ append'.on = "session" /\ append'.m = append.m
    BY <1>1, <1>2, SMTT(60) DEF AppendInv
<1>4. CASE part = "head"
  <2>1. /\ file' \in Contents /\ ~file'.ended /\ Reads(file', durable)
        /\ Len(file'.lines) = Len(durable) + 1
        /\ file'.lines[Len(durable) + 1] = <<Piece(append.m, "head")>>
      BY <1>1, <1>2, <1>4, FileFacts, HeadLands
  <2>2. durable' = durable
      BY <2>1, FileFacts, NewLog
  <2>3. file' # NoFile /\ file'.lines # <<>>
      BY <2>1, FileFacts, SMTT(60) DEF NoFile
  <2>4. FileInv'
      BY <1>2, <2>1, <2>2, <2>3, FileFacts DEF FileInv
  <2>5. AppendInv'
      BY <1>2, <1>3, <1>4, <2>1, <2>2, <2>3 DEF AppendInv
  <2> QED
      BY <1>2, <1>3, <2>2, <2>3, <2>4, <2>5, WriteFrame DEF Idle, LogStep
<1>5. CASE part = "json"
  <2>1. /\ file' \in Contents /\ ~file'.ended /\ Reads(file', Append(durable, append.m))
        /\ Whole(file', Append(durable, append.m))
      BY <1>1, <1>2, <1>5, FileFacts, JsonLands
  <2>2. durable' = Append(durable, append.m)
      BY <1>2, <2>1, NewLog
  <2>3. file' # NoFile /\ file'.lines # <<>>
      BY <1>2, <2>1, FileFacts, SMTT(60) DEF NoFile, Whole
  <2>4. FileInv'
      BY <1>2, <2>1, <2>2, <2>3, FileFacts DEF FileInv
  <2>5. AppendInv'
      BY <1>2, <1>3, <1>5, <2>1, <2>2, <2>3 DEF AppendInv
  <2> QED
      BY <1>2, <1>3, <2>2, <2>3, <2>4, <2>5, WriteFrame DEF Idle, LogStep
<1> QED
    BY <1>1, <1>4, <1>5
LEMMA WriteRestStep ==
  ASSUME JsonlInv, WriteRest
  PROVE  JsonlInv' /\ LogStep
<1> USE DEF JsonlInv
<1> DEFINE m == append.m
           log == Append(acked, m)
<1>1. /\ append.phase \in {"opened", "head", "json"} /\ append.on = "session" /\ m \in Mutations
      /\ WellFormed(log) /\ file' = Written(file)
      /\ live' = live /\ applied' = applied /\ acked' = acked /\ loads' = loads
    BY DEF WriteRest, AppendInv
<1>2. append'.phase = "written" /\ append'.on = "session" /\ append'.m = m
    BY <1>1, SMTT(60) DEF WriteRest, AppendInv
<1>3. file' \in Contents /\ file'.ended /\ Reads(file', log) /\ Whole(file', log)
  <2>1. CASE append.phase = "opened"
    <3> DEFINE d == AddPiece(file, Piece(m, "json"))
    <3>1. d \in Contents /\ ~d.ended /\ Reads(d, log) /\ Whole(d, log)
        BY <1>1, <2>1, FileFacts, JsonLands DEF AppendInv
    <3>2. file' = AddNewline(d)
        BY <1>1, <2>1 DEF Written
    <3> QED
        BY <3>1, <3>2, NewlineLands
  <2>2. CASE append.phase = "head"
    <3> DEFINE d == AddPiece(file, Piece(m, "tail"))
    <3>1. d \in Contents /\ ~d.ended /\ Reads(d, log) /\ Whole(d, log)
        BY <1>1, <2>2, FileFacts, TailLands DEF AppendInv
    <3>2. file' = AddNewline(d)
        BY <1>1, <2>2 DEF Written
    <3> QED
        BY <3>1, <3>2, NewlineLands
  <2>3. CASE append.phase = "json"
    <3>1. file' = AddNewline(file)
        BY <1>1, <2>3 DEF Written
    <3> QED
        BY <2>3, <3>1, FileFacts, NewlineLands DEF AppendInv
  <2> QED
      BY <1>1, <2>1, <2>2, <2>3
<1>4. durable' = log
    BY <1>1, <1>3, NewLog
<1>5. file' # NoFile /\ file'.lines # <<>>
    BY <1>1, <1>3, FileFacts, SMTT(60) DEF NoFile, Whole
<1>6. FileInv'
    BY <1>1, <1>3, <1>4, <1>5, FileFacts DEF FileInv
<1>7. AppendInv'
    BY <1>1, <1>2, <1>3, <1>4, <1>5 DEF AppendInv
<1>8. LiveInv' /\ LoadInv'
    BY <1>1, <1>2, <1>5, WriteFrame DEF Idle
<1>9. LogStep
    BY <1>1, <1>4 DEF LogStep, AppendInv
<1> QED
    BY <1>6, <1>7, <1>8, <1>9

LEMMA AppendReturnsStep ==
  ASSUME JsonlInv, AppendReturns
  PROVE  JsonlInv' /\ LogStep
<1> USE DEF JsonlInv, AppendReturns
<1>1. /\ ~Idle /\ append.m \in Mutations /\ file # NoFile /\ file.ended /\ Whole(file, durable)
      /\ durable = Append(acked, append.m)
    BY DEF AppendInv, Idle
<1>2. durable' = durable /\ acked' = durable /\ file' = file
    BY <1>1 DEF durable
<1>3. applied = acked /\ applied' = acked'
    BY <1>1 DEF LiveInv
<1>4. durable # <<>> /\ durable \in Log
    BY <1>1, FileFacts, SMTT(60) DEF Log
<1>5. FileInv'
    BY <1>1, <1>2, <1>4 DEF FileInv
<1>6. AppendInv'
    BY DEF AppendInv, NoAppend
<1>7. LiveInv'
    BY <1>1, <1>2, <1>3, <1>4 DEF LiveInv, Idle, Whole
<1>8. LoadInv'
    BY <1>1, LoadsBesideAppend
<1> QED
    BY <1>2, <1>5, <1>6, <1>7, <1>8 DEF LogStep

\* Only an append that wrote nothing fails: the file is as before it.
LEMMA AppendFailsStep ==
  ASSUME Supported, JsonlInv, AppendFails
  PROVE  JsonlInv' /\ LogStep
<1> USE DEF JsonlInv, AppendFails
<1>1. /\ append.phase = "opened" /\ file # NoFile /\ file.ended /\ Whole(file, durable)
      /\ durable = acked
    BY DEF AppendInv, Supported
<1>2. durable' = durable /\ acked' = acked /\ file' = file /\ applied' = applied /\ live' = live
    BY DEF durable
<1>3. FileInv'
    BY <1>2 DEF FileInv
<1>4. AppendInv'
    BY DEF AppendInv, NoAppend
<1>5. LiveInv'
    BY <1>1, <1>2, SMTT(60) DEF LiveInv, Idle, Whole, NoAppend
<1>6. LoadInv'
    BY <1>1, LoadsBesideAppend DEF Idle
<1> QED
    BY <1>2, <1>3, <1>4, <1>5, <1>6 DEF LogStep

LEMMA CrashStep ==
  ASSUME JsonlInv, Crash
  PROVE  JsonlInv' /\ LogStep
<1> USE DEF JsonlInv, Crash
<1>1. durable' = durable /\ acked' = acked /\ file' = file
    BY DEF durable
<1>2. FileInv'
    BY <1>1 DEF FileInv
<1>3. AppendInv' /\ LiveInv' /\ LoadInv'
    BY DEF AppendInv, LiveInv, LoadInv, NoAppend, NoLoad, Idle, Loading
<1> QED
    BY <1>1, <1>2, <1>3 DEF LogStep

LEMMA DeleteStep ==
  ASSUME JsonlInv, Delete
  PROVE  JsonlInv' /\ LogStep
<1> USE DEF JsonlInv, Delete
<1>1. NoFile \in Contents /\ WellFormed(<<>>) /\ Reads(NoFile, <<>>)
    BY SMTT(60) DEF NoFile, Contents, WellFormed, Reads, Whole, Log
<1>2. durable' = <<>> /\ acked' = <<>>
    BY <1>1, NewLog
<1>3. FileInv'
    BY <1>1, <1>2, SMTT(60) DEF FileInv, Log
<1>4. AppendInv' /\ LiveInv' /\ LoadInv'
    BY DEF AppendInv, LiveInv, LoadInv, Idle, Loading
<1> QED
    BY <1>2, <1>3, <1>4 DEF LogStep

----------------------------------------------------------------------------
(* Loads.                                                                  *)

LEMMA LoadReadsStep ==
  ASSUME Supported, JsonlInv, NEW l \in Loaders, LoadReads(l)
  PROVE  JsonlInv' /\ LogStep
<1> USE DEF JsonlInv, LoadReads
<1>1. durable' = durable /\ acked' = acked
    BY DEF durable
<1>2. FileInv' /\ AppendInv' /\ LiveInv'
    BY <1>1 DEF FileInv, AppendInv, LiveInv, Idle, Whole
<1>3. \A k \in Loaders : ~Loading(k)
    BY DEF MayLoad, Supported
<1>4. loads'[l].phase = "read" /\ loads'[l].content = file
    BY DEF LoadInv
<1>5. \A k \in Loaders : k # l => loads'[k] = loads[k] /\ loads[k].phase = "idle"
    BY <1>3 DEF LoadInv, Loading
<1>6. live => l # "open" /\ Intact(file) /\ file.ended
  <2> HAVE live
  <2>1. l # "open" /\ append.phase \in {"idle", "opened", "written"}
      BY DEF MayLoad, Supported
  <2>2. file.ended /\ Whole(file, durable) /\ durable # <<>>
      BY <2>1, FileFacts, SMTT(60) DEF AppendInv, LiveInv, Idle
  <2> QED
      BY <2>1, <2>2, FileFacts, ReadsLoads
<1>7. ~live => Idle
    BY DEF MayLoad
<1>8. LoadInv'
    BY <1>3, <1>4, <1>5, <1>6, <1>7 DEF LoadInv, Loading, Idle, LiveInv
<1> QED
    BY <1>1, <1>2, <1>8 DEF LogStep

\* A load that is over leaves the others as they are.
LEMMA LoadOver ==
  ASSUME LoadInv, NEW l \in Loaders, Loading(l), loads' = [loads EXCEPT ![l] = NoLoad]
  PROVE  LoadInv'
<1>1. \A k \in Loaders : loads'[k].phase = "idle"
    BY DEF LoadInv, Loading, NoLoad
<1> QED
    BY <1>1 DEF LoadInv, Loading

\* A load that rejects changes nothing else.
LEMMA RejectsStep ==
  ASSUME JsonlInv, NEW l \in Loaders, Loading(l), Rejects(l), file' = file
  PROVE  JsonlInv' /\ LogStep
<1> USE DEF JsonlInv, Rejects
<1>1. durable' = durable /\ acked' = acked
    BY DEF durable
<1>2. FileInv' /\ AppendInv' /\ LiveInv'
    BY <1>1 DEF FileInv, AppendInv, LiveInv, Idle, Whole
<1> QED
    BY <1>1, <1>2, LoadOver DEF LogStep

\* A load that returns when the file holds the log it read, whole.
LEMMA OpenedStep ==
  ASSUME JsonlInv, NEW l \in Loaders, Loading(l), Opened(l), append'.phase = append.phase,
         ~live, Idle, Replayed(loads[l].content) = durable, durable # <<>>,
         file' \in Contents, file'.ended, Reads(file', durable), Whole(file', durable)
  PROVE  FileInv' /\ AppendInv' /\ LiveInv' /\ LogStep
<1> USE DEF JsonlInv
<1>1. durable' = durable
    BY FileFacts, NewLog
<1>2. file' # NoFile /\ durable \in Log
    BY FileFacts, SMTT(60) DEF NoFile, Log
<1>3. acked' = acked \/ acked' = durable
    BY DEF Opened
<1>4. FileInv'
    BY <1>1, <1>2, <1>3, FileFacts DEF FileInv, Log
<1>5. AppendInv'
    BY DEF AppendInv, Idle
<1>6. LiveInv'
    BY <1>1, <1>2 DEF LiveInv, Opened, Idle
<1> QED
    BY <1>1, <1>3, <1>4, <1>5, <1>6 DEF LogStep
LEMMA LoadThrowsStep ==
  ASSUME JsonlInv, NEW l \in Loaders, LoadThrows(l)
  PROVE  JsonlInv' /\ LogStep
BY RejectsStep DEF LoadThrows, Loading

\* What a load has read is the file, unless it is a fork's beside an open storage.
LEMMA ReadsFile ==
  ASSUME JsonlInv, NEW l \in Loaders, loads[l].phase = "read",
         ~Intact(loads[l].content) \/ ~loads[l].content.ended \/ l = "open"
  PROVE  ~live /\ Idle /\ loads[l].content = file /\ file # NoFile
BY DEF JsonlInv, LoadInv

LEMMA LoadIntactStep ==
  ASSUME JsonlInv, NEW l \in Loaders, LoadIntact(l)
  PROVE  JsonlInv' /\ LogStep
<1> USE DEF JsonlInv, LoadIntact
<1>1. CASE l = "open"
  <2>1. ~live /\ Idle /\ loads[l].content = file /\ Loading(l) /\ Opened(l)
      BY <1>1, ReadsFile DEF Returns, Loading
  <2>2. Whole(file, durable) /\ durable # <<>> /\ file.ended
      BY <2>1, FileFacts, ReadsLoads
  <2>3. file' = file /\ append' = append /\ loads' = [loads EXCEPT ![l] = NoLoad]
      BY DEF Returns
  <2>4. FileInv' /\ AppendInv' /\ LiveInv' /\ LogStep
      BY <2>1, <2>2, <2>3, FileFacts, OpenedStep DEF durable
  <2> QED
      BY <2>1, <2>3, <2>4, LoadOver
<1>2. CASE l # "open"
    BY <1>2, RejectsStep DEF Returns, Opened, Rejects, Loading
<1> QED
    BY <1>1, <1>2

LEMMA LoadEndsLineStep ==
  ASSUME JsonlInv, NEW l \in Loaders, LoadEndsLine(l)
  PROVE  JsonlInv' /\ LogStep
<1> USE DEF JsonlInv, LoadEndsLine
<1>1. CASE Rejects(l) /\ UNCHANGED file
    BY <1>1, RejectsStep DEF Loading
<1>2. CASE Returns(l) /\ file' = AddNewline(file)
  <2>1. ~live /\ Idle /\ loads[l].content = file /\ Loading(l) /\ Opened(l)
      BY <1>2, ReadsFile DEF Returns, Loading
  <2>2. Whole(file, durable) /\ durable # <<>> /\ ~file.ended
      BY <2>1, FileFacts, ReadsLoads
  <2>3. append' = append /\ loads' = [loads EXCEPT ![l] = NoLoad]
      BY <1>2 DEF Returns
  <2>4. file' \in Contents /\ file'.ended /\ Reads(file', durable) /\ Whole(file', durable)
      BY <1>2, <2>2, FileFacts, NewlineLands
  <2>5. FileInv' /\ AppendInv' /\ LiveInv' /\ LogStep
      BY <2>1, <2>2, <2>3, <2>4, OpenedStep DEF durable
  <2> QED
      BY <2>1, <2>3, <2>5, LoadOver
<1> QED
    BY <1>1, <1>2

\* Steps of a repair before its rename: only the temporary file changes.
LEMMA RepairFrame ==
  ASSUME JsonlInv, file' = file, live' = live, applied' = applied, append' = append, acked' = acked
  PROVE  FileInv' /\ AppendInv' /\ LiveInv' /\ LogStep
<1>1. durable' = durable
    BY DEF durable
<1> QED
    BY <1>1 DEF JsonlInv, FileInv, AppendInv, LiveInv, LogStep, Idle, Whole

LEMMA LoadStagesStep ==
  ASSUME JsonlInv, NEW l \in Loaders, LoadStages(l)
  PROVE  JsonlInv' /\ LogStep
<1> USE DEF JsonlInv, LoadStages
<1>1. ~Intact(loads[l].content)
    BY SMTT(60) DEF TornTail, Intact
<1>2. ~live /\ Idle /\ loads[l].content = file /\ TornTail(file) /\ file # NoFile
    BY <1>1, ReadsFile
<1>3. /\ loads' = [loads EXCEPT ![l] = [loads[l] EXCEPT !.phase = "staging", !.on = "tmp"]]
      /\ \A k \in Loaders : k # l => loads'[k] = loads[k] /\ loads[k].phase = "idle"
    BY DEF LoadInv, Loading
<1>4. loads'[l].phase = "staging" /\ loads'[l].on = "tmp" /\ loads'[l].content = loads[l].content
    BY <1>3, SMTT(60) DEF LoadInv
<1>5. LoadInv'
    BY <1>2, <1>3, <1>4, SMTT(60) DEF LoadInv, Loading, Idle
<1> QED
    BY <1>5, RepairFrame

LEMMA LoadFillsStep ==
  ASSUME JsonlInv, NEW l \in Loaders, LoadFills(l)
  PROVE  JsonlInv' /\ LogStep
<1> USE DEF JsonlInv, LoadFills
<1>1. /\ ~live /\ Idle /\ loads[l].content = file /\ TornTail(file) /\ file # NoFile
      /\ loads[l].on = "tmp" /\ tmp' = Repaired(file) /\ file' = file
    BY DEF LoadInv
<1>2. /\ loads' = [loads EXCEPT ![l] = [loads[l] EXCEPT !.phase = "staged"]]
      /\ \A k \in Loaders : k # l => loads'[k] = loads[k] /\ loads[k].phase = "idle"
    BY DEF LoadInv, Loading
<1>3. loads'[l].phase = "staged" /\ loads'[l].on = "tmp" /\ loads'[l].content = loads[l].content
    BY <1>1, <1>2, SMTT(60) DEF LoadInv
<1>4. LoadInv'
    BY <1>1, <1>2, <1>3, SMTT(60) DEF LoadInv, Loading, Idle
<1> QED
    BY <1>1, <1>4, RepairFrame

\* The rename publishes the log that load replayed.
LEMMA LoadPublishesStep ==
  ASSUME JsonlInv, NEW l \in Loaders, LoadPublishes(l)
  PROVE  JsonlInv' /\ LogStep
<1> USE DEF JsonlInv, LoadPublishes
<1>1. /\ ~live /\ Idle /\ loads[l].content = file /\ TornTail(file)
      /\ file' = Repaired(file) /\ Loading(l) /\ Opened(l)
    BY DEF LoadInv, Loading
<1>2. durable # <<>> /\ Replayed(loads[l].content) = durable
    BY <1>1, FileFacts, ReadsLoads DEF durable
<1>3. file' \in Contents /\ file'.ended /\ Reads(file', durable) /\ Whole(file', durable)
    BY <1>1, FileFacts, RepairKeepsLog
<1>4. append'.phase = append.phase
    BY SMTT(60) DEF Renamed
<1>5. FileInv' /\ AppendInv' /\ LiveInv' /\ LogStep
    BY <1>1, <1>2, <1>3, <1>4, OpenedStep
<1>6. \A k \in Loaders : loads'[k].phase = "idle"
    BY <1>1, SMTT(60) DEF LoadInv, Loading, NoLoad, Renamed
<1>7. LoadInv'
    BY <1>6 DEF LoadInv, Loading
<1> QED
    BY <1>5, <1>7

LEMMA LoadAbortsStep ==
  ASSUME JsonlInv, NEW l \in Loaders, LoadAborts(l)
  PROVE  JsonlInv' /\ LogStep
<1> USE DEF JsonlInv, LoadAborts
<1>1. \A k \in Loaders : loads'[k].phase = "idle"
    BY SMTT(60) DEF LoadInv, Loading, NoLoad, Removed
<1>2. LoadInv'
    BY <1>1 DEF LoadInv, Loading
<1> QED
    BY <1>2, RepairFrame

----------------------------------------------------------------------------
LEMMA JsonlInit == Init => JsonlInv
<1> SUFFICES ASSUME Init PROVE JsonlInv
    OBVIOUS
<1>1. NoFile \in Contents /\ WellFormed(<<>>) /\ Reads(NoFile, <<>>)
    BY SMTT(60) DEF NoFile, Contents, WellFormed, Reads, Whole, Log
<1>2. durable = <<>>
    BY <1>1, ReadsReplays DEF durable, Init
<1>3. FileInv
    BY <1>1, <1>2, SMTT(60) DEF FileInv, Init, Log
<1>4. AppendInv /\ LiveInv /\ LoadInv
    BY DEF AppendInv, LiveInv, LoadInv, Init, NoAppend, NoLoad, Idle, Loading
<1> QED
    BY <1>3, <1>4 DEF JsonlInv

LEMMA JsonlNext ==
  ASSUME Supported, JsonlInv, [Next]_vars
  PROVE  JsonlInv' /\ LogStep
<1>1. CASE UNCHANGED vars
  <2>1. LoadInv'
      BY <1>1 DEF vars, JsonlInv, LoadInv, Loading, Idle
  <2> QED
      BY <1>1, <2>1, RepairFrame DEF vars, JsonlInv
<1>2. ASSUME NEW l \in Loaders, LoadStep(l) PROVE JsonlInv' /\ LogStep
    BY <1>2, LoadReadsStep, LoadThrowsStep, LoadIntactStep, LoadEndsLineStep, LoadStagesStep,
       LoadFillsStep, LoadPublishesStep, LoadAbortsStep DEF LoadStep
<1> QED
    BY <1>1, <1>2, StartCreateStep, StartAppendStep, WriteSomeStep, WriteRestStep,
       AppendReturnsStep, AppendFailsStep, CrashStep, DeleteStep DEF Next

LEMMA JsonlInvariant ==
  ASSUME Supported
  PROVE  Spec => []JsonlInv
<1>1. JsonlInv /\ [Next]_vars => JsonlInv'
    BY JsonlNext
<1> QED
    BY <1>1, JsonlInit, PTL DEF Spec

\* Durability: whatever crashes, torn writes, repairs and forks come between, what callers were told
\* (append resolved, or open returned it) is what a load replays first, and the load does not throw.
THEOREM AckedSurviveTheorem ==
  ASSUME Supported
  PROVE  Spec => []AckedSurvive
<1>1. JsonlInv => AckedSurvive
  <2> SUFFICES ASSUME JsonlInv PROVE AckedSurvive
      OBVIOUS
  <2>1. Len(acked) <= Len(durable) /\ SubSeq(durable, 1, Len(acked)) = acked
      BY FileFacts, SMTT(60) DEF JsonlInv, FileInv
  <2>2. acked # <<>> => durable # <<>>
      BY FileFacts, SMTT(60) DEF JsonlInv, FileInv
  <2>3. acked # <<>> => Intact(file) \/ TornTail(file)
      BY <2>2, FileFacts, ReadsLoads DEF JsonlInv, Reads
  <2> QED
      BY <2>1, <2>3 DEF AckedSurvive, durable
<1> QED
    BY <1>1, JsonlInvariant, PTL

\* The session file implements the durable log: every step of appends, crashes, loads, repairs and
\* deletes is one step of DurableLog or leaves both its variables alone.
THEOREM ImplementsLogTheorem ==
  ASSUME Supported
  PROVE  Spec => ImplementsLog
<1>1. Init => Durable!Init
  <2> SUFFICES ASSUME Init PROVE Durable!Init
      OBVIOUS
  <2>1. NoFile \in Contents /\ WellFormed(<<>>) /\ Reads(NoFile, <<>>)
      BY SMTT(60) DEF NoFile, Contents, WellFormed, Reads, Whole, Log
  <2> QED
      BY <2>1, ReadsReplays DEF Init, Durable!Init
<1>2. JsonlInv /\ [Next]_vars => [Durable!Next]_(Durable!vars)
  <2> SUFFICES ASSUME JsonlInv, [Next]_vars PROVE [Durable!Next]_(Durable!vars)
      OBVIOUS
  <2>1. LogStep /\ JsonlInv'
      BY JsonlNext
  <2>2. durable \in Seq(Mutations) /\ durable' \in Log
      BY <2>1, FileFacts DEF JsonlInv, FileInv, WellFormed
  <2>3. CASE durable' = durable /\ acked' = acked
      BY <2>3 DEF Durable!vars, durable
  <2>4. ASSUME durable = acked, acked' = acked, NEW m \in Mutations, durable' = Append(durable, m)
        PROVE  Durable!Persist
    <3>1. Len(durable') = Len(durable) + 1 /\ SubSeq(durable', 1, Len(durable)) = durable
        BY <2>2, <2>4, SMTT(60)
    <3> QED
        BY <2>2, <2>4, <3>1 DEF Durable!Persist, durable
  <2>5. CASE durable' = durable /\ acked' = durable
      BY <2>5 DEF Durable!Next, Durable!Acknowledge, durable
  <2>6. CASE durable' = <<>> /\ acked' = <<>>
      BY <2>6 DEF Durable!Next, Durable!Erase, durable
  <2> QED
      BY <2>1, <2>3, <2>4, <2>5, <2>6 DEF LogStep, Durable!Next
<1> QED
    BY <1>1, <1>2, JsonlInvariant, PTL DEF Spec, ImplementsLog, Durable!Spec
=============================================================================
