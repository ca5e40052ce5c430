------------------------- MODULE CodingSessionProofs -------------------------
(***************************************************************************)
(* What a compaction keeps and what it summarizes, for every session, every *)
(* budget and every earlier compaction; and that compaction leaves no gap  *)
(* in what the session remembers, for every number of prompts, retries,    *)
(* compactions and calls in any order.                                     *)
(***************************************************************************)
EXTENDS CodingSession, WellFoundedInduction, TLAPS

\* Each leaf goes to Zenon unless it names another prover.
USE ZenonT(60)

(* The algorithms of compaction.                                           *)

\* A nonempty set of natural numbers has a least element, and Min is it.
LEMMA MinIsLeast ==
    ASSUME NEW S, S \subseteq Nat, S # {}
    PROVE  Min(S) \in S /\ \A y \in S : Min(S) <= y
<1> DEFINE Less == OpToRel(<, Nat)
<1>1. IsWellFoundedOn(Less, Nat)
    BY NatLessThanWellFounded
<1>2. \A m, n \in Nat : m < n => <<m, n>> \in Less
    BY DEF OpToRel
<1> HIDE DEF Less
<1>3. PICK x \in S : \A y \in S : ~(<<y, x>> \in Less)
    BY <1>1, WFMin
<1>4. \A y \in S : x <= y
  <2> TAKE y \in S
  <2>1. x \in Nat /\ y \in Nat
      OBVIOUS
  <2>2. ~(y < x)
      BY <1>2, <1>3, <2>1
  <2> QED
      BY <2>1, <2>2, SMTT(60)
<1>5. QED
    BY <1>4 DEF Min

\* A bounded nonempty set of natural numbers has a greatest element, and Max is it.
LEMMA MaxIsGreatest ==
    ASSUME NEW S, NEW n \in Nat, S \subseteq 0 .. n, S # {}
    PROVE  Max(S) \in S /\ \A y \in S : Max(S) >= y
<1> DEFINE T == {n - i : i \in S}
<1>1. T \subseteq Nat /\ T # {}
  <2>1. \A i \in S : n - i \in Nat
      BY SMTT(60)
  <2>2. PICK i \in S : TRUE
      OBVIOUS
  <2>3. n - i \in T
      OBVIOUS
  <2> QED
      BY <2>1, <2>3
<1>2. Min(T) \in T /\ \A y \in T : Min(T) <= y
    BY <1>1, MinIsLeast
<1>3. PICK x \in S : Min(T) = n - x
    BY <1>2
<1>4. \A y \in S : x >= y
  <2> TAKE y \in S
  <2>1. n - y \in T
      OBVIOUS
  <2>2. n - x <= n - y
      BY <1>2, <1>3, <2>1
  <2>3. x \in Nat /\ y \in Nat
      BY SMTT(60)
  <2> QED
      BY <2>2, <2>3, SMTT(60)
<1>5. QED
    BY <1>4 DEF Max

\* findCutPoint's walk chooses among the valid cut points.
LEMMA CutIndexIsCutPoint ==
    ASSUME NEW E, NEW path \in Seq(E), NEW start \in Nat, NEW budget \in Nat,
           CutPoints(path, start) # {}
    PROVE  CutIndex(path, start, budget) \in CutPoints(path, start)
<1> DEFINE points == CutPoints(path, start)
           reached == BudgetReached(path, start, budget)
           after == {c \in points : c >= reached}
<1>1. points \subseteq Nat
    BY SMTT(60) DEF CutPoints
<1>2. Min(points) \in points
    BY <1>1, MinIsLeast
<1>3. after # {} => Min(after) \in after
    BY <1>1, MinIsLeast
<1> HIDE DEF reached
<1>4. CutIndex(path, start, budget) = IF reached = 0 \/ after = {} THEN Min(points) ELSE Min(after)
    BY DEF CutIndex, reached
<1>5. QED
    BY <1>2, <1>3, <1>4

\* What follows firstKeptEntryIndex is metadata up to a valid cut point.
LEMMA FirstKeptLeadsToCutPoint ==
    ASSUME NEW E, NEW path \in Seq(E), NEW start \in Nat \ {0}, NEW budget \in Nat,
           CutPoints(path, start) # {}
    PROVE  LET first == FirstKept(path, start, budget)
           IN  /\ first \in start .. Len(path)
               /\ \E c \in first .. Len(path) :
                      IsCutPoint(path[c]) /\ \A j \in first .. c - 1 : ~Visible(path[j])
<1> DEFINE cut == CutIndex(path, start, budget)
           back == {k \in start .. cut : \A j \in k .. cut - 1 : ~Visible(path[j])}
<1>1. cut \in start .. Len(path) /\ IsCutPoint(path[cut])
    BY CutIndexIsCutPoint DEF CutPoints
<1> HIDE DEF cut
<1>2. cut \in back /\ back \subseteq Nat
    BY <1>1, SMTT(60)
<1>3. Min(back) \in back
    BY <1>2, MinIsLeast
<1>4. FirstKept(path, start, budget) = Min(back)
    BY DEF FirstKept, cut
<1>5. FirstKept(path, start, budget) \in back
    BY <1>3, <1>4
<1> HIDE DEF back
<1>6. /\ FirstKept(path, start, budget) \in start .. cut
      /\ \A j \in FirstKept(path, start, budget) .. cut - 1 : ~Visible(path[j])
    BY <1>5 DEF back
<1>7. Len(path) \in Nat
    BY SMTT(60)
<1>8. QED
    BY <1>1, <1>6, <1>7, SMTT(60)

\* turnStartIndex is the last start of a turn up to the first kept entry, and not that entry.
LEMMA TurnStartIsLast ==
    ASSUME NEW E, NEW path \in Seq(E), NEW start \in Nat \ {0}, NEW first \in start .. Len(path),
           TurnStart(path, start, first) # 0
    PROVE  LET turn == TurnStart(path, start, first)
           IN  /\ turn \in start .. first - 1
               /\ IsTurnStart(path[turn])
               /\ \A i \in turn + 1 .. first : ~IsTurnStart(path[i])
<1> DEFINE starts == {k \in start .. first : IsTurnStart(path[k])}
           turn == TurnStart(path, start, first)
<1>1. starts # {} /\ turn = Max(starts) /\ ~IsTurnStart(path[first])
    BY DEF TurnStart
<1> HIDE DEF turn
<1>2. starts \subseteq 0 .. first /\ first \in Nat
    BY SMTT(60)
<1>3. turn \in starts /\ \A i \in starts : turn >= i
    BY <1>1, <1>2, MaxIsGreatest
<1>4. turn \in start .. first /\ IsTurnStart(path[turn]) /\ turn # first
    BY <1>1, <1>3
<1>5. \A i \in turn + 1 .. first : ~IsTurnStart(path[i])
    BY <1>3, <1>4, SMTT(60)
<1>6. QED
    BY <1>4, <1>5, SMTT(60) DEF turn

\* Everything between the start of the boundary and the first kept entry is handed to a
\* summarizer: before a split turn with the history, the rest with the turn's prefix.
LEMMA SummarizedCovers ==
    ASSUME NEW E, NEW path \in Seq(E), NEW start \in Nat \ {0}, NEW first \in start .. Len(path),
           NEW i \in start .. first - 1, Summarizable(path[i])
    PROVE  LET turn == TurnStart(path, start, first)
           IN  IF turn = 0 \/ i < turn THEN path[i].id \in History(path, start, first)
               ELSE path[i].id \in TurnPrefix(path, start, first)
<1> DEFINE turn == TurnStart(path, start, first)
           end == IF turn = 0 THEN first ELSE turn
<1>1. turn # 0 => turn \in start .. first - 1
    BY TurnStartIsLast
<1>2. /\ History(path, start, first) = Messages(path, start .. end - 1)
      /\ TurnPrefix(path, start, first) = IF turn = 0 THEN {} ELSE Messages(path, turn .. first - 1)
    BY DEF History, TurnPrefix
<1> HIDE DEF turn
<1>3. CASE turn = 0 \/ i < turn
  <2>1. i \in start .. end - 1
      BY <1>1, <1>3, SMTT(60)
  <2>2. path[i].id \in Messages(path, start .. end - 1)
      BY <2>1 DEF Messages
  <2> QED
      BY <1>2, <1>3, <2>2 DEF turn
<1>4. CASE ~(turn = 0 \/ i < turn)
  <2>1. i \in turn .. first - 1
      BY <1>1, <1>4, SMTT(60)
  <2>2. path[i].id \in Messages(path, turn .. first - 1)
      BY <2>1 DEF Messages
  <2> QED
      BY <1>2, <1>4, <2>2 DEF turn
<1>5. QED
    BY <1>3, <1>4

-----------------------------------------------------------------------------
(* What a compaction, prepared or recorded, leaves: the path has its first  *)
(* kept entry, and everything from one of some starts on up to that entry   *)
(* is covered.                                                              *)

Covered(path, cut, starts) ==
    /\ Position(path, cut.kept) # 0
    /\ \E s \in starts : \A i \in s .. Position(path, cut.kept) - 1 :
           Summarizable(path[i]) => path[i].id \in cut.covers

\* Where the session's memory may begin once the compaction is recorded.
Splits(path, cut) == {s \in DOMAIN path : SplitsKeptTurn(path, cut, s)}

StartsWith(path, cut) == MemoryStarts(path) \cup Splits(path, cut)

\* What compact() makes of a preparation.
Summary(preparation) == [kept |-> preparation.kept, covers |-> SummaryCovers(preparation)]

LatestComplete(path) ==
    LET c == LatestCompaction(path)
    IN  c # 0 => Covered(path, path[c], MemoryStarts(path)) /\ Position(path, path[c].kept) < c

\* Position is the first occurrence.
LEMMA PositionIsFirst ==
    ASSUME NEW E, NEW path \in Seq(E), NEW id
    PROVE  /\ Position(path, id) \in 0 .. Len(path)
           /\ Position(path, id) # 0 => path[Position(path, id)].id = id
           /\ \A i \in 1 .. Len(path) : path[i].id = id => Position(path, id) # 0 /\ Position(path, id) <= i
<1> DEFINE found == {i \in DOMAIN path : path[i].id = id}
<1>1. found \subseteq Nat /\ DOMAIN path = 1 .. Len(path) /\ Len(path) \in Nat
    BY SMTT(60)
<1>2. found # {} => Min(found) \in found /\ \A i \in found : Min(found) <= i
    BY <1>1, MinIsLeast
<1>3. Position(path, id) = IF found = {} THEN 0 ELSE Min(found)
    BY DEF Position
<1>4. CASE found = {}
    BY <1>1, <1>3, <1>4, SMTT(60)
<1>5. CASE found # {}
  <2>1. Position(path, id) \in found /\ \A i \in found : Position(path, id) <= i
      BY <1>2, <1>3, <1>5
  <2> QED
      BY <1>1, <2>1, SMTT(60)
<1>6. QED
    BY <1>4, <1>5

\* getLatestCompactionEntry finds the last compaction of the path.
LEMMA LatestIsLast ==
    ASSUME NEW E, NEW path \in Seq(E)
    PROVE  /\ LatestCompaction(path) \in 0 .. Len(path)
           /\ LatestCompaction(path) # 0 => path[LatestCompaction(path)].kind = "compaction"
           /\ \A i \in 1 .. Len(path) : path[i].kind = "compaction" => i <= LatestCompaction(path)
<1>1. DOMAIN path = 1 .. Len(path) /\ Len(path) \in Nat
    BY SMTT(60)
<1>2. Compactions(path) \subseteq 0 .. Len(path)
    BY <1>1, SMTT(60) DEF Compactions
<1>3. CASE Compactions(path) = {}
    BY <1>1, <1>3, SMTT(60) DEF Compactions, LatestCompaction
<1>4. CASE Compactions(path) # {}
  <2>1. /\ LatestCompaction(path) \in Compactions(path)
        /\ \A i \in Compactions(path) : LatestCompaction(path) >= i
      BY <1>1, <1>2, <1>4, MaxIsGreatest DEF LatestCompaction
  <2> QED
      BY <1>1, <2>1, SMTT(60) DEF Compactions
<1>5. QED
    BY <1>3, <1>4

\* boundaryStart is on the path, and so is everything that is handed to the summarizer.
LEMMA BoundaryOnPath ==
    ASSUME NEW E, NEW path \in Seq(E), path # <<>>, LatestComplete(path),
           LatestCompaction(path) # Len(path)
    PROVE  BoundaryStart(path) \in 1 .. Len(path)
<1>1. LatestCompaction(path) \in 0 .. Len(path) /\ Len(path) \in Nat \ {0}
    BY LatestIsLast, SMTT(60)
<1>2. CASE LatestCompaction(path) = 0
    BY <1>1, <1>2, SMTT(60) DEF BoundaryStart
<1>3. CASE LatestCompaction(path) # 0
  <2> DEFINE id == path[LatestCompaction(path)].kept
  <2>1. Position(path, id) # 0
      BY <1>3 DEF LatestComplete, Covered
  <2>2. Position(path, id) \in 0 .. Len(path)
      BY PositionIsFirst
  <2>3. BoundaryStart(path) = Position(path, id)
      BY <1>3, <2>1 DEF BoundaryStart
  <2> QED
      BY <2>1, <2>2, <2>3, SMTT(60)
<1>4. QED
    BY <1>2, <1>3

\* What a compaction summarizes are entries of the path.
LEMMA SummarizedOnPath ==
    ASSUME NEW E, NEW path \in Seq(E), NEW start \in 1 .. Len(path), NEW first \in start .. Len(path)
    PROVE  /\ History(path, start, first) \subseteq {path[i].id : i \in 1 .. Len(path)}
           /\ TurnPrefix(path, start, first) \subseteq {path[i].id : i \in 1 .. Len(path)}
<1> DEFINE turn == TurnStart(path, start, first)
           end == IF turn = 0 THEN first ELSE turn
<1>1. turn # 0 => turn \in start .. first - 1
  <2>1. start \in Nat \ {0}
      BY SMTT(60)
  <2> QED
      BY <2>1, TurnStartIsLast
<1>2. /\ History(path, start, first) = Messages(path, start .. end - 1)
      /\ TurnPrefix(path, start, first) = IF turn = 0 THEN {} ELSE Messages(path, turn .. first - 1)
    BY DEF History, TurnPrefix
<1> HIDE DEF turn
<1>3. start .. end - 1 \subseteq 1 .. Len(path) /\ (turn # 0 => turn .. first - 1 \subseteq 1 .. Len(path))
    BY <1>1, SMTT(60)
<1>4. \A S : S \subseteq 1 .. Len(path) => Messages(path, S) \subseteq {path[i].id : i \in 1 .. Len(path)}
    BY DEF Messages
<1>5. QED
    BY <1>2, <1>3, <1>4

\* What prepareCompaction returns, when it returns something.
LEMMA PrepareReturns ==
    ASSUME NEW E, NEW path \in Seq(E), NEW budget \in Nat,
           LatestComplete(path), Prepare(path, budget) # NothingToCompact
    PROVE  LET c == LatestCompaction(path)
               start == BoundaryStart(path)
               first == FirstKept(path, start, budget)
           IN  /\ c \in 0 .. Len(path) /\ Len(path) \in Nat \ {0}
               /\ start \in 1 .. Len(path) /\ first \in start .. Len(path)
               /\ c = 0 => start = 1
               /\ c # 0 => start = Position(path, path[c].kept)
               /\ Prepare(path, budget) =
                      [kept |-> path[first].id, history |-> History(path, start, first),
                       prefix |-> TurnPrefix(path, start, first),
                       previous |-> IF c = 0 THEN {} ELSE path[c].covers]
<1> DEFINE c == LatestCompaction(path)
           start == BoundaryStart(path)
           first == FirstKept(path, start, budget)
           history == History(path, start, first)
           prefix == TurnPrefix(path, start, first)
<1>1. /\ path # <<>> /\ c # Len(path) /\ history \cup prefix # {}
      /\ Prepare(path, budget) = [kept |-> path[first].id, history |-> history, prefix |-> prefix,
                                  previous |-> IF c = 0 THEN {} ELSE path[c].covers]
    BY DEF Prepare
<1>2. c \in 0 .. Len(path) /\ Len(path) \in Nat \ {0}
    BY <1>1, LatestIsLast, SMTT(60)
<1>3. start \in 1 .. Len(path)
    BY <1>1, BoundaryOnPath
<1>4. /\ c = 0 => start = 1
      /\ c # 0 => start = Position(path, path[c].kept)
    BY DEF BoundaryStart, LatestComplete, Covered
<1> HIDE DEF c, start
<1>5. CutPoints(path, start) # {}
  <2> SUFFICES ASSUME CutPoints(path, start) = {} PROVE FALSE
      OBVIOUS
  <2>1. first = start
      BY DEF FirstKept
  <2>2. TurnStart(path, start, first) = 0
      BY DEF TurnStart
  <2>3. start .. start - 1 = {}
      BY <1>3, SMTT(60)
  <2>4. history = {} /\ prefix = {}
      BY <2>1, <2>2, <2>3 DEF History, TurnPrefix, Messages
  <2> QED
      BY <1>1, <2>4
<1>6. first \in start .. Len(path)
    BY <1>3, <1>5, FirstKeptLeadsToCutPoint, SMTT(60)
<1>7. QED
    BY <1>1, <1>2, <1>3, <1>4, <1>6 DEF c, start

\* A summary made with everything handed to the summarizers and the previous summary covers what
\* the previous one covered and everything up to the first kept entry.
LEMMA IterativeSummary ==
    ASSUME NEW E, NEW path \in Seq(E), NEW start \in 1 .. Len(path), NEW first \in start .. Len(path),
           NEW s \in Nat \ {0}, NEW previous,
           \A i \in s .. start - 1 : Summarizable(path[i]) => path[i].id \in previous
    PROVE  \A i \in s .. first - 1 : Summarizable(path[i]) =>
               path[i].id \in History(path, start, first) \cup TurnPrefix(path, start, first) \cup previous
<1> SUFFICES ASSUME NEW i \in s .. first - 1, Summarizable(path[i])
             PROVE  path[i].id \in History(path, start, first) \cup TurnPrefix(path, start, first) \cup previous
    OBVIOUS
<1>1. CASE i < start
  <2>1. i \in s .. start - 1
      BY <1>1, SMTT(60)
  <2> QED
      BY <2>1
<1>2. CASE ~(i < start)
  <2>1. i \in start .. first - 1 /\ start \in Nat \ {0}
      BY <1>2, SMTT(60)
  <2> QED
      BY <2>1, SummarizedCovers
<1>3. QED
    BY <1>1, <1>2

\* A summary made of a split turn's prefix alone, because there is no history: nothing precedes
\* the turn in what the previous compaction kept, and the prefix covers the turn up to the cut.
LEMMA PrefixSummary ==
    ASSUME NEW E, NEW path \in Seq(E), NEW start \in 1 .. Len(path), NEW first \in start .. Len(path),
           History(path, start, first) = {}, TurnPrefix(path, start, first) # {}
    PROVE  LET turn == TurnStart(path, start, first)
           IN  /\ turn \in start .. first - 1 /\ IsTurnStart(path[turn])
               /\ \A i \in turn + 1 .. first : ~IsTurnStart(path[i])
               /\ \A i \in start .. turn - 1 : ~Summarizable(path[i])
               /\ \A i \in turn .. first - 1 :
                      Summarizable(path[i]) => path[i].id \in TurnPrefix(path, start, first)
<1> DEFINE turn == TurnStart(path, start, first)
<1>1. start \in Nat \ {0}
    BY SMTT(60)
<1>2. turn # 0
    BY DEF TurnPrefix
<1>3. /\ turn \in start .. first - 1 /\ IsTurnStart(path[turn])
      /\ \A i \in turn + 1 .. first : ~IsTurnStart(path[i])
    BY <1>1, <1>2, TurnStartIsLast
<1>4. \A i \in start .. first - 1 : Summarizable(path[i]) =>
          IF turn = 0 \/ i < turn THEN FALSE ELSE path[i].id \in TurnPrefix(path, start, first)
    BY <1>1, SummarizedCovers
<1> HIDE DEF turn
<1>5. ASSUME NEW i \in start .. turn - 1 PROVE ~Summarizable(path[i])
  <2>1. i \in start .. first - 1 /\ i < turn
      BY <1>3, SMTT(60)
  <2> QED
      BY <1>4, <2>1
<1>6. ASSUME NEW i \in turn .. first - 1, Summarizable(path[i])
      PROVE  path[i].id \in TurnPrefix(path, start, first)
  <2>1. i \in start .. first - 1 /\ ~(i < turn)
      BY <1>3, SMTT(60)
  <2> QED
      BY <1>2, <1>4, <1>6, <2>1
<1>7. QED
    BY <1>3, <1>5, <1>6 DEF turn

\* prepareCompaction and compact leave no gap: when the latest compaction of the path left none,
\* the next one covers everything from the same start on, or from the first turn that the latest
\* one kept when it splits that turn, whatever the budget and the path.
THEOREM CompactLeavesNoGap ==
    ASSUME NEW E, NEW path \in Seq(E), NEW budget \in Nat,
           LatestComplete(path), Prepare(path, budget) # NothingToCompact
    PROVE  LET cut == Summary(Prepare(path, budget))
           IN  Covered(path, cut, StartsWith(path, cut))
<1> DEFINE c == LatestCompaction(path)
           start == BoundaryStart(path)
           first == FirstKept(path, start, budget)
           history == History(path, start, first)
           prefix == TurnPrefix(path, start, first)
           previous == IF c = 0 THEN {} ELSE path[c].covers
           cut == Summary(Prepare(path, budget))
<1>1. /\ c \in 0 .. Len(path) /\ Len(path) \in Nat \ {0}
      /\ start \in 1 .. Len(path) /\ first \in start .. Len(path)
      /\ c = 0 => start = 1
      /\ c # 0 => start = Position(path, path[c].kept)
      /\ Prepare(path, budget) = [kept |-> path[first].id, history |-> history, prefix |-> prefix,
                                  previous |-> previous]
    BY PrepareReturns
<1>2. /\ cut.kept = path[first].id
      /\ cut.covers = IF prefix # {} /\ history = {} THEN prefix ELSE history \cup prefix \cup previous
  <2> HIDE DEF c, start, first, history, prefix, previous
  <2> QED
      BY <1>1, SMTT(60) DEF Summary, SummaryCovers
<1>3. /\ 1 \in MemoryStarts(path) /\ MemoryStarts(path) \subseteq StartsWith(path, cut)
      /\ MemoryStarts(path) \subseteq Nat \ {0}
  <2>1. DOMAIN path \subseteq Nat \ {0} /\ 1 \in Nat \ {0}
      BY SMTT(60)
  <2> QED
      BY <2>1 DEF MemoryStarts, StartsWith
<1>4. c # 0 => Covered(path, path[c], MemoryStarts(path))
    BY DEF LatestComplete
<1> HIDE DEF history, prefix, first, start, cut
<1>5. \E s \in StartsWith(path, cut) : s \in Nat \ {0} /\ \A i \in s .. first - 1 :
          Summarizable(path[i]) => path[i].id \in cut.covers
  <2>1. CASE ~(prefix # {} /\ history = {})
    <3>1. PICK s \in MemoryStarts(path) :
              \A i \in s .. start - 1 : Summarizable(path[i]) => path[i].id \in previous
      <4>1. CASE c = 0
        <5>1. 1 .. start - 1 = {}
            BY <1>1, <4>1, SMTT(60)
        <5> QED
            BY <1>3, <5>1
      <4>2. CASE c # 0
          BY <1>1, <1>4, <4>2 DEF Covered
      <4> QED
          BY <4>1, <4>2
    <3>2. s \in Nat \ {0}
        BY <1>3
    <3> HIDE DEF previous
    <3>3. \A i \in s .. first - 1 : Summarizable(path[i]) =>
              path[i].id \in history \cup prefix \cup previous
        BY <1>1, <3>1, <3>2, IterativeSummary DEF history, prefix
    <3>4. cut.covers = history \cup prefix \cup previous
        BY <1>2, <2>1
    <3> QED
        BY <1>3, <3>2, <3>3, <3>4
  <2>2. CASE prefix # {} /\ history = {}
    <3> DEFINE turn == TurnStart(path, start, first)
    <3>1. /\ turn \in start .. first - 1 /\ IsTurnStart(path[turn])
          /\ \A i \in turn + 1 .. first : ~IsTurnStart(path[i])
          /\ \A i \in start .. turn - 1 : ~Summarizable(path[i])
          /\ \A i \in turn .. first - 1 : Summarizable(path[i]) => path[i].id \in prefix
        BY <1>1, <2>2, PrefixSummary DEF history, prefix
    <3> HIDE DEF turn
    <3>2. cut.covers = prefix
        BY <1>2, <2>2
    <3>3. CASE c = 0
      <4>1. \A i \in 1 .. first - 1 : Summarizable(path[i]) => path[i].id \in prefix
          BY <1>1, <3>1, <3>3, SMTT(60)
      <4>2. 1 \in StartsWith(path, cut) /\ 1 \in Nat \ {0}
          BY <1>3
      <4> QED
          BY <3>2, <4>1, <4>2
    <3>4. CASE c # 0
      <4>1. turn \in DOMAIN path /\ start <= turn /\ turn \in Nat \ {0} /\ first \in turn + 1 .. Len(path)
          BY <1>1, <3>1, SMTT(60)
      <4>2. \E f \in turn + 1 .. Len(path) :
                path[f].id = cut.kept /\ \A i \in turn + 1 .. f : ~IsTurnStart(path[i])
          BY <1>2, <3>1, <4>1
      <4>3. SplitsKeptTurn(path, cut, turn)
          BY <1>1, <3>1, <3>4, <4>1, <4>2 DEF SplitsKeptTurn
      <4>4. turn \in StartsWith(path, cut)
          BY <4>1, <4>3 DEF StartsWith, Splits
      <4> QED
          BY <3>1, <3>2, <4>1, <4>4
    <3> QED
        BY <3>3, <3>4
  <2> QED
      BY <2>1, <2>2
<1>6. Position(path, cut.kept) \in 1 .. first
    BY <1>1, <1>2, PositionIsFirst, SMTT(60)
<1>7. \E s \in StartsWith(path, cut) : \A i \in s .. Position(path, cut.kept) - 1 :
          Summarizable(path[i]) => path[i].id \in cut.covers
  <2>1. PICK s \in StartsWith(path, cut) : s \in Nat \ {0} /\ \A i \in s .. first - 1 :
            Summarizable(path[i]) => path[i].id \in cut.covers
      BY <1>5
  <2>2. s .. Position(path, cut.kept) - 1 \subseteq s .. first - 1
      BY <1>1, <1>6, <2>1, SMTT(60)
  <2> QED
      BY <2>1, <2>2
<1>8. Position(path, cut.kept) # 0
    BY <1>1, <1>6, SMTT(60)
<1>9. QED
    BY <1>7, <1>8 DEF Covered, cut

\* What is kept never starts in the middle of a tool call: up to the next message the model
\* sees there is metadata only, and that message is not a tool result.
THEOREM KeptStartsAtCutPoint ==
    ASSUME NEW E, NEW path \in Seq(E), NEW budget \in Nat,
           NEW start \in Nat \ {0}, CutPoints(path, start) # {},
           NEW k \in FirstKept(path, start, budget) .. Len(path), Visible(path[k]),
           \A j \in FirstKept(path, start, budget) .. k - 1 : ~Visible(path[j])
    PROVE  path[k].kind # "toolResult"
<1> DEFINE first == FirstKept(path, start, budget)
<1>1. first \in start .. Len(path)
    BY FirstKeptLeadsToCutPoint
<1>2. PICK c \in first .. Len(path) : IsCutPoint(path[c]) /\ \A j \in first .. c - 1 : ~Visible(path[j])
    BY FirstKeptLeadsToCutPoint
<1> HIDE DEF first
<1>3. IsCutPoint(path[c]) => Visible(path[c]) /\ path[c].kind # "toolResult"
    BY DEF IsCutPoint, Visible
<1>4. k \in first .. Len(path) /\ \A j \in first .. k - 1 : ~Visible(path[j])
    BY DEF first
<1>5. ~(c < k) /\ ~(k < c)
    BY <1>1, <1>2, <1>3, <1>4, SMTT(60)
<1>6. c = k
    BY <1>1, <1>4, <1>5, SMTT(60)
<1>7. QED
    BY <1>2, <1>3, <1>6

-----------------------------------------------------------------------------
(* How appending to the session affects what the cuts say.                  *)

\* What is on a path stays where it is when entries are appended.
LEMMA Extended ==
    ASSUME NEW E, NEW path \in Seq(E), NEW added \in Seq(E)
    PROVE  /\ path \o added \in Seq(E) /\ Len(path) \in Nat /\ Len(added) \in Nat
           /\ Len(path \o added) = Len(path) + Len(added)
           /\ DOMAIN path = 1 .. Len(path) /\ DOMAIN (path \o added) = 1 .. Len(path) + Len(added)
           /\ \A i \in 1 .. Len(path) : (path \o added)[i] = path[i]
           /\ \A i \in Len(path) + 1 .. Len(path) + Len(added) : (path \o added)[i] = added[i - Len(path)]
    BY SMTT(60)

\* So is the position of an entry that the path has.
LEMMA PositionExtends ==
    ASSUME NEW E, NEW path \in Seq(E), NEW added \in Seq(E), NEW id, Position(path, id) # 0
    PROVE  Position(path \o added, id) = Position(path, id)
<1> DEFINE whole == path \o added
           p == Position(path, id)
           q == Position(whole, id)
<1>1. /\ whole \in Seq(E) /\ Len(path) \in Nat /\ Len(whole) \in Nat /\ Len(whole) >= Len(path)
      /\ \A i \in 1 .. Len(path) : whole[i] = path[i]
    BY SMTT(60)
<1>2. p \in 1 .. Len(path) /\ path[p].id = id
    BY PositionIsFirst, SMTT(60)
<1>3. /\ q \in 0 .. Len(whole)
      /\ q # 0 => whole[q].id = id
      /\ \A i \in 1 .. Len(whole) : whole[i].id = id => q # 0 /\ q <= i
    BY <1>1, PositionIsFirst
<1>4. \A i \in 1 .. Len(path) : path[i].id = id => p <= i
    BY PositionIsFirst
<1> HIDE DEF whole, p, q
<1>5. q # 0 /\ q <= p
    BY <1>1, <1>2, <1>3, SMTT(60)
<1>6. q \in 1 .. Len(path) /\ path[q].id = id
    BY <1>1, <1>2, <1>3, <1>5, SMTT(60)
<1>7. q = p
    BY <1>2, <1>4, <1>5, <1>6, SMTT(60)
<1>8. QED
    BY <1>7 DEF whole, p, q

\* What a cut covers stays covered when entries are appended.
LEMMA CoveredExtends ==
    ASSUME NEW E, NEW path \in Seq(E), NEW added \in Seq(E), NEW cut,
           NEW S, NEW T, S \subseteq Nat \ {0}, S \subseteq T, Covered(path, cut, S)
    PROVE  Covered(path \o added, cut, T)
<1> DEFINE whole == path \o added
           p == Position(path, cut.kept)
<1>1. Len(path) \in Nat /\ \A i \in 1 .. Len(path) : whole[i] = path[i]
    BY SMTT(60)
<1>2. p # 0 /\ p \in 0 .. Len(path) /\ Position(whole, cut.kept) = p
  <2>1. p # 0
      BY DEF Covered
  <2>2. p \in 0 .. Len(path)
      BY PositionIsFirst
  <2>3. Position(whole, cut.kept) = p
      BY <2>1, PositionExtends
  <2> QED
      BY <2>1, <2>2, <2>3
<1>3. PICK s \in S : \A i \in s .. p - 1 : Summarizable(path[i]) => path[i].id \in cut.covers
    BY DEF Covered
<1> HIDE DEF whole, p
<1>4. s \in T /\ s .. p - 1 \subseteq 1 .. Len(path)
  <2>1. s \in Nat \ {0}
      OBVIOUS
  <2>2. s .. p - 1 \subseteq 1 .. Len(path)
      BY <1>1, <1>2, <2>1, SMTT(60)
  <2> QED
      BY <2>2
<1>5. \A i \in s .. p - 1 : Summarizable(whole[i]) => whole[i].id \in cut.covers
    BY <1>1, <1>3, <1>4
<1>6. QED
    BY <1>2, <1>4, <1>5 DEF Covered, whole

\* The part of a path before one of its entries stays the same.
LEMMA PrefixExtends ==
    ASSUME NEW E, NEW path \in Seq(E), NEW added \in Seq(E), NEW d \in 1 .. Len(path)
    PROVE  SubSeq(path \o added, 1, d - 1) = SubSeq(path, 1, d - 1)
    BY SMTT(60)

\* The starts of what the session remembers are numbers of entries, and appending adds to them.
LEMMA StartsExtend ==
    ASSUME NEW E, NEW path \in Seq(E), NEW added \in Seq(E)
    PROVE  /\ MemoryStarts(path) \subseteq Nat \ {0}
           /\ MemoryStarts(path) \subseteq MemoryStarts(path \o added)
<1> DEFINE whole == path \o added
<1>1. DOMAIN path \subseteq Nat \ {0} /\ 1 \in Nat \ {0}
    BY SMTT(60)
<1>2. /\ DOMAIN path = 1 .. Len(path) /\ \A i \in 1 .. Len(path) : whole[i] = path[i]
      /\ DOMAIN path \subseteq DOMAIN whole
  <2>1. Len(path) \in Nat /\ Len(added) \in Nat => 1 .. Len(path) \subseteq 1 .. Len(path) + Len(added)
      BY SMTT(60)
  <2> QED
      BY <2>1, Extended
<1>3. ASSUME NEW d \in Compactions(path), NEW s, SplitsKeptTurn(SubSeq(path, 1, d - 1), path[d], s)
      PROVE  d \in Compactions(whole) /\ SplitsKeptTurn(SubSeq(whole, 1, d - 1), whole[d], s)
  <2>1. d \in 1 .. Len(path) /\ whole[d] = path[d]
      BY <1>2 DEF Compactions
  <2>2. SubSeq(whole, 1, d - 1) = SubSeq(path, 1, d - 1)
      BY <2>1, PrefixExtends
  <2>3. d \in Compactions(whole)
      BY <1>2, <2>1 DEF Compactions
  <2> QED
      BY <1>3, <2>1, <2>2, <2>3
<1> HIDE DEF whole
<1>4. MemoryStarts(path) \subseteq MemoryStarts(whole)
    BY <1>2, <1>3 DEF MemoryStarts
<1>5. QED
    BY <1>1, <1>4 DEF MemoryStarts, whole

\* Appending messages or metadata does not change which compaction is the latest.
LEMMA LatestSame ==
    ASSUME NEW E, NEW path \in Seq(E), NEW added \in Seq(E),
           \A i \in 1 .. Len(added) : added[i].kind # "compaction"
    PROVE  LatestCompaction(path \o added) = LatestCompaction(path)
<1> DEFINE whole == path \o added
           c == LatestCompaction(path)
           d == LatestCompaction(whole)
<1>1. /\ whole \in Seq(E) /\ Len(path) \in Nat /\ Len(whole) = Len(path) + Len(added) /\ Len(added) \in Nat
      /\ \A i \in 1 .. Len(path) : whole[i] = path[i]
      /\ \A i \in Len(path) + 1 .. Len(whole) : whole[i] = added[i - Len(path)]
    BY SMTT(60)
<1>2. /\ d \in 0 .. Len(whole)
      /\ d # 0 => whole[d].kind = "compaction"
      /\ \A i \in 1 .. Len(whole) : whole[i].kind = "compaction" => i <= d
    BY <1>1, LatestIsLast
<1>3. /\ c \in 0 .. Len(path)
      /\ c # 0 => path[c].kind = "compaction"
      /\ \A i \in 1 .. Len(path) : path[i].kind = "compaction" => i <= c
    BY LatestIsLast
<1> HIDE DEF whole, c, d
<1>4. d <= Len(path)
  <2> SUFFICES ASSUME d > Len(path) PROVE FALSE
      BY <1>1, <1>2, SMTT(60)
  <2>1. d - Len(path) \in 1 .. Len(added) /\ whole[d] = added[d - Len(path)]
      BY <1>1, <1>2, SMTT(60)
  <2> QED
      BY <1>1, <1>2, <2>1, SMTT(60)
<1>5. d = c
    BY <1>1, <1>2, <1>3, <1>4, SMTT(60)
<1>6. QED
    BY <1>5 DEF whole, c, d

\* Appending messages or metadata keeps the latest compaction complete.
LEMMA LatestExtends ==
    ASSUME NEW E, NEW path \in Seq(E), NEW added \in Seq(E),
           \A i \in 1 .. Len(added) : added[i].kind # "compaction", LatestComplete(path)
    PROVE  LatestComplete(path \o added)
<1> DEFINE whole == path \o added
           c == LatestCompaction(path)
<1>1. LatestCompaction(whole) = c /\ c \in 0 .. Len(path)
    BY LatestSame, LatestIsLast
<1> SUFFICES ASSUME c # 0
             PROVE  Covered(whole, whole[c], MemoryStarts(whole)) /\ Position(whole, whole[c].kept) < c
    BY <1>1 DEF LatestComplete
<1>2. Covered(path, path[c], MemoryStarts(path)) /\ Position(path, path[c].kept) < c
    BY DEF LatestComplete
<1>3. c \in 1 .. Len(path)
  <2> HIDE DEF c
  <2> QED
      BY <1>1, SMTT(60)
<1>4. whole[c] = path[c]
    BY <1>3, Extended
<1>5. Covered(whole, path[c], MemoryStarts(whole))
    BY <1>2, StartsExtend, CoveredExtends
<1>6. Position(whole, path[c].kept) = Position(path, path[c].kept)
    BY <1>2, PositionExtends DEF Covered
<1>7. QED
    BY <1>2, <1>4, <1>5, <1>6

\* A turn that a cut would split is still the one it splits once entries are appended.
LEMMA SplitsExtend ==
    ASSUME NEW E, NEW path \in Seq(E), NEW added \in Seq(E), NEW cut,
           \A i \in 1 .. Len(added) : added[i].kind # "compaction", LatestComplete(path)
    PROVE  Splits(path, cut) \subseteq Splits(path \o added, cut)
<1> SUFFICES ASSUME NEW s \in DOMAIN path, SplitsKeptTurn(path, cut, s)
             PROVE  s \in DOMAIN (path \o added) /\ SplitsKeptTurn(path \o added, cut, s)
    BY DEF Splits
<1> DEFINE whole == path \o added
           c == LatestCompaction(path)
           first == Position(path, path[c].kept)
<1>1. /\ Len(path) \in Nat /\ Len(added) \in Nat /\ Len(whole) = Len(path) + Len(added)
      /\ DOMAIN path = 1 .. Len(path) /\ DOMAIN whole = 1 .. Len(path) + Len(added)
      /\ \A i \in 1 .. Len(path) : whole[i] = path[i]
    BY SMTT(60)
<1>2. LatestCompaction(whole) = c /\ c \in 0 .. Len(path) /\ c # 0
    BY LatestSame, LatestIsLast DEF SplitsKeptTurn
<1>3. first # 0 /\ Position(whole, path[c].kept) = first /\ first \in 0 .. Len(path)
  <2>1. first # 0
      BY <1>2 DEF LatestComplete, Covered
  <2> QED
      BY <2>1, PositionExtends, PositionIsFirst
<1>4. /\ first <= s /\ IsTurnStart(path[s]) /\ \A i \in first .. s - 1 : ~Summarizable(path[i])
      /\ \E f \in s + 1 .. Len(path) :
             path[f].id = cut.kept /\ \A i \in s + 1 .. f : ~IsTurnStart(path[i])
    BY DEF SplitsKeptTurn
<1>5. PICK f \in s + 1 .. Len(path) :
          path[f].id = cut.kept /\ \A i \in s + 1 .. f : ~IsTurnStart(path[i])
    BY <1>4
<1> HIDE DEF whole, c, first
<1>6. /\ s \in DOMAIN whole /\ s \in 1 .. Len(path) /\ f \in s + 1 .. Len(whole) /\ f \in 1 .. Len(path)
      /\ first .. s - 1 \subseteq 1 .. Len(path) /\ s + 1 .. f \subseteq 1 .. Len(path)
      /\ c \in 1 .. Len(path)
    BY <1>1, <1>2, <1>3, <1>4, SMTT(60)
<1>7. whole[c] = path[c] /\ Position(whole, whole[c].kept) = first
    BY <1>1, <1>3, <1>6
<1>8. /\ IsTurnStart(whole[s]) /\ \A i \in first .. s - 1 : ~Summarizable(whole[i])
      /\ whole[f].id = cut.kept /\ \A i \in s + 1 .. f : ~IsTurnStart(whole[i])
    BY <1>1, <1>4, <1>5, <1>6
<1>9. SplitsKeptTurn(whole, cut, s)
    BY <1>2, <1>4, <1>6, <1>7, <1>8 DEF SplitsKeptTurn
<1>10. QED
    BY <1>6, <1>9 DEF whole

\* A prepared compaction still covers what it should when entries have been appended since.
LEMMA PreparedExtends ==
    ASSUME NEW E, NEW path \in Seq(E), NEW added \in Seq(E), NEW cut,
           \A i \in 1 .. Len(added) : added[i].kind # "compaction", LatestComplete(path),
           Covered(path, cut, StartsWith(path, cut))
    PROVE  Covered(path \o added, cut, StartsWith(path \o added, cut))
<1>1. /\ MemoryStarts(path) \subseteq Nat \ {0}
      /\ MemoryStarts(path) \subseteq MemoryStarts(path \o added)
    BY StartsExtend
<1>2. Splits(path, cut) \subseteq Splits(path \o added, cut)
    BY SplitsExtend
<1>3. Splits(path, cut) \subseteq Nat \ {0}
  <2>1. DOMAIN path \subseteq Nat \ {0}
      BY SMTT(60)
  <2> QED
      BY <2>1 DEF Splits
<1>4. /\ StartsWith(path, cut) \subseteq Nat \ {0}
      /\ StartsWith(path, cut) \subseteq StartsWith(path \o added, cut)
    BY <1>1, <1>2, <1>3 DEF StartsWith
<1>5. QED
    BY <1>4, CoveredExtends

\* Recording the compaction makes the turn that it splits one where the memory may begin.
LEMMA SplitRecorded ==
    ASSUME NEW E, NEW path \in Seq(E), NEW cut, NEW e \in E, e.kind = "compaction", e.kept = cut.kept
    PROVE  StartsWith(path, cut) \subseteq MemoryStarts(Append(path, e))
<1> DEFINE whole == Append(path, e)
           d == Len(path) + 1
<1>1. /\ whole = path \o <<e>> /\ <<e>> \in Seq(E) /\ DOMAIN path \subseteq DOMAIN whole
      /\ d \in DOMAIN whole /\ whole[d] = e
    BY SMTT(60)
<1>2. SubSeq(whole, 1, d - 1) = path
    BY SMTT(60)
<1>3. MemoryStarts(path) \subseteq MemoryStarts(whole)
  <2>1. MemoryStarts(path) \subseteq MemoryStarts(path \o <<e>>)
      BY <1>1, StartsExtend
  <2> QED
      BY <1>1, <2>1
<1>4. d \in Compactions(whole)
    BY <1>1 DEF Compactions
<1> HIDE DEF whole, d
<1>5. \A s : SplitsKeptTurn(path, cut, s) => SplitsKeptTurn(path, e, s)
    BY DEF SplitsKeptTurn
<1>6. \A s : SplitsKeptTurn(path, e, s) => SplitsKeptTurn(SubSeq(whole, 1, d - 1), whole[d], s)
    BY <1>1, <1>2
<1>7. Splits(path, cut) \subseteq MemoryStarts(whole)
    BY <1>1, <1>4, <1>5, <1>6 DEF Splits, MemoryStarts
<1>8. QED
    BY <1>3, <1>7 DEF StartsWith, whole

\* A compaction entry that records a prepared summary leaves what the summary leaves.
LEMMA LatestAppended ==
    ASSUME NEW E, NEW path \in Seq(E), NEW cut, Covered(path, cut, StartsWith(path, cut)),
           NEW e \in E, e.kind = "compaction", e.kept = cut.kept, e.covers = cut.covers
    PROVE  LatestComplete(Append(path, e))
<1> DEFINE whole == Append(path, e)
           d == LatestCompaction(whole)
<1>1. /\ whole \in Seq(E) /\ Len(path) \in Nat /\ Len(whole) = Len(path) + 1
      /\ whole[Len(path) + 1] = e /\ whole = path \o <<e>> /\ <<e>> \in Seq(E)
      /\ DOMAIN path \subseteq Nat \ {0}
    BY SMTT(60)
<1>2. d = Len(path) + 1
  <2>1. /\ d \in 0 .. Len(whole)
        /\ \A i \in 1 .. Len(whole) : whole[i].kind = "compaction" => i <= d
      BY <1>1, LatestIsLast
  <2> HIDE DEF whole, d
  <2>2. Len(path) + 1 <= d
      BY <1>1, <2>1, SMTT(60)
  <2> QED
      BY <1>1, <2>1, <2>2, SMTT(60)
<1>3. StartsWith(path, cut) \subseteq Nat \ {0} /\ StartsWith(path, cut) \subseteq MemoryStarts(whole)
  <2>1. MemoryStarts(path) \subseteq Nat \ {0}
      BY <1>1, StartsExtend
  <2>2. StartsWith(path, cut) \subseteq MemoryStarts(whole)
      BY SplitRecorded
  <2> QED
      BY <1>1, <2>1, <2>2 DEF StartsWith, Splits
<1>4. Covered(whole, cut, MemoryStarts(whole)) /\ Position(whole, cut.kept) = Position(path, cut.kept)
  <2>1. /\ Covered(path \o <<e>>, cut, MemoryStarts(whole))
        /\ Position(path \o <<e>>, cut.kept) = Position(path, cut.kept)
    <3>1. Position(path, cut.kept) # 0
        BY DEF Covered
    <3> QED
        BY <1>1, <1>3, <3>1, CoveredExtends, PositionExtends
  <2> QED
      BY <1>1, <2>1
<1>5. Position(path, cut.kept) \in 0 .. Len(path)
    BY PositionIsFirst
<1> HIDE DEF whole, d
<1>6. Covered(whole, e, MemoryStarts(whole))
    BY <1>4 DEF Covered
<1>7. Position(whole, e.kept) < d
    BY <1>1, <1>2, <1>4, <1>5, SMTT(60)
<1>8. QED
    BY <1>1, <1>2, <1>6, <1>7 DEF LatestComplete, whole, d

-----------------------------------------------------------------------------
(* The session.                                                            *)

EntryType == [id : Nat, kind : Kinds, stop : Stops \cup {""}, large : BOOLEAN, kept : Nat,
              covers : SUBSET Nat]

CutType == [kept : Nat, history : SUBSET Nat, prefix : SUBSET Nat, previous : SUBSET Nat]

Types ==
    /\ branch \in Seq(EntryType)
    /\ saving \in Seq(EntryType)
    /\ \A i \in 1 .. Len(saving) : saving[i].kind # "compaction"
    /\ pc = "persist" => Len(saving) = 1
    /\ bash \in Nat
    /\ prepared \in CutType

\* At most one of the three kinds of compaction is in progress, and none runs beside an agent
\* run or a prompt's checks.
OneAtATime ==
    /\ active \in BOOLEAN /\ waiting \in BOOLEAN
    /\ active <=> pc # "idle"
    /\ then \in {"poll", "stream"}
    /\ pre # "none" => pc = "idle" /\ manual = "none"
    /\ manual \in {"idle", "summarizing"} => pc = "idle" /\ pre = "none"
    /\ manual = "aborting" => pre = "none" /\ (waiting \/ pc = "idle")

\* The summary of a preparation will leave no gap.
Complete(path, preparation) == Covered(path, Summary(preparation), StartsWith(path, Summary(preparation)))

\* A compaction in progress has a preparation, and entries appended since it was made do not
\* make it incomplete.
Cuts ==
    /\ pc = "compacting" \/ pre = "compacting" \/ manual = "summarizing" => prepared # NothingToCompact
    /\ prepared # NothingToCompact => Complete(branch, prepared)
    /\ LatestComplete(branch)

IInv == Types /\ OneAtATime /\ Cuts

-----------------------------------------------------------------------------
\* The first kept entry is found in the part of the path before the compaction as well.
LEMMA PositionInPrefix ==
    ASSUME NEW E, NEW path \in Seq(E), NEW id, NEW n \in 0 .. Len(path),
           Position(path, id) # 0, Position(path, id) <= n
    PROVE  Position(SubSeq(path, 1, n), id) = Position(path, id)
<1> DEFINE s == SubSeq(path, 1, n)
           p == Position(path, id)
           q == Position(s, id)
<1>1. s \in Seq(E) /\ Len(s) = n /\ Len(path) \in Nat /\ \A i \in 1 .. n : s[i] = path[i]
    BY SMTT(60)
<1>2. /\ p \in 1 .. n /\ path[p].id = id
      /\ \A i \in 1 .. Len(path) : path[i].id = id => p <= i
    BY <1>1, PositionIsFirst, SMTT(60)
<1>3. /\ q \in 0 .. n
      /\ q # 0 => s[q].id = id
      /\ \A i \in 1 .. n : s[i].id = id => q # 0 /\ q <= i
    BY <1>1, PositionIsFirst
<1> HIDE DEF s, p, q
<1>4. q # 0 /\ q <= p
    BY <1>1, <1>2, <1>3
<1>5. path[q].id = id /\ q \in 1 .. Len(path)
    BY <1>1, <1>3, <1>4, SMTT(60)
<1>6. q = p
    BY <1>2, <1>4, <1>5, SMTT(60)
<1>7. QED
    BY <1>6 DEF s, p, q

\* buildContextEntries of a path with a compaction whose first kept entry is found.
LEMMA ContextOfCompacted ==
    ASSUME NEW path, NEW c, NEW p, c = LatestCompaction(path), c # 0, p # 0,
           Position(SubSeq(path, 1, c - 1), path[c].kept) = p
    PROVE  ContextEntries(path) = <<path[c]>> \o SubSeq(path, p, c - 1) \o SubSeq(path, c + 1, Len(path))
    BY DEF ContextEntries

\* From where the latest compaction covers the session on, nothing is outside both the context
\* and the summary.
LEMMA CompleteHasNoGap ==
    ASSUME branch \in Seq(EntryType), LatestComplete(branch)
    PROVE  SummaryHasNoGap
<1> DEFINE c == LatestCompaction(branch)
           p == Position(branch, branch[c].kept)
<1> SUFFICES ASSUME c # 0
             PROVE  \E s \in MemoryStarts(branch) : \A i \in s .. c - 1 : Summarizable(branch[i]) =>
                        branch[i] \in Range(ContextEntries(branch)) \/ branch[i].id \in branch[c].covers
    BY DEF SummaryHasNoGap
<1>1. c \in 1 .. Len(branch) /\ Len(branch) \in Nat
    BY LatestIsLast, SMTT(60)
<1>2. Covered(branch, branch[c], MemoryStarts(branch)) /\ p < c
    BY DEF LatestComplete
<1>3. p \in 1 .. c - 1
    BY <1>1, <1>2, PositionIsFirst, SMTT(60) DEF Covered
<1>4. PICK s \in MemoryStarts(branch) : \A i \in s .. p - 1 :
          Summarizable(branch[i]) => branch[i].id \in branch[c].covers
    BY <1>2 DEF Covered
<1>5. s \in Nat \ {0}
  <2>1. <<>> \in Seq(EntryType)
      BY SMTT(60)
  <2> QED
      BY <2>1, StartsExtend
<1> SUFFICES ASSUME NEW i \in s .. c - 1, Summarizable(branch[i])
             PROVE  branch[i] \in Range(ContextEntries(branch)) \/ branch[i].id \in branch[c].covers
    OBVIOUS
<1>6. CASE i < p
  <2>1. i \in s .. p - 1
      BY <1>3, <1>5, <1>6, SMTT(60)
  <2> QED
      BY <1>4, <2>1
<1>7. CASE i >= p
  <2>1. Position(SubSeq(branch, 1, c - 1), branch[c].kept) = p
      BY <1>1, <1>3, PositionInPrefix, SMTT(60)
  <2>2. ContextEntries(branch)
          = <<branch[c]>> \o SubSeq(branch, p, c - 1) \o SubSeq(branch, c + 1, Len(branch))
    <3>1. p # 0
        BY <1>3, SMTT(60)
    <3> QED
        BY <2>1, <3>1, ContextOfCompacted
  <2> DEFINE kept == SubSeq(branch, p, c - 1)
             rest == SubSeq(branch, c + 1, Len(branch))
  <2> HIDE DEF c, p
  <2>3. /\ kept \in Seq(EntryType) /\ Len(kept) = c - p
        /\ \A k \in 1 .. c - p : kept[k] = branch[p + k - 1]
      BY <1>1, <1>3, SMTT(60)
  <2>4. rest \in Seq(EntryType)
      BY <1>1, SMTT(60)
  <2>5. i - p + 1 \in 1 .. c - p /\ kept[i - p + 1] = branch[i]
      BY <1>1, <1>3, <1>5, <1>7, <2>3, SMTT(60)
  <2>6. branch[c] \in EntryType
      BY <1>1, SMTT(60)
  <2> DEFINE whole == <<branch[c]>> \o kept \o rest
  <2> HIDE DEF kept, rest
  <2>7. whole[i - p + 2] = branch[i] /\ i - p + 2 \in DOMAIN whole
      BY <1>1, <1>3, <2>3, <2>4, <2>5, <2>6, SMTT(60)
  <2>8. branch[i] \in Range(whole)
      BY <2>7 DEF Range
  <2> QED
      BY <2>2, <2>8 DEF kept, rest, c
<1>8. QED
    BY <1>1, <1>3, <1>5, <1>6, <1>7, SMTT(60)

-----------------------------------------------------------------------------
(* What the steps have in common.                                          *)

\* The fields of an entry.
LEMMA EntryFields ==
    ASSUME NEW e \in EntryType
    PROVE  e.id \in Nat /\ e.kept \in Nat /\ e.covers \subseteq Nat
    BY DEF EntryType

\* The number of the next entry, and of those after it.
LEMMA NextIdNat ==
    ASSUME Types
    PROVE  NextId \in Nat /\ \A k \in Nat : NextId + k \in Nat
<1>1. Len(branch) \in Nat /\ Len(saving) \in Nat
    BY SMTT(60) DEF Types
<1>2. QED
    BY <1>1, SMTT(60) DEF NextId

\* A new entry is well formed.
LEMMA NewEntry ==
    ASSUME NEW n \in Nat, NEW kind \in Kinds, NEW stop \in Stops \cup {""}, NEW large \in BOOLEAN
    PROVE  Entry(n, kind, stop, large) \in EntryType /\ Entry(n, kind, stop, large).kind = kind
    BY DEF Entry, EntryType

\* Appending messages and metadata to the session preserves what the cuts say.
LEMMA AppendKeepsCuts ==
    ASSUME Types, Cuts, NEW q \in Seq(EntryType), \A i \in 1 .. Len(q) : q[i].kind # "compaction"
    PROVE  /\ branch \o q \in Seq(EntryType)
           /\ LatestComplete(branch \o q)
           /\ prepared # NothingToCompact => Complete(branch \o q, prepared)
<1>1. branch \in Seq(EntryType) /\ LatestComplete(branch)
    BY DEF Types, Cuts
<1>2. branch \o q \in Seq(EntryType)
    BY <1>1, SMTT(60)
<1>3. LatestComplete(branch \o q)
    BY <1>1, LatestExtends
<1>4. prepared # NothingToCompact => Complete(branch \o q, prepared)
    BY <1>1, PreparedExtends DEF Cuts, Complete
<1>5. QED
    BY <1>2, <1>3, <1>4

\* _flushPendingBashMessages appends shell results only.
LEMMA FlushAppends ==
    ASSUME Types, Cuts, FlushPendingBashMessages
    PROVE  /\ branch' \in Seq(EntryType) /\ bash' \in Nat
           /\ LatestComplete(branch')
           /\ prepared # NothingToCompact => Complete(branch', prepared)
<1> DEFINE flushed == [i \in 1 .. bash |-> Entry(NextId + i - 1, "bash", "", FALSE)]
<1>1. \A i \in 1 .. bash :
          flushed[i] \in EntryType /\ flushed[i].kind # "compaction"
  <2> SUFFICES ASSUME NEW i \in 1 .. bash PROVE flushed[i] \in EntryType /\ flushed[i].kind # "compaction"
      OBVIOUS
  <2>1. bash \in Nat /\ i - 1 \in Nat
      BY SMTT(60) DEF Types
  <2>2. "bash" \in Kinds /\ "" \in Stops \cup {""} /\ FALSE \in BOOLEAN
      BY DEF Kinds
  <2>3. NextId + i - 1 \in Nat
      BY <2>1, NextIdNat
  <2>4. /\ Entry(NextId + i - 1, "bash", "", FALSE) \in EntryType
        /\ Entry(NextId + i - 1, "bash", "", FALSE).kind = "bash"
      BY <2>2, <2>3, NewEntry
  <2> QED
      BY <2>4
<1>2. bash \in Nat
    BY DEF Types
<1> HIDE DEF flushed
<1>3. flushed \in Seq(EntryType) /\ Len(flushed) = bash
  <2>1. DOMAIN flushed = 1 .. bash /\ flushed = [i \in 1 .. bash |-> flushed[i]]
      BY DEF flushed
  <2>2. flushed \in [1 .. bash -> EntryType]
      BY <1>1, <2>1
  <2> QED
      BY <1>2, <2>2, SMTT(60)
<1>4. branch' = branch \o flushed /\ bash' = 0
    BY DEF FlushPendingBashMessages, flushed
<1>5. QED
    BY <1>1, <1>3, <1>4, AppendKeepsCuts

\* A preparation made from a session whose latest compaction is complete is complete.
LEMMA PrepareKeepsCuts ==
    ASSUME Types, Cuts
    PROVE  /\ Prepare(branch, KeepRecent) \in CutType
           /\ Prepare(branch, KeepRecent) # NothingToCompact
                => Complete(branch, Prepare(branch, KeepRecent))
<1> DEFINE cut == Prepare(branch, KeepRecent)
           c == LatestCompaction(branch)
           start == BoundaryStart(branch)
           first == FirstKept(branch, start, KeepRecent)
           history == History(branch, start, first)
           prefix == TurnPrefix(branch, start, first)
           previous == IF c = 0 THEN {} ELSE branch[c].covers
<1>1. branch \in Seq(EntryType) /\ LatestComplete(branch) /\ KeepRecent \in Nat
    BY SessionBounds DEF Types, Cuts
<1>2. CASE cut = NothingToCompact
    BY <1>2, SMTT(60) DEF NothingToCompact, CutType
<1>3. CASE cut # NothingToCompact
  <2>1. Complete(branch, cut)
      BY <1>1, <1>3, CompactLeavesNoGap DEF Complete
  <2>2. \A i \in 1 .. Len(branch) : branch[i].id \in Nat /\ branch[i].covers \subseteq Nat
    <3>1. \A i \in 1 .. Len(branch) : branch[i] \in EntryType
        BY <1>1, SMTT(60)
    <3> QED
        BY <3>1, EntryFields
  <2>3. /\ c \in 0 .. Len(branch) /\ Len(branch) \in Nat \ {0}
        /\ start \in 1 .. Len(branch) /\ first \in start .. Len(branch)
        /\ cut = [kept |-> branch[first].id, history |-> history, prefix |-> prefix, previous |-> previous]
      BY <1>1, <1>3, PrepareReturns
  <2>4. /\ history \subseteq {branch[i].id : i \in 1 .. Len(branch)}
        /\ prefix \subseteq {branch[i].id : i \in 1 .. Len(branch)}
      BY <1>1, <2>3, SummarizedOnPath
  <2> HIDE DEF history, prefix, first, start, c
  <2>5. history \subseteq Nat /\ prefix \subseteq Nat
      BY <2>2, <2>4
  <2>6. previous \subseteq Nat
      BY <2>2, <2>3, SMTT(60)
  <2>7. branch[first].id \in Nat
    <3>1. first \in 1 .. Len(branch)
        BY <2>3, SMTT(60)
    <3> QED
        BY <2>2, <3>1
  <2> HIDE DEF cut, previous
  <2>8. cut \in CutType
      BY <2>3, <2>5, <2>6, <2>7 DEF CutType
  <2> QED
      BY <2>1, <2>8 DEF cut
<1>4. QED
    BY <1>2, <1>3

\* appendCompaction records the preparation it is given.
LEMMA AppendCompactionKeepsCuts ==
    ASSUME Types, Cuts, prepared # NothingToCompact, AppendCompaction
    PROVE  branch' \in Seq(EntryType) /\ LatestComplete(branch')
<1> DEFINE e == [Entry(NextId, "compaction", "", FALSE) EXCEPT
                        !.kept = prepared.kept, !.covers = SummaryCovers(prepared)]
<1>1. "compaction" \in Kinds /\ "" \in Stops \cup {""} /\ FALSE \in BOOLEAN /\ 0 \in Nat
    BY DEF Kinds
<1>2. NextId \in Nat
    BY NextIdNat
<1>a. prepared.kept \in Nat /\ SummaryCovers(prepared) \subseteq Nat
    BY DEF Types, CutType, SummaryCovers
<1>3. /\ e \in EntryType /\ e.kind = "compaction"
      /\ e.kept = prepared.kept /\ e.covers = SummaryCovers(prepared)
    BY <1>1, <1>2, <1>a DEF EntryType, Entry
<1>b. Summary(prepared).kept = prepared.kept /\ Summary(prepared).covers = SummaryCovers(prepared)
    BY DEF Summary
<1>4. branch \in Seq(EntryType) /\ Complete(branch, prepared) /\ branch' = Append(branch, e)
    BY DEF Types, Cuts, AppendCompaction
<1> HIDE DEF e
<1>5. LatestComplete(Append(branch, e))
    BY <1>3, <1>4, <1>b, LatestAppended DEF Complete
<1>6. QED
    BY <1>3, <1>4, <1>5, SMTT(60)

-----------------------------------------------------------------------------
(* The steps.                                                              *)

Compacting(p, q, m) == p = "compacting" \/ q = "compacting" \/ m = "summarizing"

\* A step that leaves the session and the preparation alone, and starts no compaction.
LEMMA Unmoved ==
    ASSUME Types, Cuts, UNCHANGED <<branch, saving, bash, prepared>>,
           pc' = "persist" => pc = "persist", Compacting(pc', pre', manual') => Compacting(pc, pre, manual)
    PROVE  Types' /\ Cuts'
<1>1. Types'
    BY DEF Types
<1>2. Cuts'
    BY DEF Cuts, Compacting
<1>3. QED
    BY <1>1, <1>2

\* A step that gives up the preparation.
LEMMA GivenUp ==
    ASSUME Types, Cuts, UNCHANGED <<branch, saving, bash>>, prepared' = NothingToCompact,
           pc' = "persist" => pc = "persist", ~Compacting(pc', pre', manual')
    PROVE  Types' /\ Cuts'
<1>1. NothingToCompact \in CutType
    BY DEF NothingToCompact, CutType
<1>2. Types'
    BY <1>1 DEF Types
<1>3. Cuts'
    BY DEF Cuts, Compacting
<1>4. QED
    BY <1>2, <1>3

\* What `saving' holds while a message is being saved, and otherwise.
LEMMA SavingHolds ==
    ASSUME NEW e \in EntryType, e.kind # "compaction"
    PROVE  /\ <<e>> \in Seq(EntryType) /\ Len(<<e>>) = 1
           /\ \A i \in 1 .. Len(<<e>>) : <<e>>[i].kind # "compaction"
           /\ <<>> \in Seq(EntryType)
           /\ \A i \in 1 .. Len(<<>>) : <<>>[i].kind # "compaction"
    BY SMTT(60)

\* A step that pushes a message to the transcript.
LEMMA Pushed ==
    ASSUME Types, Cuts, NEW kind \in Kinds \ {"compaction"}, NEW stop \in Stops \cup {""}, NEW large \in BOOLEAN,
           Push(Entry(NextId, kind, stop, large)), UNCHANGED <<bash, prepared, pre, manual>>
    PROVE  Types' /\ Cuts'
<1> DEFINE e == Entry(NextId, kind, stop, large)
<1>1. e \in EntryType /\ e.kind # "compaction"
    BY NextIdNat, NewEntry
<1>2. saving' = <<e>> /\ branch' = branch /\ pc' = "persist"
    BY DEF Push
<1> HIDE DEF e
<1>3. saving' \in Seq(EntryType) /\ Len(saving') = 1 /\ \A i \in 1 .. Len(saving') : saving'[i].kind # "compaction"
  <2>1. /\ <<e>> \in Seq(EntryType) /\ Len(<<e>>) = 1
        /\ \A i \in 1 .. Len(<<e>>) : <<e>>[i].kind # "compaction"
      BY <1>1, SavingHolds
  <2> QED
      BY <1>2, <2>1
<1>4. Types'
    BY <1>2, <1>3 DEF Types
<1>5. Cuts'
    BY <1>2 DEF Cuts
<1>6. QED
    BY <1>4, <1>5

\* A step that appends one message or metadata entry to the session.
LEMMA Appended ==
    ASSUME Types, Cuts, NEW e \in EntryType, e.kind # "compaction", branch' = Append(branch, e),
           saving' = saving \/ saving' = <<>>, UNCHANGED <<bash, prepared, pre, manual>>,
           pc' = "persist" => pc = "persist" /\ saving' = saving, pc' = "compacting" => pc = "compacting"
    PROVE  Types' /\ Cuts'
<1>1. <<e>> \in Seq(EntryType) /\ \A i \in 1 .. Len(<<e>>) : <<e>>[i].kind # "compaction"
    BY SMTT(60)
<1>2. branch' = branch \o <<e>>
    BY SMTT(60) DEF Types
<1>3. /\ branch' \in Seq(EntryType) /\ LatestComplete(branch')
      /\ prepared # NothingToCompact => Complete(branch', prepared)
    BY <1>1, <1>2, AppendKeepsCuts
<1>4. saving' \in Seq(EntryType) /\ \A i \in 1 .. Len(saving') : saving'[i].kind # "compaction"
  <2>1. CASE saving' = saving
      BY <2>1 DEF Types
  <2>2. CASE saving' = <<>>
      BY <2>2, SavingHolds
  <2> QED
      BY <2>1, <2>2
<1>5. Types'
    BY <1>3, <1>4 DEF Types
<1>6. Cuts'
    BY <1>3 DEF Cuts
<1>7. QED
    BY <1>5, <1>6

\* A step that flushes shell results and starts nothing.
LEMMA Flushed ==
    ASSUME Types, Cuts, FlushPendingBashMessages, UNCHANGED <<saving, prepared>>,
           pc' = "persist" => pc = "persist", Compacting(pc', pre', manual') => Compacting(pc, pre, manual)
    PROVE  Types' /\ Cuts'
<1>1. /\ branch' \in Seq(EntryType) /\ bash' \in Nat /\ LatestComplete(branch')
      /\ prepared # NothingToCompact => Complete(branch', prepared)
    BY FlushAppends
<1>2. Types'
    BY <1>1 DEF Types
<1>3. Cuts'
    BY <1>1 DEF Cuts, Compacting
<1>4. QED
    BY <1>2, <1>3

\* A step that may prepare a compaction and starts one only with a preparation.
LEMMA Prepared ==
    ASSUME Types, Cuts, UNCHANGED <<branch, saving, bash>>,
           prepared' = prepared \/ prepared' = Prepare(branch, KeepRecent),
           pc' # "persist", Compacting(pc', pre', manual') => prepared' # NothingToCompact
    PROVE  Types' /\ Cuts'
<1>1. prepared' \in CutType /\ (prepared' # NothingToCompact => Complete(branch, prepared'))
  <2>1. CASE prepared' = prepared
      BY <2>1 DEF Types, Cuts
  <2>2. CASE prepared' = Prepare(branch, KeepRecent)
      BY <2>2, PrepareKeepsCuts
  <2> QED
      BY <2>1, <2>2
<1>2. Types'
    BY <1>1 DEF Types
<1>3. Cuts'
    BY <1>1 DEF Cuts, Compacting
<1>4. QED
    BY <1>2, <1>3

\* A step that appends the prepared compaction.
LEMMA Recorded ==
    ASSUME Types, Cuts, Compacting(pc, pre, manual), AppendCompaction, UNCHANGED <<saving, bash>>,
           prepared' = NothingToCompact, pc' # "persist", ~Compacting(pc', pre', manual')
    PROVE  Types' /\ Cuts'
<1>1. prepared # NothingToCompact
    BY DEF Cuts, Compacting
<1>2. branch' \in Seq(EntryType) /\ LatestComplete(branch')
    BY <1>1, AppendCompactionKeepsCuts
<1>3. NothingToCompact \in CutType
    BY DEF NothingToCompact, CutType
<1>4. Types'
    BY <1>2, <1>3 DEF Types
<1>5. Cuts'
    BY <1>2 DEF Cuts, Compacting
<1>6. QED
    BY <1>4, <1>5

\* The inductive step.
THEOREM InductiveStep == IInv /\ [Next]_vars => IInv'
<1> SUFFICES ASSUME IInv, [Next]_vars PROVE IInv'
    OBVIOUS
<1> USE DEF IInv
<1>1. ASSUME NEW t \in Texts, Prompt(t) PROVE IInv'
  <2>1. OneAtATime'
      BY <1>1 DEF OneAtATime, Prompt, Settled, transcript, loop, queues, control, calls
  <2>2. Types' /\ Cuts'
      BY <1>1, Flushed DEF Compacting, OneAtATime, Prompt, Settled, transcript, loop, queues, control, calls
  <2> QED
      BY <2>1, <2>2
<1>2. CASE PromptChecks
  <2>1. OneAtATime'
      BY <1>2 DEF OneAtATime, PromptChecks, CheckCompaction, transcript, loop, queues, control, calls
  <2>2. Types' /\ Cuts'
      BY <1>2, Prepared DEF Compacting, OneAtATime, PromptChecks, CheckCompaction, transcript, loop, queues, control, calls
  <2> QED
      BY <2>1, <2>2
<1>3. CASE RunAgentPrompt
  <2>1. OneAtATime'
      BY <1>3 DEF OneAtATime, RunAgentPrompt, transcript, loop, queues, control, calls
  <2>2. Types' /\ Cuts'
      BY <1>3, Unmoved DEF Compacting, OneAtATime, RunAgentPrompt, transcript, loop, queues, control, calls
  <2> QED
      BY <2>1, <2>2
<1>4. CASE UserMessage
  <2>1. OneAtATime'
      BY <1>4 DEF OneAtATime, UserMessage, Push, transcript, loop, queues, control, calls
  <2>a. Push(Entry(NextId, "user", "", FALSE)) /\ UNCHANGED <<bash, prepared, pre, manual>>
      BY <1>4 DEF UserMessage, Push, transcript, loop, queues, control, calls
  <2>b. "user" \in Kinds \ {"compaction"} /\ "" \in Stops \cup {""} /\ FALSE \in BOOLEAN
      BY DEF Kinds
  <2>2. Types' /\ Cuts'
      BY <2>a, <2>b, Pushed
  <2> QED
      BY <2>1, <2>2
<1>5. CASE ToolResult
  <2>1. OneAtATime'
      BY <1>5 DEF OneAtATime, ToolResult, Push, transcript, loop, queues, control, calls
  <2>a. Push(Entry(NextId, "toolResult", "", FALSE)) /\ UNCHANGED <<bash, prepared, pre, manual>>
      BY <1>5 DEF ToolResult, Push, transcript, loop, queues, control, calls
  <2>b. "toolResult" \in Kinds \ {"compaction"} /\ "" \in Stops \cup {""} /\ FALSE \in BOOLEAN
      BY DEF Kinds
  <2>2. Types' /\ Cuts'
      BY <2>a, <2>b, Pushed
  <2> QED
      BY <2>1, <2>2
<1>6. CASE MessageEnd
  <2>s. then \in {"poll", "stream"}
      BY DEF OneAtATime
  <2>u. pc' = CASE saving[1].kind = "user" -> then
                [] saving[1].kind = "toolResult" -> "poll"
                [] saving[1].stop = "toolUse" -> "tool"
                [] saving[1].stop \in Errors \cup {"aborted"} -> "ended"
                [] OTHER -> "poll"
      BY <1>6 DEF MessageEnd
  <2>t. pc' \in {"poll", "stream", "tool", "ended"}
      BY <2>s, <2>u
  <2>v. pc = "persist" /\ UNCHANGED <<then, active, pre, manual, waiting>>
      BY <1>6 DEF MessageEnd, calls
  <2>1. OneAtATime'
      BY <2>t, <2>v DEF OneAtATime
  <2>p. pc = "persist"
      BY <1>6 DEF MessageEnd
  <2>a. saving[1] \in EntryType /\ saving[1].kind # "compaction"
      BY <2>p, SMTT(60) DEF Types
  <2>b. /\ branch' = Append(branch, saving[1]) /\ saving' = <<>>
        /\ UNCHANGED <<bash, prepared, pre, manual>>
      BY <1>6 DEF MessageEnd, calls
  <2>c. pc' # "persist" /\ pc' # "compacting"
      BY <2>t
  <2>2. Types' /\ Cuts'
      BY <2>a, <2>b, <2>c, Appended
  <2> QED
      BY <2>1, <2>2
<1>7. CASE Poll
  <2>1. OneAtATime'
      BY <1>7 DEF OneAtATime, Poll, transcript, loop, queues, control, calls
  <2>2. Types' /\ Cuts'
      BY <1>7, Unmoved DEF Compacting, OneAtATime, Poll, transcript, loop, queues, control, calls
  <2> QED
      BY <2>1, <2>2
<1>8. ASSUME NEW stop \in Stops, NEW large \in BOOLEAN, Response(stop, large) PROVE IInv'
  <2>1. OneAtATime'
      BY <1>8 DEF OneAtATime, Response, Push, transcript, loop, queues, control, calls
  <2>a. Push(Entry(NextId, "assistant", stop, large)) /\ UNCHANGED <<bash, prepared, pre, manual>>
      BY <1>8 DEF Response, Push, transcript, loop, queues, control, calls
  <2>b. "assistant" \in Kinds \ {"compaction"} /\ stop \in Stops \cup {""}
      BY DEF Kinds
  <2>2. Types' /\ Cuts'
      BY <2>a, <2>b, Pushed
  <2> QED
      BY <2>1, <2>2
<1>9. CASE HandlePostAgentRun
  <2>1. OneAtATime'
      BY <1>9 DEF OneAtATime, HandlePostAgentRun, AfterRetry, CheckCompaction, Onwards, transcript, loop, queues, control, calls
  <2>2. Types' /\ Cuts'
      BY <1>9, Prepared DEF Compacting, OneAtATime, HandlePostAgentRun, AfterRetry, CheckCompaction, Onwards, transcript, loop, queues, control, calls
  <2> QED
      BY <2>1, <2>2
<1>10. CASE RetryElapses
  <2>1. OneAtATime'
      BY <1>10 DEF OneAtATime, RetryElapses, transcript, loop, queues, control, calls
  <2>2. Types' /\ Cuts'
      BY <1>10, Unmoved DEF Compacting, OneAtATime, RetryElapses, transcript, loop, queues, control, calls
  <2> QED
      BY <2>1, <2>2
<1>11. CASE RetryCancelled
  <2>1. OneAtATime'
      BY <1>11 DEF OneAtATime, RetryCancelled, AfterRetry, CheckCompaction, Onwards, transcript, loop, queues, control, calls
  <2>2. Types' /\ Cuts'
      BY <1>11, Prepared DEF Compacting, OneAtATime, RetryCancelled, AfterRetry, CheckCompaction, Onwards, transcript, loop, queues, control, calls
  <2> QED
      BY <2>1, <2>2
<1>12. CASE AutoCompacts
  <2>1. OneAtATime'
      BY <1>12 DEF OneAtATime, AutoCompacts, transcript, loop, queues, control, calls
  <2>2. Types' /\ Cuts'
      BY <1>12, Recorded DEF Compacting, OneAtATime, AutoCompacts, transcript, loop, queues, control, calls
  <2> QED
      BY <2>1, <2>2
<1>13. CASE AutoCompactionFails
  <2>1. OneAtATime'
      BY <1>13 DEF OneAtATime, AutoCompactionFails, Onwards, transcript, loop, queues, control, calls
  <2>2. Types' /\ Cuts'
      BY <1>13, GivenUp DEF Compacting, OneAtATime, AutoCompactionFails, Onwards, transcript, loop, queues, control, calls
  <2> QED
      BY <2>1, <2>2
<1>14. CASE Continue
  <2>1. OneAtATime'
      BY <1>14 DEF OneAtATime, Continue, transcript, loop, queues, control, calls
  <2>2. Types' /\ Cuts'
      BY <1>14, Unmoved DEF Compacting, OneAtATime, Continue, transcript, loop, queues, control, calls
  <2> QED
      BY <2>1, <2>2
<1>15. CASE Settle
  <2>1. OneAtATime'
      BY <1>15 DEF OneAtATime, Settle, transcript, loop, queues, control, calls
  <2>2. Types' /\ Cuts'
      BY <1>15, Flushed DEF Compacting, OneAtATime, Settle, transcript, loop, queues, control, calls
  <2> QED
      BY <2>1, <2>2
<1>16. CASE AgentSettled
  <2>1. OneAtATime'
      BY <1>16 DEF OneAtATime, AgentSettled, transcript, loop, queues, control, calls
  <2>2. Types' /\ Cuts'
      BY <1>16, Unmoved DEF Compacting, OneAtATime, AgentSettled, transcript, loop, queues, control, calls
  <2> QED
      BY <2>1, <2>2
<1>17. CASE CompactPrepares
  <2>1. OneAtATime'
      BY <1>17 DEF OneAtATime, CompactPrepares, transcript, loop, queues, control, calls
  <2>2. Types' /\ Cuts'
      BY <1>17, Prepared DEF Compacting, OneAtATime, CompactPrepares, transcript, loop, queues, control, calls
  <2> QED
      BY <2>1, <2>2
<1>18. CASE Compacts
  <2>1. OneAtATime'
      BY <1>18 DEF OneAtATime, Compacts, transcript, loop, queues, control, calls
  <2>2. Types' /\ Cuts'
      BY <1>18, Recorded DEF Compacting, OneAtATime, Compacts, transcript, loop, queues, control, calls
  <2> QED
      BY <2>1, <2>2
<1>19. CASE CompactFails
  <2>1. OneAtATime'
      BY <1>19 DEF OneAtATime, CompactFails, transcript, loop, queues, control, calls
  <2>2. Types' /\ Cuts'
      BY <1>19, GivenUp DEF Compacting, OneAtATime, CompactFails, transcript, loop, queues, control, calls
  <2> QED
      BY <2>1, <2>2
<1>20. ASSUME NEW t \in Texts, Steer(t) PROVE IInv'
  <2>1. OneAtATime'
      BY <1>20 DEF OneAtATime, Steer, transcript, loop, queues, control, calls
  <2>2. Types' /\ Cuts'
      BY <1>20, Unmoved DEF Compacting, OneAtATime, Steer, transcript, loop, queues, control, calls
  <2> QED
      BY <2>1, <2>2
<1>21. ASSUME NEW t \in Texts, FollowUp(t) PROVE IInv'
  <2>1. OneAtATime'
      BY <1>21 DEF OneAtATime, FollowUp, transcript, loop, queues, control, calls
  <2>2. Types' /\ Cuts'
      BY <1>21, Unmoved DEF Compacting, OneAtATime, FollowUp, transcript, loop, queues, control, calls
  <2> QED
      BY <2>1, <2>2
<1>22. CASE ClearQueue
  <2>1. OneAtATime'
      BY <1>22 DEF OneAtATime, ClearQueue, transcript, loop, queues, control, calls
  <2>2. Types' /\ Cuts'
      BY <1>22, Unmoved DEF Compacting, OneAtATime, ClearQueue, transcript, loop, queues, control, calls
  <2> QED
      BY <2>1, <2>2
<1>23. CASE Abort
  <2>1. OneAtATime'
      BY <1>23 DEF OneAtATime, Abort, StartAbort, transcript, loop, queues, control, calls
  <2>2. Types' /\ Cuts'
      BY <1>23, Unmoved DEF Compacting, OneAtATime, Abort, StartAbort, transcript, loop, queues, control, calls
  <2> QED
      BY <2>1, <2>2
<1>24. CASE Compact
  <2>1. OneAtATime'
      BY <1>24 DEF OneAtATime, Compact, StartAbort, transcript, loop, queues, control, calls
  <2>2. Types' /\ Cuts'
      BY <1>24, Unmoved DEF Compacting, OneAtATime, Compact, StartAbort, transcript, loop, queues, control, calls
  <2> QED
      BY <2>1, <2>2
<1>25. CASE RecordBashResult
  <2>1. OneAtATime'
      BY <1>25 DEF OneAtATime, RecordBashResult, transcript, loop, queues, control, calls
  <2>a. Entry(NextId, "bash", "", FALSE) \in EntryType /\ Entry(NextId, "bash", "", FALSE).kind # "compaction"
    <3>1. "bash" \in Kinds /\ "" \in Stops \cup {""} /\ FALSE \in BOOLEAN
        BY DEF Kinds
    <3> QED
        BY <3>1, NextIdNat, NewEntry
  <2>b. UNCHANGED <<saving, prepared, pc, pre, manual>>
      BY <1>25 DEF RecordBashResult, transcript, loop, queues, control, calls
  <2>2. Types' /\ Cuts'
    <3>c. CASE active
      <4>1. bash' = bash + 1 /\ branch' = branch
          BY <1>25, <3>c DEF RecordBashResult
      <4>2. Types'
          BY <2>b, <4>1, SMTT(60) DEF Types
      <4>3. Cuts'
          BY <2>b, <4>1 DEF Cuts
      <4> QED
          BY <4>2, <4>3
    <3>d. CASE ~active
      <4>1. branch' = Append(branch, Entry(NextId, "bash", "", FALSE)) /\ bash' = bash
          BY <1>25, <3>d DEF RecordBashResult
      <4> QED
          BY <2>a, <2>b, <4>1, Appended
    <3> QED
        BY <3>c, <3>d
  <2> QED
      BY <2>1, <2>2
<1>26. CASE SetThinkingLevel
  <2>1. OneAtATime'
      BY <1>26 DEF OneAtATime, SetThinkingLevel, transcript, loop, queues, control, calls
  <2>a. Entry(NextId, "meta", "", FALSE) \in EntryType /\ Entry(NextId, "meta", "", FALSE).kind # "compaction"
    <3>1. "meta" \in Kinds /\ "" \in Stops \cup {""} /\ FALSE \in BOOLEAN
        BY DEF Kinds
    <3> QED
        BY <3>1, NextIdNat, NewEntry
  <2>b. branch' = Append(branch, Entry(NextId, "meta", "", FALSE)) /\ UNCHANGED <<saving, prepared, pc, pre, manual, bash>>
      BY <1>26 DEF SetThinkingLevel, transcript, loop, queues, control, calls
  <2>2. Types' /\ Cuts'
      BY <2>a, <2>b, Appended
  <2> QED
      BY <2>1, <2>2
<1>27. CASE UNCHANGED vars
  <2>1. OneAtATime'
      BY <1>27 DEF OneAtATime, vars, transcript, loop, queues, control, calls
  <2>2. Types' /\ Cuts'
      BY <1>27, Unmoved DEF Compacting, vars, transcript, loop, queues, control, calls
  <2> QED
      BY <2>1, <2>2
<1>28. QED
    BY <1>1, <1>2, <1>3, <1>4, <1>5, <1>6, <1>7, <1>8, <1>9, <1>10, <1>11, <1>12, <1>13, <1>14, <1>15, <1>16, <1>17, <1>18, <1>19, <1>20, <1>21, <1>22, <1>23, <1>24, <1>25, <1>26, <1>27
    DEF Next, System, Callers

\* Whatever prompts, retries, compactions and calls happen, what the session remembers has no gap,
\* and its beginning only moves to a turn that one compaction kept from its start and the next one
\* split (prepareCompaction, compact, appendCompaction and buildContextEntries together).
THEOREM CompactionLeavesNoGap == Spec => []SummaryHasNoGap
<1>1. Init => IInv
  <2> SUFFICES ASSUME Init PROVE IInv
      OBVIOUS
  <2>1. Types
      BY SMTT(60) DEF Init, Types, NothingToCompact, CutType
  <2>2. OneAtATime
      BY DEF Init, OneAtATime
  <2>3. LatestCompaction(branch) = 0
      BY SMTT(60) DEF Init, LatestCompaction, Compactions
  <2>4. Cuts
      BY <2>3 DEF Init, Cuts, LatestComplete
  <2> QED
      BY <2>1, <2>2, <2>4 DEF IInv
<1>2. IInv /\ [Next]_vars => IInv'
    BY InductiveStep
<1>3. IInv => SummaryHasNoGap
    BY CompleteHasNoGap DEF IInv, Types, Cuts
<1>4. QED
    BY <1>1, <1>2, <1>3, PTL DEF Spec
==============================================================================
