----------------------------- MODULE Compaction -----------------------------
(***************************************************************************)
(* compaction.ts and session-manager.ts of the coding agent as operators:   *)
(* where a session is cut, what is handed to the summarizer, and which      *)
(* entries make up the context afterwards.  A path is the sequence of       *)
(* entries from the root to the leaf.  Positions count from 1; an absent    *)
(* one is 0.  Sizes are in units of one message.  Metadata (model, thinking *)
(* level) is no message and a response that failed has no text: both weigh  *)
(* nothing, but only the metadata is invisible to the model.                *)
(***************************************************************************)
EXTENDS Integers, Sequences, FiniteSets, FiniteSetsExt

Kinds == {"user", "assistant", "toolResult", "bash", "meta", "compaction"}

\* sessionEntryToContextMessages(entry) is not empty.
Visible(entry) == entry.kind # "meta"

\* The ways a response fails (stopReason "error", told apart by the error's text).
Errors == {"retryable", "overflow", "fatal"}

\* estimateTokens over the entry's messages.
Tokens(entry) == IF Visible(entry) /\ entry.stop \notin Errors THEN 1 ELSE 0

\* The cut point test that lets a tool result start the kept part.
MutIsCutPoint(entry) == entry.kind \in {"user", "assistant", "bash", "toolResult"}

IsCutPoint(entry) == entry.kind \in {"user", "assistant", "bash"}

IsTurnStart(entry) == entry.kind \in {"user", "bash"}

Compactions(path) == {i \in DOMAIN path : path[i].kind = "compaction"}

\* getLatestCompactionEntry, as a position.
LatestCompaction(path) == IF Compactions(path) = {} THEN 0 ELSE Max(Compactions(path))

\* findIndex of an entry id, 0 when the path does not have it.
Position(path, id) ==
    LET found == {i \in DOMAIN path : path[i].id = id}
    IN  IF found = {} THEN 0 ELSE Min(found)

\* buildContextEntries
ContextEntries(path) ==
    LET c == LatestCompaction(path)
        first == Position(SubSeq(path, 1, c - 1), path[c].kept)
        kept == IF first = 0 THEN <<>> ELSE SubSeq(path, first, c - 1)
    IN  IF c = 0 THEN path ELSE <<path[c]>> \o kept \o SubSeq(path, c + 1, Len(path))

\* buildSessionContext
Context(path) == SelectSeq(ContextEntries(path), Visible)

-----------------------------------------------------------------------------
\* findValidCutPoints
CutPoints(path, start) == {i \in start .. Len(path) : IsCutPoint(path[i])}

\* Where the walk from the newest entry has seen keepRecentTokens, 0 if it never does.
BudgetReached(path, start, keepRecent) ==
    LET reached == {i \in start .. Len(path) :
                        /\ Tokens(path[i]) # 0
                        /\ Cardinality({j \in i .. Len(path) : Tokens(path[j]) # 0}) >= keepRecent}
    IN  IF reached = {} THEN 0 ELSE Max(reached)

\* The cut before metadata is taken in: the first cut point from where the budget is reached on,
\* or the oldest one.
CutIndex(path, start, keepRecent) ==
    LET points == CutPoints(path, start)
        reached == BudgetReached(path, start, keepRecent)
        after == {c \in points : c >= reached}
    IN  IF reached = 0 \/ after = {} THEN Min(points) ELSE Min(after)

\* firstKeptEntryIndex of findCutPoint: metadata right before the cut is kept with it.
FirstKept(path, start, keepRecent) ==
    IF CutPoints(path, start) = {} THEN start
    ELSE LET cut == CutIndex(path, start, keepRecent)
         IN  Min({k \in start .. cut : \A j \in k .. cut - 1 : ~Visible(path[j])})

\* turnStartIndex of findCutPoint, 0 when the cut is not inside a turn.
TurnStart(path, start, first) ==
    LET starts == {i \in start .. first : IsTurnStart(path[i])}
    IN  IF CutPoints(path, start) = {} \/ IsTurnStart(path[first]) \/ starts = {} THEN 0 ELSE Max(starts)

\* The boundary that starts after the previous compaction.
MutBoundaryStart(path) == LatestCompaction(path) + 1

\* boundaryStart of prepareCompaction: what the previous compaction kept is looked at again.
BoundaryStart(path) ==
    LET c == LatestCompaction(path)
        first == Position(path, path[c].kept)
    IN  IF c = 0 THEN 1 ELSE IF first # 0 THEN first ELSE c + 1

\* getMessageFromEntryForCompaction(entry) is a message.
Summarizable(entry) == Visible(entry) /\ entry.kind # "compaction"

\* The messages at some positions of a path, as ids.
Messages(path, positions) == {path[i].id : i \in {j \in positions : Summarizable(path[j])}}

\* messagesToSummarize: up to the turn that is split, or up to what is kept.
History(path, start, first) ==
    LET turn == TurnStart(path, start, first)
    IN  Messages(path, start .. (IF turn = 0 THEN first ELSE turn) - 1)

\* turnPrefixMessages: the part of a split turn that is not kept.
TurnPrefix(path, start, first) ==
    LET turn == TurnStart(path, start, first)
    IN  IF turn = 0 THEN {} ELSE Messages(path, turn .. first - 1)

NothingToCompact == [kept |-> 0, history |-> {}, prefix |-> {}, previous |-> {}]

\* prepareCompaction: what to keep, what to summarize, and the previous summary (by what it covers).
Prepare(path, keepRecent) ==
    LET c == LatestCompaction(path)
        start == BoundaryStart(path)
        first == FirstKept(path, start, keepRecent)
        history == History(path, start, first)
        prefix == TurnPrefix(path, start, first)
    IN  IF path = <<>> \/ c = Len(path) \/ history \cup prefix = {} THEN NothingToCompact
        ELSE [kept |-> path[first].id, history |-> history, prefix |-> prefix,
              previous |-> IF c = 0 THEN {} ELSE path[c].covers]

\* compact: the messages its summary is made from.  The previous summary goes in with the history;
\* a split turn without history is summarized alone ("No prior history.").
SummaryCovers(preparation) ==
    IF preparation.prefix # {} /\ preparation.history = {} THEN preparation.prefix
    ELSE preparation.history \cup preparation.prefix \cup preparation.previous
=============================================================================
