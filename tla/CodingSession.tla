---------------------------- MODULE CodingSession ----------------------------
(***************************************************************************)
(* AgentSession of the coding agent (agent-session.ts): it runs the agent,  *)
(* retries failed responses, compacts the session and continues, keeps the  *)
(* agent's transcript (agent.state.messages) in step with the session file, *)
(* holds back shell results while a run is active, mirrors the agent's      *)
(* queues for the interface, and tells its callers when it is idle.         *)
(*                                                                         *)
(* The agent below it is reduced to what AgentSession sees of it: which     *)
(* message comes next and when queues are polled (module AgentLoop has the  *)
(* rest).  Each await of the code ends a step.  prompt() and compact() are  *)
(* called one at a time; every other method may be called in between.       *)
(***************************************************************************)
EXTENDS Compaction

CONSTANTS
    Texts,        \* what users type; equal texts are the interesting case for the mirrors
    KeepRecent,   \* keepRecentTokens, in messages
    MaxRetries,   \* settings.retry.maxRetries
    MaxPrompts,   \* bound: calls of prompt()
    MaxEvents     \* bound: other calls, and responses that are not a plain, small answer

ASSUME SessionBounds ==
    /\ KeepRecent \in Nat \ {0}
    /\ {MaxRetries, MaxPrompts, MaxEvents} \subseteq Nat

VARIABLES
    branch,       \* the session's path, a sequence of entries
    messages,     \* agent.state.messages, the entries they come from
    pc,           \* where the run is
    saving,       \* <<m>> while a message_end is with the extensions, else <<>>
    draft,        \* the user message about to start
    then,         \* where the loop goes once that message is persisted
    more,         \* the loop owes the model a request
    aborted,      \* the run's AbortSignal
    steering, followUp,      \* the agent's queues
    steeringMirror, followUpMirror,   \* _steeringMessages and _followUpMessages
    active,       \* _isAgentRunActive
    last,         \* _lastAssistantMessage as <<>> or <<m>>
    retryAttempt, \* _retryAttempt
    recovered,    \* _overflowRecoveryAttempted
    prepared,     \* the preparation of the compaction in progress
    willRetry,    \* its willRetry
    pre,          \* where prompt() is before its run
    manual,       \* where compact() is
    settling,     \* agent_settled emissions in progress
    waiting,      \* _idleWaitPromise is pending
    bash,         \* how many shell results wait in _pendingBashMessages
    used          \* bound: calls so far

transcript == <<branch, messages, saving>>
loop == <<pc, draft, then, more, aborted>>
queues == <<steering, followUp, steeringMirror, followUpMirror>>
control == <<last, retryAttempt, recovered, prepared, willRetry>>
calls == <<active, pre, manual, settling, waiting>>
vars == <<transcript, loop, queues, control, calls, bash, used>>

Stops == {"stop", "toolUse", "length", "retryable", "overflow", "fatal", "aborted"}

Bound == [prompt |-> MaxPrompts, event |-> MaxEvents]

Use(c) == used[c] < Bound[c] /\ used' = [used EXCEPT ![c] = @ + 1]

\* An entry with the next id.
Entry(n, kind, stop, large) ==
    [id |-> n, kind |-> kind, stop |-> stop, large |-> large, kept |-> 0, covers |-> {}]

\* Entries are numbered by creation; one that is being saved has its number already.
NextId == Len(branch) + Len(saving) + 1

Init ==
    /\ branch = <<>> /\ messages = <<>> /\ saving = <<>>
    /\ pc = "idle" /\ draft = <<>> /\ then = "poll" /\ more = FALSE /\ aborted = FALSE
    /\ steering = <<>> /\ followUp = <<>> /\ steeringMirror = <<>> /\ followUpMirror = <<>>
    /\ active = FALSE /\ last = <<>> /\ retryAttempt = 0 /\ recovered = FALSE
    /\ prepared = NothingToCompact /\ willRetry = FALSE
    /\ pre = "none" /\ manual = "none" /\ settling = 0 /\ waiting = FALSE
    /\ bash = 0
    /\ used = [c \in DOMAIN Bound |-> 0]

-----------------------------------------------------------------------------
(* Helpers.                                                                *)

Queued == steering # <<>> \/ followUp # <<>>

\* Post-run decisions are taken without an await: nothing is called in between.
Settled == pc \notin {"continue", "settle"}

EndsInAssistant(ms) == ms # <<>> /\ ms[Len(ms)].kind = "assistant"

DropAssistant(ms) == IF EndsInAssistant(ms) THEN SubSeq(ms, 1, Len(ms) - 1) ELSE ms

\* processEvents pushes the message, then waits for the extensions' message_end handlers.
Push(m) ==
    /\ messages' = Append(messages, m)
    /\ saving' = <<m>>
    /\ pc' = "persist"
    /\ UNCHANGED branch

\* _flushPendingBashMessages: the same messages to the agent and to the session.
FlushPendingBashMessages ==
    LET flushed == [i \in 1 .. bash |-> Entry(NextId + i - 1, "bash", "", FALSE)]
    IN  /\ branch' = branch \o flushed
        /\ messages' = messages \o flushed
        /\ bash' = 0

\* A response older than the latest compaction (the code compares timestamps).
FromBeforeCompaction(m) == Position(branch, m.id) < LatestCompaction(branch)

\* The context counts as too large: by the response's own usage, or, when it has none, by the
\* last response of the transcript that has one.
OverThreshold(m) ==
    LET usages == {i \in DOMAIN messages : messages[i].stop \in {"stop", "toolUse", "length"}}
    IN  IF m.stop \notin Errors \cup {"aborted"} THEN m.large
        ELSE usages # {} /\ LET u == messages[Max(usages)] IN ~FromBeforeCompaction(u) /\ u.large

Considered(m, skipAborted) == ~(skipAborted /\ m.stop = "aborted") /\ ~FromBeforeCompaction(m)

Recoverable(m) == m.stop \in {"overflow", "length"}

\* The recovery that forgets that one was tried.
MutRecovers(m, skipAborted) == Considered(m, skipAborted) /\ Recoverable(m)

\* Whether _checkCompaction tries to recover: compact, then repeat the request.
Recovers(m, skipAborted) == Considered(m, skipAborted) /\ Recoverable(m) /\ ~recovered

\* _checkCompaction up to the await of the summary: `wait' when a compaction starts, `go' otherwise.
CheckCompaction(m, skipAborted, wait, go) ==
    LET recovers == Recovers(m, skipAborted)
        wanted == recovers \/ (Considered(m, skipAborted) /\ ~Recoverable(m) /\ OverThreshold(m))
    IN  /\ recovered' = (recovered \/ recovers)
        /\ messages' = IF recovers THEN DropAssistant(messages) ELSE messages
        /\ prepared' = IF wanted THEN Prepare(branch, KeepRecent) ELSE prepared
        /\ willRetry' = (recovers /\ prepared' # NothingToCompact)
        /\ IF prepared' # NothingToCompact THEN wait ELSE go

\* appendCompaction of what compact returned.
AppendCompaction ==
    branch' = Append(branch, [Entry(NextId, "compaction", "", FALSE) EXCEPT
                                  !.kept = prepared.kept, !.covers = SummaryCovers(prepared)])

\* The transcript after a compaction; a compact-and-retry drops the failed response again.
Rebuilt(path) ==
    LET context == Context(path)
    IN  IF willRetry /\ EndsInAssistant(context) /\ context[Len(context)].stop \in Errors \cup {"length"}
        THEN DropAssistant(context) ELSE context

\* What _handlePostAgentRun answers when it is not told to continue.
Onwards == pc' = IF Queued THEN "continue" ELSE "settle"

-----------------------------------------------------------------------------
(* prompt() up to its run.                                                 *)

Prompt(t) ==
    /\ pre = "none" /\ manual = "none" /\ ~active /\ Settled
    /\ Use("prompt")
    /\ FlushPendingBashMessages
    /\ draft' = <<t>>
    /\ pre' = "checking"
    /\ UNCHANGED <<saving, pc, then, more, aborted, queues, control, active, manual, settling, waiting>>

\* The check for compaction before the prompt is sent, on the transcript's last response.
PromptChecks ==
    LET responses == {i \in DOMAIN messages : messages[i].kind = "assistant"}
    IN  /\ pre = "checking"
        /\ IF responses = {}
           THEN pre' = "ready" /\ UNCHANGED <<messages, recovered, prepared, willRetry>>
           ELSE CheckCompaction(messages[Max(responses)], FALSE, pre' = "compacting", pre' = "ready")
        /\ UNCHANGED <<branch, saving, loop, queues, last, retryAttempt, active, manual, settling,
                       waiting, bash, used>>

\* _runAgentPrompt
RunAgentPrompt ==
    /\ pre = "ready"
    /\ pre' = "none"
    /\ active' = TRUE
    /\ pc' = "inject" /\ then' = "poll" /\ more' = TRUE /\ aborted' = FALSE
    /\ UNCHANGED <<transcript, draft, queues, control, manual, settling, waiting, bash, used>>

-----------------------------------------------------------------------------
(* The agent's run, as AgentSession's event handler sees it.               *)

\* indexOf and splice: a mirror without the first occurrence of the text.
Spliced(mirror, text) ==
    LET index == Min({i \in DOMAIN mirror : mirror[i] = text})
    IN  IF text \notin Range(mirror) THEN mirror
        ELSE SubSeq(mirror, 1, index - 1) \o SubSeq(mirror, index + 1, Len(mirror))

\* message_start of a user message: the text leaves the steering mirror, or else the follow-up
\* mirror; then the message joins the transcript.
UserMessage ==
    LET text == draft[1]
    IN  /\ pc = "inject"
        /\ recovered' = FALSE
        /\ IF text \in Range(steeringMirror)
           THEN steeringMirror' = Spliced(steeringMirror, text) /\ UNCHANGED followUpMirror
           ELSE followUpMirror' = Spliced(followUpMirror, text) /\ UNCHANGED steeringMirror
        /\ Push(Entry(NextId, "user", "", FALSE))
        /\ draft' = <<>>
        /\ UNCHANGED <<then, more, aborted, steering, followUp, last, retryAttempt, prepared, willRetry,
                       calls, bash, used>>

\* The model answers, or fails, or is cut off by the signal.
Response(stop, large) ==
    /\ pc = "stream"
    /\ aborted <=> stop = "aborted"
    /\ large => stop \in {"stop", "toolUse"}
    /\ IF large \/ stop \notin {"stop", "aborted"} THEN Use("event") ELSE UNCHANGED used
    /\ Push(Entry(NextId, "assistant", stop, large))
    /\ UNCHANGED <<draft, then, more, aborted, queues, control, calls, bash>>

ToolResult ==
    /\ pc = "tool"
    /\ Push(Entry(NextId, "toolResult", "", FALSE))
    /\ UNCHANGED <<draft, then, more, aborted, queues, control, calls, bash, used>>

\* message_end after the extensions: the message is appended to the session; a response is
\* remembered, and a successful one ends the retries and the recovery.
MessageEnd ==
    LET m == saving[1]
        response == m.kind = "assistant"
    IN  /\ pc = "persist"
        /\ branch' = Append(branch, m)
        /\ saving' = <<>>
        /\ last' = IF response THEN <<m>> ELSE last
        /\ recovered' = (recovered /\ ~(response /\ m.stop \notin Errors \cup {"length"}))
        /\ retryAttempt' = IF response /\ m.stop \notin Errors THEN 0 ELSE retryAttempt
        /\ more' = CASE m.kind = "toolResult" -> TRUE [] response -> FALSE [] OTHER -> more
        /\ pc' = CASE m.kind = "user" -> then
                   [] m.kind = "toolResult" -> "poll"
                   [] m.stop = "toolUse" -> "tool"
                   [] m.stop \in Errors \cup {"aborted"} -> "ended"
                   [] OTHER -> "poll"
        /\ UNCHANGED <<messages, draft, then, aborted, queues, prepared, willRetry, calls, bash, used>>

\* Before a request the loop takes one steering message; with nothing left to do, one follow-up.
Poll ==
    /\ pc = "poll"
    /\ \/ /\ steering # <<>>
          /\ draft' = <<Head(steering)>> /\ steering' = Tail(steering)
          /\ pc' = "inject" /\ then' = "stream" /\ UNCHANGED followUp
       \/ /\ steering = <<>> /\ ~more /\ followUp # <<>>
          /\ draft' = <<Head(followUp)>> /\ followUp' = Tail(followUp)
          /\ pc' = "inject" /\ then' = "stream" /\ UNCHANGED steering
       \/ /\ steering = <<>> /\ (more \/ followUp = <<>>)
          /\ pc' = IF more THEN "stream" ELSE "ended"
          /\ UNCHANGED <<draft, then, steering, followUp>>
    /\ UNCHANGED <<transcript, more, aborted, steeringMirror, followUpMirror, control, calls, bash, used>>

-----------------------------------------------------------------------------
(* After the run: retry, compact, continue, settle.                        *)

\* _handlePostAgentRun once a retry is out of the question.
AfterRetry(m, attempt) ==
    /\ retryAttempt' = attempt
    /\ CheckCompaction(m, TRUE, pc' = "compacting", Onwards)

\* Whether _prepareRetry has an attempt left.
MayRetry(m) == m.stop = "retryable" /\ retryAttempt < MaxRetries

\* The attempts of a failed retry stay counted.
MutAttempts(m) == retryAttempt

\* The attempts counted once a response is not retried.
Attempts(m) == IF m.stop \in Errors THEN 0 ELSE retryAttempt

\* _handlePostAgentRun, with _prepareRetry up to its sleep.  The response being retried is kept
\* in `last' until the sleep is over.
HandlePostAgentRun ==
    LET m == last[1]
    IN  /\ pc = "ended"
        /\ IF MayRetry(m)
           THEN /\ retryAttempt' = retryAttempt + 1
                /\ messages' = DropAssistant(messages)
                /\ pc' = "retrying"
                /\ UNCHANGED <<last, recovered, prepared, willRetry>>
           ELSE /\ last' = <<>>
                /\ AfterRetry(m, Attempts(m))
        /\ UNCHANGED <<branch, saving, draft, then, more, aborted, queues, calls, bash, used>>

\* The backoff is over.
RetryElapses ==
    /\ pc = "retrying"
    /\ last' = <<>>
    /\ pc' = "continue"
    /\ UNCHANGED <<transcript, draft, then, more, aborted, queues, retryAttempt, recovered, prepared,
                   willRetry, calls, bash, used>>

\* abortRetry ended the sleep.
RetryCancelled ==
    /\ pc = "retryCancelled"
    /\ last' = <<>>
    /\ AfterRetry(last[1], 0)
    /\ UNCHANGED <<branch, saving, draft, then, more, aborted, queues, calls, bash, used>>

\* The summary arrives: _runAutoCompaction to its end, before a prompt or after a run.
AutoCompacts ==
    /\ pc = "compacting" \/ pre = "compacting"
    /\ AppendCompaction
    /\ messages' = Rebuilt(branch')
    /\ prepared' = NothingToCompact /\ willRetry' = FALSE
    /\ IF pre = "compacting" THEN pre' = "ready" /\ UNCHANGED pc
       ELSE pc' = (IF willRetry \/ Queued THEN "continue" ELSE "settle") /\ UNCHANGED pre
    /\ UNCHANGED <<saving, draft, then, more, aborted, queues, last, retryAttempt, recovered, active,
                   manual, settling, waiting, bash, used>>

\* The summary fails, is cancelled by an extension or aborted.
AutoCompactionFails ==
    /\ pc = "compacting" \/ pre = "compacting"
    /\ prepared' = NothingToCompact /\ willRetry' = FALSE
    /\ IF pre = "compacting" THEN pre' = "ready" /\ UNCHANGED pc ELSE Onwards /\ UNCHANGED pre
    /\ UNCHANGED <<transcript, draft, then, more, aborted, queues, last, retryAttempt, recovered,
                   active, manual, settling, waiting, bash, used>>

\* Agent.continue refuses a transcript that ends in a response when no message is queued.
ContinueThrows == messages = <<>> \/ (EndsInAssistant(messages) /\ ~Queued)

\* The while loop of _runAgentPrompt: agent.continue, whose exception ends the run.
Continue ==
    /\ pc = "continue"
    /\ more' = TRUE /\ aborted' = FALSE
    /\ IF ContinueThrows THEN pc' = "settle" /\ UNCHANGED <<draft, then, steering, followUp>>
       ELSE IF ~EndsInAssistant(messages)
       THEN pc' = "poll" /\ UNCHANGED <<draft, then, steering, followUp>>
       ELSE /\ pc' = "inject"
            /\ IF steering # <<>>
               THEN /\ draft' = <<Head(steering)>> /\ steering' = Tail(steering)
                    /\ then' = "stream" /\ UNCHANGED followUp
               ELSE /\ draft' = <<Head(followUp)>> /\ followUp' = Tail(followUp)
                    /\ then' = "poll" /\ UNCHANGED steering
    /\ UNCHANGED <<transcript, steeringMirror, followUpMirror, control, calls, bash, used>>

\* The finally of _runAgentPrompt, up to the await of agent_settled.
Settle ==
    /\ pc = "settle"
    /\ FlushPendingBashMessages
    /\ active' = FALSE
    /\ settling' = settling + 1
    /\ pc' = "idle"
    /\ UNCHANGED <<saving, draft, then, more, aborted, queues, control, pre, manual, waiting, used>>

\* AgentSettled of a session whose extensions' failure skips the resolution.
MutAgentSettled ==
    /\ settling > 0 /\ Settled
    /\ settling' = settling - 1
    /\ waiting' \in {waiting, waiting /\ active}
    /\ UNCHANGED <<transcript, loop, queues, control, active, pre, manual, bash, used>>

\* agent_settled is delivered; the waiters go unless the next run is active already.
AgentSettled ==
    /\ settling > 0 /\ Settled
    /\ settling' = settling - 1
    /\ waiting' = (waiting /\ active)
    /\ UNCHANGED <<transcript, loop, queues, control, active, pre, manual, bash, used>>

-----------------------------------------------------------------------------
(* Calls that may come at any time.                                        *)

Steer(t) ==
    /\ Settled /\ Use("event")
    /\ steering' = Append(steering, t) /\ steeringMirror' = Append(steeringMirror, t)
    /\ UNCHANGED <<transcript, loop, followUp, followUpMirror, control, calls, bash>>

FollowUp(t) ==
    /\ Settled /\ Use("event")
    /\ followUp' = Append(followUp, t) /\ followUpMirror' = Append(followUpMirror, t)
    /\ UNCHANGED <<transcript, loop, steering, steeringMirror, control, calls, bash>>

ClearQueue ==
    /\ Settled /\ Queued
    /\ steering' = <<>> /\ followUp' = <<>> /\ steeringMirror' = <<>> /\ followUpMirror' = <<>>
    /\ UNCHANGED <<transcript, loop, control, calls, bash, used>>

\* abort() up to its wait: a sleeping retry is woken, a running agent signalled.
StartAbort ==
    /\ aborted' = (aborted \/ pc \in {"inject", "persist", "stream", "tool", "poll"})
    /\ pc' = IF pc = "retrying" THEN "retryCancelled" ELSE pc
    /\ waiting' = (waiting \/ active)

Abort ==
    /\ Settled /\ active /\ Use("event")
    /\ StartAbort
    /\ UNCHANGED <<transcript, draft, then, more, queues, control, active, pre, manual, settling, bash>>

\* compact() aborts first.
Compact ==
    /\ Settled /\ pre = "none" /\ manual = "none" /\ Use("event")
    /\ StartAbort
    /\ manual' = IF active THEN "aborting" ELSE "idle"
    /\ UNCHANGED <<transcript, draft, then, more, queues, control, active, pre, settling, bash>>

\* With nothing to compact, compact() throws.
CompactPrepares ==
    /\ manual = "idle" \/ (manual = "aborting" /\ ~waiting)
    /\ prepared' = Prepare(branch, KeepRecent)
    /\ manual' = IF prepared' = NothingToCompact THEN "none" ELSE "summarizing"
    /\ UNCHANGED <<transcript, loop, queues, last, retryAttempt, recovered, willRetry, active, pre,
                   settling, waiting, bash, used>>

Compacts ==
    /\ manual = "summarizing"
    /\ AppendCompaction
    /\ messages' = Context(branch')
    /\ prepared' = NothingToCompact
    /\ manual' = "none"
    /\ UNCHANGED <<saving, loop, queues, last, retryAttempt, recovered, willRetry, active, pre, settling,
                   waiting, bash, used>>

CompactFails ==
    /\ manual = "summarizing"
    /\ prepared' = NothingToCompact
    /\ manual' = "none"
    /\ UNCHANGED <<transcript, loop, queues, last, retryAttempt, recovered, willRetry, active, pre,
                   settling, waiting, bash, used>>

\* recordBashResult that does not hold the result back.
MutRecordBashResult ==
    LET entry == Entry(NextId, "bash", "", FALSE)
    IN  /\ Settled /\ Use("event")
        /\ branch' = Append(branch, entry) /\ messages' = Append(messages, entry)
        /\ UNCHANGED <<saving, loop, queues, control, calls, bash>>

\* A shell command the user ran ends: recordBashResult.
RecordBashResult ==
    LET entry == Entry(NextId, "bash", "", FALSE)
    IN  /\ Settled /\ Use("event")
        /\ IF active THEN bash' = bash + 1 /\ UNCHANGED <<branch, messages>>
           ELSE branch' = Append(branch, entry) /\ messages' = Append(messages, entry) /\ UNCHANGED bash
        /\ UNCHANGED <<saving, loop, queues, control, calls>>

\* setThinkingLevel writes metadata to the session only.
SetThinkingLevel ==
    /\ Settled /\ Use("event")
    /\ branch' = Append(branch, Entry(NextId, "meta", "", FALSE))
    /\ UNCHANGED <<messages, saving, loop, queues, control, calls, bash>>

-----------------------------------------------------------------------------
System ==
    \/ PromptChecks \/ RunAgentPrompt
    \/ UserMessage \/ ToolResult \/ MessageEnd \/ Poll
    \/ \E stop \in Stops, large \in BOOLEAN : Response(stop, large)
    \/ HandlePostAgentRun \/ RetryElapses \/ RetryCancelled
    \/ AutoCompacts \/ AutoCompactionFails \/ Continue \/ Settle \/ AgentSettled
    \/ CompactPrepares \/ Compacts \/ CompactFails

Callers ==
    \/ \E t \in Texts : Prompt(t) \/ Steer(t) \/ FollowUp(t)
    \/ ClearQueue \/ Abort \/ Compact \/ RecordBashResult \/ SetThinkingLevel

Next == System \/ Callers

Spec == Init /\ [][Next]_vars

\* A run, a prompt's checks, a manual compaction or the settling of a run is under way.  That is
\* when a step of System is enabled.
Busy == active \/ pre # "none" \/ manual # "none" \/ settling > 0

\* Weak fairness of System, with its enabling condition written out.  Every await of the code is
\* on something that ends: a model request, a tool, a handler, a timer, a summary.  Nothing is
\* assumed of the callers.
FairSpec == Spec /\ (<>[]Busy => []<><<System>>_vars)

-----------------------------------------------------------------------------
(* Properties.                                                             *)

Failed(m) == m.stop \in Errors \cup {"length"}

Kept(ms) == SelectSeq(ms, LAMBDA m : ~Failed(m))

\* The transcript the model is sent and the one a restart would rebuild from the session file
\* never drift apart: whatever mix of retries, compactions, shell results and queued messages has
\* happened, they differ in failed responses only, and in the message being saved.
TranscriptIsSession == Kept(messages) = Kept(Context(branch) \o saving)

\* In what the model is sent, a tool result directly follows the response that called the tool:
\* no shell result, queued message or compaction cut gets between them.
ToolResultsFollowCalls ==
    \A i \in DOMAIN messages :
        messages[i].kind = "toolResult" => i > 1 /\ messages[i - 1].stop = "toolUse"

\* The cut falls into (or right behind) the turn that starts at s, and the first message kept by
\* the path's latest compaction is that turn's first.
SplitsKeptTurn(path, cut, s) ==
    LET c == LatestCompaction(path)
        first == Position(path, path[c].kept)
    IN  /\ c # 0 /\ first <= s /\ s \in DOMAIN path
        /\ IsTurnStart(path[s]) /\ \A i \in first .. s - 1 : ~Summarizable(path[i])
        /\ \E f \in s + 1 .. Len(path) :
               path[f].id = cut.kept /\ \A i \in s + 1 .. f : ~IsTurnStart(path[i])

\* Where the session's memory may begin: with the session, or with a turn that one compaction
\* kept from its start and the next one split.
MemoryStarts(path) ==
    {1} \cup {s \in DOMAIN path : \E d \in Compactions(path) :
                  SplitsKeptTurn(SubSeq(path, 1, d - 1), path[d], s)}

\* After any number of compactions what is left of the session, in the context or in what the
\* current summary was made from, has no gap, and messages at its beginning are only lost when a
\* compaction splits the first turn the previous one had kept: compact() then summarizes the
\* turn's prefix alone, without the previous summary that compaction.md says it is given.
SummaryHasNoGap ==
    LET c == LatestCompaction(branch)
        context == Range(ContextEntries(branch))
    IN  c # 0 => \E s \in MemoryStarts(branch) : \A i \in s .. c - 1 :
            Summarizable(branch[i]) => branch[i] \in context \/ branch[i].id \in branch[c].covers

\* Since the user's last message or the last successful response, at most two requests ended in
\* an overflow or a truncation: a session that cannot be made to fit is not compacted for ever.
CompactsAndRetriesOnce ==
    LET progress == {i \in DOMAIN branch :
                        \/ branch[i].kind = "user"
                        \/ branch[i].kind = "assistant" /\ ~Failed(branch[i])}
        since == IF progress = {} THEN 0 ELSE Max(progress)
    IN  Cardinality({i \in since + 1 .. Len(branch) : Recoverable(branch[i])}) <= 2

\* Whenever the session reports itself idle nothing of the run is left over: no retry counted,
\* no response waiting to be looked at, no shell result held back, and the mirrors the interface
\* shows are exactly the agent's queues.
IdleIsClean ==
    ~active => /\ retryAttempt = 0 /\ last = <<>> /\ bash = 0
               /\ steeringMirror = steering /\ followUpMirror = followUp

\* Whoever waits for the session to become idle (abort(), compact(), waitForIdle()) is told so,
\* through retries, compactions and continuations.
WaitersReturn == waiting ~> ~waiting

\* A run that decides to continue can: the transcript does not end in a response.
ContinueIsAccepted == pc = "continue" => ~ContinueThrows
=============================================================================
