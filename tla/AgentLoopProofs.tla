--------------------------- MODULE AgentLoopProofs ---------------------------
(***************************************************************************)
(* Machine-checked proofs about AgentLoop, for every value of the bounds:  *)
(* types, the state between runs, the brackets of turns, the answers of    *)
(* tool calls and the last event of a run.  AgentLoopHistory goes on with  *)
(* the messages.                                                           *)
(***************************************************************************)
EXTENDS AgentLoop, TLAPS

\* Each leaf goes to Zenon unless it names another prover.
USE ZenonT(60)

\* The ways the API and the loop move the program counter, spelled out once.
LEMMA StartRunMoves ==
    ASSUME NEW messages, NEW skip, StartRun(messages, skip)
    PROVE  activeRun' = TRUE /\ pc' = "agent_start"
BY DEF StartRun

\* finishRun, reset() and the run's own steps keep the idle state clean, also
\* when a tool of a failed parallel batch ends after its run.
THEOREM IdleIsCleanInvariant == Spec => []IdleIsClean
<1>1. Init => IdleIsClean
  BY DEF Init, IdleIsClean
<1>2. IdleIsClean /\ [Next]_vars => IdleIsClean'
  <2> SUFFICES ASSUME IdleIsClean, [Next]_vars
               PROVE  IdleIsClean'
    OBVIOUS
  <2> USE DEF IdleIsClean
  <2>1. CASE Api
    <3>1. CASE Steer \/ FollowUp \/ ClearSteeringQueue \/ ClearFollowUpQueue \/ Abort
      BY <3>1, SMTT(60) DEF Steer, FollowUp, ClearSteeringQueue, ClearFollowUpQueue, Abort,
                  stateVars, runVars
    <3>2. CASE Reset
      BY <3>2 DEF Reset, runVars
    <3>3. CASE Prompt \/ ContinueSteering \/ ContinueFollowUp \/ RunContinuation
      BY <3>3, StartRunMoves DEF Prompt, ContinueSteering, ContinueFollowUp,
                                 RunContinuation
    <3> QED BY <2>1, <3>1, <3>2, <3>3 DEF Api
  <2>2. CASE RunStep
    <3>1. CASE FinishRun
      BY <3>1 DEF FinishRun, ClearRuntimeState
    <3>2. CASE RunStep /\ ~FinishRun
      <4>1. pc # "idle" /\ pc' # "idle" /\ activeRun' = activeRun
        BY <3>2 DEF RunStep, LoopFrame, Emit, Await, EmitFailure, AgentStart,
             FirstTurnStart, PromptStart, PromptEnd, PollInitial, TurnStart,
             InjectStart, InjectEnd, StreamFails, StreamStart, StreamFinal,
             StreamFinalOnly, ReplyEnd, ToolStart, PrepareImmediate,
             PreparePrepared, ToolExecute, ToolWait, ToolEnd, ToolNext, Launch,
             WaitAll, ResultStart, ResultEnd, TurnEnd, TurnEndStopped,
             PrepareNextTurn, ShouldStopAfterTurn, PollSteering, PollFollowUp,
             AgentEnd, FailMessageStart, FailMessageEnd, FailTurnEnd,
             FailAgentEnd
      <4> QED BY <4>1
    <3> QED BY <2>2, <3>1, <3>2
  <2>3. CASE StreamUpdate
    BY <2>3 DEF StreamUpdate, LoopFrame, Emit, Await
  <2>4. ASSUME NEW c \in Calls, ToolUpdate(c) \/ ToolSettle(c) \/ TaskEnd(c)
        PROVE  IdleIsClean'
    BY <2>4, SMTT(60) DEF ToolUpdate, ToolSettle, TaskEnd, TaskFrame, runVars
  <2>5. CASE UNCHANGED vars
    BY <2>5 DEF vars, stateVars, runVars
  <2> QED BY <2>1, <2>2, <2>3, <2>4, <2>5 DEF Next
<1> QED BY <1>1, <1>2, PTL DEF Spec

-----------------------------------------------------------------------------
(* Turn brackets.  TurnsAreBracketed names the program points a listener   *)
(* can tell apart; to be inductive it must speak of all the points between *)
(* a turn_start and its turn_end, and of all those between two turns.      *)

InTurn ==
    {"prompt_start", "prompt_end", "poll_initial", "inject_start", "inject_end",
     "stream", "streaming", "reply_end", "tool_start", "tool_prepare",
     "tool_execute", "tool_wait", "tool_end", "tool_next", "launch", "wait_all",
     "result_start", "result_end", "turn_end", "turn_end_stopped"}

BetweenTurns ==
    {"agent_start", "first_turn_start", "prepare_next_turn", "should_stop",
     "poll", "poll_follow_up", "turn_start", "agent_end", "fail_agent_end"}

TurnInv ==
    /\ pc \in InTurn => turnOpen = TRUE
    /\ pc \in BetweenTurns => turnOpen = FALSE

\* Turns never nest, the provider and the tools work only inside a turn and
\* agent_end never leaves one open, whatever fails and however often.
THEOREM TurnsAreBracketedInvariant == Spec => []TurnsAreBracketed
<1> USE DEF TurnInv, InTurn, BetweenTurns
<1>1. Init => TurnInv
  BY DEF Init
<1>2. TurnInv /\ [Next]_vars => TurnInv'
  <2> SUFFICES ASSUME TurnInv, [Next]_vars
               PROVE  TurnInv'
    OBVIOUS
  <2>1. CASE Api
    <3>1. CASE Steer \/ FollowUp \/ ClearSteeringQueue \/ ClearFollowUpQueue
               \/ Abort \/ Reset
      BY <3>1 DEF Steer, FollowUp, ClearSteeringQueue, ClearFollowUpQueue,
                  Abort, Reset
    <3>2. CASE Prompt \/ ContinueSteering \/ ContinueFollowUp \/ RunContinuation
      BY <3>2 DEF Prompt, ContinueSteering, ContinueFollowUp, RunContinuation,
                  StartRun
    <3> QED BY <2>1, <3>1, <3>2 DEF Api
  <2>2. CASE AgentStart \/ FirstTurnStart \/ PromptStart \/ PromptEnd \/ PollInitial
             \/ TurnStart \/ InjectStart \/ InjectEnd
    BY <2>2 DEF AgentStart, FirstTurnStart, PromptStart, PromptEnd, PollInitial,
                TurnStart, InjectStart, InjectEnd, Emit, Await
  <2>3. CASE StreamFails \/ StreamStart \/ StreamFinal \/ StreamFinalOnly
             \/ ReplyEnd \/ StreamUpdate
    BY <2>3 DEF StreamFails, StreamStart, StreamFinal, StreamFinalOnly, ReplyEnd,
                StreamUpdate, Emit, Await
  <2>4. CASE ToolStart \/ PrepareImmediate \/ PreparePrepared \/ ToolExecute
             \/ ToolWait \/ ToolEnd \/ ToolNext \/ Launch \/ WaitAll
             \/ ResultStart \/ ResultEnd
    BY <2>4 DEF ToolStart, PrepareImmediate, PreparePrepared, ToolExecute,
                ToolWait, ToolEnd, ToolNext, Launch, WaitAll, ResultStart,
                ResultEnd, Emit, Await
  <2>5. CASE TurnEnd \/ TurnEndStopped \/ PrepareNextTurn \/ ShouldStopAfterTurn
             \/ PollSteering \/ PollFollowUp \/ AgentEnd
    BY <2>5 DEF TurnEnd, TurnEndStopped, PrepareNextTurn, ShouldStopAfterTurn,
                PollSteering, PollFollowUp, AgentEnd, Emit, Await
  <2>6. CASE FailMessageStart \/ FailMessageEnd \/ FailTurnEnd \/ FailAgentEnd
             \/ FinishRun
    BY <2>6 DEF FailMessageStart, FailMessageEnd, FailTurnEnd, FailAgentEnd,
                FinishRun, EmitFailure
  <2>7. ASSUME NEW c \in Calls, ToolUpdate(c) \/ ToolSettle(c) \/ TaskEnd(c)
        PROVE  TurnInv'
    BY <2>7 DEF ToolUpdate, ToolSettle, TaskEnd, TaskFrame
  <2>8. CASE UNCHANGED vars
    BY <2>8 DEF vars
  <2> QED BY <2>1, <2>2, <2>3, <2>4, <2>5, <2>6, <2>7, <2>8 DEF Next, RunStep
<1>3. TurnInv => TurnsAreBracketed
  BY DEF TurnsAreBracketed
<1> QED BY <1>1, <1>2, <1>3, PTL DEF Spec

-----------------------------------------------------------------------------
(* Type correctness.  That processEvents is always handed a message and    *)
(* ToolStart a call rests on where the loop stands in its sequences.       *)

Positions ==
    /\ pc \in {"prompt_start", "prompt_end"} => prompts # <<>>
    /\ pc \in {"inject_start", "inject_end"} => pending # <<>>
    /\ pc = "reply_end" => reply.calls \in Seq(Calls)
    /\ pc \in {"tool_start", "tool_prepare", "tool_execute", "tool_wait",
               "tool_end", "tool_next"} => index <= Len(batch)
    /\ pc \in {"result_start", "result_end"} =>
          IF mode = "parallel" THEN Len(toolResults) < Len(finalizedCalls)
          ELSE index <= Len(batch)
    /\ pc \in {"tool_start", "tool_prepare", "tool_execute", "tool_wait",
               "tool_end", "tool_next", "launch", "wait_all"} /\ mode = "parallel" => toolResults = <<>>
    /\ pc = "tool_next" /\ mode = "parallel" => finalizedCalls # <<>>
    /\ pc \in {"launch", "wait_all"} => mode = "parallel" /\ finalizedCalls # <<>>

TypeInv == TypeOK /\ Positions

LEMMA MessageTypes ==
    /\ \A id \in Nat, kind \in Kinds : UserMessage(id, kind) \in Message
    /\ \A calls \in Seq(Nat), stop \in Kinds : AssistantMessage(stop, calls) \in Message
    /\ \A call \in Nat : ToolResultMessage(call) \in Message
BY SMTT(60) DEF Message, Kinds, UserMessage, AssistantMessage, ToolResultMessage

LEMMA CallsAreNat == Calls \subseteq Nat /\ Seq(Calls) \subseteq Seq(Nat)
<1>1. Calls \subseteq Nat
  BY BoundsAssumption, SMTT(60) DEF Calls
<1>2. ASSUME NEW s \in Seq(Calls) PROVE s \in Seq(Nat)
  <2>1. Len(s) \in Nat /\ s \in [1..Len(s) -> Calls]
    BY SMTT(60)
  <2>2. s \in [1..Len(s) -> Nat]
    BY <1>1, <2>1
  <2> QED BY <2>1, <2>2, SMTT(60)
<1> QED BY <1>1, <1>2

LEMMA ResultsType ==
    ASSUME NEW calls \in Seq(Calls)
    PROVE  ToolResultMessages(calls) \in Seq(Message)
<1>1. /\ Len(calls) \in Nat
      /\ \A i \in 1..Len(calls) : ToolResultMessage(calls[i]) \in Message
  BY CallsAreNat, MessageTypes, SMTT(60)
<1>2. ToolResultMessages(calls) \in [1..Len(calls) -> Message]
  BY <1>1 DEF ToolResultMessages
<1> QED BY <1>1, <1>2, SMTT(60)

LEMMA DrainType ==
    ASSUME NEW queue \in Seq(Message), NEW queueMode
    PROVE  /\ Drained(queue, queueMode) \in Seq(Message)
           /\ Undrained(queue, queueMode) \in Seq(Message)
BY SMTT(60) DEF Drained, Undrained

LEMMA ReplaceLastType ==
    ASSUME NEW s \in Seq(Message), NEW e \in Message
    PROVE  ReplaceLast(s, e) \in Seq(Message)
<1>1. Len(s) \in Nat /\ s \in [1..Len(s) -> Message]
  BY SMTT(60)
<1>2. ReplaceLast(s, e) \in [1..Len(s) -> Message]
  BY <1>1 DEF ReplaceLast
<1> QED BY <1>1, <1>2, SMTT(60)

LEMMA FinalMessageType ==
    ASSUME CounterType, NEW stop \in StopReasons, NEW n \in BatchSizes
    PROVE  /\ FinalMessage(stop, n) \in Message
           /\ FinalMessage(stop, n).calls \in Seq(Calls)
           /\ nextCall + n \in 0..MaxCalls
<1> DEFINE calls == [i \in 1..n |-> nextCall + i]
<1>2. n \in Nat /\ nextCall + n <= MaxCalls /\ nextCall \in Nat /\ MaxCalls \in Nat
  BY BoundsAssumption, SMTT(60) DEF CounterType, BatchSizes
<1>3. calls \in Seq(Calls) /\ Len(calls) = n
  BY <1>2, SMTT(60) DEF Calls
<1>4. FinalMessage(stop, n).calls = calls
  BY DEF AssistantMessage, FinalMessage
<1>5. FinalMessage(stop, n) \in Message
  BY <1>3, CallsAreNat, MessageTypes DEF Kinds, StopReasons, FinalMessage
<1> QED BY <1>2, <1>3, <1>4, <1>5, SMTT(60)

LEMMA IdsType ==
    ASSUME NEW s \in Seq(Message)
    PROVE  Ids(s) \in SUBSET Nat
<1>1. \A i \in 1..Len(s) : s[i] \in Message
  BY SMTT(60)
<1>2. \A m \in Message : m.id \in Nat
  BY DEF Message
<1> QED BY <1>1, <1>2 DEF Ids

LEMMA UserIdsType ==
    ASSUME StateType
    PROVE  {transcript[i].id : i \in
              {j \in 1..Len(transcript) : transcript[j].role = "user"}} \in SUBSET Nat
<1>1. \A i \in 1..Len(transcript) : transcript[i] \in Message
  BY SMTT(60) DEF StateType
<1>2. \A m \in Message : m.id \in Nat
  BY DEF Message
<1> QED BY <1>1, <1>2

LEMMA PromptType ==
    ASSUME ApiType, NEW n \in 1..(MaxMessages - nextMessage)
    PROVE  /\ [i \in 1..n |-> UserMessage(nextMessage + i, "prompt")] \in Seq(Message)
           /\ nextMessage + n \in 0..MaxMessages
<1>1. n \in Nat /\ nextMessage \in Nat
  BY BoundsAssumption, SMTT(60) DEF ApiType
<1>2. [i \in 1..n |-> UserMessage(nextMessage + i, "prompt")] \in [1..n -> Message]
  BY <1>1, MessageTypes, SMTT(60) DEF Kinds
<1>3. nextMessage + n \in 0..MaxMessages
  BY <1>1, BoundsAssumption, SMTT(60) DEF ApiType
<1> QED BY <1>1, <1>2, <1>3, SMTT(60)

-----------------------------------------------------------------------------
(* Which steps touch which variables.                                      *)

USE DEF Next, Api, RunStep, Steer, FollowUp, ClearSteeringQueue,
  ClearFollowUpQueue, Abort, Reset, Prompt, ContinueSteering,
  ContinueFollowUp, RunContinuation, AgentStart, FirstTurnStart, PromptStart,
  PromptEnd, PollInitial, TurnStart, InjectStart, InjectEnd, StreamFails,
  StreamStart, StreamFinal, StreamFinalOnly, ReplyEnd, ToolStart,
  PrepareImmediate, PreparePrepared, ToolExecute, ToolWait, ToolEnd, ToolNext,
  Launch, WaitAll, ResultStart, ResultEnd, TurnEnd, TurnEndStopped,
  PrepareNextTurn, ShouldStopAfterTurn, PollSteering, PollFollowUp, AgentEnd,
  FailMessageStart, FailMessageEnd, FailTurnEnd, FailAgentEnd, FinishRun,
  StreamUpdate, ToolUpdate, ToolSettle, TaskEnd, LoopFrame, TaskFrame,
  StartRun, GetSteeringMessages, ReduceMessageStart, ReduceMessageEnd,
  ReduceToolStart, ReduceToolEnd, ReduceAgentEnd, ClearRuntimeState, apiVars,
  queueVars, stateVars, runVars, contextVars, batchVars, toolVars

LEMMA ApiFrame ==
    ASSUME Next
    PROVE
      \/ UNCHANGED apiVars \/ Steer \/ FollowUp \/ ClearSteeringQueue \/
        ClearFollowUpQueue \/ Reset \/ Prompt
OBVIOUS

LEMMA QueueFrame ==
    ASSUME Next
    PROVE
      \/ UNCHANGED queueVars \/ Steer \/ FollowUp \/ ClearSteeringQueue \/
        ClearFollowUpQueue \/ Reset \/ ContinueSteering \/ ContinueFollowUp \/
        PollInitial \/ PollSteering \/ PollFollowUp
OBVIOUS

LEMMA StateFrame ==
    ASSUME Next
    PROVE
      \/ UNCHANGED <<transcript, pendingToolCalls>> \/ Reset \/ PromptEnd \/
        InjectEnd \/ ReplyEnd \/ FailMessageEnd \/ ResultEnd \/ ToolStart \/
        ToolEnd \/ FinishRun \/ (\E c \in Calls : TaskEnd(c))
OBVIOUS

LEMMA ContextFrame ==
    ASSUME Next
    PROVE
      \/ UNCHANGED <<context, newMessages, prompts, pending, reply, runStart>>
        \/ Prompt \/ ContinueSteering \/ ContinueFollowUp \/ RunContinuation
        \/ PromptEnd \/ InjectEnd \/ PollInitial \/ PollSteering \/
        PollFollowUp \/ StreamStart \/ StreamFinal \/ StreamFinalOnly \/
        ReplyEnd \/ TurnEnd \/ PrepareNextTurn \/ FailMessageStart \/
        FinishRun
OBVIOUS

LEMMA BatchFrame ==
    ASSUME Next
    PROVE
      \/ UNCHANGED batchVars \/ ReplyEnd \/ PreparePrepared \/ ToolEnd \/
        ToolNext \/ ResultEnd \/ FinishRun
OBVIOUS

LEMMA CallFrame ==
    ASSUME Next
    PROVE  UNCHANGED nextCall \/ StreamFinal \/ StreamFinalOnly
OBVIOUS

LEMMA ThrowsFrame ==
    ASSUME Next
    PROVE  throws' = throws \/ (throws < MaxThrows /\ throws' = throws + 1)
BY DEF Emit, Await, EmitFailure

LEMMA ApiPc ==
    ASSUME Api, pc \in PcValues
    PROVE  pc' \in PcValues
BY DEF PcValues

LEMMA RunPc ==
    ASSUME RunStep
    PROVE  pc' \in PcValues
BY DEF PcValues, Emit, Await, EmitFailure

LEMMA TaskPc ==
    ASSUME pc \in PcValues,
           StreamUpdate \/ \E c \in Calls : ToolUpdate(c) \/ ToolSettle(c) \/ TaskEnd(c)
    PROVE  pc' \in PcValues
BY DEF PcValues, Emit, Await

LEMMA ToolFrame ==
    ASSUME Next
    PROVE
      \/ UNCHANGED toolVars \/ ToolStart \/ PrepareImmediate \/
        PreparePrepared \/ ToolExecute \/ ToolEnd \/ Launch \/ (\E c \in Calls
        : ToolUpdate(c) \/ ToolSettle(c) \/ TaskEnd(c))
OBVIOUS

HIDE DEF Next, Api, RunStep, Steer, FollowUp, ClearSteeringQueue,
  ClearFollowUpQueue, Abort, Reset, Prompt, ContinueSteering,
  ContinueFollowUp, RunContinuation, AgentStart, FirstTurnStart, PromptStart,
  PromptEnd, PollInitial, TurnStart, InjectStart, InjectEnd, StreamFails,
  StreamStart, StreamFinal, StreamFinalOnly, ReplyEnd, ToolStart,
  PrepareImmediate, PreparePrepared, ToolExecute, ToolWait, ToolEnd, ToolNext,
  Launch, WaitAll, ResultStart, ResultEnd, TurnEnd, TurnEndStopped,
  PrepareNextTurn, ShouldStopAfterTurn, PollSteering, PollFollowUp, AgentEnd,
  FailMessageStart, FailMessageEnd, FailTurnEnd, FailAgentEnd, FinishRun,
  StreamUpdate, ToolUpdate, ToolSettle, TaskEnd, LoopFrame, TaskFrame,
  StartRun, GetSteeringMessages, ReduceMessageStart, ReduceMessageEnd,
  ReduceToolStart, ReduceToolEnd, ReduceAgentEnd, ClearRuntimeState, apiVars,
  queueVars, stateVars, runVars, contextVars, batchVars, toolVars

-----------------------------------------------------------------------------
(* The invariants that EveryCallAnswered, AgentEndIsLast and the theorems  *)
(* of AgentLoopHistory need, one for each thing the loop keeps track of:   *)
(* how far the batch is worked through, where its reply stands in the      *)
(* transcript, which messages wait where and in which order, how the copies*)
(* of the history compare, and which tools can be running.                 *)

PromptPoints ==
    {"agent_start", "first_turn_start", "prompt_start", "prompt_end", "poll_initial"}

\* The points at which a call of the batch is being handled, and those at which
\* its result message is emitted.
CallPoints == {"tool_start", "tool_prepare", "tool_execute", "tool_wait", "tool_end"}

ResultPoints == {"result_start", "result_end"}

ToolPoints ==
    CallPoints \cup ResultPoints \cup {"tool_next", "launch", "wait_all"}

\* The points at which the locals of runLoop hold no message the transcript
\* lacks, and the transcript none they lack.
LevelPoints ==
    {"turn_start", "inject_start", "inject_end", "stream", "streaming",
     "reply_end", "turn_end_stopped", "prepare_next_turn", "should_stop", "poll",
     "poll_follow_up", "agent_end"}

FailPoints ==
    {"fail_message_start", "fail_message_end", "fail_turn_end", "fail_agent_end",
     "finish"}

\* s is the first n elements of t.
Leading(s, t, n) ==
    n \in 0..Len(t) /\ Len(s) = n /\ \A k \in 1..n : s[k] = t[k]

\* How far the batch has been worked through.  A parallel batch first collects
\* its calls and emits the results at the end, the others emit each at once.
BatchInv ==
    /\ pc \in CallPoints =>
          Leading(IF mode = "parallel" THEN finalizedCalls ELSE toolResults,
                  batch, index - 1)
    /\ pc = "tool_next" =>
          Leading(IF mode = "parallel" THEN finalizedCalls ELSE toolResults,
                  batch, index)
    /\ pc \in {"launch", "wait_all"} \/ (pc \in ResultPoints /\ mode = "parallel") =>
          /\ Leading(finalizedCalls, batch, index)
          /\ aborted \/ index = Len(batch)
    /\ pc \in ResultPoints =>
          IF mode = "parallel" THEN Leading(toolResults, finalizedCalls, Len(toolResults))
          ELSE Leading(toolResults, batch, index - 1)
    /\ pc \in {"turn_end", "prepare_next_turn", "should_stop", "poll"} =>
          aborted \/ toolResults = batch

\* The position in the transcript behind which the results of this turn stand.
ReplyPlace == Len(transcript) - Len(toolResults)

BlockInv ==
    /\ pc \in {"reply_end", "fail_message_end"} => reply.role = "assistant"
    /\ pc \in ToolPoints =>
          /\ ReplyPlace \in 1..Len(transcript)
          /\ transcript[ReplyPlace].role = "assistant"
          /\ transcript[ReplyPlace].calls = batch
    /\ pc \in ToolPoints \cup {"turn_end"} =>
          /\ ReplyPlace \in 0..Len(transcript)
          /\ \A k \in 1..Len(toolResults) :
                transcript[ReplyPlace + k] = ToolResultMessage(toolResults[k])

\* How much of the transcript the locals of runLoop have taken in.
Known == IF pc \in ToolPoints \cup {"turn_end"} THEN ReplyPlace ELSE Len(transcript)

PromptInv ==
    pc \in PromptPoints =>
        /\ Len(context) = Len(transcript) + Len(prompts)
        /\ \A i \in 1..Len(transcript) : context[i] = transcript[i]
        /\ \A i \in 1..Len(prompts) : context[Len(transcript) + i] = prompts[i]
        /\ Len(context) = runStart + Len(newMessages)
        /\ \A i \in 1..Len(newMessages) : newMessages[i] = context[runStart + i]

ReportInv ==
    pc \in LevelPoints \cup ToolPoints \cup {"turn_end"} =>
        /\ runStart + Len(newMessages) = Known
        /\ \A i \in 1..Len(newMessages) : newMessages[i] = transcript[runStart + i]

ContextInv ==
    ~contextReplaced /\ pc \in LevelPoints \cup ToolPoints \cup {"turn_end"} =>
        /\ \A i \in 1..Known : context[i] = transcript[i]
        /\ pc \notin {"streaming", "reply_end"} => Len(context) = Known
        /\ pc \in {"streaming", "reply_end"} => Len(context) = Known + 1
        /\ pc = "reply_end" => context[Known + 1] = reply

\* Prompts and polled messages wait only where the loop is about to announce
\* them, unless the run failed.
WaitingInv ==
    /\ pending # <<>> => \/ pc \in {"turn_start", "inject_start", "inject_end"}
                         \/ (throws > 0 /\ pc \in FailPoints)
    /\ prompts # <<>> => \/ pc \in PromptPoints \ {"poll_initial"}
                         \/ (throws > 0 /\ pc \in FailPoints)

\* Of two user messages of one kind, m was queued before n.
Older(m, n) ==
    m.role = "user" /\ n.role = "user" /\ m.kind = n.kind => m.id < n.id

InOrder(s) == \A i, j \in 1..Len(s) : i < j => Older(s[i], s[j])

Precedes(s, t) == \A i \in 1..Len(s), j \in 1..Len(t) : Older(s[i], t[j])

\* s holds user messages of the given kinds, among the first n ever created.
Held(s, kinds, n) ==
    \A i \in 1..Len(s) : s[i].role = "user" /\ s[i].kind \in kinds /\ s[i].id <= n

\* The user messages of t are among the first n ever created.
Issued(t, n) == \A i \in 1..Len(t) : t[i].role = "user" => t[i].id <= n

KindInv ==
    /\ Held(prompts, Kinds, nextMessage) /\ Held(pending, Kinds, nextMessage)
    /\ Held(steeringQueue, {"steer"}, nextMessage)
    /\ Held(followUpQueue, {"followUp"}, nextMessage)
    /\ Issued(transcript, nextMessage)

OrderInv ==
    /\ InOrder(transcript) /\ InOrder(prompts) /\ InOrder(pending)
    /\ InOrder(steeringQueue) /\ InOrder(followUpQueue)
    /\ Precedes(transcript, prompts) /\ Precedes(transcript, pending)
    /\ Precedes(transcript, steeringQueue) /\ Precedes(transcript, followUpQueue)
    /\ Precedes(prompts, steeringQueue) /\ Precedes(prompts, followUpQueue)
    /\ Precedes(pending, steeringQueue) /\ Precedes(pending, followUpQueue)

\* The batch is being prepared: none of its calls has been launched.
Preparing ==
    pc \in CallPoints \cup {"tool_next"} \/ (pc \in ResultPoints /\ mode # "parallel")

\* Tool calls are numbered as the provider issues them, and no call of a batch
\* in preparation is one launched by an earlier parallel batch.
FreshInv ==
    /\ \A c \in parallelCalls : c <= nextCall
    /\ pc = "reply_end" =>
          \A i \in 1..Len(reply.calls) :
              reply.calls[i] <= nextCall /\ reply.calls[i] \notin parallelCalls
    /\ pc \in ToolPoints => \A i \in 1..Len(batch) : batch[i] <= nextCall
    /\ Preparing => \A i \in 1..Len(batch) : batch[i] \notin parallelCalls

\* As long as nothing threw, tools run only while the loop waits for them.
QuietInv ==
    throws = 0 =>
        /\ pc \notin FailPoints \ {"finish"}
        /\ \A c \in Calls : tool[c] \notin {"poisoned", "rejected"}
        /\ \A c \in Calls : tool[c] = "executing" =>
              \/ pc = "tool_wait" /\ c = Current
              \/ pc = "wait_all" /\ c \in Elements(finalizedCalls)
        /\ \A c \in parallelCalls : tool[c] \in {"executing", "finalized", "ended"}
        /\ \A c \in parallelCalls : tool[c] = "finalized" =>
              pc = "wait_all" /\ c \in Elements(finalizedCalls)
        /\ lastEvent = "agent_end" => pc \in {"finish", "idle", "agent_start"}

WaitingPoints ==
    {"agent_start", "first_turn_start", "prompt_start", "prompt_end",
     "turn_start", "inject_start", "inject_end"} \cup FailPoints

historyVars == <<context, transcript, newMessages, runStart, toolResults,
                 contextReplaced, reply>>

-----------------------------------------------------------------------------
(* The steps each of these invariants must look at.                        *)

\* What a step does that keeps the batch, its results and the transcript, or
\* else which step it is.
LEMMA BatchMoves ==
    ASSUME Next
    PROVE
      \/ pc' \notin ToolPoints \cup {"turn_end", "prepare_next_turn", "should_stop", "poll"}
      \/ UNCHANGED <<pc, batchVars, aborted>>
      \/ Abort \/ ReplyEnd
      \/ UNCHANGED <<batchVars, aborted>> /\ pc \in CallPoints /\ pc' \in CallPoints
      \/ PreparePrepared \/ ToolEnd \/ ToolNext \/ Launch \/ WaitAll
      \/ UNCHANGED <<batchVars, aborted>> /\ pc \in ResultPoints /\ pc' \in ResultPoints
      \/ ResultEnd \/ TurnEnd \/ PrepareNextTurn \/ ShouldStopAfterTurn
<1> USE DEF ToolPoints, CallPoints, ResultPoints
<1>1. CASE Api
  BY <1>1 DEF Api, Steer, FollowUp, ClearSteeringQueue, ClearFollowUpQueue, Reset,
     Prompt, ContinueSteering, ContinueFollowUp, RunContinuation, StartRun, runVars
<1>2. CASE RunStep
  BY <1>2 DEF RunStep, Emit, Await, EmitFailure, LoopFrame, AgentStart,
     FirstTurnStart, PromptStart, PromptEnd, PollInitial, TurnStart, InjectStart,
     InjectEnd, StreamFails, StreamStart, StreamFinal, StreamFinalOnly, ToolStart,
     PrepareImmediate, ToolExecute, ToolWait, ResultStart, TurnEndStopped,
     PollSteering, PollFollowUp, AgentEnd, FailMessageStart, FailMessageEnd,
     FailTurnEnd, FailAgentEnd, FinishRun
<1>3. CASE StreamUpdate \/ \E c \in Calls : ToolUpdate(c) \/ ToolSettle(c) \/ TaskEnd(c)
  BY <1>3 DEF StreamUpdate, Emit, Await, ToolUpdate, ToolSettle, TaskEnd, TaskFrame,
     runVars
<1> QED BY <1>1, <1>2, <1>3 DEF Next

LEMMA BlockMoves ==
    ASSUME Next
    PROVE
      \/ pc' \notin ToolPoints \cup {"turn_end", "reply_end", "fail_message_end"}
      \/ UNCHANGED <<pc, reply, transcript, toolResults, batch>>
      \/ Reset \/ StreamFinal \/ StreamFinalOnly \/ ReplyEnd \/ ResultEnd
      \/ FailMessageStart
      \/ /\ pc \in ToolPoints /\ pc' \in ToolPoints \cup {"turn_end"}
         /\ UNCHANGED <<transcript, toolResults, batch>>
<1> USE DEF ToolPoints, CallPoints, ResultPoints, stateVars, batchVars
<1>1. CASE Api
  BY <1>1 DEF Api, Steer, FollowUp, ClearSteeringQueue, ClearFollowUpQueue, Abort,
     Prompt, ContinueSteering, ContinueFollowUp, RunContinuation, StartRun
<1>2. CASE RunStep
  BY <1>2 DEF RunStep, Emit, Await, EmitFailure, AgentStart,
     FirstTurnStart, PromptStart, PromptEnd, PollInitial, TurnStart, InjectStart,
     InjectEnd, StreamFails, StreamStart, ToolStart,
     PrepareImmediate, PreparePrepared, ToolExecute, ToolWait, ToolEnd, ToolNext,
     Launch, WaitAll, ResultStart, TurnEnd, TurnEndStopped, PrepareNextTurn,
     ShouldStopAfterTurn,
     PollSteering, PollFollowUp, AgentEnd, FailMessageEnd,
     FailTurnEnd, FailAgentEnd, FinishRun, ReduceMessageStart, ReduceToolStart,
     ReduceToolEnd
<1>3. CASE StreamUpdate \/ \E c \in Calls : ToolUpdate(c) \/ ToolSettle(c) \/ TaskEnd(c)
  BY <1>3 DEF StreamUpdate, Emit, Await, ToolUpdate, ToolSettle, TaskEnd, TaskFrame
<1> QED BY <1>1, <1>2, <1>3 DEF Next

LEMMA TranscriptMoves ==
    ASSUME Next
    PROVE  \/ UNCHANGED transcript
           \/ Reset \/ PromptEnd \/ InjectEnd \/ ReplyEnd \/ FailMessageEnd \/ ResultEnd
BY StateFrame DEF ToolStart, ToolEnd, FinishRun, TaskEnd, TaskFrame,
   ReduceToolStart, ReduceToolEnd

LEMMA MessageMoves ==
    ASSUME Next
    PROVE
      \/ UNCHANGED <<transcript, prompts, pending, steeringQueue, followUpQueue,
                     nextMessage, cleared>>
      \/ Steer \/ FollowUp \/ ClearSteeringQueue \/ ClearFollowUpQueue \/ Reset
      \/ Prompt \/ ContinueSteering \/ ContinueFollowUp \/ RunContinuation
      \/ PromptEnd \/ InjectEnd \/ PollInitial \/ PollSteering \/ PollFollowUp
      \/ ReplyEnd \/ FailMessageEnd \/ ResultEnd \/ FinishRun
<1> USE DEF stateVars, queueVars, apiVars, LoopFrame, ReduceMessageStart, ReduceToolStart,
            ReduceToolEnd, ReduceAgentEnd
<1>1. CASE Api
  BY <1>1 DEF Api, Abort
<1>2. CASE RunStep
  BY <1>2 DEF RunStep, AgentStart, FirstTurnStart, PromptStart, TurnStart,
     InjectStart, StreamFails, StreamStart, StreamFinal, StreamFinalOnly,
     ToolStart, PrepareImmediate, PreparePrepared, ToolExecute, ToolWait, ToolEnd,
     ToolNext, Launch, WaitAll, ResultStart, TurnEnd, TurnEndStopped,
     PrepareNextTurn, ShouldStopAfterTurn, AgentEnd, FailMessageStart, FailTurnEnd,
     FailAgentEnd
<1>3. CASE StreamUpdate \/ \E c \in Calls : ToolUpdate(c) \/ ToolSettle(c) \/ TaskEnd(c)
  BY <1>3 DEF StreamUpdate, ToolUpdate, ToolSettle, TaskEnd, TaskFrame
<1> QED BY <1>1, <1>2, <1>3 DEF Next

LEMMA WaitingMoves ==
    ASSUME Next
    PROVE
      \/ UNCHANGED <<prompts, pending>> /\ pc \notin WaitingPoints
      \/ UNCHANGED <<prompts, pending>> /\ pc \in FailPoints /\ pc' \in FailPoints
      \/ UNCHANGED <<pc, prompts, pending>>
      \/ Prompt \/ ContinueSteering \/ ContinueFollowUp \/ RunContinuation
      \/ AgentStart \/ FirstTurnStart \/ PromptStart \/ PromptEnd
      \/ TurnStart \/ InjectStart \/ InjectEnd
      \/ PollInitial \/ PollSteering \/ PollFollowUp
      \/ FinishRun
<1> USE DEF WaitingPoints, FailPoints
<1>1. CASE Api
  BY <1>1 DEF Api, Steer, FollowUp, ClearSteeringQueue, ClearFollowUpQueue, Abort, Reset
<1>2. CASE RunStep
  BY <1>2 DEF RunStep, StreamFails, StreamStart, StreamFinal, StreamFinalOnly,
     ReplyEnd, ToolStart, PrepareImmediate, PreparePrepared, ToolExecute, ToolWait,
     ToolEnd, ToolNext, Launch, WaitAll, ResultStart, ResultEnd, TurnEnd,
     TurnEndStopped, PrepareNextTurn, ShouldStopAfterTurn, AgentEnd,
     FailMessageStart, FailMessageEnd, FailTurnEnd, FailAgentEnd, EmitFailure
<1>3. CASE StreamUpdate \/ \E c \in Calls : ToolUpdate(c) \/ ToolSettle(c) \/ TaskEnd(c)
  BY <1>3 DEF StreamUpdate, ToolUpdate, ToolSettle, TaskEnd, TaskFrame
<1> QED BY <1>1, <1>2, <1>3 DEF Next

LEMMA HistoryMoves ==
    ASSUME Next
    PROVE
      \/ pc' \notin PromptPoints \cup LevelPoints \cup ToolPoints \cup {"turn_end"}
      \/ UNCHANGED <<pc, prompts, historyVars>>
      \/ UNCHANGED <<prompts, historyVars>> /\ pc \in PromptPoints /\ pc' \in PromptPoints
      \/ /\ UNCHANGED historyVars
         /\ pc \in LevelPoints \ {"streaming", "reply_end"}
         /\ pc' \in LevelPoints \ {"streaming", "reply_end"}
      \/ /\ UNCHANGED historyVars
         /\ pc \in ToolPoints \cup {"turn_end"} /\ pc' \in ToolPoints \cup {"turn_end"}
      \/ Reset \/ Prompt \/ ContinueSteering \/ ContinueFollowUp \/ RunContinuation
      \/ PromptEnd \/ PollInitial \/ InjectEnd
      \/ StreamStart \/ StreamFinal \/ StreamFinalOnly \/ ReplyEnd
      \/ ResultEnd \/ TurnEnd \/ PrepareNextTurn
<1> USE DEF PromptPoints, LevelPoints, ToolPoints, CallPoints, ResultPoints,
            historyVars, contextVars, stateVars, batchVars, runVars, LoopFrame,
            ReduceMessageStart, ReduceToolStart, ReduceToolEnd
<1>1. CASE Api
  BY <1>1 DEF Api, Steer, FollowUp, ClearSteeringQueue, ClearFollowUpQueue, Abort
<1>2. CASE AgentStart \/ FirstTurnStart \/ PromptStart \/ TurnStart \/ InjectStart
  BY <1>2 DEF AgentStart, FirstTurnStart, PromptStart, TurnStart, InjectStart, Emit, Await
<1>6. CASE \/ StreamFails \/ TurnEndStopped \/ ShouldStopAfterTurn \/ PollSteering
           \/ PollFollowUp \/ AgentEnd \/ StreamUpdate
  BY <1>6 DEF StreamFails, TurnEndStopped, ShouldStopAfterTurn, PollSteering,
     PollFollowUp, AgentEnd, StreamUpdate, Emit, Await
<1>3. CASE \/ ToolStart \/ PrepareImmediate \/ PreparePrepared \/ ToolExecute \/ ToolWait
           \/ ToolEnd \/ ToolNext \/ Launch \/ WaitAll \/ ResultStart
  BY <1>3 DEF ToolStart, PrepareImmediate, PreparePrepared, ToolExecute, ToolWait,
     ToolEnd, ToolNext, Launch, WaitAll, ResultStart, Emit, Await
<1>4. CASE FailMessageStart \/ FailMessageEnd \/ FailTurnEnd \/ FailAgentEnd \/ FinishRun
  BY <1>4 DEF FailMessageStart, FailMessageEnd, FailTurnEnd, FailAgentEnd, FinishRun,
     EmitFailure
<1>5. CASE \E c \in Calls : ToolUpdate(c) \/ ToolSettle(c) \/ TaskEnd(c)
  BY <1>5 DEF ToolUpdate, ToolSettle, TaskEnd, TaskFrame
<1> QED BY <1>1, <1>2, <1>3, <1>4, <1>5, <1>6 DEF Next, RunStep

LEMMA FreshMoves ==
    ASSUME TypeInv, Next
    PROVE
      \/ UNCHANGED <<pc, mode, batch, reply, nextCall, parallelCalls>>
      \/ /\ UNCHANGED <<nextCall, parallelCalls>>
         /\ pc' \notin ToolPoints \cup {"reply_end"}
      \/ /\ UNCHANGED <<batch, nextCall, parallelCalls>>
         /\ pc \in ToolPoints /\ pc' \in ToolPoints /\ (Preparing' => Preparing)
      \/ StreamFinal \/ StreamFinalOnly \/ ReplyEnd \/ Launch
<1> USE DEF ToolPoints, CallPoints, ResultPoints, Preparing
<1>1. CASE Api
  BY <1>1 DEF Api, Steer, FollowUp, ClearSteeringQueue, ClearFollowUpQueue, Reset, Abort,
     Prompt, ContinueSteering, ContinueFollowUp, RunContinuation, StartRun, runVars,
     batchVars, toolVars
<1>2. CASE RunStep
  <2>1. CASE ToolStart \/ PrepareImmediate \/ PreparePrepared \/ ToolExecute \/ ToolWait
             \/ ToolEnd \/ ToolNext \/ WaitAll \/ ResultStart \/ ResultEnd
    <3>1. pc \in {"launch", "wait_all"} => mode = "parallel"
      BY DEF TypeInv, Positions
    <3> QED BY <2>1, <3>1 DEF Emit, Await, LoopFrame, ToolStart, PrepareImmediate,
               PreparePrepared, ToolExecute, ToolWait, ToolEnd, ToolNext, WaitAll,
               ResultStart, ResultEnd, batchVars, toolVars
  <2>2. CASE ~(ToolStart \/ PrepareImmediate \/ PreparePrepared \/ ToolExecute \/ ToolWait
               \/ ToolEnd \/ ToolNext \/ WaitAll \/ ResultStart \/ ResultEnd)
    BY <1>2, <2>2 DEF RunStep, Emit, Await, EmitFailure, LoopFrame, AgentStart,
       FirstTurnStart, PromptStart, PromptEnd, PollInitial, TurnStart, InjectStart,
       InjectEnd, StreamFails, StreamStart, TurnEnd, TurnEndStopped, PrepareNextTurn,
       ShouldStopAfterTurn, PollSteering, PollFollowUp, AgentEnd, FailMessageStart,
       FailMessageEnd, FailTurnEnd, FailAgentEnd, FinishRun, toolVars
  <2> QED BY <2>1, <2>2
<1>3. CASE StreamUpdate \/ \E c \in Calls : ToolUpdate(c) \/ ToolSettle(c) \/ TaskEnd(c)
  BY <1>3 DEF StreamUpdate, Emit, Await, ToolUpdate, ToolSettle, TaskEnd, TaskFrame,
     batchVars, toolVars
<1> QED BY <1>1, <1>2, <1>3 DEF Next

\* The steps of the loop that neither touch a tool nor wait for one.
LEMMA QuietMoves ==
    ASSUME TypeInv, IdleIsClean, Next, throws' = throws
    PROVE
      \/ UNCHANGED <<tool, parallelCalls, batchVars, pc, lastEvent>>
      \/ /\ UNCHANGED <<tool, parallelCalls>> /\ pc \notin {"tool_wait", "wait_all"}
         /\ pc \notin FailPoints \ {"finish"} => pc' \notin FailPoints \ {"finish"}
         /\ \/ lastEvent' # "agent_end"
            \/ lastEvent' = lastEvent /\ pc' \in {"idle", "agent_start"}
            \/ lastEvent' = lastEvent /\ pc \notin {"finish", "idle", "agent_start"}
            \/ pc' = "finish"
      \/ ToolStart \/ PrepareImmediate \/ PreparePrepared \/ ToolExecute \/ ToolWait
      \/ ToolEnd \/ Launch \/ WaitAll
      \/ \E c \in Calls : ToolUpdate(c) \/ ToolSettle(c) \/ TaskEnd(c)
<1> USE DEF FailPoints
<1>1. throws \in Nat /\ throws + 1 # throws
  BY BoundsAssumption, SMTT(60) DEF TypeInv, TypeOK, CounterType
<1>2. CASE Api
  BY <1>2 DEF IdleIsClean, Api, Steer, FollowUp, ClearSteeringQueue,
     ClearFollowUpQueue, Reset, Abort, Prompt, ContinueSteering, ContinueFollowUp,
     RunContinuation, StartRun, runVars, toolVars
<1>3. CASE RunStep
  BY <1>3, <1>1 DEF RunStep, Emit, Await, EmitFailure, LoopFrame, AgentStart,
     FirstTurnStart, PromptStart, PromptEnd, PollInitial, TurnStart, InjectStart,
     InjectEnd, StreamFails, StreamStart, StreamFinal, StreamFinalOnly, ReplyEnd,
     ToolNext, ResultStart, ResultEnd, TurnEnd, TurnEndStopped, PrepareNextTurn,
     ShouldStopAfterTurn, PollSteering, PollFollowUp, AgentEnd, FailMessageStart,
     FailMessageEnd, FailTurnEnd, FailAgentEnd, FinishRun, toolVars
<1>4. CASE StreamUpdate
  BY <1>4, <1>1 DEF StreamUpdate, Emit, Await, toolVars
<1> QED BY <1>2, <1>3, <1>4 DEF Next

-----------------------------------------------------------------------------
(* Every step keeps the types and the positions.                           *)

LEMMA ResultCallType ==
    ASSUME TypeInv, pc = "result_end"
    PROVE  ResultCall \in Calls
BY SMTT(60) DEF TypeInv, TypeOK, BatchType, Positions, ResultCall, Current

LEMMA CurrentType ==
    ASSUME TypeInv, pc \in {"tool_start", "tool_prepare", "tool_execute", "tool_end"}
    PROVE  Current \in Calls
BY SMTT(60) DEF TypeInv, TypeOK, BatchType, Positions, Current

LEMMA EmptySeq == <<>> \in Seq(Message) /\ <<>> \in Seq(Calls)
BY SMTT(60)

LEMMA EmptyReply ==
    ASSUME NEW kind \in Kinds
    PROVE  AssistantMessage(kind, <<>>) \in Message
<1>1. <<>> \in Seq(Nat)
  BY SMTT(60)
<1> QED BY <1>1, MessageTypes

LEMMA HeadTailType ==
    ASSUME NEW s \in Seq(Message), s # <<>>
    PROVE  Head(s) \in Message /\ Tail(s) \in Seq(Message)
BY SMTT(60)

LEMMA MessageEndType ==
    ASSUME StateType, NEW m \in Message, ReduceMessageEnd(m)
    PROVE  StateType'
BY SMTT(60) DEF StateType, ReduceMessageEnd

LEMMA ApiTypeStep ==
    ASSUME TypeInv, Next
    PROVE  ApiType'
<1> USE BoundsAssumption DEF TypeInv, TypeOK, ApiType
<1>1. CASE UNCHANGED apiVars
  BY <1>1 DEF apiVars
<1>2. CASE Steer \/ FollowUp
  <2>1. CASE Steer
    BY <2>1, SMTT(60) DEF Steer
  <2>2. CASE FollowUp
    BY <2>2, SMTT(60) DEF FollowUp
  <2> QED BY <1>2, <2>1, <2>2
<1>3. CASE ClearSteeringQueue \/ ClearFollowUpQueue
  BY <1>3, IdsType DEF ClearSteeringQueue, ClearFollowUpQueue, QueueType
<1>4. CASE Reset
  BY <1>4, IdsType, UserIdsType DEF Reset, QueueType
<1>5. CASE Prompt
  BY <1>5, PromptType DEF Prompt
<1> QED BY <1>1, <1>2, <1>3, <1>4, <1>5, ApiFrame

LEMMA QueueTypeStep ==
    ASSUME TypeInv, Next
    PROVE  QueueType'
<1> USE DEF TypeInv, TypeOK, QueueType
<1>1. CASE UNCHANGED queueVars
  BY <1>1 DEF queueVars
<1>2. CASE Steer \/ FollowUp
  <2>1. nextMessage + 1 \in Nat
    BY BoundsAssumption, SMTT(60) DEF ApiType
  <2>2. /\ UserMessage(nextMessage + 1, "steer") \in Message
        /\ UserMessage(nextMessage + 1, "followUp") \in Message
    BY <2>1, MessageTypes DEF Kinds
  <2>3. CASE Steer
    BY <2>2, <2>3, SMTT(60) DEF Steer, Enqueue
  <2>4. CASE FollowUp
    BY <2>2, <2>4, SMTT(60) DEF FollowUp, Enqueue
  <2> QED BY <1>2, <2>3, <2>4
<1>3. CASE ClearSteeringQueue \/ ClearFollowUpQueue \/ Reset
  BY <1>3, EmptySeq DEF ClearSteeringQueue, ClearFollowUpQueue, Reset
<1>4. CASE ContinueSteering \/ ContinueFollowUp
  BY <1>4, DrainType DEF ContinueSteering, ContinueFollowUp
<1>5. CASE PollInitial \/ PollSteering \/ PollFollowUp
  BY <1>5, DrainType DEF PollInitial, PollSteering, PollFollowUp,
                         GetSteeringMessages
<1> QED BY <1>1, <1>2, <1>3, <1>4, <1>5, QueueFrame

LEMMA StateTypeStep ==
    ASSUME TypeInv, Next
    PROVE  StateType'
<1> USE DEF TypeInv, TypeOK, StateType
<1>1. CASE UNCHANGED <<transcript, pendingToolCalls>>
  BY <1>1
<1>2. CASE Reset
  BY <1>2, EmptySeq DEF Reset
<1>3. CASE PromptEnd \/ InjectEnd
  <2>1. CASE PromptEnd
    <3>1. Head(prompts) \in Message
      BY <2>1, HeadTailType DEF PromptEnd, ContextType, Positions
    <3> QED BY <2>1, <3>1, MessageEndType DEF PromptEnd
  <2>2. CASE InjectEnd
    <3>1. Head(pending) \in Message
      BY <2>2, HeadTailType DEF InjectEnd, ContextType, Positions
    <3> QED BY <2>2, <3>1, MessageEndType DEF InjectEnd
  <2> QED BY <1>3, <2>1, <2>2
<1>4. CASE ReplyEnd \/ FailMessageEnd
  BY <1>4, MessageEndType DEF ReplyEnd, FailMessageEnd, ContextType
<1>5. CASE ResultEnd
  <2>1. ResultCall \in Nat
    BY <1>5, ResultCallType, CallsAreNat DEF ResultEnd
  <2>2. ToolResultMessage(ResultCall) \in Message
    BY <2>1, MessageTypes
  <2> QED BY <1>5, <2>2, MessageEndType DEF ResultEnd
<1>6. CASE ToolStart \/ ToolEnd
  BY <1>6, CurrentType DEF ToolStart, ToolEnd, ReduceToolStart, ReduceToolEnd
<1>7. CASE FinishRun
  BY <1>7 DEF FinishRun, ClearRuntimeState
<1>8. CASE \E c \in Calls : TaskEnd(c)
  BY <1>8 DEF TaskEnd, TaskFrame
<1> QED BY <1>1, <1>2, <1>3, <1>4, <1>5, <1>6, <1>7, <1>8, StateFrame

LEMMA ContextTypeStep ==
    ASSUME TypeInv, Next
    PROVE  ContextType'
<1> USE DEF TypeInv, TypeOK, ContextType
<1>1. CASE UNCHANGED <<context, newMessages, prompts, pending, reply, runStart>>
  BY <1>1
<1>2. CASE Prompt
  BY <1>2, EmptySeq, PromptType, SMTT(60) DEF Prompt, StartRun, StateType
<1>3. CASE ContinueSteering \/ ContinueFollowUp \/ RunContinuation
  <2> USE EmptySeq, DrainType DEF StartRun, StateType, QueueType
  <2>1. CASE ContinueSteering
    BY <2>1, SMTT(60) DEF ContinueSteering
  <2>2. CASE ContinueFollowUp
    BY <2>2, SMTT(60) DEF ContinueFollowUp
  <2>3. CASE RunContinuation
    BY <2>3, SMTT(60) DEF RunContinuation
  <2> QED BY <1>3, <2>1, <2>2, <2>3
<1>4. CASE PromptEnd
  BY <1>4, HeadTailType DEF PromptEnd, LoopFrame, contextVars, Positions
<1>5. CASE InjectEnd
  <2>1. Head(pending) \in Message /\ Tail(pending) \in Seq(Message)
    BY <1>5, HeadTailType DEF InjectEnd, Positions
  <2>2. pending' = Tail(pending) /\ UNCHANGED <<prompts, reply, runStart>>
    BY <1>5 DEF InjectEnd, LoopFrame
  <2>3. context \in Seq(Message) /\ newMessages \in Seq(Message)
    OBVIOUS
  <2>4. context' \in Seq(Message) /\ newMessages' \in Seq(Message)
    <3>1. CASE context' = context /\ newMessages' = newMessages
      BY <3>1, <2>3
    <3>2. CASE /\ context' = Append(context, Head(pending))
               /\ newMessages' = Append(newMessages, Head(pending))
      <4>1. /\ Append(context, Head(pending)) \in Seq(Message)
            /\ Append(newMessages, Head(pending)) \in Seq(Message)
        BY <2>1, <2>3, SMTT(60)
      <4> QED BY <3>2, <4>1
    <3> QED BY <1>5, <3>1, <3>2 DEF InjectEnd
  <2> QED BY <2>1, <2>2, <2>4
<1>6. CASE PollInitial \/ PollSteering \/ PollFollowUp
  <2> USE EmptySeq, DrainType DEF QueueType, GetSteeringMessages, LoopFrame, contextVars
  <2>1. CASE PollInitial
    BY <2>1 DEF PollInitial
  <2>2. CASE PollSteering
    BY <2>2 DEF PollSteering
  <2>3. CASE PollFollowUp
    BY <2>3 DEF PollFollowUp
  <2> QED BY <1>6, <2>1, <2>2, <2>3
<1>7. CASE StreamStart
  <2>1. PartialMessage \in Message
    BY EmptyReply DEF PartialMessage, Kinds
  <2> QED BY <1>7, <2>1, SMTT(60) DEF StreamStart, LoopFrame
<1>8. CASE StreamFinal
  BY <1>8, FinalMessageType, ReplaceLastType DEF StreamFinal, LoopFrame
<1>9. CASE StreamFinalOnly
  BY <1>9, FinalMessageType, SMTT(60) DEF StreamFinalOnly, LoopFrame
<1>10. CASE ReplyEnd
  <2>1. UNCHANGED <<context, prompts, pending, reply, runStart>>
    BY <1>10 DEF ReplyEnd, LoopFrame
  <2>2. newMessages' = newMessages \/ newMessages' = Append(newMessages, reply)
    BY <1>10 DEF ReplyEnd
  <2>3. Append(newMessages, reply) \in Seq(Message)
    BY SMTT(60)
  <2> QED BY <2>1, <2>2, <2>3
<1>11. CASE TurnEnd
  BY <1>11, ResultsType, SMTT(60) DEF TurnEnd, LoopFrame, BatchType
<1>12. CASE PrepareNextTurn
  BY <1>12, EmptySeq DEF PrepareNextTurn, LoopFrame
<1>13. CASE FailMessageStart
  BY <1>13, EmptyReply DEF FailMessageStart, LoopFrame, contextVars, Kinds
<1>14. CASE FinishRun
  BY <1>14, EmptySeq, EmptyReply DEF FinishRun, Kinds
<1> QED BY <1>1, <1>2, <1>3, <1>4, <1>5, <1>6, <1>7, <1>8, <1>9, <1>10, <1>11,
           <1>12, <1>13, <1>14, ContextFrame

LEMMA BatchTypeStep ==
    ASSUME TypeInv, Next
    PROVE  BatchType'
<1> USE DEF TypeInv, TypeOK, BatchType
<1>1. CASE UNCHANGED batchVars
  BY <1>1 DEF batchVars
<1>2. CASE ReplyEnd
  BY <1>2, ModesAssumption, SMTT(60) DEF ReplyEnd, Positions
<1>3. CASE PreparePrepared \/ ToolEnd
  <2>1. CASE PreparePrepared
    BY <2>1, CurrentType, SMTT(60) DEF PreparePrepared
  <2>2. CASE ToolEnd
    BY <2>2, CurrentType, SMTT(60) DEF ToolEnd
  <2> QED BY <1>3, <2>1, <2>2
<1>4. CASE ToolNext
  BY <1>4, SMTT(60) DEF ToolNext
<1>5. CASE ResultEnd
  BY <1>5, ResultCallType, SMTT(60) DEF ResultEnd, Positions, Current
<1>6. CASE FinishRun
  BY <1>6, EmptySeq, SMTT(60) DEF FinishRun
<1> QED BY <1>1, <1>2, <1>3, <1>4, <1>5, <1>6, BatchFrame

LEMMA ToolTypeStep ==
    ASSUME TypeInv, Next
    PROVE  ToolType'
<1> USE DEF TypeInv, TypeOK, ToolType, ToolStates
<1>1. CASE UNCHANGED toolVars
  BY <1>1 DEF toolVars
<1>2. CASE ToolStart \/ PrepareImmediate \/ PreparePrepared \/ ToolExecute \/ ToolEnd
  BY <1>2, CurrentType DEF ToolStart, PrepareImmediate, PreparePrepared,
                           ToolExecute, ToolEnd
<1>3. CASE Launch
  <2> DEFINE launched == {c \in Elements(finalizedCalls) : tool[c] = "prepared"}
  <2>1. parallelCalls' \in SUBSET Calls
    <3>1. finalizedCalls \in Seq(Calls) /\ parallelCalls \in SUBSET Calls
      BY DEF BatchType
    <3>2. Elements(finalizedCalls) \subseteq Calls
      BY <3>1, SMTT(60) DEF Elements
    <3>3. parallelCalls' = parallelCalls \cup launched
      BY <1>3 DEF Launch
    <3> QED BY <3>1, <3>2, <3>3
  <2>2. tool' \in [Calls -> ToolStates]
    BY <1>3 DEF Launch
  <2> QED BY <1>3, <2>1, <2>2 DEF Launch
<1>4. ASSUME NEW c \in Calls, ToolUpdate(c) \/ ToolSettle(c) \/ TaskEnd(c)
      PROVE  ToolType'
  BY <1>4 DEF ToolUpdate, ToolSettle, TaskEnd
<1> QED BY <1>1, <1>2, <1>3, <1>4, ToolFrame

LEMMA FlagTypeStep ==
    ASSUME TypeInv, Next
    PROVE  FlagType'
<1> USE DEF TypeInv, TypeOK, FlagType, LoopFrame, apiVars, queueVars, stateVars,
            runVars, contextVars, batchVars, toolVars
<1>1. CASE Api
  BY <1>1 DEF Api, Steer, FollowUp, ClearSteeringQueue, ClearFollowUpQueue,
     Abort, Reset, Prompt, ContinueSteering, ContinueFollowUp, RunContinuation,
     StartRun
<1>2. CASE AgentStart \/ FirstTurnStart \/ PromptStart \/ PromptEnd \/ PollInitial
           \/ TurnStart \/ InjectStart \/ InjectEnd
  BY <1>2 DEF AgentStart, FirstTurnStart, PromptStart, PromptEnd, PollInitial,
     TurnStart, InjectStart, InjectEnd, GetSteeringMessages, ReduceMessageStart,
     ReduceMessageEnd
<1>3. CASE StreamFails \/ StreamStart \/ StreamFinal \/ StreamFinalOnly \/ ReplyEnd
           \/ StreamUpdate
  BY <1>3 DEF StreamFails, StreamStart, StreamFinal, StreamFinalOnly, ReplyEnd,
     StreamUpdate, ReduceMessageStart, ReduceMessageEnd
<1>4. CASE ToolStart \/ PrepareImmediate \/ PreparePrepared \/ ToolExecute \/ ToolWait
  BY <1>4 DEF ToolStart, PrepareImmediate, PreparePrepared, ToolExecute,
     ToolWait, ReduceToolStart
<1>8. CASE ToolEnd \/ ToolNext \/ Launch \/ WaitAll \/ ResultStart \/ ResultEnd
  BY <1>8 DEF ToolEnd, ToolNext, Launch, WaitAll, ResultStart, ResultEnd,
     ReduceToolEnd, ReduceMessageStart, ReduceMessageEnd
<1>5. CASE TurnEnd \/ TurnEndStopped \/ PrepareNextTurn \/ ShouldStopAfterTurn
           \/ PollSteering \/ PollFollowUp \/ AgentEnd
  BY <1>5 DEF TurnEnd, TurnEndStopped, PrepareNextTurn, ShouldStopAfterTurn,
     PollSteering, PollFollowUp, AgentEnd, GetSteeringMessages, ReduceAgentEnd
<1>6. CASE FailMessageStart \/ FailMessageEnd \/ FailTurnEnd \/ FailAgentEnd
           \/ FinishRun
  BY <1>6 DEF FailMessageStart, FailMessageEnd, FailTurnEnd, FailAgentEnd,
     FinishRun, ClearRuntimeState, ReduceMessageStart, ReduceMessageEnd,
     ReduceAgentEnd
<1>7. ASSUME NEW c \in Calls, ToolUpdate(c) \/ ToolSettle(c) \/ TaskEnd(c)
      PROVE  FlagType'
  BY <1>7 DEF ToolUpdate, ToolSettle, TaskEnd, TaskFrame
<1> QED BY <1>1, <1>2, <1>3, <1>4, <1>5, <1>6, <1>7, <1>8 DEF Next, RunStep

LEMMA CounterTypeStep ==
    ASSUME TypeInv, Next
    PROVE  CounterType'
<1> USE BoundsAssumption DEF TypeInv, TypeOK, CounterType
<1>1. throws' \in 0..MaxThrows
  BY ThrowsFrame, SMTT(60)
<1>2. nextCall' \in 0..MaxCalls
  BY CallFrame, FinalMessageType DEF StreamFinal, StreamFinalOnly
<1>3. pc' \in PcValues
  BY ApiPc, RunPc, TaskPc DEF Next
<1> QED BY <1>1, <1>2, <1>3

\* When a list with another element is shortened, something is left.
LEMMA TailNonEmpty ==
    ASSUME NEW S, NEW s \in Seq(S), s # <<>>, Len(s) # 1
    PROVE  Tail(s) # <<>>
<1>1. Len(s) \in Nat /\ Len(s) # 0
  BY SMTT(60)
<1>2. Len(Tail(s)) = Len(s) - 1
  BY SMTT(60)
<1>3. Len(Tail(s)) # 0
  BY <1>1, <1>2, SMTT(60)
<1>4. Len(<<>>) = 0
  OBVIOUS
<1> QED BY <1>3, <1>4

LEMMA AppendNonEmpty ==
    ASSUME NEW S, NEW s \in Seq(S), NEW e \in S
    PROVE  Append(s, e) # <<>>
<1>1. Len(Append(s, e)) = Len(s) + 1 /\ Len(s) \in Nat
  BY SMTT(60)
<1>2. Len(<<>>) = 0
  OBVIOUS
<1> QED BY <1>1, <1>2, SMTT(60)

LEMMA PositionsStep ==
    ASSUME TypeInv, Next
    PROVE  Positions'
<1>0. Positions /\ BatchType /\ ContextType /\ CounterType
  BY DEF TypeInv, TypeOK
<1> USE <1>0 DEF Positions, LoopFrame, Emit, Await
<1>1. CASE Steer \/ FollowUp \/ ClearSteeringQueue \/ ClearFollowUpQueue \/ Abort \/ Reset
  <2>1. UNCHANGED <<pc, prompts, pending, reply, batchVars>>
    BY <1>1 DEF Steer, FollowUp, ClearSteeringQueue, ClearFollowUpQueue, Abort,
       Reset
  <2> QED BY <2>1 DEF batchVars
<1>2. CASE Prompt \/ ContinueSteering \/ ContinueFollowUp \/ RunContinuation
  BY <1>2 DEF Prompt, ContinueSteering, ContinueFollowUp, RunContinuation, StartRun
<1>3. CASE AgentStart \/ FirstTurnStart \/ PromptStart
  BY <1>3 DEF AgentStart, FirstTurnStart, PromptStart
<1>4. CASE PromptEnd
  <2>1. prompts \in Seq(Message) /\ prompts # <<>>
    BY <1>4 DEF PromptEnd, ContextType
  <2>2. Len(prompts) # 1 => Tail(prompts) # <<>>
    BY <2>1, TailNonEmpty
  <2> QED BY <1>4, <2>2 DEF PromptEnd
<1>5. CASE PollInitial
  BY <1>5 DEF PollInitial
<1>6. CASE TurnStart \/ InjectStart
  BY <1>6 DEF TurnStart, InjectStart
<1>7. CASE InjectEnd
  <2>1. pending \in Seq(Message) /\ pending # <<>>
    BY <1>7 DEF InjectEnd, ContextType
  <2>2. Len(pending) # 1 => Tail(pending) # <<>>
    BY <2>1, TailNonEmpty
  <2> QED BY <1>7, <2>2 DEF InjectEnd
<1>8. CASE StreamFails \/ StreamStart \/ StreamUpdate
  BY <1>8 DEF StreamFails, StreamStart, StreamUpdate
<1>9. CASE StreamFinal
  BY <1>9, FinalMessageType DEF StreamFinal
<1>10. CASE StreamFinalOnly
  BY <1>10, FinalMessageType DEF StreamFinalOnly
<1>11. CASE ReplyEnd
  <2>1. pc' = "tool_start" =>
           batch' = reply.calls /\ reply.calls # <<>> /\ reply.calls \in Seq(Calls)
    BY <1>11 DEF ReplyEnd
  <2>2. pc' = "tool_start" => 1 <= Len(batch')
    BY <2>1, SMTT(60)
  <2>3. index' = 1 /\ toolResults' = <<>>
    BY <1>11 DEF ReplyEnd
  <2>4. pc' \in {"tool_start", "turn_end", "turn_end_stopped", "fail_message_start"}
    BY <1>11 DEF ReplyEnd
  <2> QED BY <2>2, <2>3, <2>4
<1>12. CASE ToolStart
  BY <1>12 DEF ToolStart, batchVars
<1>13. CASE PrepareImmediate
  BY <1>13 DEF PrepareImmediate, batchVars
<1>14. CASE PreparePrepared
  <2>1. Append(finalizedCalls, Current) # <<>>
    BY <1>14, CurrentType, AppendNonEmpty DEF PreparePrepared, BatchType
  <2> QED BY <1>14, <2>1 DEF PreparePrepared, BatchType
<1>15. CASE ToolExecute
  BY <1>15 DEF ToolExecute, batchVars
<1>16. CASE ToolWait
  BY <1>16 DEF ToolWait, batchVars
<1>17. CASE ToolEnd
  <2>1. Append(finalizedCalls, Current) # <<>>
    BY <1>17, CurrentType, AppendNonEmpty DEF ToolEnd, BatchType
  <2> QED BY <1>17, <2>1 DEF ToolEnd, BatchType
<1>18. CASE ToolNext
  BY <1>18, SMTT(60) DEF ToolNext, LeavesLoop, BatchType
<1>19. CASE Launch
  BY <1>19 DEF Launch, batchVars
<1>20. CASE WaitAll
  <2>1. Len(<<>>) = 0 /\ Len(finalizedCalls) \in Nat
        /\ (finalizedCalls # <<>> => Len(finalizedCalls) # 0)
    BY SMTT(60) DEF BatchType
  <2> QED BY <1>20, <2>1, SMTT(60) DEF WaitAll, batchVars
<1>21. CASE ResultStart
  BY <1>21 DEF ResultStart, batchVars
<1>22. CASE ResultEnd
  BY <1>22, ResultCallType, SMTT(60) DEF ResultEnd, BatchType
<1>23. CASE TurnEnd \/ TurnEndStopped \/ PrepareNextTurn \/ ShouldStopAfterTurn
            \/ PollSteering \/ PollFollowUp \/ AgentEnd
  BY <1>23 DEF TurnEnd, TurnEndStopped, PrepareNextTurn, ShouldStopAfterTurn,
     PollSteering, PollFollowUp, AgentEnd
<1>24. CASE FailMessageStart \/ FailMessageEnd \/ FailTurnEnd \/ FailAgentEnd
            \/ FinishRun
  BY <1>24 DEF FailMessageStart, FailMessageEnd, FailTurnEnd, FailAgentEnd,
     FinishRun, EmitFailure
<1>25. ASSUME NEW c \in Calls, ToolUpdate(c) \/ ToolSettle(c) \/ TaskEnd(c)
       PROVE  Positions'
  BY <1>25 DEF ToolUpdate, ToolSettle, TaskEnd, TaskFrame, batchVars
<1> QED BY <1>1, <1>2, <1>3, <1>4, <1>5, <1>6, <1>7, <1>8, <1>9, <1>10, <1>11,
           <1>12, <1>13, <1>14, <1>15, <1>16, <1>17, <1>18, <1>19, <1>20, <1>21,
           <1>22, <1>23, <1>24, <1>25 DEF Next, RunStep, Api

LEMMA TypeInvariant == Spec => []TypeInv
<1>1. Init => TypeInv
  <2> SUFFICES ASSUME Init
               PROVE  TypeInv
    OBVIOUS
  <2> USE DEF Init
  <2>1. FlagType
    BY DEF FlagType
  <2>2. ApiType /\ CounterType
    BY BoundsAssumption, SMTT(60) DEF ApiType, CounterType, PcValues
  <2>3. QueueType /\ StateType
    BY EmptySeq DEF QueueType, StateType
  <2>4. ContextType
    BY EmptySeq, EmptyReply DEF ContextType, Kinds
  <2>5. BatchType
    BY EmptySeq, SMTT(60) DEF BatchType
  <2>6. ToolType
    BY DEF ToolType, ToolStates
  <2>7. Positions
    BY DEF Positions
  <2> QED BY <2>1, <2>2, <2>3, <2>4, <2>5, <2>6, <2>7 DEF TypeInv, TypeOK
<1>2. TypeInv /\ [Next]_vars => TypeInv'
  <2> SUFFICES ASSUME TypeInv, [Next]_vars
               PROVE  TypeInv'
    OBVIOUS
  <2>1. CASE Next
    BY <2>1, FlagTypeStep, ApiTypeStep, QueueTypeStep, StateTypeStep, ContextTypeStep,
       BatchTypeStep, ToolTypeStep, CounterTypeStep, PositionsStep DEF TypeInv, TypeOK
  <2>2. CASE UNCHANGED vars
    <3> USE <2>2 DEF TypeInv, TypeOK, vars, apiVars, queueVars, stateVars, runVars,
                     contextVars, batchVars, toolVars
    <3>1. FlagType' /\ ApiType' /\ QueueType' /\ StateType'
      BY DEF FlagType, ApiType, QueueType, StateType
    <3>2. ContextType' /\ BatchType' /\ ToolType' /\ CounterType'
      BY DEF ContextType, BatchType, ToolType, CounterType
    <3>3. Positions'
      BY DEF Positions
    <3> QED BY <3>1, <3>2, <3>3
  <2> QED BY <2>1, <2>2
<1> QED BY <1>1, <1>2, PTL DEF Spec

\* Every variable of the run loop keeps its type: in particular the index of
\* the call being prepared always names a call of the batch, and the loop never
\* takes the head of an empty list of prompts or injected messages.
THEOREM TypeCorrect == Spec => []TypeOK
<1>1. TypeInv => TypeOK
  BY DEF TypeInv
<1> QED BY <1>1, TypeInvariant, PTL

-----------------------------------------------------------------------------
(* How far the batch has been worked through.                              *)

LEMMA LeadingAppend ==
    ASSUME NEW s \in Seq(Calls), NEW t \in Seq(Calls), NEW n \in Nat \ {0},
           Leading(s, t, n - 1), n <= Len(t)
    PROVE  Leading(Append(s, t[n]), t, n)
BY SMTT(60) DEF Leading

LEMMA LeadingAll ==
    ASSUME NEW s \in Seq(Calls), NEW t \in Seq(Calls), Leading(s, t, Len(t))
    PROVE  s = t
BY SMTT(60) DEF Leading

LEMMA LeadingNone ==
    ASSUME NEW t \in Seq(Calls)
    PROVE  Leading(<<>>, t, 0)
BY SMTT(60) DEF Leading

LEMMA BatchStep ==
    ASSUME TypeInv, BatchInv, Next
    PROVE  BatchInv'
<1>0. /\ batch \in Seq(Calls) /\ finalizedCalls \in Seq(Calls)
      /\ toolResults \in Seq(Calls) /\ index \in Nat \ {0} /\ Positions
  BY DEF TypeInv, TypeOK, BatchType
<1>t. /\ batch' \in Seq(Calls) /\ finalizedCalls' \in Seq(Calls)
      /\ toolResults' \in Seq(Calls) /\ index' \in Nat \ {0}
  BY BatchTypeStep DEF BatchType
<1> USE DEF ToolPoints, CallPoints, ResultPoints
<1>1. CASE pc' \notin ToolPoints \cup {"turn_end", "prepare_next_turn", "should_stop", "poll"}
  BY <1>1 DEF BatchInv
<1>2. CASE UNCHANGED <<pc, batchVars, aborted>>
  BY <1>2 DEF BatchInv, batchVars
<1>3. CASE Abort
  BY <1>3 DEF BatchInv, Abort, batchVars
<1>4. CASE ReplyEnd
  <2>1. /\ index' = 1 /\ finalizedCalls' = <<>> /\ toolResults' = <<>>
        /\ pc' \in {"tool_start", "turn_end", "turn_end_stopped", "fail_message_start"}
        /\ pc' = "turn_end" => batch' = <<>>
    BY <1>4 DEF ReplyEnd, Emit, Await
  <2>2. Leading(<<>>, batch', 0)
    BY <1>t, LeadingNone
  <2> QED BY <2>1, <2>2, SMTT(60) DEF BatchInv
<1>5. CASE UNCHANGED <<batchVars, aborted>> /\ pc \in CallPoints /\ pc' \in CallPoints
  BY <1>5 DEF BatchInv, batchVars
<1>6. CASE PreparePrepared
  <2>1. index <= Len(batch) /\ pc = "tool_prepare"
    BY <1>0, <1>6 DEF PreparePrepared, Positions
  <2>2. CASE mode = "parallel"
    <3>1. /\ finalizedCalls' = Append(finalizedCalls, batch[index])
          /\ pc' = "tool_next" /\ UNCHANGED <<batch, mode, index>>
      BY <1>6, <2>2 DEF PreparePrepared, Current
    <3>2. Leading(finalizedCalls, batch, index - 1)
      BY <2>1, <2>2 DEF BatchInv
    <3>3. Leading(Append(finalizedCalls, batch[index]), batch, index)
      BY <1>0, <2>1, <3>2, LeadingAppend
    <3> QED BY <2>2, <3>1, <3>3 DEF BatchInv
  <2>3. CASE mode # "parallel"
    BY <1>6, <2>1, <2>3 DEF PreparePrepared, BatchInv
  <2> QED BY <2>2, <2>3
<1>7. CASE ToolEnd
  <2>1. index <= Len(batch) /\ pc = "tool_end"
    BY <1>0, <1>7 DEF ToolEnd, Positions
  <2>2. CASE mode = "parallel"
    <3>1. /\ finalizedCalls' = Append(finalizedCalls, batch[index])
          /\ pc' \in {"tool_next", "fail_message_start"}
          /\ UNCHANGED <<batch, mode, index>>
      BY <1>7, <2>2 DEF ToolEnd, Current, Emit, Await
    <3>2. Leading(finalizedCalls, batch, index - 1)
      BY <2>1, <2>2 DEF BatchInv
    <3>3. Leading(Append(finalizedCalls, batch[index]), batch, index)
      BY <1>0, <2>1, <3>2, LeadingAppend
    <3> QED BY <2>2, <3>1, <3>3 DEF BatchInv
  <2>3. CASE mode # "parallel"
    BY <1>7, <2>1, <2>3 DEF ToolEnd, BatchInv, Emit, Await
  <2> QED BY <2>2, <2>3
<1>8. CASE ToolNext
  <2>1. /\ pc = "tool_next" /\ UNCHANGED <<batch, mode, finalizedCalls, toolResults, aborted>>
    BY <1>8 DEF ToolNext, LoopFrame
  <2>2. Leading(IF mode = "parallel" THEN finalizedCalls ELSE toolResults, batch, index)
    BY <2>1 DEF BatchInv
  <2>3. CASE LeavesLoop
    <3>1. index' = index /\ pc' = IF mode = "parallel" THEN "launch" ELSE "turn_end"
      BY <1>8, <2>3 DEF ToolNext
    <3>2. index = Len(batch) \/ aborted
      BY <2>3 DEF LeavesLoop
    <3>3. mode # "parallel" => aborted \/ toolResults = batch
      BY <1>0, <2>2, <3>2, LeadingAll
    <3> QED BY <2>1, <2>2, <3>1, <3>2, <3>3 DEF BatchInv
  <2>4. CASE ~LeavesLoop
    <3>1. index' = index + 1 /\ pc' = "tool_start"
      BY <1>8, <2>4 DEF ToolNext
    <3>2. index' - 1 = index
      BY <3>1, <1>0, SMTT(60)
    <3> QED BY <2>1, <2>2, <3>1, <3>2 DEF BatchInv
  <2> QED BY <2>3, <2>4
<1>9. CASE Launch
  BY <1>9, <1>0 DEF Launch, LoopFrame, BatchInv, batchVars
<1>10. CASE WaitAll
  <2>1. /\ pc = "wait_all" /\ UNCHANGED <<batchVars, aborted>>
        /\ pc' \in {"fail_message_start", "result_start"}
    BY <1>10 DEF WaitAll, LoopFrame
  <2>2. mode = "parallel" /\ toolResults = <<>>
    BY <1>0, <2>1 DEF Positions
  <2>3. Leading(toolResults, finalizedCalls, Len(toolResults))
    BY <1>0, <2>2, LeadingNone
  <2> QED BY <2>1, <2>2, <2>3 DEF BatchInv, batchVars
<1>11. CASE UNCHANGED <<batchVars, aborted>> /\ pc \in ResultPoints /\ pc' \in ResultPoints
  BY <1>11 DEF BatchInv, batchVars
<1>12. CASE ResultEnd
  <2>1. pc = "result_end" /\ UNCHANGED <<batch, mode, index, aborted>>
    BY <1>12 DEF ResultEnd, LoopFrame
  <2>2. CASE mode = "parallel"
    <3> DEFINE n == Len(toolResults) + 1
    <3>1. /\ toolResults' = Append(toolResults, finalizedCalls[n])
          /\ finalizedCalls' = finalizedCalls
          /\ pc' \in {"turn_end", "result_start", "fail_message_start"}
          /\ pc' = "turn_end" => Len(toolResults') = Len(finalizedCalls)
      BY <1>12, <2>2 DEF ResultEnd, ResultCall, Emit, Await
    <3>2. n \in Nat \ {0} /\ n - 1 = Len(toolResults) /\ n <= Len(finalizedCalls)
      BY <1>0, <2>1, <2>2, SMTT(60) DEF Positions
    <3>3. Leading(toolResults, finalizedCalls, n - 1)
      BY <2>1, <2>2, <3>2 DEF BatchInv
    <3>4. Leading(toolResults', finalizedCalls, n)
      BY <1>0, <3>1, <3>2, <3>3, LeadingAppend
    <3>5. Len(toolResults') = n
      BY <3>4 DEF Leading
    <3>6. pc' = "turn_end" => toolResults' = finalizedCalls
      BY <1>0, <1>t, <3>1, <3>4, <3>5, LeadingAll
    <3>7. /\ Leading(finalizedCalls, batch, index)
          /\ aborted \/ index = Len(batch)
      BY <2>1, <2>2 DEF BatchInv
    <3>8. aborted \/ finalizedCalls = batch
      BY <1>0, <3>7, LeadingAll
    <3> HIDE DEF n
    <3> QED BY <2>1, <2>2, <3>1, <3>4, <3>5, <3>6, <3>7, <3>8 DEF BatchInv
  <2>3. CASE mode # "parallel"
    <3>1. /\ toolResults' = Append(toolResults, batch[index])
          /\ pc' \in {"tool_next", "fail_message_start"}
      BY <1>12, <2>3 DEF ResultEnd, ResultCall, Current, Emit, Await
    <3>2. Leading(toolResults, batch, index - 1) /\ index <= Len(batch)
      BY <1>0, <2>1, <2>3 DEF BatchInv, Positions
    <3>3. Leading(toolResults', batch, index)
      BY <1>0, <3>1, <3>2, LeadingAppend
    <3> QED BY <2>1, <2>3, <3>1, <3>3 DEF BatchInv
  <2> QED BY <2>2, <2>3
<1>13. CASE TurnEnd \/ PrepareNextTurn \/ ShouldStopAfterTurn
  <2>1. /\ UNCHANGED <<batchVars, aborted>>
        /\ pc \in {"turn_end", "prepare_next_turn", "should_stop"}
        /\ pc' \in {"prepare_next_turn", "should_stop", "poll", "agent_end", "fail_message_start"}
    BY <1>13 DEF TurnEnd, PrepareNextTurn, ShouldStopAfterTurn, LoopFrame, Emit, Await
  <2> QED BY <2>1 DEF BatchInv, batchVars
<1> QED BY <1>1, <1>2, <1>3, <1>4, <1>5, <1>6, <1>7, <1>8, <1>9, <1>10, <1>11,
           <1>12, <1>13, BatchMoves

-----------------------------------------------------------------------------
(* Where the reply and its results stand, what waits, which tools run.     *)

LEMMA AppendIndex ==
    ASSUME NEW S, NEW s \in Seq(S), NEW e \in S
    PROVE  /\ Append(s, e) \in Seq(S)
           /\ Len(Append(s, e)) = Len(s) + 1
           /\ Append(s, e)[Len(s) + 1] = e
           /\ \A k \in 1..Len(s) : Append(s, e)[k] = s[k]
BY SMTT(60)

LEMMA BlockStep ==
    ASSUME TypeInv, IdleIsClean, BlockInv, Next
    PROVE  BlockInv'
<1>0. /\ transcript \in Seq(Message) /\ toolResults \in Seq(Calls)
      /\ reply \in Message
  BY DEF TypeInv, TypeOK, StateType, BatchType, ContextType
<1> USE DEF ToolPoints, CallPoints, ResultPoints
<1>1. CASE pc' \notin ToolPoints \cup {"turn_end", "reply_end", "fail_message_end"}
  BY <1>1 DEF BlockInv
<1>2. CASE UNCHANGED <<pc, reply, transcript, toolResults, batch>>
  BY <1>2 DEF BlockInv, ReplyPlace
<1>3. CASE Reset
  BY <1>3 DEF Reset, IdleIsClean, BlockInv, runVars
<1>4. CASE StreamFinal \/ StreamFinalOnly
  <2>1. pc' \in {"reply_end", "fail_message_start"}
    BY <1>4 DEF StreamFinal, StreamFinalOnly, Emit, Await
  <2>2. \E stop \in StopReasons, n \in BatchSizes : reply' = FinalMessage(stop, n)
    BY <1>4 DEF StreamFinal, StreamFinalOnly
  <2>3. reply'.role = "assistant"
    BY <2>2, SMTT(60) DEF FinalMessage, AssistantMessage
  <2> QED BY <2>1, <2>3 DEF BlockInv
<1>5. CASE ReplyEnd
  <2>1. /\ transcript' = Append(transcript, reply) /\ toolResults' = <<>>
        /\ pc' \in {"tool_start", "turn_end", "turn_end_stopped", "fail_message_start"}
        /\ pc' = "tool_start" => batch' = reply.calls
        /\ pc = "reply_end"
    BY <1>5 DEF ReplyEnd, ReduceMessageEnd, Emit, Await
  <2>2. /\ Len(transcript') = Len(transcript) + 1
        /\ transcript'[Len(transcript) + 1] = reply
        /\ Len(transcript) \in Nat
    BY <1>0, <2>1, AppendIndex, SMTT(60)
  <2>3. ReplyPlace' = Len(transcript) + 1 /\ Len(toolResults') = 0
    BY <2>1, <2>2, SMTT(60) DEF ReplyPlace
  <2>4. reply.role = "assistant"
    BY <2>1 DEF BlockInv
  <2> QED BY <2>1, <2>2, <2>3, <2>4, SMTT(60) DEF BlockInv
<1>6. CASE ResultEnd
  <2>1. /\ transcript' = Append(transcript, ToolResultMessage(ResultCall))
        /\ toolResults' = Append(toolResults, ResultCall)
        /\ pc' \in ToolPoints \cup {"turn_end", "fail_message_start"}
        /\ batch' = batch
        /\ pc = "result_end"
    BY <1>6 DEF ResultEnd, ReduceMessageEnd, Emit, Await
  <2>2. ResultCall \in Calls /\ ToolResultMessage(ResultCall) \in Message
    BY <2>1, ResultCallType, CallsAreNat, MessageTypes
  <2>3. /\ Len(transcript') = Len(transcript) + 1
        /\ transcript'[Len(transcript) + 1] = ToolResultMessage(ResultCall)
        /\ \A k \in 1..Len(transcript) : transcript'[k] = transcript[k]
    BY <1>0, <2>1, <2>2, AppendIndex, SMTT(60)
  <2>4. /\ Len(toolResults') = Len(toolResults) + 1
        /\ toolResults'[Len(toolResults) + 1] = ResultCall
        /\ \A k \in 1..Len(toolResults) : toolResults'[k] = toolResults[k]
    BY <1>0, <2>1, <2>2, AppendIndex, SMTT(60)
  <2>5. Len(transcript) \in Nat /\ Len(toolResults) \in Nat
    BY <1>0, SMTT(60)
  <2>6. ReplyPlace' = ReplyPlace
    BY <2>3, <2>4, <2>5, SMTT(60) DEF ReplyPlace
  <2>7. /\ ReplyPlace \in 1..Len(transcript)
        /\ transcript[ReplyPlace].role = "assistant"
        /\ transcript[ReplyPlace].calls = batch
        /\ \A k \in 1..Len(toolResults) :
              transcript[ReplyPlace + k] = ToolResultMessage(toolResults[k])
    BY <2>1 DEF BlockInv
  <2>8. /\ ReplyPlace \in 1..Len(transcript')
        /\ transcript'[ReplyPlace].role = "assistant"
        /\ transcript'[ReplyPlace].calls = batch'
    BY <2>1, <2>3, <2>5, <2>7, SMTT(60)
  <2>9. ASSUME NEW k \in 1..Len(toolResults')
        PROVE  transcript'[ReplyPlace + k] = ToolResultMessage(toolResults'[k])
    <3>1. CASE k = Len(toolResults) + 1
      <4>1. ReplyPlace + k = Len(transcript) + 1
        BY <3>1, <2>5, SMTT(60) DEF ReplyPlace
      <4> QED BY <3>1, <4>1, <2>3, <2>4
    <3>2. CASE k # Len(toolResults) + 1
      <4>1. k \in 1..Len(toolResults) /\ ReplyPlace + k \in 1..Len(transcript)
        BY <3>2, <2>4, <2>5, <2>7, SMTT(60) DEF ReplyPlace
      <4> QED BY <4>1, <2>3, <2>4, <2>7
    <3> QED BY <3>1, <3>2
  <2>10. ReplyPlace' \in 0..Len(transcript')
    BY <2>5, <2>6, <2>8, SMTT(60)
  <2> QED BY <2>1, <2>6, <2>8, <2>9, <2>10 DEF BlockInv
<1>7. CASE FailMessageStart
  <2>1. pc' \in {"fail_message_end", "finish"} /\ reply'.role = "assistant"
    BY <1>7 DEF FailMessageStart, EmitFailure, AssistantMessage
  <2> QED BY <2>1 DEF BlockInv
<1>8. CASE /\ pc \in ToolPoints /\ pc' \in ToolPoints \cup {"turn_end"}
           /\ UNCHANGED <<transcript, toolResults, batch>>
  BY <1>8 DEF BlockInv, ReplyPlace
<1> QED BY <1>1, <1>2, <1>3, <1>4, <1>5, <1>6, <1>7, <1>8, BlockMoves

LEMMA EmptyLen ==
    ASSUME NEW s \in Seq(Message), Len(s) = 0
    PROVE  s = <<>>
BY SMTT(60)

LEMMA TailIndex ==
    ASSUME NEW q \in Seq(Message), q # <<>>
    PROVE  /\ Head(q) = q[1] /\ 1 \in 1..Len(q)
           /\ Len(Tail(q)) = Len(q) - 1 /\ Tail(q) \in Seq(Message)
           /\ \A i \in 1..Len(Tail(q)) : Tail(q)[i] = q[i + 1] /\ i + 1 \in 1..Len(q)
BY SMTT(60)

LEMMA TailOfOne ==
    ASSUME NEW q \in Seq(Message), Len(q) = 1
    PROVE  Tail(q) = <<>>
<1>1. q # <<>>
  BY SMTT(60)
<1>2. Tail(q) \in Seq(Message) /\ Len(Tail(q)) = 0
  BY <1>1, TailIndex, SMTT(60)
<1> QED BY <1>2, EmptyLen

LEMMA WaitingStep ==
    ASSUME TypeInv, WaitingInv, Next
    PROVE  WaitingInv'
<1>0. throws \in Nat /\ throws' \in Nat /\ throws' >= throws
  BY ThrowsFrame, BoundsAssumption, SMTT(60) DEF TypeInv, TypeOK, CounterType
<1>1. prompts \in Seq(Message) /\ pending \in Seq(Message)
  BY DEF TypeInv, TypeOK, ContextType
<1> USE <1>0 DEF WaitingPoints, FailPoints, PromptPoints
<1>2. CASE UNCHANGED <<pc, prompts, pending>>
  BY <1>2, SMTT(60) DEF WaitingInv
<1>3. CASE UNCHANGED <<prompts, pending>> /\ pc \notin WaitingPoints
  BY <1>3 DEF WaitingInv
<1>4. CASE UNCHANGED <<prompts, pending>> /\ pc \in FailPoints /\ pc' \in FailPoints
  BY <1>4, SMTT(60) DEF WaitingInv
<1>5. CASE Prompt \/ ContinueSteering \/ ContinueFollowUp \/ RunContinuation
  <2>1. pending' = <<>> /\ pc' = "agent_start"
    BY <1>5 DEF Prompt, ContinueSteering, ContinueFollowUp, RunContinuation, StartRun
  <2> QED BY <2>1 DEF WaitingInv
<1>6. CASE AgentStart \/ FirstTurnStart \/ PromptStart \/ PromptEnd
  <2>1. /\ pc \in PromptPoints \ {"poll_initial"}
        /\ pending' = pending
        /\ \/ pc' \in PromptPoints \ {"poll_initial"}
           \/ pc' = "fail_message_start" /\ throws' > 0
           \/ pc' = "poll_initial" /\ prompts' = <<>>
    BY <1>1, <1>6, TailOfOne, SMTT(60) DEF AgentStart, FirstTurnStart, PromptStart, PromptEnd,
       Emit, Await
  <2>2. pending = <<>>
    BY <2>1 DEF WaitingInv
  <2> QED BY <2>1, <2>2 DEF WaitingInv
<1>7. CASE TurnStart \/ InjectStart \/ InjectEnd
  <2>1. /\ pc \in {"turn_start", "inject_start", "inject_end"}
        /\ prompts' = prompts
        /\ \/ pc' \in {"turn_start", "inject_start", "inject_end"}
           \/ pc' = "fail_message_start" /\ throws' > 0
           \/ pc' = "stream" /\ pending' = <<>>
    BY <1>1, <1>7, TailOfOne, SMTT(60) DEF TurnStart, InjectStart, InjectEnd, Emit, Await
  <2>2. prompts = <<>>
    BY <2>1 DEF WaitingInv
  <2> QED BY <2>1, <2>2 DEF WaitingInv
<1>8. CASE PollInitial \/ PollSteering \/ PollFollowUp
  <2>1. /\ pc \in {"poll_initial", "poll", "poll_follow_up"}
        /\ prompts' = prompts
        /\ pending' = <<>> \/ pc' \in {"turn_start", "inject_start"}
    BY <1>8 DEF PollInitial, PollSteering, PollFollowUp
  <2>2. prompts = <<>>
    BY <2>1 DEF WaitingInv
  <2> QED BY <2>1, <2>2 DEF WaitingInv
<1>9. CASE FinishRun
  BY <1>9 DEF FinishRun, WaitingInv
<1> QED BY <1>2, <1>3, <1>4, <1>5, <1>6, <1>7, <1>8, <1>9, WaitingMoves

\* A new reply numbers its calls behind those of every earlier one.
LEMMA FreshReply ==
    ASSUME TypeInv, FreshInv, StreamFinal \/ StreamFinalOnly
    PROVE  FreshInv'
<1> USE DEF ToolPoints, CallPoints, ResultPoints, Preparing
<1>1. PICK stop \in StopReasons, n \in BatchSizes :
              /\ reply' = FinalMessage(stop, n) /\ nextCall' = nextCall + n
              /\ parallelCalls' = parallelCalls
              /\ pc' \in {"reply_end", "fail_message_start"}
  BY DEF StreamFinal, StreamFinalOnly, Emit, Await, toolVars
<1>2. nextCall \in Nat /\ n \in Nat /\ parallelCalls \subseteq Nat
  BY CallsAreNat, BoundsAssumption, SMTT(60) DEF BatchSizes, TypeInv, TypeOK, CounterType, ToolType
<1>3. /\ Len(reply'.calls) = n
      /\ \A i \in 1..n : reply'.calls[i] = nextCall + i
  BY <1>1, <1>2, SMTT(60) DEF FinalMessage, AssistantMessage
<1>4. \A c \in parallelCalls : c <= nextCall
  BY DEF FreshInv
<1>5. \A c \in parallelCalls : c <= nextCall'
  BY <1>1, <1>2, <1>4, SMTT(60)
<1>6. ASSUME NEW i \in 1..n
      PROVE  nextCall + i <= nextCall' /\ nextCall + i \notin parallelCalls
  BY <1>1, <1>2, <1>4, SMTT(60)
<1> QED BY <1>1, <1>3, <1>5, <1>6 DEF FreshInv

LEMMA FreshStep ==
    ASSUME TypeInv, BatchInv, FreshInv, Next
    PROVE  FreshInv'
<1> USE DEF ToolPoints, CallPoints, ResultPoints
<1>1. CASE UNCHANGED <<pc, mode, batch, reply, nextCall, parallelCalls>>
  BY <1>1 DEF FreshInv, Preparing
<1>2. CASE UNCHANGED <<nextCall, parallelCalls>> /\ pc' \notin ToolPoints \cup {"reply_end"}
  BY <1>2 DEF FreshInv, Preparing
<1>3. CASE /\ UNCHANGED <<batch, nextCall, parallelCalls>>
           /\ pc \in ToolPoints /\ pc' \in ToolPoints /\ (Preparing' => Preparing)
  BY <1>3 DEF FreshInv
<1>4. CASE ReplyEnd
  <2>1. /\ UNCHANGED <<nextCall, parallelCalls>> /\ pc' # "reply_end" /\ pc = "reply_end"
        /\ batch' = <<>> \/ batch' = reply.calls
    BY <1>4 DEF ReplyEnd, Emit, Await, toolVars
  <2>2. Len(<<>>) = 0
    OBVIOUS
  <2>3. \A i \in 1..Len(batch') : batch'[i] <= nextCall /\ batch'[i] \notin parallelCalls
    BY <2>1, <2>2, SMTT(60) DEF FreshInv
  <2> QED BY <2>1, <2>3 DEF FreshInv
<1>5. CASE Launch
  <2> DEFINE launched == {c \in Elements(finalizedCalls) : tool[c] = "prepared"}
  <2>1. /\ pc = "launch" /\ pc' = "wait_all" /\ UNCHANGED <<batch, nextCall>>
        /\ parallelCalls' = parallelCalls \cup launched
    BY <1>5 DEF Launch, batchVars
  <2>2. Leading(finalizedCalls, batch, index)
    BY <2>1 DEF BatchInv
  <2>3. \A i \in 1..Len(finalizedCalls) : finalizedCalls[i] <= nextCall
    <3>1. \A i \in 1..Len(batch) : batch[i] <= nextCall
      BY <2>1 DEF FreshInv
    <3>2. \A i \in 1..Len(finalizedCalls) :
              i \in 1..Len(batch) /\ finalizedCalls[i] = batch[i]
      BY <2>2, SMTT(60) DEF Leading, TypeInv, TypeOK, BatchType
    <3> QED BY <3>1, <3>2
  <2>4. \A c \in launched : c <= nextCall
    BY <2>3 DEF Elements
  <2> QED BY <2>1, <2>4 DEF FreshInv, Preparing
<1> QED BY <1>1, <1>2, <1>3, <1>4, <1>5, FreshMoves, FreshReply

\* The call the loop stands at was not launched by a parallel batch.
LEMMA CurrentIsFresh ==
    ASSUME TypeInv, FreshInv, pc \in CallPoints
    PROVE  Current \in Calls /\ Current \notin parallelCalls
<1>1. index \in 1..Len(batch) /\ batch \in Seq(Calls)
  BY SMTT(60) DEF TypeInv, TypeOK, BatchType, Positions, CallPoints
<1> QED BY <1>1, SMTT(60) DEF FreshInv, Preparing, Current

\* One call handled by the loop itself changes state, outside every wait.
LEMMA QuietCall ==
    ASSUME TypeInv, FreshInv, QuietInv, throws = 0, throws' = 0,
           ToolStart \/ PrepareImmediate \/ PreparePrepared \/ ToolExecute \/ ToolEnd
    PROVE  QuietInv'
<1>1. /\ pc \in CallPoints \ {"tool_wait"} /\ lastEvent' # "agent_end"
      /\ parallelCalls' = parallelCalls
      /\ \E s \in {"started", "prepared", "executing", "finalized", "ended"} :
            /\ tool' = [tool EXCEPT ![Current] = s]
            /\ s = "executing" => pc' = "tool_wait" /\ Current' = Current
      /\ pc' \notin FailPoints
  <2>1. lastEvent # "agent_end" \/ pc \notin CallPoints
    BY DEF QuietInv, CallPoints
  <2>2. throws' = throws /\ throws + 1 # throws
    BY SMTT(60)
  <2> QED BY <2>1, <2>2 DEF ToolStart, PrepareImmediate, PreparePrepared, ToolExecute, ToolEnd, Emit,
             Await, CallPoints, FailPoints, Current, batchVars
<1>2. Current \in Calls /\ Current \notin parallelCalls
  BY <1>1, CurrentIsFresh
<1>3. /\ \A c \in Calls : tool[c] \notin {"poisoned", "rejected", "executing"}
      /\ \A c \in parallelCalls : tool[c] \in {"executing", "finalized", "ended"}
      /\ \A c \in parallelCalls : tool[c] # "finalized"
  BY <1>1 DEF QuietInv, CallPoints
<1>4. \A c \in parallelCalls : c \in Calls /\ tool'[c] = tool[c]
  BY <1>1, <1>2 DEF TypeInv, TypeOK, ToolType
<1>5. \A c \in Calls : /\ tool'[c] \notin {"poisoned", "rejected"}
                       /\ tool'[c] = "executing" => pc' = "tool_wait" /\ c = Current'
  BY <1>1, <1>3 DEF TypeInv, TypeOK, ToolType
<1> QED BY <1>1, <1>3, <1>4, <1>5 DEF QuietInv

\* A tool moves on, while the loop waits for it.
LEMMA QuietTool ==
    ASSUME TypeInv, IdleIsClean, FreshInv, QuietInv, throws = 0, throws' = 0,
           NEW c \in Calls, ToolUpdate(c) \/ ToolSettle(c) \/ TaskEnd(c)
    PROVE  QuietInv' /\ (lastEvent = "agent_end" => lastEvent' = lastEvent)
<1>1. /\ tool[c] \notin {"poisoned", "rejected"}
      /\ tool[c] = "executing" => \/ pc = "tool_wait" /\ c = Current
                                  \/ pc = "wait_all" /\ c \in Elements(finalizedCalls)
      /\ c \in parallelCalls /\ tool[c] = "finalized" =>
            pc = "wait_all" /\ c \in Elements(finalizedCalls)
  BY DEF QuietInv
<1>2. tool[c] = "executing" \/ (c \in parallelCalls /\ tool[c] = "finalized")
  BY <1>1 DEF ToolUpdate, ToolSettle, TaskEnd
<1>3. /\ pc \in {"tool_wait", "wait_all"} /\ activeRun
      /\ c \in parallelCalls => pc = "wait_all" /\ c \in Elements(finalizedCalls)
  <2>1. pc = "tool_wait" => Current \notin parallelCalls
    BY CurrentIsFresh DEF CallPoints
  <2> QED BY <1>1, <1>2, <2>1 DEF IdleIsClean
<1>4. /\ UNCHANGED <<pc, batchVars, parallelCalls>>
      /\ \/ tool' = tool
         \/ tool[c] = "executing" /\ tool' = [tool EXCEPT ![c] = "finalized"]
         \/ tool' = [tool EXCEPT ![c] = "ended"]
      /\ lastEvent' = lastEvent \/ lastEvent' # "agent_end"
  BY <1>1, <1>3, SMTT(60) DEF ToolUpdate, ToolSettle, TaskEnd, TaskFrame, toolVars
<1>5. /\ Current' = Current /\ finalizedCalls' = finalizedCalls
      /\ lastEvent # "agent_end"
  BY <1>3, <1>4 DEF Current, batchVars, QuietInv
<1>6. \A d \in Calls : d # c => tool'[d] = tool[d]
  BY <1>4 DEF TypeInv, TypeOK, ToolType
<1>7. tool'[c] = tool[c] \/ tool'[c] \in {"finalized", "ended"}
  BY <1>4 DEF TypeInv, TypeOK, ToolType
<1>8. Elements(finalizedCalls)' = Elements(finalizedCalls)
  BY <1>5 DEF Elements
<1>9. \A d \in Calls : tool'[d] \notin {"poisoned", "rejected"}
  BY <1>6, <1>7 DEF QuietInv
<1>10. \A d \in Calls : tool'[d] = "executing" => tool[d] = "executing"
  BY <1>6, <1>7
<1>11. \A d \in parallelCalls : /\ tool'[d] \in {"executing", "finalized", "ended"}
                                /\ tool'[d] = "finalized" =>
                                      pc = "wait_all" /\ d \in Elements(finalizedCalls)
  BY <1>3, <1>6, <1>7 DEF QuietInv, TypeInv, TypeOK, ToolType
<1> QED BY <1>3, <1>4, <1>5, <1>8, <1>9, <1>10, <1>11 DEF QuietInv

LEMMA QuietStep ==
    ASSUME TypeInv, IdleIsClean, BatchInv, FreshInv, QuietInv, Next
    PROVE  QuietInv'
<1> SUFFICES ASSUME throws' = 0 PROVE QuietInv'
  BY DEF QuietInv
<1>1. throws = 0 /\ throws' = throws
  BY ThrowsFrame, BoundsAssumption, SMTT(60) DEF TypeInv, TypeOK, CounterType
<1>2. CASE UNCHANGED <<tool, parallelCalls, batchVars, pc, lastEvent>>
  BY <1>1, <1>2 DEF QuietInv, Current, Elements, batchVars
<1>3. CASE /\ UNCHANGED <<tool, parallelCalls>> /\ pc \notin {"tool_wait", "wait_all"}
           /\ pc \notin FailPoints \ {"finish"} => pc' \notin FailPoints \ {"finish"}
           /\ \/ lastEvent' # "agent_end"
              \/ lastEvent' = lastEvent /\ pc' \in {"idle", "agent_start"}
              \/ lastEvent' = lastEvent /\ pc \notin {"finish", "idle", "agent_start"}
              \/ pc' = "finish"
  <2>1. /\ \A c \in Calls : tool[c] \notin {"poisoned", "rejected", "executing"}
        /\ \A c \in parallelCalls : tool[c] \in {"executing", "finalized", "ended"}
        /\ \A c \in parallelCalls : tool[c] # "finalized"
        /\ pc \notin FailPoints \ {"finish"}
    BY <1>1, <1>3 DEF QuietInv
  <2>2. lastEvent' = "agent_end" => pc' \in {"finish", "idle", "agent_start"}
    BY <1>1, <1>3 DEF QuietInv
  <2> QED BY <1>3, <2>1, <2>2 DEF QuietInv
<1>4. CASE ToolWait
  <2>1. tool[Current] = "finalized" /\ pc = "tool_wait" /\ pc' = "tool_end"
    <3>1. pc = "tool_wait" /\ Current \in Calls
      BY <1>4, CurrentIsFresh DEF ToolWait, CallPoints
    <3>2. tool[Current] # "rejected"
      BY <1>1, <3>1 DEF QuietInv
    <3> QED BY <1>4, <3>1, <3>2 DEF ToolWait
  <2>2. UNCHANGED <<tool, parallelCalls, lastEvent>>
    BY <1>4 DEF ToolWait, toolVars
  <2> QED BY <1>1, <2>1, <2>2 DEF QuietInv, FailPoints
<1>5. CASE WaitAll
  <2>1. \A c \in Elements(finalizedCalls) : c \in Calls
    BY SMTT(60) DEF Elements, TypeInv, TypeOK, BatchType
  <2>2. /\ \A c \in Elements(finalizedCalls) : tool[c] = "ended"
        /\ pc = "wait_all" /\ pc' = "result_start"
    BY <1>1, <1>5, <2>1 DEF WaitAll, QuietInv
  <2>3. UNCHANGED <<tool, parallelCalls, lastEvent>>
    BY <1>5 DEF WaitAll, toolVars
  <2> QED BY <1>1, <2>2, <2>3 DEF QuietInv, FailPoints
<1>6. CASE Launch
  <2> DEFINE launched == {c \in Elements(finalizedCalls) : tool[c] = "prepared"}
  <2>1. /\ pc = "launch" /\ pc' = "wait_all" /\ UNCHANGED <<batchVars, lastEvent>>
        /\ tool' = [c \in Calls |-> IF c \in launched THEN "executing" ELSE tool[c]]
        /\ parallelCalls' = parallelCalls \cup launched
    BY <1>6 DEF Launch
  <2>2. Elements(finalizedCalls)' = Elements(finalizedCalls)
    BY <2>1 DEF Elements, batchVars
  <2>3. launched \subseteq Elements(finalizedCalls) /\ launched \subseteq Calls
    BY SMTT(60) DEF Elements, TypeInv, TypeOK, BatchType
  <2> HIDE DEF launched
  <2>4. /\ \A c \in Calls : tool[c] \notin {"poisoned", "rejected", "executing"}
        /\ \A c \in parallelCalls : tool[c] \in {"executing", "finalized", "ended"}
        /\ \A c \in parallelCalls : tool[c] # "finalized"
        /\ lastEvent # "agent_end"
    BY <1>1, <2>1 DEF QuietInv
  <2>5. parallelCalls \subseteq Calls
    BY DEF TypeInv, TypeOK, ToolType
  <2> QED BY <2>1, <2>2, <2>3, <2>4, <2>5 DEF QuietInv, FailPoints
<1> QED BY <1>1, <1>2, <1>3, <1>4, <1>5, <1>6, QuietMoves, QuietCall, QuietTool

-----------------------------------------------------------------------------
(* The invariants together, and what they say of every behaviour.          *)

WorkInv == BatchInv /\ BlockInv /\ WaitingInv /\ FreshInv /\ QuietInv

LEMMA WorkInit == Init => WorkInv
<1> USE DEF Init
<1>1. Init => BatchInv /\ BlockInv /\ WaitingInv
  BY DEF BatchInv, BlockInv, WaitingInv, ToolPoints, CallPoints, ResultPoints
<1>2. Init => FreshInv
  BY DEF FreshInv, Preparing, ToolPoints, CallPoints, ResultPoints
<1>3. Init => QuietInv
  BY DEF QuietInv, FailPoints
<1> QED BY <1>1, <1>2, <1>3 DEF WorkInv

LEMMA WorkStutter ==
    ASSUME WorkInv, UNCHANGED vars
    PROVE  WorkInv'
<1> USE DEF WorkInv, vars, apiVars, queueVars, stateVars, runVars, contextVars, batchVars,
            toolVars
<1>1. BatchInv' /\ BlockInv' /\ WaitingInv'
  BY SMTT(60) DEF BatchInv, BlockInv, ReplyPlace, WaitingInv
<1>2. FreshInv' /\ QuietInv'
  BY DEF FreshInv, Preparing, QuietInv, Current, Elements
<1> QED BY <1>1, <1>2

LEMMA WorkInvariant == Spec => []WorkInv
<1>1. TypeInv /\ IdleIsClean /\ WorkInv /\ [Next]_vars => WorkInv'
  <2> SUFFICES ASSUME TypeInv, IdleIsClean, WorkInv, [Next]_vars
               PROVE  WorkInv'
    OBVIOUS
  <2>1. CASE Next
    BY <2>1, BatchStep, BlockStep, WaitingStep, FreshStep, QuietStep DEF WorkInv
  <2>2. CASE UNCHANGED vars
    BY <2>2, WorkStutter
  <2> QED BY <2>1, <2>2
<1> QED BY <1>1, WorkInit, TypeInvariant, IdleIsCleanInvariant, PTL DEF Spec

\* A turn that ended without an abort has one result per tool call.
THEOREM EveryCallAnsweredInvariant == Spec => []EveryCallAnswered
<1>1. WorkInv => EveryCallAnswered
  BY DEF WorkInv, BatchInv, EveryCallAnswered
<1> QED BY <1>1, WorkInvariant, PTL

\* agent_end is the last event of a run as long as no listener or hook threw:
\* the next one is the agent_start of another run.
THEOREM AgentEndIsLastTheorem == Spec => AgentEndIsLast
<1>1. TypeInv /\ IdleIsClean /\ WorkInv /\ [Next]_vars
        => [lastEvent = "agent_end" /\ lastEvent' # lastEvent /\ throws' = 0
              => lastEvent' = "agent_start"]_vars
  <2> SUFFICES ASSUME TypeInv, IdleIsClean, WorkInv, Next, lastEvent = "agent_end",
                      lastEvent' # lastEvent, throws' = 0
               PROVE  lastEvent' = "agent_start"
    OBVIOUS
  <2>1. throws = 0
    BY ThrowsFrame, BoundsAssumption, SMTT(60) DEF TypeInv, TypeOK, CounterType
  <2>2. pc \in {"finish", "idle", "agent_start"}
    BY <2>1 DEF WorkInv, QuietInv
  <2>3. CASE Api
    BY <2>3 DEF Api, Steer, FollowUp, ClearSteeringQueue, ClearFollowUpQueue, Reset, Abort,
       Prompt, ContinueSteering, ContinueFollowUp, RunContinuation, StartRun
  <2>4. CASE RunStep \/ StreamUpdate
    BY <2>2, <2>4 DEF RunStep, Emit, AgentStart, FirstTurnStart, PromptStart, PromptEnd,
       PollInitial, TurnStart, InjectStart, InjectEnd, StreamFails, StreamStart,
       StreamUpdate, StreamFinal, StreamFinalOnly, ReplyEnd, ToolStart, PrepareImmediate,
       PreparePrepared, ToolExecute, ToolWait, ToolEnd, ToolNext, Launch, WaitAll,
       ResultStart, ResultEnd, TurnEnd, TurnEndStopped, PrepareNextTurn,
       ShouldStopAfterTurn, PollSteering, PollFollowUp, AgentEnd, FailMessageStart,
       FailMessageEnd, FailTurnEnd, FailAgentEnd, FinishRun
  <2>5. ASSUME NEW c \in Calls, ToolUpdate(c) \/ ToolSettle(c) \/ TaskEnd(c)
        PROVE  FALSE
    BY <2>1, <2>5, QuietTool DEF WorkInv
  <2> QED BY <2>3, <2>4, <2>5 DEF Next
<1> QED BY <1>1, WorkInvariant, TypeInvariant, IdleIsCleanInvariant, PTL
       DEF Spec, AgentEndIsLast
=============================================================================
