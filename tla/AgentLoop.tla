------------------------------ MODULE AgentLoop ------------------------------
(***************************************************************************)
(* The agent run loop: class Agent of packages/agent/src/agent.ts and      *)
(* runLoop of packages/agent/src/agent-loop.ts, which Agent drives.        *)
(*                                                                         *)
(* One run at a time walks through the program counter `pc`; every value   *)
(* of pc is a point where the code awaits an event listener, a hook, the   *)
(* provider stream or a tool.  At each of them the callers of the public   *)
(* API (steer, followUp, abort, ...) and the tools launched by a parallel  *)
(* batch may run.  A listener or hook may throw; MaxThrows bounds how often *)
(* that happens.                                                           *)
(***************************************************************************)
EXTENDS Integers, Sequences, FiniteSets

CONSTANTS
    MaxMessages,    \* bound: user messages ever handed to the agent
    MaxCalls,       \* bound: tool calls the provider ever asks for
    MaxBatch,       \* bound: tool calls in one assistant message
    MaxThrows,      \* bound: listener and hook failures
    SteeringMode,   \* PendingMessageQueue.mode of the steering queue
    FollowUpMode,   \* PendingMessageQueue.mode of the follow-up queue
    ToolModes,      \* the execution modes a batch may be given
    HookReplaces    \* may prepareNextTurn return another context?

QueueModes == {"all", "one-at-a-time"}

ASSUME BoundsAssumption ==
    /\ MaxMessages \in Nat
    /\ MaxCalls \in Nat
    /\ MaxBatch \in Nat
    /\ MaxThrows \in Nat

ASSUME ModesAssumption ==
    /\ SteeringMode \in QueueModes
    /\ FollowUpMode \in QueueModes
    /\ ToolModes \subseteq {"sequential", "parallel"}
    /\ HookReplaces \in BOOLEAN

VARIABLES
    activeRun,         \* Agent.activeRun is defined
    aborted,           \* its abortController.signal.aborted
    transcript,        \* _state.messages
    streaming,         \* _state.streamingMessage is defined
    pendingToolCalls,  \* _state.pendingToolCalls
    steeringQueue,
    followUpQueue,
    pc,                \* where the run awaits
    skipPoll,          \* skipInitialSteeringPoll of createLoopConfig
    prompts,           \* prompts runAgentLoop has still to announce
    context,           \* currentContext.messages
    newMessages,
    pending,           \* pendingMessages still to inject
    reply,             \* the assistant message of this turn
    batch,             \* its tool calls, in source order
    mode,              \* how the batch is executed
    index,             \* position of the call being prepared
    finalizedCalls,
    toolResults,       \* calls whose result message was emitted
    tool,              \* per tool call: how far it got
    terminating,       \* calls whose result has terminate === true
    parallelCalls,     \* calls launched by executeToolCallsParallel
    nextMessage,       \* user messages created so far
    nextCall,          \* tool calls created so far
    throws,            \* listener and hook failures so far
    lastEvent,         \* history: type of the last event listeners saw
    turnOpen,          \* history: turn_start seen, its turn_end not yet
    runStart,          \* history: length of the transcript at run start
    cleared,           \* history: messages removed by clear*() or reset()
    contextReplaced    \* history: prepareNextTurn replaced the context

apiVars == <<nextMessage, cleared>>
queueVars == <<steeringQueue, followUpQueue>>
stateVars == <<transcript, streaming, pendingToolCalls>>
runVars == <<activeRun, aborted, runStart, skipPoll>>
contextVars == <<context, newMessages, contextReplaced>>
batchVars == <<batch, mode, index, finalizedCalls, toolResults>>
toolVars == <<tool, terminating, parallelCalls>>

vars == <<apiVars, queueVars, stateVars, runVars, contextVars, batchVars,
          toolVars, pc, prompts, pending, reply, nextCall, throws, lastEvent,
          turnOpen>>

Calls == 1..MaxCalls

\* Who queued a user message, why a reply stopped, or a tool result.
Kinds == {"prompt", "steer", "followUp", "partial", "stop", "length", "error",
          "aborted", "result"}

Message == [role : {"user", "assistant", "toolResult"},
            id : Nat, kind : Kinds, calls : Seq(Nat)]

UserMessage(id, kind) ==
    [role |-> "user", id |-> id, kind |-> kind, calls |-> <<>>]

AssistantMessage(stop, calls) ==
    [role |-> "assistant", id |-> 0, kind |-> stop, calls |-> calls]

ToolResultMessage(call) ==
    [role |-> "toolResult", id |-> call, kind |-> "result", calls |-> <<>>]

ToolResultMessages(calls) == [i \in 1..Len(calls) |-> ToolResultMessage(calls[i])]

Elements(s) == {s[i] : i \in 1..Len(s)}
Ids(s) == {s[i].id : i \in 1..Len(s)}

-----------------------------------------------------------------------------
(* The state reduction of processEvents and the call of the listeners.     *)

\* Mutant: the queue is a stack.
MutEnqueue(queue, message) == <<message>> \o queue

Enqueue(queue, message) == Append(queue, message)

\* PendingMessageQueue.drain: what it returns and what it leaves.
Drained(queue, queueMode) ==
    IF queueMode = "all" \/ queue = <<>> THEN queue ELSE <<Head(queue)>>

\* Mutant: draining one message forgets the others.
MutUndrained(queue, queueMode) == <<>>

Undrained(queue, queueMode) ==
    IF queueMode = "all" \/ queue = <<>> THEN <<>> ELSE Tail(queue)

\* The awaited call either settles and the loop moves on, or it throws, the
\* executor rejects and runWithLifecycle enters handleRunFailure.
Await(next) ==
    \/ pc' = next /\ UNCHANGED throws
    \/ /\ throws < MaxThrows
       /\ throws' = throws + 1
       /\ pc' = "fail_message_start"

Emit(event, next) == lastEvent' = event /\ Await(next)

ReduceMessageStart ==
    streaming' = TRUE /\ UNCHANGED <<transcript, pendingToolCalls>>

\* Mutant: a failed reply does not enter the transcript.
MutReduceMessageEnd(message) ==
    /\ streaming' = FALSE
    /\ transcript' = IF message.kind = "error" THEN transcript
                     ELSE Append(transcript, message)
    /\ UNCHANGED pendingToolCalls

ReduceMessageEnd(message) ==
    /\ streaming' = FALSE
    /\ transcript' = Append(transcript, message)
    /\ UNCHANGED pendingToolCalls

ReduceToolStart(call) ==
    /\ pendingToolCalls' = pendingToolCalls \cup {call}
    /\ UNCHANGED <<transcript, streaming>>

ReduceToolEnd(call) ==
    /\ pendingToolCalls' = pendingToolCalls \ {call}
    /\ UNCHANGED <<transcript, streaming>>

ReduceAgentEnd == streaming' = FALSE /\ UNCHANGED <<transcript, pendingToolCalls>>

-----------------------------------------------------------------------------
Init ==
    /\ activeRun = FALSE /\ aborted = FALSE
    /\ transcript = <<>> /\ streaming = FALSE /\ pendingToolCalls = {}
    /\ steeringQueue = <<>> /\ followUpQueue = <<>>
    /\ pc = "idle" /\ skipPoll = FALSE
    /\ prompts = <<>> /\ context = <<>> /\ newMessages = <<>> /\ pending = <<>>
    /\ reply = AssistantMessage("stop", <<>>)
    /\ batch = <<>> /\ mode = "sequential" /\ index = 1
    /\ finalizedCalls = <<>> /\ toolResults = <<>>
    /\ tool = [c \in Calls |-> "unknown"]
    /\ terminating = {} /\ parallelCalls = {}
    /\ nextMessage = 0 /\ nextCall = 0 /\ throws = 0
    /\ lastEvent = "none" /\ turnOpen = FALSE /\ runStart = 0
    /\ cleared = {} /\ contextReplaced = FALSE

-----------------------------------------------------------------------------
(* The public API of Agent, callable whenever the event loop is free.      *)

Steer ==
    /\ nextMessage < MaxMessages
    /\ nextMessage' = nextMessage + 1
    /\ steeringQueue' = Enqueue(steeringQueue, UserMessage(nextMessage + 1, "steer"))
    /\ UNCHANGED <<followUpQueue, cleared, stateVars, runVars, contextVars,
                   batchVars, toolVars, pc, prompts, pending, reply, nextCall,
                   throws, lastEvent, turnOpen>>

FollowUp ==
    /\ nextMessage < MaxMessages
    /\ nextMessage' = nextMessage + 1
    /\ followUpQueue' = Enqueue(followUpQueue, UserMessage(nextMessage + 1, "followUp"))
    /\ UNCHANGED <<steeringQueue, cleared, stateVars, runVars, contextVars,
                   batchVars, toolVars, pc, prompts, pending, reply, nextCall,
                   throws, lastEvent, turnOpen>>

ClearSteeringQueue ==
    /\ steeringQueue # <<>>
    /\ steeringQueue' = <<>>
    /\ cleared' = cleared \cup Ids(steeringQueue)
    /\ UNCHANGED <<followUpQueue, nextMessage, stateVars, runVars, contextVars,
                   batchVars, toolVars, pc, prompts, pending, reply, nextCall,
                   throws, lastEvent, turnOpen>>

ClearFollowUpQueue ==
    /\ followUpQueue # <<>>
    /\ followUpQueue' = <<>>
    /\ cleared' = cleared \cup Ids(followUpQueue)
    /\ UNCHANGED <<steeringQueue, nextMessage, stateVars, runVars, contextVars,
                   batchVars, toolVars, pc, prompts, pending, reply, nextCall,
                   throws, lastEvent, turnOpen>>

Abort ==
    /\ activeRun /\ ~aborted
    /\ aborted' = TRUE
    /\ UNCHANGED <<activeRun, runStart, skipPoll, apiVars, queueVars, stateVars,
                   contextVars, batchVars, toolVars, pc, prompts, pending,
                   reply, nextCall, throws, lastEvent, turnOpen>>

\* reset() throws while a run is active.
Reset ==
    /\ ~activeRun
    /\ transcript' = <<>> /\ streaming' = FALSE /\ pendingToolCalls' = {}
    /\ steeringQueue' = <<>> /\ followUpQueue' = <<>>
    /\ cleared' = cleared \cup Ids(steeringQueue) \cup Ids(followUpQueue)
                  \cup {transcript[i].id : i \in
                          {j \in 1..Len(transcript) : transcript[j].role = "user"}}
    /\ UNCHANGED <<nextMessage, runVars, contextVars, batchVars, toolVars, pc,
                   prompts, pending, reply, nextCall, throws, lastEvent,
                   turnOpen>>

\* runWithLifecycle and the synchronous start of runAgentLoop: the context is
\* the transcript followed by the prompts.
StartRun(messages, skip) ==
    /\ activeRun' = TRUE /\ aborted' = FALSE
    /\ streaming' = FALSE
    /\ runStart' = Len(transcript)
    /\ skipPoll' = skip
    /\ prompts' = messages
    /\ context' = transcript \o messages
    /\ newMessages' = messages
    /\ contextReplaced' = FALSE
    /\ pending' = <<>>
    /\ turnOpen' = FALSE
    /\ pc' = "agent_start"
    /\ UNCHANGED <<transcript, pendingToolCalls, batchVars, toolVars, reply,
                   nextCall, throws, lastEvent>>

Prompt ==
    /\ ~activeRun
    /\ \E n \in 1..(MaxMessages - nextMessage) :
        /\ nextMessage' = nextMessage + n
        /\ StartRun([i \in 1..n |-> UserMessage(nextMessage + i, "prompt")], FALSE)
    /\ UNCHANGED <<cleared, queueVars>>

LastRole(messages) == messages[Len(messages)].role

\* continue() after an assistant message takes its prompts from the steering
\* queue, and then does not poll that queue again first.
ContinueSteering ==
    /\ ~activeRun
    /\ transcript # <<>> /\ LastRole(transcript) = "assistant"
    /\ steeringQueue # <<>>
    /\ steeringQueue' = Undrained(steeringQueue, SteeringMode)
    /\ StartRun(Drained(steeringQueue, SteeringMode), TRUE)
    /\ UNCHANGED <<followUpQueue, apiVars>>

ContinueFollowUp ==
    /\ ~activeRun
    /\ transcript # <<>> /\ LastRole(transcript) = "assistant"
    /\ steeringQueue = <<>> /\ followUpQueue # <<>>
    /\ followUpQueue' = Undrained(followUpQueue, FollowUpMode)
    /\ StartRun(Drained(followUpQueue, FollowUpMode), FALSE)
    /\ UNCHANGED <<steeringQueue, apiVars>>

RunContinuation ==
    /\ ~activeRun
    /\ transcript # <<>> /\ LastRole(transcript) # "assistant"
    /\ StartRun(<<>>, FALSE)
    /\ UNCHANGED <<queueVars, apiVars>>

-----------------------------------------------------------------------------
(* runAgentLoop and runLoop up to the provider request.                    *)

\* What no step of the loop itself changes.
LoopFrame == UNCHANGED <<apiVars, activeRun, aborted, runStart>>

AgentStart ==
    /\ pc = "agent_start"
    /\ Emit("agent_start", "first_turn_start")
    /\ LoopFrame
    /\ UNCHANGED <<queueVars, stateVars, skipPoll, contextVars, batchVars,
                   toolVars, prompts, pending, reply, nextCall, turnOpen>>

FirstTurnStart ==
    /\ pc = "first_turn_start"
    /\ Emit("turn_start", IF prompts = <<>> THEN "poll_initial" ELSE "prompt_start")
    /\ turnOpen' = TRUE
    /\ LoopFrame
    /\ UNCHANGED <<queueVars, stateVars, skipPoll, contextVars, batchVars,
                   toolVars, prompts, pending, reply, nextCall>>

PromptStart ==
    /\ pc = "prompt_start"
    /\ Emit("message_start", "prompt_end")
    /\ ReduceMessageStart
    /\ LoopFrame
    /\ UNCHANGED <<queueVars, skipPoll, contextVars, batchVars, toolVars,
                   prompts, pending, reply, nextCall, turnOpen>>

PromptEnd ==
    /\ pc = "prompt_end"
    /\ ReduceMessageEnd(Head(prompts))
    /\ prompts' = Tail(prompts)
    /\ Emit("message_end",
            IF Len(prompts) = 1 THEN "poll_initial" ELSE "prompt_start")
    /\ LoopFrame
    /\ UNCHANGED <<queueVars, skipPoll, contextVars, batchVars, toolVars,
                   pending, reply, nextCall, turnOpen>>

\* The getSteeringMessages closure of createLoopConfig.
GetSteeringMessages ==
    /\ skipPoll' = FALSE
    /\ pending' = IF skipPoll THEN <<>> ELSE Drained(steeringQueue, SteeringMode)
    /\ steeringQueue' = IF skipPoll THEN steeringQueue
                        ELSE Undrained(steeringQueue, SteeringMode)

\* The poll before the first turn, which is already open.
PollInitial ==
    /\ pc = "poll_initial"
    /\ GetSteeringMessages
    /\ pc' = IF pending' = <<>> THEN "stream" ELSE "inject_start"
    /\ LoopFrame
    /\ UNCHANGED <<followUpQueue, stateVars, contextVars, batchVars, toolVars,
                   prompts, reply, nextCall, throws, lastEvent, turnOpen>>

TurnStart ==
    /\ pc = "turn_start"
    /\ Emit("turn_start", IF pending = <<>> THEN "stream" ELSE "inject_start")
    /\ turnOpen' = TRUE
    /\ LoopFrame
    /\ UNCHANGED <<queueVars, stateVars, skipPoll, contextVars, batchVars,
                   toolVars, prompts, pending, reply, nextCall>>

InjectStart ==
    /\ pc = "inject_start"
    /\ Emit("message_start", "inject_end")
    /\ ReduceMessageStart
    /\ LoopFrame
    /\ UNCHANGED <<queueVars, skipPoll, contextVars, batchVars, toolVars,
                   prompts, pending, reply, nextCall, turnOpen>>

\* The context receives the message only once its listeners have settled.
InjectEnd ==
    /\ pc = "inject_end"
    /\ ReduceMessageEnd(Head(pending))
    /\ pending' = Tail(pending)
    /\ Emit("message_end", IF Len(pending) = 1 THEN "stream" ELSE "inject_start")
    /\ IF throws' = throws
       THEN /\ context' = Append(context, Head(pending))
            /\ newMessages' = Append(newMessages, Head(pending))
       ELSE UNCHANGED <<context, newMessages>>
    /\ LoopFrame
    /\ UNCHANGED <<queueVars, skipPoll, contextReplaced, batchVars, toolVars,
                   prompts, reply, nextCall, turnOpen>>

-----------------------------------------------------------------------------
(* streamAssistantResponse.                                                *)

\* A final message of the provider: any stop reason ("aborted" only for an
\* aborted signal) and up to MaxBatch fresh tool calls.
StopReasons == {"stop", "length", "error"} \cup {r \in {"aborted"} : aborted}

BatchSizes == {n \in 0..MaxBatch : nextCall + n <= MaxCalls}

FinalMessage(stop, n) == AssistantMessage(stop, [i \in 1..n |-> nextCall + i])

PartialMessage == AssistantMessage("partial", <<>>)

\* Mutant: the final message is pushed behind the partial one.
MutReplaceLast(s, e) == Append(s, e)

ReplaceLast(s, e) == [s EXCEPT ![Len(s)] = e]

\* transformContext, convertToLlm, getApiKey or the stream function throws.
StreamFails ==
    /\ pc \in {"stream", "streaming"}
    /\ throws < MaxThrows
    /\ throws' = throws + 1
    /\ pc' = "fail_message_start"
    /\ LoopFrame
    /\ UNCHANGED <<queueVars, stateVars, skipPoll, contextVars, batchVars,
                   toolVars, prompts, pending, reply, nextCall, lastEvent,
                   turnOpen>>

StreamStart ==
    /\ pc = "stream"
    /\ context' = Append(context, PartialMessage)
    /\ ReduceMessageStart
    /\ Emit("message_start", "streaming")
    /\ LoopFrame
    /\ UNCHANGED <<queueVars, skipPoll, newMessages, contextReplaced, batchVars,
                   toolVars, prompts, pending, reply, nextCall, turnOpen>>

StreamUpdate ==
    /\ pc = "streaming"
    /\ ReduceMessageStart
    /\ Emit("message_update", "streaming")
    /\ LoopFrame
    /\ UNCHANGED <<queueVars, skipPoll, contextVars, batchVars, toolVars,
                   prompts, pending, reply, nextCall, turnOpen>>

\* "done" or "error" after a partial message: the final one takes its place.
StreamFinal ==
    /\ pc = "streaming"
    /\ \E stop \in StopReasons, n \in BatchSizes :
        /\ reply' = FinalMessage(stop, n)
        /\ nextCall' = nextCall + n
        /\ context' = ReplaceLast(context, FinalMessage(stop, n))
    /\ pc' = "reply_end"
    /\ LoopFrame
    /\ UNCHANGED <<queueVars, stateVars, skipPoll, newMessages, contextReplaced,
                   batchVars, toolVars, prompts, pending, throws, lastEvent,
                   turnOpen>>

\* The stream ends without ever announcing a partial message.
StreamFinalOnly ==
    /\ pc = "stream"
    /\ \E stop \in StopReasons, n \in BatchSizes :
        /\ reply' = FinalMessage(stop, n)
        /\ nextCall' = nextCall + n
        /\ context' = Append(context, FinalMessage(stop, n))
    /\ ReduceMessageStart
    /\ Emit("message_start", "reply_end")
    /\ LoopFrame
    /\ UNCHANGED <<queueVars, skipPoll, newMessages, contextReplaced, batchVars,
                   toolVars, prompts, pending, turnOpen>>

\* Listeners of message_end settle before any tool is prepared.  The batch of
\* this turn is set up here: none for a failed message, failToolCalls... for a
\* truncated one, else the mode executeToolCalls picks.
ReplyEnd ==
    /\ pc = "reply_end"
    /\ ReduceMessageEnd(reply)
    /\ Emit("message_end",
            IF reply.kind \in {"error", "aborted"} THEN "turn_end_stopped"
            ELSE IF reply.calls = <<>> THEN "turn_end" ELSE "tool_start")
    /\ newMessages' = IF throws' = throws THEN Append(newMessages, reply)
                      ELSE newMessages
    /\ batch' = IF reply.kind \in {"error", "aborted"} THEN <<>> ELSE reply.calls
    /\ mode' \in (IF reply.kind = "length" THEN {"length"}
                  ELSE IF batch' = <<>> THEN {mode} ELSE ToolModes)
    /\ index' = 1
    /\ finalizedCalls' = <<>> /\ toolResults' = <<>>
    /\ LoopFrame
    /\ UNCHANGED <<queueVars, skipPoll, context, contextReplaced, toolVars,
                   prompts, pending, reply, nextCall, turnOpen>>

-----------------------------------------------------------------------------
(* executeToolCallsSequential, executeToolCallsParallel and                *)
(* failToolCallsFromTruncatedMessage.                                      *)

Current == batch[index]

ToolStart ==
    /\ pc = "tool_start"
    /\ ReduceToolStart(Current)
    /\ tool' = [tool EXCEPT ![Current] =
                   IF mode = "length" THEN "finalized" ELSE "started"]
    /\ Emit("tool_execution_start",
            IF mode = "length" THEN "tool_end" ELSE "tool_prepare")
    /\ LoopFrame
    /\ UNCHANGED <<queueVars, skipPoll, contextVars, batchVars, terminating,
                   parallelCalls, prompts, pending, reply, nextCall, turnOpen>>

\* prepareToolCall never throws.  Unknown tool, invalid arguments, a throwing
\* hook or an aborted signal give an immediate error; a blocking hook may add
\* terminate.
PrepareImmediate ==
    /\ pc = "tool_prepare"
    /\ tool' = [tool EXCEPT ![Current] = "finalized"]
    /\ \/ UNCHANGED terminating
       \/ ~aborted /\ terminating' = terminating \cup {Current}
    /\ pc' = "tool_end"
    /\ LoopFrame
    /\ UNCHANGED <<queueVars, stateVars, skipPoll, contextVars, batchVars,
                   parallelCalls, prompts, pending, reply, nextCall, throws,
                   lastEvent, turnOpen>>

PreparePrepared ==
    /\ pc = "tool_prepare"
    /\ ~aborted
    /\ tool' = [tool EXCEPT ![Current] = "prepared"]
    /\ finalizedCalls' = IF mode = "parallel" THEN Append(finalizedCalls, Current)
                         ELSE finalizedCalls
    /\ pc' = IF mode = "parallel" THEN "tool_next" ELSE "tool_execute"
    /\ LoopFrame
    /\ UNCHANGED <<queueVars, stateVars, skipPoll, contextVars, batch, mode,
                   index, toolResults, terminating, parallelCalls, prompts,
                   pending, reply, nextCall, throws, lastEvent, turnOpen>>

ToolExecute ==
    /\ pc = "tool_execute"
    /\ tool' = [tool EXCEPT ![Current] = "executing"]
    /\ pc' = "tool_wait"
    /\ LoopFrame
    /\ UNCHANGED <<queueVars, stateVars, skipPoll, contextVars, batchVars,
                   terminating, parallelCalls, prompts, pending, reply,
                   nextCall, throws, lastEvent, turnOpen>>

\* executePreparedToolCall of a sequential call returns, or rejects because a
\* listener of one of its updates threw.
ToolWait ==
    /\ pc = "tool_wait"
    /\ \/ tool[Current] = "finalized" /\ pc' = "tool_end"
       \/ tool[Current] = "rejected" /\ pc' = "fail_message_start"
    /\ LoopFrame
    /\ UNCHANGED <<queueVars, stateVars, skipPoll, contextVars, batchVars,
                   toolVars, prompts, pending, reply, nextCall, throws,
                   lastEvent, turnOpen>>

ToolEnd ==
    /\ pc = "tool_end"
    /\ ReduceToolEnd(Current)
    /\ tool' = [tool EXCEPT ![Current] = "ended"]
    /\ Emit("tool_execution_end",
            IF mode = "parallel" THEN "tool_next" ELSE "result_start")
    /\ finalizedCalls' = IF mode = "parallel" THEN Append(finalizedCalls, Current)
                         ELSE finalizedCalls
    /\ LoopFrame
    /\ UNCHANGED <<queueVars, skipPoll, contextVars, batch, mode, index,
                   toolResults, terminating, parallelCalls, prompts, pending,
                   reply, nextCall, turnOpen>>

\* Mutant: the last call of a batch is skipped.
MutLeavesLoop == index + 1 >= Len(batch) \/ (aborted /\ mode # "length")

\* The for loop over the calls: an aborted signal leaves it early, except for
\* a truncated message.
LeavesLoop == index = Len(batch) \/ (aborted /\ mode # "length")

ToolNext ==
    /\ pc = "tool_next"
    /\ IF LeavesLoop
       THEN /\ pc' = IF mode = "parallel" THEN "launch" ELSE "turn_end"
            /\ UNCHANGED index
       ELSE pc' = "tool_start" /\ index' = index + 1
    /\ LoopFrame
    /\ UNCHANGED <<queueVars, stateVars, skipPoll, contextVars, batch, mode,
                   finalizedCalls, toolResults, toolVars, prompts, pending,
                   reply, nextCall, throws, lastEvent, turnOpen>>

\* finalizedCalls.map(entry => entry()): every prepared call starts to execute.
Launch ==
    /\ pc = "launch"
    /\ LET launched == {c \in Elements(finalizedCalls) : tool[c] = "prepared"}
       IN  /\ tool' = [c \in Calls |-> IF c \in launched THEN "executing" ELSE tool[c]]
           /\ parallelCalls' = parallelCalls \cup launched
    /\ pc' = "wait_all"
    /\ LoopFrame
    /\ UNCHANGED <<queueVars, stateVars, skipPoll, contextVars, batchVars,
                   terminating, prompts, pending, reply, nextCall, throws,
                   lastEvent, turnOpen>>

\* Mutant: a rejected call is ignored and waited for.
MutWaitAll ==
    /\ pc = "wait_all"
    /\ \/ /\ \E c \in Elements(finalizedCalls) : tool[c] = "rejected"
          /\ UNCHANGED pc
       \/ /\ \A c \in Elements(finalizedCalls) : tool[c] = "ended"
          /\ pc' = "result_start"
    /\ LoopFrame
    /\ UNCHANGED <<queueVars, stateVars, skipPoll, contextVars, batchVars,
                   toolVars, prompts, pending, reply, nextCall, throws,
                   lastEvent, turnOpen>>

\* Mutant: an aborted batch does not wait for its tools.
MutWaitAborted ==
    /\ pc = "wait_all"
    /\ \/ aborted /\ pc' = "turn_end"
       \/ /\ \A c \in Elements(finalizedCalls) : tool[c] = "ended"
          /\ pc' = "result_start"
    /\ LoopFrame
    /\ UNCHANGED <<queueVars, stateVars, skipPoll, contextVars, batchVars,
                   toolVars, prompts, pending, reply, nextCall, throws,
                   lastEvent, turnOpen>>

\* Promise.all: rejects with the first rejection, resolves when all resolved.
WaitAll ==
    /\ pc = "wait_all"
    /\ \/ /\ \E c \in Elements(finalizedCalls) : tool[c] = "rejected"
          /\ pc' = "fail_message_start"
       \/ /\ \A c \in Elements(finalizedCalls) : tool[c] = "ended"
          /\ pc' = "result_start"
    /\ LoopFrame
    /\ UNCHANGED <<queueVars, stateVars, skipPoll, contextVars, batchVars,
                   toolVars, prompts, pending, reply, nextCall, throws,
                   lastEvent, turnOpen>>

\* Mutant: the results of a parallel batch are taken from the end.
MutResultCall ==
    IF mode = "parallel" THEN finalizedCalls[Len(finalizedCalls) - Len(toolResults)]
    ELSE Current

\* The call whose result message is emitted next.
ResultCall == IF mode = "parallel" THEN finalizedCalls[Len(toolResults) + 1]
              ELSE Current

ResultStart ==
    /\ pc = "result_start"
    /\ ReduceMessageStart
    /\ Emit("message_start", "result_end")
    /\ LoopFrame
    /\ UNCHANGED <<queueVars, skipPoll, contextVars, batchVars, toolVars,
                   prompts, pending, reply, nextCall, turnOpen>>

ResultEnd ==
    /\ pc = "result_end"
    /\ ReduceMessageEnd(ToolResultMessage(ResultCall))
    /\ toolResults' = Append(toolResults, ResultCall)
    /\ finalizedCalls' = IF mode = "parallel" THEN finalizedCalls
                         ELSE Append(finalizedCalls, Current)
    /\ Emit("message_end",
            IF mode # "parallel" THEN "tool_next"
            ELSE IF Len(toolResults') = Len(finalizedCalls) THEN "turn_end"
            ELSE "result_start")
    /\ LoopFrame
    /\ UNCHANGED <<queueVars, skipPoll, contextVars, batch, mode, index,
                   toolVars, prompts, pending, reply, nextCall, turnOpen>>

-----------------------------------------------------------------------------
(* The tools themselves.  A call launched by a parallel batch emits its own *)
(* tool_execution_end, and nothing cancels it when the run fails meanwhile. *)

\* Everything but the tools' own state, the event seen and the failures.
TaskFrame == UNCHANGED <<apiVars, queueVars, runVars, contextVars, batchVars, pc,
                         prompts, pending, reply, nextCall, turnOpen,
                         transcript, streaming>>

\* The tool reports a partial result.  A throwing listener, or processEvents
\* outside an active run, leaves a rejected promise in updateEvents.
ToolUpdate(c) ==
    /\ tool[c] \in {"executing", "poisoned"}
    /\ \/ /\ activeRun
          /\ lastEvent' = "tool_execution_update"
          /\ UNCHANGED <<tool, throws>>
       \/ /\ activeRun /\ throws < MaxThrows
          /\ lastEvent' = "tool_execution_update"
          /\ throws' = throws + 1
          /\ tool' = [tool EXCEPT ![c] = "poisoned"]
       \/ /\ ~activeRun
          /\ tool' = [tool EXCEPT ![c] = "poisoned"]
          /\ UNCHANGED <<lastEvent, throws>>
    /\ UNCHANGED <<pendingToolCalls, terminating, parallelCalls>>
    /\ TaskFrame

\* The tool returns or throws, afterToolCall has its say, and the outcome is
\* final unless an update was rejected.
ToolSettle(c) ==
    /\ \/ tool[c] = "executing" /\ tool' = [tool EXCEPT ![c] = "finalized"]
       \/ tool[c] = "poisoned" /\ tool' = [tool EXCEPT ![c] = "rejected"]
    /\ terminating' \in {terminating, terminating \cup {c}}
    /\ UNCHANGED <<pendingToolCalls, parallelCalls, lastEvent, throws>>
    /\ TaskFrame

\* emitToolExecutionEnd inside a parallel call's own async function.
TaskEnd(c) ==
    /\ c \in parallelCalls /\ tool[c] = "finalized"
    /\ pendingToolCalls' = pendingToolCalls \ {c}
    /\ \/ /\ activeRun
          /\ lastEvent' = "tool_execution_end"
          /\ \/ tool' = [tool EXCEPT ![c] = "ended"] /\ UNCHANGED throws
             \/ /\ throws < MaxThrows
                /\ throws' = throws + 1
                /\ tool' = [tool EXCEPT ![c] = "rejected"]
       \/ /\ ~activeRun
          /\ tool' = [tool EXCEPT ![c] = "rejected"]
          /\ UNCHANGED <<lastEvent, throws>>
    /\ UNCHANGED <<terminating, parallelCalls>>
    /\ TaskFrame

-----------------------------------------------------------------------------
(* The end of a turn and of the run.                                       *)

\* shouldTerminateToolBatch, and hasMoreToolCalls derived from it.
ShouldTerminate ==
    finalizedCalls # <<>> /\ \A c \in Elements(finalizedCalls) : c \in terminating

HasMoreToolCalls == batch # <<>> /\ ~ShouldTerminate

TurnEnd ==
    /\ pc = "turn_end"
    /\ context' = context \o ToolResultMessages(toolResults)
    /\ newMessages' = newMessages \o ToolResultMessages(toolResults)
    /\ turnOpen' = FALSE
    /\ Emit("turn_end", "prepare_next_turn")
    /\ LoopFrame
    /\ UNCHANGED <<queueVars, stateVars, skipPoll, contextReplaced, batchVars,
                   toolVars, prompts, pending, reply, nextCall>>

TurnEndStopped ==
    /\ pc = "turn_end_stopped"
    /\ turnOpen' = FALSE
    /\ Emit("turn_end", "agent_end")
    /\ LoopFrame
    /\ UNCHANGED <<queueVars, stateVars, skipPoll, contextVars, batchVars,
                   toolVars, prompts, pending, reply, nextCall>>

\* The hook may hand back another context (here: an empty one).
PrepareNextTurn ==
    /\ pc = "prepare_next_turn"
    /\ Await("should_stop")
    /\ \/ UNCHANGED <<context, contextReplaced>>
       \/ HookReplaces /\ context' = <<>> /\ contextReplaced' = TRUE
    /\ LoopFrame
    /\ UNCHANGED <<queueVars, stateVars, skipPoll, newMessages, batchVars,
                   toolVars, prompts, pending, reply, nextCall, lastEvent,
                   turnOpen>>

ShouldStopAfterTurn ==
    /\ pc = "should_stop"
    /\ Await("agent_end") \/ Await("poll")
    /\ LoopFrame
    /\ UNCHANGED <<queueVars, stateVars, skipPoll, contextVars, batchVars,
                   toolVars, prompts, pending, reply, nextCall, lastEvent,
                   turnOpen>>

PollSteering ==
    /\ pc = "poll"
    /\ GetSteeringMessages
    /\ pc' = IF HasMoreToolCalls \/ pending' # <<>> THEN "turn_start"
             ELSE "poll_follow_up"
    /\ LoopFrame
    /\ UNCHANGED <<followUpQueue, stateVars, contextVars, batchVars, toolVars,
                   prompts, reply, nextCall, throws, lastEvent, turnOpen>>

PollFollowUp ==
    /\ pc = "poll_follow_up"
    /\ pending' = Drained(followUpQueue, FollowUpMode)
    /\ followUpQueue' = Undrained(followUpQueue, FollowUpMode)
    /\ pc' = IF pending' # <<>> THEN "turn_start" ELSE "agent_end"
    /\ LoopFrame
    /\ UNCHANGED <<steeringQueue, stateVars, skipPoll, contextVars, batchVars,
                   toolVars, prompts, reply, nextCall, throws, lastEvent,
                   turnOpen>>

AgentEnd ==
    /\ pc = "agent_end"
    /\ ReduceAgentEnd
    /\ Emit("agent_end", "finish")
    /\ LoopFrame
    /\ UNCHANGED <<queueVars, skipPoll, contextVars, batchVars, toolVars,
                   prompts, pending, reply, nextCall, turnOpen>>

-----------------------------------------------------------------------------
(* handleRunFailure and finishRun.                                         *)

\* An exception inside handleRunFailure goes straight to the finally block.
EmitFailure(event, next) ==
    /\ lastEvent' = event
    /\ \/ pc' = next /\ UNCHANGED throws
       \/ throws < MaxThrows /\ throws' = throws + 1 /\ pc' = "finish"

FailMessageStart ==
    /\ pc = "fail_message_start"
    /\ reply' = AssistantMessage(IF aborted THEN "aborted" ELSE "error", <<>>)
    /\ ReduceMessageStart
    /\ EmitFailure("message_start", "fail_message_end")
    /\ LoopFrame
    /\ UNCHANGED <<queueVars, skipPoll, contextVars, batchVars, toolVars,
                   prompts, pending, nextCall, turnOpen>>

FailMessageEnd ==
    /\ pc = "fail_message_end"
    /\ ReduceMessageEnd(reply)
    /\ EmitFailure("message_end", "fail_turn_end")
    /\ LoopFrame
    /\ UNCHANGED <<queueVars, skipPoll, contextVars, batchVars, toolVars,
                   prompts, pending, reply, nextCall, turnOpen>>

FailTurnEnd ==
    /\ pc = "fail_turn_end"
    /\ turnOpen' = FALSE
    /\ EmitFailure("turn_end", "fail_agent_end")
    /\ LoopFrame
    /\ UNCHANGED <<queueVars, stateVars, skipPoll, contextVars, batchVars,
                   toolVars, prompts, pending, reply, nextCall>>

FailAgentEnd ==
    /\ pc = "fail_agent_end"
    /\ ReduceAgentEnd
    /\ EmitFailure("agent_end", "finish")
    /\ LoopFrame
    /\ UNCHANGED <<queueVars, skipPoll, contextVars, batchVars, toolVars,
                   prompts, pending, reply, nextCall, turnOpen>>

\* The messages an agent_end event carries: runLoop's, or the failure message alone.
Reported == IF pc = "fail_agent_end" THEN <<reply>> ELSE newMessages

ClearRuntimeState == streaming' = FALSE /\ pendingToolCalls' = {}

\* The locals of runLoop end with the run; a pending message still in them is
\* gone.
FinishRun ==
    /\ pc = "finish"
    /\ ClearRuntimeState
    /\ activeRun' = FALSE /\ aborted' = FALSE
    /\ pc' = "idle"
    /\ skipPoll' = FALSE /\ runStart' = 0
    /\ prompts' = <<>> /\ pending' = <<>>
    /\ context' = <<>> /\ newMessages' = <<>> /\ contextReplaced' = FALSE
    /\ reply' = AssistantMessage("stop", <<>>)
    /\ batch' = <<>> /\ mode' = "sequential" /\ index' = 1
    /\ finalizedCalls' = <<>> /\ toolResults' = <<>>
    /\ UNCHANGED <<apiVars, queueVars, transcript, toolVars, nextCall, throws,
                   lastEvent, turnOpen>>

-----------------------------------------------------------------------------
Api == \/ Steer \/ FollowUp \/ ClearSteeringQueue \/ ClearFollowUpQueue \/ Abort
       \/ Reset \/ Prompt \/ ContinueSteering \/ ContinueFollowUp \/ RunContinuation

\* The run itself, apart from the steps it may repeat for ever.
RunStep ==
    \/ AgentStart \/ FirstTurnStart \/ PromptStart \/ PromptEnd \/ PollInitial
    \/ TurnStart \/ InjectStart \/ InjectEnd
    \/ StreamFails \/ StreamStart \/ StreamFinal \/ StreamFinalOnly \/ ReplyEnd
    \/ ToolStart \/ PrepareImmediate \/ PreparePrepared \/ ToolExecute \/ ToolWait
    \/ ToolEnd \/ ToolNext \/ Launch \/ WaitAll \/ ResultStart \/ ResultEnd
    \/ TurnEnd \/ TurnEndStopped \/ PrepareNextTurn \/ ShouldStopAfterTurn
    \/ PollSteering \/ PollFollowUp \/ AgentEnd
    \/ FailMessageStart \/ FailMessageEnd \/ FailTurnEnd \/ FailAgentEnd
    \/ FinishRun

Next ==
    \/ Api
    \/ RunStep
    \/ StreamUpdate
    \/ \E c \in Calls : ToolUpdate(c) \/ ToolSettle(c) \/ TaskEnd(c)

Spec == Init /\ [][Next]_vars

\* The event loop runs every promise continuation that is ready; a provider
\* stream and a tool settle sooner or later.
Fairness ==
    /\ WF_vars(RunStep)
    /\ \A c \in Calls : WF_vars(ToolSettle(c)) /\ WF_vars(TaskEnd(c))

FairSpec == Spec /\ Fairness

-----------------------------------------------------------------------------
(* Properties.                                                             *)

PcValues ==
    {"idle", "agent_start", "first_turn_start", "prompt_start", "prompt_end",
     "poll_initial", "turn_start", "inject_start", "inject_end", "stream",
     "streaming", "reply_end", "tool_start", "tool_prepare", "tool_execute",
     "tool_wait", "tool_end", "tool_next", "launch", "wait_all", "result_start",
     "result_end", "turn_end", "turn_end_stopped", "prepare_next_turn",
     "should_stop", "poll", "poll_follow_up", "agent_end",
     "fail_message_start", "fail_message_end", "fail_turn_end",
     "fail_agent_end", "finish"}

ToolStates == {"unknown", "started", "prepared", "executing", "poisoned",
               "finalized", "ended", "rejected"}

FlagType ==
    /\ activeRun \in BOOLEAN /\ aborted \in BOOLEAN /\ skipPoll \in BOOLEAN
    /\ streaming \in BOOLEAN /\ contextReplaced \in BOOLEAN
    /\ turnOpen \in BOOLEAN

ApiType == nextMessage \in 0..MaxMessages /\ cleared \in SUBSET Nat

QueueType == steeringQueue \in Seq(Message) /\ followUpQueue \in Seq(Message)

StateType == transcript \in Seq(Message) /\ pendingToolCalls \in SUBSET Calls

ContextType ==
    /\ context \in Seq(Message) /\ newMessages \in Seq(Message)
    /\ prompts \in Seq(Message) /\ pending \in Seq(Message)
    /\ reply \in Message
    /\ runStart \in Nat

BatchType ==
    /\ batch \in Seq(Calls)
    /\ mode \in {"sequential", "parallel", "length"}
    /\ index \in Nat \ {0}
    /\ finalizedCalls \in Seq(Calls) /\ toolResults \in Seq(Calls)

ToolType ==
    /\ tool \in [Calls -> ToolStates]
    /\ terminating \in SUBSET Calls /\ parallelCalls \in SUBSET Calls

CounterType ==
    /\ pc \in PcValues
    /\ nextCall \in 0..MaxCalls
    /\ throws \in 0..MaxThrows

TypeOK == /\ FlagType /\ ApiType /\ QueueType /\ StateType /\ ContextType
          /\ BatchType /\ ToolType /\ CounterType

\* Outside a run nothing is streaming and no tool call is pending, also while
\* tools of a failed parallel batch are still running (finishRun).
IdleIsClean ==
    /\ activeRun <=> pc # "idle"
    /\ ~activeRun => ~streaming /\ pendingToolCalls = {}

\* The provider is asked with exactly the transcript the Agent holds: the two
\* copies of the history kept by processEvents and by runLoop never drift
\* apart (unless prepareNextTurn replaced the context).
ContextIsTranscript ==
    pc = "stream" /\ ~contextReplaced => context = transcript

\* agent_end reports exactly the messages this run added to the transcript.
\* The agent_end of handleRunFailure reports the last of them only, the failure
\* message it has just added; what the run added before is in no agent_end.
AgentEndReportsRun ==
    LET added == SubSeq(transcript, runStart + 1, Len(transcript))
    IN  /\ pc = "agent_end" => Reported = added
        /\ pc = "fail_agent_end" => added # <<>> /\ Reported = <<added[Len(added)]>>

\* A tool result stands in the block of results directly behind the assistant
\* message that asked for it, and the block follows the source order of the
\* calls: no steering message ever separates them.
ResultsFollowTheirCalls ==
    \A i \in 1..Len(transcript) : transcript[i].role = "toolResult" =>
        \E j \in 1..(i - 1) :
            /\ transcript[j].role = "assistant"
            /\ i - j <= Len(transcript[j].calls)
            /\ \A k \in (j + 1)..i :
                  /\ transcript[k].role = "toolResult"
                  /\ transcript[k].id = transcript[j].calls[k - j]

\* When a turn ended without abort, every tool call of the turn has exactly one
\* result and the results are in source order, whatever the order in which the
\* tools finished.
EveryCallAnswered ==
    pc \in {"prepare_next_turn", "should_stop", "poll"} /\ ~aborted =>
        toolResults = batch

\* Messages of each queue enter the transcript in the order they were queued,
\* none of them twice, across runs, aborts and failures.
QueuedInOrder ==
    \A i, j \in 1..Len(transcript) :
        (i < j /\ transcript[i].role = "user" /\ transcript[j].role = "user"
             /\ transcript[i].kind = transcript[j].kind)
            => transcript[i].id < transcript[j].id

\* As long as no listener or hook threw, every message handed to the agent is
\* waiting in a queue, on its way into the transcript, in the transcript, or
\* was cleared by the caller.  Aborts lose nothing.
NoMessageLost ==
    throws = 0 =>
        1..nextMessage
            \subseteq Ids(steeringQueue) \cup Ids(followUpQueue) \cup Ids(pending)
                       \cup Ids(prompts) \cup cleared
                       \cup {transcript[i].id : i \in {k \in 1..Len(transcript) :
                                                      transcript[k].role = "user"}}

\* Turns never nest, the provider is asked and tools run only inside a turn,
\* and agent_end never leaves one open, on the failure path included.
TurnsAreBracketed ==
    /\ pc \in {"first_turn_start", "turn_start", "agent_end", "fail_agent_end"} => ~turnOpen
    /\ pc \in {"stream", "streaming", "reply_end", "tool_start", "tool_execute",
               "launch", "wait_all", "turn_end", "turn_end_stopped"} => turnOpen

\* waitForIdle resolves: every run settles.
RunSettles == activeRun ~> ~activeRun

\* agent.ts: "agent_end only means no further loop events will be emitted".
\* As long as no listener or hook threw, the next event after agent_end is the
\* agent_start of another run: aborted or parallel tools report nothing late.
AgentEndIsLast ==
    [][lastEvent = "agent_end" /\ lastEvent' # lastEvent /\ throws' = 0
         => lastEvent' = "agent_start"]_vars
=============================================================================
