--------------------------- MODULE AgentLoopHistory ---------------------------
(***************************************************************************)
(* Machine-checked proofs about the messages of AgentLoop: the order in    *)
(* which queued messages enter the transcript, that none is lost, where    *)
(* tool results stand, and that the copies of the history that runLoop     *)
(* and the Agent keep agree.  They rest on the invariants of               *)
(* AgentLoopProofs.                                                        *)
(***************************************************************************)
EXTENDS AgentLoopProofs

\* Each leaf goes to Zenon unless it names another prover.
USE ZenonT(60)

\* A message that is no tool result leaves the blocks of results as they are.
LEMMA OtherMessage ==
    ASSUME StateType, ResultsFollowTheirCalls, NEW m \in Message,
           m.role # "toolResult", transcript' = Append(transcript, m)
    PROVE  ResultsFollowTheirCalls'
<1>0. transcript \in Seq(Message) /\ Len(transcript) \in Nat
  BY SMTT(60) DEF StateType
<1>1. /\ Len(transcript') = Len(transcript) + 1
      /\ transcript'[Len(transcript) + 1] = m
      /\ \A k \in 1..Len(transcript) : transcript'[k] = transcript[k]
  BY <1>0, AppendIndex, SMTT(60)
<1> SUFFICES ASSUME NEW i \in 1..Len(transcript'), transcript'[i].role = "toolResult"
             PROVE  \E j \in 1..(i - 1) :
                       /\ transcript'[j].role = "assistant"
                       /\ i - j <= Len(transcript'[j].calls)
                       /\ \A k \in (j + 1)..i :
                             /\ transcript'[k].role = "toolResult"
                             /\ transcript'[k].id = transcript'[j].calls[k - j]
  BY DEF ResultsFollowTheirCalls
<1>2. i \in 1..Len(transcript) /\ transcript[i].role = "toolResult"
  BY <1>0, <1>1, SMTT(60)
<1>3. PICK j \in 1..(i - 1) :
              /\ transcript[j].role = "assistant"
              /\ i - j <= Len(transcript[j].calls)
              /\ \A k \in (j + 1)..i :
                    /\ transcript[k].role = "toolResult"
                    /\ transcript[k].id = transcript[j].calls[k - j]
  BY <1>2 DEF ResultsFollowTheirCalls
<1>4. \A k \in j..i : transcript'[k] = transcript[k]
  BY <1>0, <1>1, <1>2, SMTT(60)
<1>5. /\ transcript'[j].role = "assistant"
      /\ i - j <= Len(transcript'[j].calls)
      /\ \A k \in (j + 1)..i :
            /\ transcript'[k].role = "toolResult"
            /\ transcript'[k].id = transcript'[j].calls[k - j]
  BY <1>3, <1>4, SMTT(60)
<1> QED BY <1>5

-----------------------------------------------------------------------------
(* Queues.                                                                 *)

LEMMA DrainIndex ==
    ASSUME NEW q \in Seq(Message), NEW queueMode
    PROVE  /\ Len(Drained(q, queueMode)) \in 0..Len(q)
           /\ \A i \in 1..Len(Drained(q, queueMode)) : Drained(q, queueMode)[i] = q[i]
           /\ Len(Undrained(q, queueMode)) = Len(q) - Len(Drained(q, queueMode))
           /\ \A i \in 1..Len(Undrained(q, queueMode)) :
                 Undrained(q, queueMode)[i] = q[Len(Drained(q, queueMode)) + i]
<1>1. CASE queueMode = "all" \/ q = <<>>
  BY <1>1, SMTT(60) DEF Drained, Undrained
<1>2. CASE queueMode # "all" /\ q # <<>>
  <2>1. Drained(q, queueMode) = <<Head(q)>> /\ Undrained(q, queueMode) = Tail(q)
    BY <1>2 DEF Drained, Undrained
  <2>2. /\ 1 \in 0..Len(q) /\ Len(Tail(q)) = Len(q) - 1 /\ Head(q) = q[1]
        /\ \A i \in 1..Len(Tail(q)) : Tail(q)[i] = q[1 + i]
    BY <1>2, SMTT(60)
  <2>3. Len(<<Head(q)>>) = 1 /\ <<Head(q)>>[1] = Head(q)
    OBVIOUS
  <2> QED BY <2>1, <2>2, <2>3, SMTT(60)
<1> QED BY <1>1, <1>2

LEMMA NothingHeld ==
    ASSUME NEW n, NEW kinds, NEW s
    PROVE  /\ Held(<<>>, kinds, n) /\ InOrder(<<>>)
           /\ Precedes(s, <<>>) /\ Precedes(<<>>, s)
BY SMTT(60) DEF Held, InOrder, Precedes

\* What is drained comes before what is left, and both keep the queue's order.
LEMMA DrainOrder ==
    ASSUME NEW q \in Seq(Message), NEW queueMode, NEW kinds, NEW n,
           Held(q, kinds, n), InOrder(q)
    PROVE  /\ Held(Drained(q, queueMode), kinds, n)
           /\ Held(Undrained(q, queueMode), kinds, n)
           /\ InOrder(Drained(q, queueMode)) /\ InOrder(Undrained(q, queueMode))
           /\ Precedes(Drained(q, queueMode), Undrained(q, queueMode))
           /\ \A t : Precedes(t, q) => /\ Precedes(t, Drained(q, queueMode))
                                       /\ Precedes(t, Undrained(q, queueMode))
<1> DEFINE k == Len(Drained(q, queueMode))
<1>1. /\ k \in 0..Len(q)
      /\ \A i \in 1..k : Drained(q, queueMode)[i] = q[i]
      /\ Len(Undrained(q, queueMode)) = Len(q) - k
      /\ \A i \in 1..Len(Undrained(q, queueMode)) : Undrained(q, queueMode)[i] = q[k + i]
  BY DrainIndex, SMTT(60)
<1>2. Len(q) \in Nat /\ k \in Nat /\ k <= Len(q)
  BY <1>1, SMTT(60)
<1>3. /\ \A i \in 1..Len(Drained(q, queueMode)) :
            Drained(q, queueMode)[i] = q[i] /\ i \in 1..Len(q) /\ i <= k
      /\ \A i \in 1..Len(Undrained(q, queueMode)) :
            /\ Undrained(q, queueMode)[i] = q[k + i]
            /\ k + i \in 1..Len(q) /\ k < k + i
  BY <1>1, <1>2, SMTT(60)
<1>4. Held(Drained(q, queueMode), kinds, n) /\ Held(Undrained(q, queueMode), kinds, n)
  BY <1>3 DEF Held
<1>5. InOrder(Drained(q, queueMode))
  BY <1>3 DEF InOrder
<1>6. InOrder(Undrained(q, queueMode))
  <2> SUFFICES ASSUME NEW i \in 1..Len(Undrained(q, queueMode)), NEW j \in 1..Len(Undrained(q, queueMode)), i < j
               PROVE  Older(Undrained(q, queueMode)[i], Undrained(q, queueMode)[j])
    BY DEF InOrder
  <2>1. k + i \in 1..Len(q) /\ k + j \in 1..Len(q) /\ k + i < k + j
    BY <1>1, <1>2, <1>3, SMTT(60)
  <2> QED BY <2>1, <1>3 DEF InOrder
<1>7. Precedes(Drained(q, queueMode), Undrained(q, queueMode))
  <2> SUFFICES ASSUME NEW i \in 1..Len(Drained(q, queueMode)), NEW j \in 1..Len(Undrained(q, queueMode))
               PROVE  Older(Drained(q, queueMode)[i], Undrained(q, queueMode)[j])
    BY DEF Precedes
  <2>1. i \in 1..Len(q) /\ k + j \in 1..Len(q) /\ i < k + j
    BY <1>1, <1>2, <1>3, SMTT(60)
  <2> QED BY <2>1, <1>3 DEF InOrder
<1>8. \A t : Precedes(t, q) => /\ Precedes(t, Drained(q, queueMode))
                               /\ Precedes(t, Undrained(q, queueMode))
  BY <1>3 DEF Precedes
<1> QED BY <1>4, <1>5, <1>6, <1>7, <1>8

\* The head of a list comes before the rest of it.
LEMMA TailOrder ==
    ASSUME NEW q \in Seq(Message), q # <<>>, NEW kinds, NEW n,
           Held(q, kinds, n), InOrder(q)
    PROVE  /\ Held(Tail(q), kinds, n) /\ InOrder(Tail(q))
           /\ \A j \in 1..Len(Tail(q)) : Older(Head(q), Tail(q)[j])
           /\ \A t : Precedes(t, q) => /\ Precedes(t, Tail(q))
                                       /\ \A i \in 1..Len(t) : Older(t[i], Head(q))
           /\ \A t : Precedes(q, t) => /\ Precedes(Tail(q), t)
                                       /\ \A i \in 1..Len(t) : Older(Head(q), t[i])
           /\ Head(q).role = "user" /\ Head(q).id <= n
<1>1. /\ Head(q) = q[1] /\ 1 \in 1..Len(q)
      /\ \A i \in 1..Len(Tail(q)) : Tail(q)[i] = q[i + 1] /\ i + 1 \in 1..Len(q)
  BY TailIndex
<1>2. Held(Tail(q), kinds, n) /\ Head(q).role = "user" /\ Head(q).id <= n
  BY <1>1 DEF Held
<1>3. InOrder(Tail(q))
  <2> SUFFICES ASSUME NEW i \in 1..Len(Tail(q)), NEW j \in 1..Len(Tail(q)), i < j
               PROVE  Older(Tail(q)[i], Tail(q)[j])
    BY DEF InOrder
  <2>1. i + 1 \in 1..Len(q) /\ j + 1 \in 1..Len(q) /\ i + 1 < j + 1
    BY <1>1, SMTT(60)
  <2> QED BY <2>1, <1>1 DEF InOrder
<1>4. \A j \in 1..Len(Tail(q)) : Older(Head(q), Tail(q)[j])
  <2> TAKE j \in 1..Len(Tail(q))
  <2>1. 1 < j + 1 /\ j + 1 \in 1..Len(q) /\ Tail(q)[j] = q[j + 1]
    BY <1>1, SMTT(60)
  <2> QED BY <2>1, <1>1 DEF InOrder
<1>5. \A t : Precedes(t, q) => /\ Precedes(t, Tail(q))
                               /\ \A i \in 1..Len(t) : Older(t[i], Head(q))
  BY <1>1 DEF Precedes
<1>6. \A t : Precedes(q, t) => /\ Precedes(Tail(q), t)
                               /\ \A i \in 1..Len(t) : Older(Head(q), t[i])
  BY <1>1 DEF Precedes
<1> QED BY <1>2, <1>3, <1>4, <1>5, <1>6

LEMMA AppendOrder ==
    ASSUME NEW s \in Seq(Message), NEW m \in Message,
           InOrder(s), \A i \in 1..Len(s) : Older(s[i], m)
    PROVE  /\ InOrder(Append(s, m))
           /\ \A t : Precedes(s, t) /\ (\A i \in 1..Len(t) : Older(m, t[i]))
                        => Precedes(Append(s, m), t)
           /\ \A t : Precedes(t, s) /\ (\A i \in 1..Len(t) : Older(t[i], m))
                        => Precedes(t, Append(s, m))
<1>1. /\ Len(Append(s, m)) = Len(s) + 1 /\ Len(s) \in Nat
      /\ Append(s, m)[Len(s) + 1] = m
      /\ \A k \in 1..Len(s) : Append(s, m)[k] = s[k]
  BY AppendIndex, SMTT(60)
<1>2. \A k \in 1..Len(Append(s, m)) : k \in 1..Len(s) \/ k = Len(s) + 1
  BY <1>1, SMTT(60)
<1>3. InOrder(Append(s, m))
  BY <1>1, <1>2, SMTT(60) DEF InOrder
<1>4. \A t : Precedes(s, t) /\ (\A i \in 1..Len(t) : Older(m, t[i]))
                => Precedes(Append(s, m), t)
  BY <1>1, <1>2 DEF Precedes
<1>5. \A t : Precedes(t, s) /\ (\A i \in 1..Len(t) : Older(t[i], m))
                => Precedes(t, Append(s, m))
  BY <1>1, <1>2 DEF Precedes
<1> QED BY <1>3, <1>4, <1>5

-----------------------------------------------------------------------------
(* Where the messages are.                                                 *)

LEMMA HeldMore ==
    ASSUME NEW s \in Seq(Message), NEW kinds, NEW n \in Nat, NEW k \in Nat,
           Held(s, kinds, n), n <= k
    PROVE  Held(s, kinds, k) /\ Held(s, Kinds, n)
<1>1. \A m \in Message : m.id \in Nat /\ m.kind \in Kinds
  BY DEF Message
<1>2. \A i \in 1..Len(s) : s[i] \in Message
  BY SMTT(60)
<1> QED BY <1>1, <1>2, SMTT(60) DEF Held

LEMMA HeldAppend ==
    ASSUME NEW s \in Seq(Message), NEW kind \in Kinds, NEW n \in Nat,
           Held(s, {kind}, n)
    PROVE  /\ Append(s, UserMessage(n + 1, kind)) \in Seq(Message)
           /\ Held(Append(s, UserMessage(n + 1, kind)), {kind}, n + 1)
<1> DEFINE m == UserMessage(n + 1, kind)
<1>1. m \in Message /\ m.role = "user" /\ m.kind = kind /\ m.id = n + 1
  BY MessageTypes, SMTT(60) DEF UserMessage
<1>2. Held(s, {kind}, n + 1)
  BY HeldMore, SMTT(60)
<1> HIDE DEF m
<1>3. /\ Append(s, m) \in Seq(Message) /\ Len(Append(s, m)) = Len(s) + 1 /\ Len(s) \in Nat
      /\ Append(s, m)[Len(s) + 1] = m
      /\ \A k \in 1..Len(s) : Append(s, m)[k] = s[k]
  BY <1>1, AppendIndex, SMTT(60)
<1>4. \A k \in 1..Len(Append(s, m)) : k \in 1..Len(s) \/ k = Len(s) + 1
  BY <1>3, SMTT(60)
<1>5. Held(Append(s, m), {kind}, n + 1)
  BY <1>1, <1>2, <1>3, <1>4, SMTT(60) DEF Held
<1> QED BY <1>3, <1>5 DEF m

\* The prompts of one call of prompt() are new and in order.
LEMMA NewPrompts ==
    ASSUME NEW n \in Nat, NEW k \in Nat
    PROVE  LET s == [i \in 1..k |-> UserMessage(n + i, "prompt")]
           IN  /\ s \in Seq(Message) /\ Held(s, {"prompt"}, n + k) /\ InOrder(s)
               /\ \A i \in 1..Len(s) : s[i].id > n /\ s[i].kind = "prompt"
<1> DEFINE s == [i \in 1..k |-> UserMessage(n + i, "prompt")]
<1>1. \A i \in 1..k : /\ UserMessage(n + i, "prompt") \in Message
                      /\ UserMessage(n + i, "prompt").role = "user"
                      /\ UserMessage(n + i, "prompt").kind = "prompt"
                      /\ UserMessage(n + i, "prompt").id = n + i
  <2>1. "prompt" \in Kinds /\ \A i \in 1..k : n + i \in Nat
    BY SMTT(60) DEF Kinds
  <2> QED BY <2>1, MessageTypes DEF UserMessage
<1>2. s \in Seq(Message) /\ Len(s) = k
  BY <1>1, SMTT(60)
<1>3. \A i \in 1..Len(s) : s[i].role = "user" /\ s[i].kind = "prompt" /\ s[i].id = n + i
  BY <1>1, <1>2
<1> HIDE DEF s
<1>4. Held(s, {"prompt"}, n + k)
  BY <1>2, <1>3, SMTT(60) DEF Held
<1>5. InOrder(s)
  BY <1>2, <1>3, SMTT(60) DEF InOrder, Older
<1>6. \A i \in 1..Len(s) : s[i].id > n /\ s[i].kind = "prompt"
  BY <1>2, <1>3, SMTT(60)
<1> QED BY <1>2, <1>4, <1>5, <1>6 DEF s

LEMMA MessageTyping ==
    ASSUME TypeInv
    PROVE  /\ transcript \in Seq(Message) /\ prompts \in Seq(Message)
           /\ pending \in Seq(Message) /\ steeringQueue \in Seq(Message)
           /\ followUpQueue \in Seq(Message) /\ reply \in Message
           /\ nextMessage \in Nat
BY BoundsAssumption, SMTT(60) DEF TypeInv, TypeOK, ApiType, StateType, ContextType, QueueType

LEMMA IssuedAppend ==
    ASSUME NEW t \in Seq(Message), NEW m \in Message, NEW n \in Nat,
           Issued(t, n), m.role = "user" => m.id <= n
    PROVE  Issued(Append(t, m), n)
<1>1. /\ Len(Append(t, m)) = Len(t) + 1 /\ Len(t) \in Nat
      /\ Append(t, m)[Len(t) + 1] = m
      /\ \A k \in 1..Len(t) : Append(t, m)[k] = t[k]
  BY AppendIndex, SMTT(60)
<1>2. \A k \in 1..Len(Append(t, m)) : k \in 1..Len(t) \/ k = Len(t) + 1
  BY <1>1, SMTT(60)
<1> QED BY <1>1, <1>2 DEF Issued

\* The messages the loop emits for the provider and the tools.
LEMMA LoopMessages ==
    ASSUME TypeInv, BlockInv, ReplyEnd \/ FailMessageEnd \/ ResultEnd
    PROVE  \E m \in Message : m.role # "user" /\ transcript' = Append(transcript, m)
<1>1. CASE ReplyEnd \/ FailMessageEnd
  <2>1. reply.role = "assistant" /\ reply \in Message
    BY <1>1, MessageTyping DEF ReplyEnd, FailMessageEnd, BlockInv
  <2>2. transcript' = Append(transcript, reply)
    BY <1>1 DEF ReplyEnd, FailMessageEnd, ReduceMessageEnd
  <2> QED BY <2>1, <2>2
<1>2. CASE ResultEnd
  <2>1. /\ ToolResultMessage(ResultCall) \in Message
        /\ ToolResultMessage(ResultCall).role # "user"
    BY <1>2, ResultCallType, CallsAreNat, MessageTypes DEF ResultEnd, ToolResultMessage
  <2>2. transcript' = Append(transcript, ToolResultMessage(ResultCall))
    BY <1>2 DEF ResultEnd, ReduceMessageEnd
  <2> QED BY <2>1, <2>2
<1> QED BY <1>1, <1>2

-----------------------------------------------------------------------------
\* A new message is younger than all that were ever created.
LEMMA Youngest ==
    ASSUME NEW s \in Seq(Message), NEW n \in Nat, Issued(s, n),
           NEW t \in Seq(Message), \A i \in 1..Len(t) : t[i].id > n
    PROVE  Precedes(s, t)
<1>1. \A m \in Message : m.id \in Nat
  BY DEF Message
<1>2. /\ \A i \in 1..Len(s) : s[i].id \in Nat
      /\ \A i \in 1..Len(t) : t[i].id \in Nat
  BY <1>1, SMTT(60)
<1> QED BY <1>2, SMTT(60) DEF Precedes, Older, Issued

LEMMA HeldIssued ==
    ASSUME NEW s, NEW kinds, NEW n, Held(s, kinds, n)
    PROVE  Issued(s, n)
BY DEF Held, Issued

\* Messages of different kinds are not compared.
LEMMA OtherKind ==
    ASSUME NEW s, NEW t, NEW n, NEW k, NEW a, NEW b, a # b,
           Held(s, {a}, n), Held(t, {b}, k)
    PROVE  Precedes(s, t)
BY SMTT(60) DEF Held, Precedes, Older

LEMMA QueueOrder ==
    ASSUME NEW s \in Seq(Message), NEW kind \in Kinds, NEW n \in Nat,
           InOrder(s), Held(s, {kind}, n)
    PROVE  LET u == Append(s, UserMessage(n + 1, kind))
           IN  /\ InOrder(u)
               /\ \A t \in Seq(Message) : Issued(t, n) /\ Precedes(t, s) => Precedes(t, u)
<1> DEFINE m == UserMessage(n + 1, kind)
<1>1. m \in Message /\ m.id = n + 1
  BY MessageTypes, SMTT(60) DEF UserMessage
<1> HIDE DEF m
<1>2. <<m>> \in Seq(Message) /\ Len(<<m>>) = 1 /\ <<m>>[1] = m
  BY <1>1, SMTT(60)
<1>3. \A i \in 1..Len(<<m>>) : <<m>>[i].id > n
  BY <1>1, <1>2, SMTT(60)
<1>4. ASSUME NEW t \in Seq(Message), Issued(t, n)
      PROVE  \A i \in 1..Len(t) : Older(t[i], m)
  <2>1. Precedes(t, <<m>>)
    BY <1>2, <1>3, <1>4, Youngest
  <2> QED BY <2>1, <1>2, SMTT(60) DEF Precedes
<1>5. Issued(s, n)
  BY HeldIssued
<1>6. \A i \in 1..Len(s) : Older(s[i], m)
  BY <1>4, <1>5
<1>7. /\ InOrder(Append(s, m))
      /\ \A t : Precedes(t, s) /\ (\A i \in 1..Len(t) : Older(t[i], m))
                   => Precedes(t, Append(s, m))
  BY <1>1, <1>6, AppendOrder
<1>8. \A t \in Seq(Message) : Issued(t, n) /\ Precedes(t, s) => Precedes(t, Append(s, m))
  BY <1>4, <1>7
<1> QED BY <1>7, <1>8 DEF m

LEMMA IssuedMore ==
    ASSUME NEW s \in Seq(Message), NEW n \in Nat, NEW k \in Nat, Issued(s, n), n <= k
    PROVE  Issued(s, k)
<1>1. \A m \in Message : m.id \in Nat
  BY DEF Message
<1>2. \A i \in 1..Len(s) : s[i].id \in Nat
  BY <1>1, SMTT(60)
<1> QED BY <1>2, SMTT(60) DEF Issued

LEMMA EnqueueStep ==
    ASSUME TypeInv, KindInv, OrderInv, Steer \/ FollowUp
    PROVE  KindInv' /\ OrderInv'
<1>0. "steer" \in Kinds /\ "followUp" \in Kinds /\ nextMessage + 1 \in Nat
      /\ nextMessage <= nextMessage + 1
  BY MessageTyping, SMTT(60) DEF Kinds
<1> DEFINE n == nextMessage
<1>1. /\ Held(prompts, Kinds, n + 1) /\ Held(pending, Kinds, n + 1)
      /\ Held(steeringQueue, {"steer"}, n + 1) /\ Held(followUpQueue, {"followUp"}, n + 1)
      /\ Issued(transcript, n + 1)
  BY <1>0, MessageTyping, HeldMore, IssuedMore DEF KindInv
<1>2. Issued(transcript, n) /\ Issued(prompts, n) /\ Issued(pending, n)
  BY HeldIssued DEF KindInv
<1>3. CASE Steer
  <2>1. /\ steeringQueue' = Append(steeringQueue, UserMessage(n + 1, "steer"))
        /\ n' = n + 1
        /\ UNCHANGED <<transcript, prompts, pending, followUpQueue>>
    BY <1>3 DEF Steer, Enqueue, stateVars
  <2>2. Held(steeringQueue', {"steer"}, n + 1)
    BY <1>0, <2>1, MessageTyping, HeldAppend DEF KindInv
  <2>3. /\ InOrder(steeringQueue')
        /\ Precedes(transcript, steeringQueue') /\ Precedes(prompts, steeringQueue')
        /\ Precedes(pending, steeringQueue')
    BY <1>0, <1>2, <2>1, MessageTyping, QueueOrder DEF KindInv, OrderInv
  <2>4. KindInv'
    BY <1>1, <2>1, <2>2 DEF KindInv
  <2> QED BY <2>1, <2>3, <2>4 DEF OrderInv
<1>4. CASE FollowUp
  <2>1. /\ followUpQueue' = Append(followUpQueue, UserMessage(n + 1, "followUp"))
        /\ n' = n + 1
        /\ UNCHANGED <<transcript, prompts, pending, steeringQueue>>
    BY <1>4 DEF FollowUp, Enqueue, stateVars
  <2>2. Held(followUpQueue', {"followUp"}, n + 1)
    BY <1>0, <2>1, MessageTyping, HeldAppend DEF KindInv
  <2>3. /\ InOrder(followUpQueue')
        /\ Precedes(transcript, followUpQueue') /\ Precedes(prompts, followUpQueue')
        /\ Precedes(pending, followUpQueue')
    BY <1>0, <1>2, <2>1, MessageTyping, QueueOrder DEF KindInv, OrderInv
  <2>4. KindInv'
    BY <1>1, <2>1, <2>2 DEF KindInv
  <2> QED BY <2>1, <2>3, <2>4 DEF OrderInv
<1> QED BY <1>3, <1>4

LEMMA ClearStep ==
    ASSUME TypeInv, KindInv, OrderInv,
           ClearSteeringQueue \/ ClearFollowUpQueue \/ Reset \/ FinishRun \/ RunContinuation
    PROVE  KindInv' /\ OrderInv'
<1>1. /\ transcript' \in {transcript, <<>>} /\ prompts' \in {prompts, <<>>}
      /\ pending' \in {pending, <<>>} /\ steeringQueue' \in {steeringQueue, <<>>}
      /\ followUpQueue' \in {followUpQueue, <<>>} /\ nextMessage' = nextMessage
  BY DEF ClearSteeringQueue, ClearFollowUpQueue, Reset, FinishRun, RunContinuation,
     StartRun, stateVars, queueVars, apiVars
<1>2. Issued(<<>>, nextMessage)
  BY SMTT(60) DEF Issued
<1>3. KindInv'
  BY <1>1, <1>2, NothingHeld DEF KindInv
<1>4. OrderInv'
  BY <1>1, NothingHeld DEF OrderInv
<1> QED BY <1>3, <1>4

LEMMA PromptStep ==
    ASSUME TypeInv, KindInv, OrderInv, Prompt
    PROVE  KindInv' /\ OrderInv'
<1> DEFINE n == nextMessage
<1>1. PICK k \in 1..(MaxMessages - nextMessage) :
              /\ nextMessage' = n + k
              /\ prompts' = [i \in 1..k |-> UserMessage(n + i, "prompt")]
              /\ pending' = <<>>
              /\ UNCHANGED <<transcript, steeringQueue, followUpQueue>>
  BY DEF Prompt, StartRun, queueVars
<1>2. n \in Nat /\ k \in Nat /\ n + k \in Nat /\ n <= n + k
  BY MessageTyping, BoundsAssumption, SMTT(60)
<1>3. /\ prompts' \in Seq(Message) /\ Held(prompts', {"prompt"}, n + k)
      /\ InOrder(prompts') /\ \A i \in 1..Len(prompts') : prompts'[i].id > n
  BY <1>1, <1>2, NewPrompts
<1>4. Held(prompts', Kinds, n + k)
  BY <1>2, <1>3, HeldMore, SMTT(60)
<1>5. /\ Held(steeringQueue, {"steer"}, n + k) /\ Held(followUpQueue, {"followUp"}, n + k)
      /\ Issued(transcript, n + k)
  BY <1>2, MessageTyping, HeldMore, IssuedMore DEF KindInv
<1>6. Precedes(transcript, prompts')
  BY <1>2, <1>3, MessageTyping, Youngest DEF KindInv
<1>7. Precedes(prompts', steeringQueue) /\ Precedes(prompts', followUpQueue)
  BY <1>3, <1>5, OtherKind
<1>8. KindInv'
  BY <1>1, <1>4, <1>5, NothingHeld DEF KindInv
<1>9. OrderInv'
  BY <1>1, <1>3, <1>6, <1>7, NothingHeld DEF OrderInv
<1> QED BY <1>8, <1>9

\* What one drain of the steering queue, or of the follow-up queue, yields.
LEMMA SteeringDrained ==
    ASSUME TypeInv, KindInv, OrderInv
    PROVE  LET d == Drained(steeringQueue, SteeringMode)
               u == Undrained(steeringQueue, SteeringMode)
           IN  /\ Held(d, Kinds, nextMessage) /\ Held(u, {"steer"}, nextMessage)
               /\ InOrder(d) /\ InOrder(u) /\ Precedes(d, u)
               /\ Precedes(transcript, d) /\ Precedes(transcript, u)
               /\ Precedes(prompts, u) /\ Precedes(d, followUpQueue)
<1> DEFINE d == Drained(steeringQueue, SteeringMode)
           u == Undrained(steeringQueue, SteeringMode)
<1>1. /\ Held(d, {"steer"}, nextMessage) /\ Held(u, {"steer"}, nextMessage)
      /\ InOrder(d) /\ InOrder(u) /\ Precedes(d, u)
      /\ \A t : Precedes(t, steeringQueue) => Precedes(t, d) /\ Precedes(t, u)
  BY MessageTyping, DrainOrder DEF KindInv, OrderInv
<1>2. d \in Seq(Message)
  BY MessageTyping, DrainType
<1> HIDE DEF d, u
<1>3. Held(d, Kinds, nextMessage)
  BY <1>1, <1>2, MessageTyping, HeldMore, SMTT(60)
<1>4. Precedes(d, followUpQueue)
  BY <1>1, OtherKind DEF KindInv
<1> QED BY <1>1, <1>3, <1>4 DEF OrderInv, d, u

LEMMA FollowUpDrained ==
    ASSUME TypeInv, KindInv, OrderInv
    PROVE  LET d == Drained(followUpQueue, FollowUpMode)
               u == Undrained(followUpQueue, FollowUpMode)
           IN  /\ Held(d, Kinds, nextMessage) /\ Held(u, {"followUp"}, nextMessage)
               /\ InOrder(d) /\ InOrder(u) /\ Precedes(d, u)
               /\ Precedes(transcript, d) /\ Precedes(transcript, u)
               /\ Precedes(prompts, u) /\ Precedes(d, steeringQueue)
<1> DEFINE d == Drained(followUpQueue, FollowUpMode)
           u == Undrained(followUpQueue, FollowUpMode)
<1>1. /\ Held(d, {"followUp"}, nextMessage) /\ Held(u, {"followUp"}, nextMessage)
      /\ InOrder(d) /\ InOrder(u) /\ Precedes(d, u)
      /\ \A t : Precedes(t, followUpQueue) => Precedes(t, d) /\ Precedes(t, u)
  BY MessageTyping, DrainOrder DEF KindInv, OrderInv
<1>2. d \in Seq(Message)
  BY MessageTyping, DrainType
<1> HIDE DEF d, u
<1>3. Held(d, Kinds, nextMessage)
  BY <1>1, <1>2, MessageTyping, HeldMore, SMTT(60)
<1>4. Precedes(d, steeringQueue)
  BY <1>1, OtherKind DEF KindInv
<1> QED BY <1>1, <1>3, <1>4 DEF OrderInv, d, u

LEMMA DrainStep ==
    ASSUME TypeInv, KindInv, OrderInv,
           \/ ContinueSteering \/ ContinueFollowUp
           \/ PollInitial \/ PollSteering \/ PollFollowUp
    PROVE  KindInv' /\ OrderInv'
<1>1. CASE ContinueSteering
  <2>1. /\ prompts' = Drained(steeringQueue, SteeringMode) /\ pending' = <<>>
        /\ steeringQueue' = Undrained(steeringQueue, SteeringMode)
        /\ UNCHANGED <<transcript, followUpQueue, nextMessage>>
    BY <1>1 DEF ContinueSteering, StartRun, apiVars
  <2>2. KindInv'
    BY <2>1, SteeringDrained, NothingHeld DEF KindInv
  <2>3. OrderInv'
    BY <2>1, SteeringDrained, NothingHeld DEF OrderInv
  <2> QED BY <2>2, <2>3
<1>2. CASE ContinueFollowUp
  <2>1. /\ prompts' = Drained(followUpQueue, FollowUpMode) /\ pending' = <<>>
        /\ followUpQueue' = Undrained(followUpQueue, FollowUpMode)
        /\ UNCHANGED <<transcript, steeringQueue, nextMessage>>
    BY <1>2 DEF ContinueFollowUp, StartRun, apiVars
  <2>2. KindInv'
    BY <2>1, FollowUpDrained, NothingHeld DEF KindInv
  <2>3. OrderInv'
    BY <2>1, FollowUpDrained, NothingHeld DEF OrderInv
  <2> QED BY <2>2, <2>3
<1>3. CASE (PollInitial \/ PollSteering) /\ ~skipPoll
  <2>1. /\ pending' = Drained(steeringQueue, SteeringMode)
        /\ steeringQueue' = Undrained(steeringQueue, SteeringMode)
        /\ UNCHANGED <<transcript, prompts, followUpQueue, nextMessage>>
    BY <1>3 DEF PollInitial, PollSteering, GetSteeringMessages, LoopFrame, apiVars,
       stateVars
  <2>2. KindInv'
    BY <2>1, SteeringDrained DEF KindInv
  <2>3. OrderInv'
    BY <2>1, SteeringDrained DEF OrderInv
  <2> QED BY <2>2, <2>3
<1>4. CASE (PollInitial \/ PollSteering) /\ skipPoll
  <2>1. pending' = <<>>
        /\ UNCHANGED <<transcript, prompts, steeringQueue, followUpQueue, nextMessage>>
    BY <1>4 DEF PollInitial, PollSteering, GetSteeringMessages, LoopFrame, apiVars,
       stateVars
  <2>2. KindInv'
    BY <2>1, NothingHeld DEF KindInv
  <2>3. OrderInv'
    BY <2>1, NothingHeld DEF OrderInv
  <2> QED BY <2>2, <2>3
<1>5. CASE PollFollowUp
  <2>1. /\ pending' = Drained(followUpQueue, FollowUpMode)
        /\ followUpQueue' = Undrained(followUpQueue, FollowUpMode)
        /\ UNCHANGED <<transcript, prompts, steeringQueue, nextMessage>>
    BY <1>5 DEF PollFollowUp, LoopFrame, apiVars, stateVars
  <2>2. KindInv'
    BY <2>1, FollowUpDrained DEF KindInv
  <2>3. OrderInv'
    BY <2>1, FollowUpDrained DEF OrderInv
  <2> QED BY <2>2, <2>3
<1> QED BY <1>1, <1>2, <1>3, <1>4, <1>5

LEMMA AnnounceStep ==
    ASSUME TypeInv, BlockInv, WaitingInv, KindInv, OrderInv,
           PromptEnd \/ InjectEnd \/ ReplyEnd \/ FailMessageEnd \/ ResultEnd
    PROVE  KindInv' /\ OrderInv'
<1>1. CASE PromptEnd
  <2>1. prompts # <<>> /\ pending = <<>>
    BY <1>1 DEF PromptEnd, TypeInv, Positions, WaitingInv, FailPoints
  <2>2. /\ transcript' = Append(transcript, Head(prompts)) /\ prompts' = Tail(prompts)
        /\ UNCHANGED <<pending, steeringQueue, followUpQueue, nextMessage>>
    BY <1>1 DEF PromptEnd, ReduceMessageEnd, LoopFrame, apiVars, queueVars
  <2>3. Head(prompts) \in Message
    BY <2>1, MessageTyping, HeadTailType
  <2>4. /\ Held(Tail(prompts), Kinds, nextMessage) /\ InOrder(Tail(prompts))
        /\ \A j \in 1..Len(Tail(prompts)) : Older(Head(prompts), Tail(prompts)[j])
        /\ \A t : Precedes(t, prompts) => /\ Precedes(t, Tail(prompts))
                                          /\ \A i \in 1..Len(t) : Older(t[i], Head(prompts))
        /\ \A t : Precedes(prompts, t) => /\ Precedes(Tail(prompts), t)
                                          /\ \A i \in 1..Len(t) : Older(Head(prompts), t[i])
        /\ Head(prompts).id <= nextMessage
    BY <2>1, MessageTyping, TailOrder DEF KindInv, OrderInv
  <2>5. /\ InOrder(transcript')
        /\ \A t : Precedes(transcript, t) /\ (\A i \in 1..Len(t) : Older(Head(prompts), t[i]))
                        => Precedes(transcript', t)
    BY <2>2, <2>3, <2>4, MessageTyping, AppendOrder DEF OrderInv
  <2>6. Issued(transcript', nextMessage)
    BY <2>2, <2>3, <2>4, MessageTyping, IssuedAppend DEF KindInv
  <2>7. KindInv'
    BY <2>2, <2>4, <2>6 DEF KindInv
  <2>8. /\ Precedes(transcript', prompts') /\ Precedes(transcript', steeringQueue)
        /\ Precedes(transcript', followUpQueue) /\ Precedes(transcript', pending)
        /\ Precedes(prompts', steeringQueue) /\ Precedes(prompts', followUpQueue)
    BY <2>1, <2>2, <2>4, <2>5, NothingHeld DEF OrderInv
  <2> QED BY <2>2, <2>4, <2>5, <2>7, <2>8 DEF OrderInv
<1>2. CASE InjectEnd
  <2>1. pending # <<>> /\ prompts = <<>>
    BY <1>2 DEF InjectEnd, TypeInv, Positions, WaitingInv, FailPoints, PromptPoints
  <2>2. /\ transcript' = Append(transcript, Head(pending)) /\ pending' = Tail(pending)
        /\ UNCHANGED <<prompts, steeringQueue, followUpQueue, nextMessage>>
    BY <1>2 DEF InjectEnd, ReduceMessageEnd, LoopFrame, apiVars, queueVars
  <2>3. Head(pending) \in Message
    BY <2>1, MessageTyping, HeadTailType
  <2>4. /\ Held(Tail(pending), Kinds, nextMessage) /\ InOrder(Tail(pending))
        /\ \A j \in 1..Len(Tail(pending)) : Older(Head(pending), Tail(pending)[j])
        /\ \A t : Precedes(t, pending) => /\ Precedes(t, Tail(pending))
                                          /\ \A i \in 1..Len(t) : Older(t[i], Head(pending))
        /\ \A t : Precedes(pending, t) => /\ Precedes(Tail(pending), t)
                                          /\ \A i \in 1..Len(t) : Older(Head(pending), t[i])
        /\ Head(pending).id <= nextMessage
    BY <2>1, MessageTyping, TailOrder DEF KindInv, OrderInv
  <2>5. /\ InOrder(transcript')
        /\ \A t : Precedes(transcript, t) /\ (\A i \in 1..Len(t) : Older(Head(pending), t[i]))
                        => Precedes(transcript', t)
    BY <2>2, <2>3, <2>4, MessageTyping, AppendOrder DEF OrderInv
  <2>6. Issued(transcript', nextMessage)
    BY <2>2, <2>3, <2>4, MessageTyping, IssuedAppend DEF KindInv
  <2>7. KindInv'
    BY <2>2, <2>4, <2>6 DEF KindInv
  <2>8. /\ Precedes(transcript', pending') /\ Precedes(transcript', steeringQueue)
        /\ Precedes(transcript', followUpQueue) /\ Precedes(transcript', prompts)
        /\ Precedes(pending', steeringQueue) /\ Precedes(pending', followUpQueue)
    BY <2>1, <2>2, <2>4, <2>5, NothingHeld DEF OrderInv
  <2> QED BY <2>2, <2>4, <2>5, <2>7, <2>8 DEF OrderInv
<1>3. CASE ReplyEnd \/ FailMessageEnd \/ ResultEnd
  <2>1. PICK m \in Message : m.role # "user" /\ transcript' = Append(transcript, m)
    BY <1>3, LoopMessages
  <2>2. UNCHANGED <<prompts, pending, steeringQueue, followUpQueue, nextMessage>>
    BY <1>3 DEF ReplyEnd, FailMessageEnd, ResultEnd, LoopFrame, apiVars, queueVars
  <2>3. \A x : Older(x, m) /\ Older(m, x)
    BY <2>1 DEF Older
  <2>4. /\ InOrder(transcript')
        /\ \A t : Precedes(transcript, t) => Precedes(transcript', t)
    BY <2>1, <2>3, MessageTyping, AppendOrder DEF OrderInv
  <2>5. Issued(transcript', nextMessage)
    BY <2>1, MessageTyping, IssuedAppend DEF KindInv
  <2>6. KindInv'
    BY <2>2, <2>5 DEF KindInv
  <2> QED BY <2>2, <2>4, <2>6 DEF OrderInv
<1> QED BY <1>1, <1>2, <1>3

LEMMA MessagesStep ==
    ASSUME TypeInv, BlockInv, WaitingInv, KindInv, OrderInv, Next
    PROVE  KindInv' /\ OrderInv'
<1>1. CASE UNCHANGED <<transcript, prompts, pending, steeringQueue, followUpQueue,
                       nextMessage, cleared>>
  BY <1>1 DEF KindInv, OrderInv
<1> QED BY <1>1, MessageMoves, EnqueueStep, ClearStep, PromptStep, DrainStep, AnnounceStep

-----------------------------------------------------------------------------
(* Tool results stand behind the message that asked for them.             *)

LEMMA ResultsStep ==
    ASSUME TypeInv, BatchInv, BlockInv, WaitingInv, KindInv,
           ResultsFollowTheirCalls, Next
    PROVE  ResultsFollowTheirCalls'
<1>0. StateType /\ transcript \in Seq(Message) /\ Len(transcript) \in Nat
  BY SMTT(60) DEF TypeInv, TypeOK, StateType
<1>1. CASE UNCHANGED transcript
  BY <1>1, SMTT(60) DEF ResultsFollowTheirCalls
<1>2. CASE Reset
  BY <1>2, SMTT(60) DEF Reset, ResultsFollowTheirCalls
<1>3. CASE PromptEnd
  <2>1. prompts # <<>> /\ transcript' = Append(transcript, Head(prompts))
    BY <1>3 DEF PromptEnd, TypeInv, Positions, ReduceMessageEnd
  <2>2. Head(prompts) \in Message /\ Head(prompts).role = "user"
    BY <2>1, MessageTyping, TailIndex, HeadTailType, SMTT(60) DEF KindInv, Held
  <2> QED BY <1>0, <2>1, <2>2, OtherMessage
<1>4. CASE InjectEnd
  <2>1. pending # <<>> /\ transcript' = Append(transcript, Head(pending))
    BY <1>4 DEF InjectEnd, TypeInv, Positions, ReduceMessageEnd
  <2>2. Head(pending) \in Message /\ Head(pending).role = "user"
    BY <2>1, MessageTyping, TailIndex, HeadTailType, SMTT(60) DEF KindInv, Held
  <2> QED BY <1>0, <2>1, <2>2, OtherMessage
<1>5. CASE ReplyEnd \/ FailMessageEnd
  <2>1. reply \in Message /\ reply.role = "assistant"
    BY <1>5, MessageTyping DEF BlockInv, ReplyEnd, FailMessageEnd
  <2>2. transcript' = Append(transcript, reply)
    BY <1>5 DEF ReplyEnd, FailMessageEnd, ReduceMessageEnd
  <2> QED BY <1>0, <2>1, <2>2, OtherMessage
<1>6. CASE ResultEnd
  <2> DEFINE n == Len(transcript)
             p == ReplyPlace
  <2>1. /\ pc = "result_end"
        /\ transcript' = Append(transcript, ToolResultMessage(ResultCall))
    BY <1>6 DEF ResultEnd, ReduceMessageEnd
  <2>2. ToolResultMessage(ResultCall) \in Message
    BY <2>1, ResultCallType, CallsAreNat, MessageTypes
  <2>3. /\ Len(transcript') = n + 1
        /\ transcript'[n + 1] = ToolResultMessage(ResultCall)
        /\ \A k \in 1..n : transcript'[k] = transcript[k]
    BY <1>0, <2>1, <2>2, AppendIndex, SMTT(60)
  <2>4. /\ p \in 1..n /\ p + Len(toolResults) = n
        /\ transcript[p].role = "assistant"
        /\ transcript[p].calls = batch
        /\ \A k \in 1..Len(toolResults) :
              transcript[p + k] = ToolResultMessage(toolResults[k])
    BY <1>0, <2>1, SMTT(60) DEF BlockInv, ToolPoints, ResultPoints, ReplyPlace, TypeInv, TypeOK, BatchType
  <2>5. /\ Len(toolResults) < Len(batch) /\ Len(toolResults) \in Nat
        /\ ResultCall = batch[Len(toolResults) + 1]
        /\ \A k \in 1..Len(toolResults) : toolResults[k] = batch[k]
    <3>1. CASE mode = "parallel"
      <4>1. /\ Leading(finalizedCalls, batch, index)
            /\ Leading(toolResults, finalizedCalls, Len(toolResults))
            /\ Len(toolResults) < Len(finalizedCalls)
        BY <2>1, <3>1 DEF BatchInv, ResultPoints, TypeInv, Positions
      <4> QED BY <3>1, <4>1, SMTT(60) DEF Leading, ResultCall, TypeInv, TypeOK, BatchType
    <3>2. CASE mode # "parallel"
      <4>1. Leading(toolResults, batch, index - 1) /\ index <= Len(batch)
        BY <2>1, <3>2 DEF BatchInv, ResultPoints, TypeInv, Positions
      <4> QED BY <3>2, <4>1, SMTT(60) DEF Leading, ResultCall, Current, TypeInv, TypeOK, BatchType
    <3> QED BY <3>1, <3>2
  <2> HIDE DEF p, n
  <2>6. /\ n \in Nat /\ p \in Nat /\ p + Len(toolResults) = n
        /\ Len(toolResults) \in Nat /\ 1 <= p
    BY <1>0, <2>4, <2>5, SMTT(60) DEF n
  <2>7. ASSUME NEW k \in (p + 1)..(n + 1)
        PROVE  /\ transcript'[k].role = "toolResult"
               /\ transcript'[k].id = batch[k - p]
    <3>1. CASE k = n + 1
      <4>1. k - p = Len(toolResults) + 1
        BY <3>1, <2>6, SMTT(60)
      <4> QED BY <3>1, <4>1, <2>3, <2>5, SMTT(60) DEF ToolResultMessage
    <3>2. CASE k # n + 1
      <4>1. k \in 1..n /\ k - p \in 1..Len(toolResults) /\ p + (k - p) = k
        BY <3>2, <2>6, SMTT(60)
      <4>2. transcript'[k] = ToolResultMessage(batch[k - p])
        BY <4>1, <2>3, <2>4, <2>5
      <4> QED BY <4>2, SMTT(60) DEF ToolResultMessage
    <3> QED BY <3>1, <3>2
  <2>8. transcript'[p] = transcript[p]
    BY <2>3, <2>4
  <2>9. ASSUME NEW i \in 1..Len(transcript'), transcript'[i].role = "toolResult"
        PROVE  \E j \in 1..(i - 1) :
                  /\ transcript'[j].role = "assistant"
                  /\ i - j <= Len(transcript'[j].calls)
                  /\ \A k \in (j + 1)..i :
                        /\ transcript'[k].role = "toolResult"
                        /\ transcript'[k].id = transcript'[j].calls[k - j]
    <3>1. CASE i = n + 1
      <4>1. /\ p \in 1..(i - 1) /\ i - p <= Len(batch)
            /\ \A k \in (p + 1)..i : k \in (p + 1)..(n + 1)
        BY <3>1, <2>4, <2>5, <2>6, SMTT(60)
      <4> QED BY <4>1, <2>4, <2>7, <2>8
    <3>2. CASE i # n + 1
      <4>1. i \in 1..n /\ transcript[i].role = "toolResult"
        BY <3>2, <2>3, <2>6, <2>9, SMTT(60)
      <4>2. PICK j \in 1..(i - 1) :
                    /\ transcript[j].role = "assistant"
                    /\ i - j <= Len(transcript[j].calls)
                    /\ \A k \in (j + 1)..i :
                          /\ transcript[k].role = "toolResult"
                          /\ transcript[k].id = transcript[j].calls[k - j]
        BY <4>1 DEF ResultsFollowTheirCalls, n
      <4>3. \A k \in j..i : transcript'[k] = transcript[k]
        BY <4>1, <2>3, <2>6, SMTT(60)
      <4>4. /\ transcript'[j].role = "assistant"
            /\ i - j <= Len(transcript'[j].calls)
            /\ \A k \in (j + 1)..i :
                  /\ transcript'[k].role = "toolResult"
                  /\ transcript'[k].id = transcript'[j].calls[k - j]
        <5>1. j \in j..i /\ \A k \in (j + 1)..i : k \in j..i
          BY <4>1, <2>6, SMTT(60)
        <5>2. transcript'[j] = transcript[j]
          BY <4>3, <5>1
        <5>3. \A k \in (j + 1)..i : transcript'[k] = transcript[k]
          BY <4>3, <5>1
        <5> QED BY <4>2, <5>2, <5>3
      <4> WITNESS j \in 1..(i - 1)
      <4> QED BY <4>4
    <3> QED BY <3>1, <3>2
  <2> QED BY <2>9 DEF ResultsFollowTheirCalls
<1> QED BY <1>1, <1>2, <1>3, <1>4, <1>5, <1>6, TranscriptMoves

-----------------------------------------------------------------------------
(* No message is lost.                                                     *)

\* The user messages of a transcript, as NoMessageLost counts them.
UserIds(t) == {t[i].id : i \in {k \in 1..Len(t) : t[k].role = "user"}}

LEMMA UserIdsAppend ==
    ASSUME NEW t \in Seq(Message), NEW m \in Message
    PROVE  /\ UserIds(t) \subseteq UserIds(Append(t, m))
           /\ m.role = "user" => m.id \in UserIds(Append(t, m))
<1>1. /\ Len(Append(t, m)) = Len(t) + 1 /\ Len(t) \in Nat
      /\ Append(t, m)[Len(t) + 1] = m
      /\ \A k \in 1..Len(t) : Append(t, m)[k] = t[k]
  BY AppendIndex, SMTT(60)
<1>2. Len(t) + 1 \in 1..Len(Append(t, m)) /\ \A k \in 1..Len(t) : k \in 1..Len(Append(t, m))
  BY <1>1, SMTT(60)
<1> QED BY <1>1, <1>2 DEF UserIds

LEMMA DrainIds ==
    ASSUME NEW q \in Seq(Message), NEW queueMode
    PROVE  Ids(q) \subseteq Ids(Drained(q, queueMode)) \cup Ids(Undrained(q, queueMode))
<1> DEFINE d == Drained(q, queueMode)
           u == Undrained(q, queueMode)
<1>1. /\ Len(d) \in 0..Len(q) /\ Len(u) = Len(q) - Len(d)
      /\ \A i \in 1..Len(d) : d[i] = q[i]
      /\ \A i \in 1..Len(u) : u[i] = q[Len(d) + i]
  BY DrainIndex
<1> HIDE DEF d, u
<1> SUFFICES ASSUME NEW i \in 1..Len(q)
             PROVE  q[i].id \in Ids(d) \cup Ids(u)
  BY DEF Ids, d, u
<1>2. CASE i <= Len(d)
  <2>1. i \in 1..Len(d)
    BY <1>1, <1>2, SMTT(60)
  <2> QED BY <1>1, <2>1 DEF Ids
<1>3. CASE i > Len(d)
  <2>1. i - Len(d) \in 1..Len(u) /\ Len(d) + (i - Len(d)) = i
    BY <1>1, <1>3, SMTT(60)
  <2> QED BY <1>1, <2>1 DEF Ids
<1> QED BY <1>1, <1>2, <1>3, SMTT(60)

LEMMA TailIds ==
    ASSUME NEW q \in Seq(Message), q # <<>>
    PROVE  Ids(q) \subseteq {Head(q).id} \cup Ids(Tail(q))
<1> SUFFICES ASSUME NEW i \in 1..Len(q)
             PROVE  q[i].id \in {Head(q).id} \cup Ids(Tail(q))
  BY DEF Ids
<1>1. CASE i = 1
  BY <1>1, TailIndex
<1>2. CASE i # 1
  <2>1. i - 1 \in 1..Len(Tail(q)) /\ Tail(q)[i - 1] = q[i]
    BY <1>2, TailIndex, SMTT(60)
  <2> QED BY <2>1 DEF Ids
<1> QED BY <1>1, <1>2

LEMMA IdsAppend ==
    ASSUME NEW q \in Seq(Message), NEW m \in Message
    PROVE  Ids(q) \cup {m.id} \subseteq Ids(Append(q, m))
<1>1. /\ Len(Append(q, m)) = Len(q) + 1 /\ Len(q) \in Nat
      /\ Append(q, m)[Len(q) + 1] = m
      /\ \A k \in 1..Len(q) : Append(q, m)[k] = q[k]
  BY AppendIndex, SMTT(60)
<1>2. Len(q) + 1 \in 1..Len(Append(q, m)) /\ \A k \in 1..Len(q) : k \in 1..Len(Append(q, m))
  BY <1>1, SMTT(60)
<1> QED BY <1>1, <1>2 DEF Ids

\* Every message that is not lost.
Kept ==
    Ids(steeringQueue) \cup Ids(followUpQueue) \cup Ids(pending) \cup Ids(prompts)
        \cup cleared \cup UserIds(transcript)

LEMMA KeptMessages == NoMessageLost <=> (throws = 0 => 1..nextMessage \subseteq Kept)
BY DEF NoMessageLost, Kept, UserIds

LEMMA NoIds == Ids(<<>>) = {}
BY SMTT(60) DEF Ids

LEMMA LostStep ==
    ASSUME TypeInv, IdleIsClean, BlockInv, WaitingInv, KindInv, NoMessageLost, Next
    PROVE  NoMessageLost'
<1>0. throws' = 0 => throws = 0
  BY ThrowsFrame, BoundsAssumption, SMTT(60) DEF TypeInv, TypeOK, CounterType
<1> SUFFICES ASSUME throws' = 0, 1..nextMessage \subseteq Kept
             PROVE  (1..nextMessage \subseteq Kept)'
  BY <1>0, KeptMessages DEF NoMessageLost, Kept, UserIds
<1>1. CASE UNCHANGED <<transcript, prompts, pending, steeringQueue, followUpQueue,
                       nextMessage, cleared>>
  BY <1>1 DEF Kept
<1>i. /\ nextMessage + 1 \in Nat
      /\ 1..(nextMessage + 1) \subseteq 1..nextMessage \cup {nextMessage + 1}
  BY MessageTyping, SMTT(60)
<1>2. CASE Steer
  <2> DEFINE m == UserMessage(nextMessage + 1, "steer")
  <2>1. m \in Message /\ m.id = nextMessage + 1
    BY <1>i, MessageTypes DEF UserMessage, Kinds
  <2>2. /\ steeringQueue' = Append(steeringQueue, m) /\ nextMessage' = nextMessage + 1
        /\ UNCHANGED <<transcript, prompts, pending, followUpQueue, cleared>>
    BY <1>2 DEF Steer, Enqueue, stateVars
  <2>3. Ids(steeringQueue) \cup {nextMessage + 1} \subseteq Ids(steeringQueue')
    BY <2>1, <2>2, MessageTyping, IdsAppend
  <2> QED BY <1>i, <2>2, <2>3 DEF Kept
<1>3. CASE FollowUp
  <2> DEFINE m == UserMessage(nextMessage + 1, "followUp")
  <2>1. m \in Message /\ m.id = nextMessage + 1
    BY <1>i, MessageTypes DEF UserMessage, Kinds
  <2>2. /\ followUpQueue' = Append(followUpQueue, m) /\ nextMessage' = nextMessage + 1
        /\ UNCHANGED <<transcript, prompts, pending, steeringQueue, cleared>>
    BY <1>3 DEF FollowUp, Enqueue, stateVars
  <2>3. Ids(followUpQueue) \cup {nextMessage + 1} \subseteq Ids(followUpQueue')
    BY <2>1, <2>2, MessageTyping, IdsAppend
  <2> QED BY <1>i, <2>2, <2>3 DEF Kept
<1>4. CASE ClearSteeringQueue \/ ClearFollowUpQueue
  BY <1>4 DEF ClearSteeringQueue, ClearFollowUpQueue, Kept, stateVars
<1>5. CASE Reset
  <2>1. /\ cleared' = cleared \cup Ids(steeringQueue) \cup Ids(followUpQueue)
                      \cup UserIds(transcript)
        /\ UNCHANGED <<nextMessage, prompts, pending>>
    BY <1>5 DEF Reset, UserIds
  <2> QED BY <2>1 DEF Kept
<1>6. CASE Prompt \/ ContinueSteering \/ ContinueFollowUp \/ RunContinuation
  <2>1. prompts = <<>> /\ pending = <<>>
    BY <1>6 DEF Prompt, ContinueSteering, ContinueFollowUp, RunContinuation,
       IdleIsClean, WaitingInv, PromptPoints, FailPoints
  <2>2. Ids(prompts) = {} /\ Ids(pending) = {}
    BY <2>1, NoIds
  <2>3. CASE Prompt
    <3>1. PICK k \in 1..(MaxMessages - nextMessage) :
                  /\ nextMessage' = nextMessage + k
                  /\ prompts' = [i \in 1..k |-> UserMessage(nextMessage + i, "prompt")]
                  /\ UNCHANGED <<transcript, steeringQueue, followUpQueue, cleared>>
      BY <2>3 DEF Prompt, StartRun, queueVars
    <3>2. k \in Nat /\ nextMessage \in Nat
      BY MessageTyping, BoundsAssumption, SMTT(60)
    <3>3. \A i \in 1..k : UserMessage(nextMessage + i, "prompt").id = nextMessage + i
      BY DEF UserMessage
    <3>4. Len(prompts') = k /\ \A i \in 1..k : prompts'[i].id = nextMessage + i
      BY <3>1, <3>2, <3>3, SMTT(60)
    <3>5. ASSUME NEW n \in 1..nextMessage', n \notin 1..nextMessage
          PROVE  n \in Ids(prompts')
      <4>1. n - nextMessage \in 1..k /\ n = nextMessage + (n - nextMessage)
        BY <3>1, <3>2, <3>5, SMTT(60)
      <4> QED BY <4>1, <3>4 DEF Ids
    <3> QED BY <2>2, <3>1, <3>5 DEF Kept
  <2>4. CASE ContinueSteering
    <3>1. /\ prompts' = Drained(steeringQueue, SteeringMode)
          /\ steeringQueue' = Undrained(steeringQueue, SteeringMode)
          /\ UNCHANGED <<transcript, followUpQueue, nextMessage, cleared>>
      BY <2>4 DEF ContinueSteering, StartRun, apiVars
    <3>2. Ids(steeringQueue) \subseteq Ids(prompts') \cup Ids(steeringQueue')
      BY <3>1, MessageTyping, DrainIds
    <3> QED BY <2>2, <3>1, <3>2 DEF Kept
  <2>5. CASE ContinueFollowUp
    <3>1. /\ prompts' = Drained(followUpQueue, FollowUpMode)
          /\ followUpQueue' = Undrained(followUpQueue, FollowUpMode)
          /\ UNCHANGED <<transcript, steeringQueue, nextMessage, cleared>>
      BY <2>5 DEF ContinueFollowUp, StartRun, apiVars
    <3>2. Ids(followUpQueue) \subseteq Ids(prompts') \cup Ids(followUpQueue')
      BY <3>1, MessageTyping, DrainIds
    <3> QED BY <2>2, <3>1, <3>2 DEF Kept
  <2>6. CASE RunContinuation
    <3>1. UNCHANGED <<transcript, steeringQueue, followUpQueue, nextMessage, cleared>>
      BY <2>6 DEF RunContinuation, StartRun, apiVars, queueVars
    <3> QED BY <2>2, <3>1 DEF Kept
  <2> QED BY <1>6, <2>3, <2>4, <2>5, <2>6
<1>7. CASE PromptEnd
  <2>1. /\ prompts # <<>> /\ transcript' = Append(transcript, Head(prompts))
        /\ prompts' = Tail(prompts)
        /\ UNCHANGED <<pending, steeringQueue, followUpQueue, nextMessage, cleared>>
    BY <1>7 DEF PromptEnd, TypeInv, Positions, ReduceMessageEnd, LoopFrame, apiVars, queueVars
  <2>2. Head(prompts) \in Message /\ Head(prompts).role = "user"
    BY <2>1, MessageTyping, TailIndex, HeadTailType, SMTT(60) DEF KindInv, Held
  <2>3. /\ UserIds(transcript) \cup {Head(prompts).id} \subseteq UserIds(transcript')
        /\ Ids(prompts) \subseteq {Head(prompts).id} \cup Ids(prompts')
    BY <2>1, <2>2, MessageTyping, UserIdsAppend, TailIds
  <2> QED BY <2>1, <2>3 DEF Kept
<1>8. CASE InjectEnd
  <2>1. /\ pending # <<>> /\ transcript' = Append(transcript, Head(pending))
        /\ pending' = Tail(pending)
        /\ UNCHANGED <<prompts, steeringQueue, followUpQueue, nextMessage, cleared>>
    BY <1>8 DEF InjectEnd, TypeInv, Positions, ReduceMessageEnd, LoopFrame, apiVars, queueVars
  <2>2. Head(pending) \in Message /\ Head(pending).role = "user"
    BY <2>1, MessageTyping, TailIndex, HeadTailType, SMTT(60) DEF KindInv, Held
  <2>3. /\ UserIds(transcript) \cup {Head(pending).id} \subseteq UserIds(transcript')
        /\ Ids(pending) \subseteq {Head(pending).id} \cup Ids(pending')
    BY <2>1, <2>2, MessageTyping, UserIdsAppend, TailIds
  <2> QED BY <2>1, <2>3 DEF Kept
<1>9. CASE PollInitial \/ PollSteering
  <2>1. /\ pc \in {"poll_initial", "poll"}
        /\ \/ UNCHANGED steeringQueue
           \/ /\ pending' = Drained(steeringQueue, SteeringMode)
              /\ steeringQueue' = Undrained(steeringQueue, SteeringMode)
        /\ UNCHANGED <<transcript, prompts, followUpQueue, nextMessage, cleared>>
    BY <1>9 DEF PollInitial, PollSteering, GetSteeringMessages, LoopFrame, apiVars, stateVars
  <2>2. pending = <<>>
    BY <2>1 DEF WaitingInv, FailPoints
  <2>3. Ids(steeringQueue) \subseteq Ids(pending') \cup Ids(steeringQueue') /\ Ids(pending) = {}
    BY <2>1, <2>2, MessageTyping, DrainIds, NoIds
  <2> QED BY <2>1, <2>3 DEF Kept
<1>10. CASE PollFollowUp
  <2>1. /\ pc = "poll_follow_up"
        /\ pending' = Drained(followUpQueue, FollowUpMode)
        /\ followUpQueue' = Undrained(followUpQueue, FollowUpMode)
        /\ UNCHANGED <<transcript, prompts, steeringQueue, nextMessage, cleared>>
    BY <1>10 DEF PollFollowUp, LoopFrame, apiVars, stateVars
  <2>2. pending = <<>>
    BY <2>1 DEF WaitingInv, FailPoints
  <2>3. Ids(followUpQueue) \subseteq Ids(pending') \cup Ids(followUpQueue') /\ Ids(pending) = {}
    BY <2>1, <2>2, MessageTyping, DrainIds, NoIds
  <2> QED BY <2>1, <2>3 DEF Kept
<1>11. CASE ReplyEnd \/ FailMessageEnd \/ ResultEnd
  <2>1. UserIds(transcript) \subseteq UserIds(transcript')
    BY <1>11, LoopMessages, UserIdsAppend, MessageTyping
  <2>2. UNCHANGED <<prompts, pending, steeringQueue, followUpQueue, nextMessage, cleared>>
    BY <1>11 DEF ReplyEnd, FailMessageEnd, ResultEnd, LoopFrame, apiVars, queueVars
  <2> QED BY <2>1, <2>2 DEF Kept
<1>12. CASE FinishRun
  <2>1. /\ pc = "finish" /\ throws = 0
        /\ UNCHANGED <<transcript, steeringQueue, followUpQueue, nextMessage, cleared>>
    BY <1>0, <1>12 DEF FinishRun, apiVars, queueVars
  <2>2. prompts = <<>> /\ pending = <<>>
    BY <2>1, SMTT(60) DEF WaitingInv, PromptPoints
  <2>3. Ids(prompts) = {} /\ Ids(pending) = {}
    BY <2>2, NoIds
  <2> QED BY <2>1, <2>3 DEF Kept
<1> QED BY <1>1, <1>2, <1>3, <1>4, <1>5, <1>6, <1>7, <1>8, <1>9, <1>10, <1>11,
           <1>12, MessageMoves

-----------------------------------------------------------------------------
(* The two copies of the history.                                          *)

HistoryInv == PromptInv /\ ReportInv /\ ContextInv

LEMMA HistoryTyping ==
    ASSUME TypeInv
    PROVE  /\ context \in Seq(Message) /\ newMessages \in Seq(Message)
           /\ toolResults \in Seq(Calls) /\ runStart \in Nat
           /\ Len(context) \in Nat /\ Len(newMessages) \in Nat
           /\ Len(toolResults) \in Nat /\ Len(transcript) \in Nat
BY SMTT(60) DEF TypeInv, TypeOK, ContextType, BatchType, StateType

LEMMA ConcatIndex ==
    ASSUME NEW s \in Seq(Message), NEW t \in Seq(Message)
    PROVE  /\ Len(s \o t) = Len(s) + Len(t)
           /\ \A i \in 1..Len(s) : (s \o t)[i] = s[i]
           /\ \A i \in 1..Len(t) : (s \o t)[Len(s) + i] = t[i]
BY SMTT(60)

\* runWithLifecycle hands the run the transcript and the prompts.
LEMMA StartHistory ==
    ASSUME TypeInv, NEW messages \in Seq(Message), NEW skip, StartRun(messages, skip)
    PROVE  HistoryInv'
<1>1. /\ context' = transcript \o messages /\ prompts' = messages
      /\ newMessages' = messages /\ runStart' = Len(transcript)
      /\ transcript' = transcript /\ pc' = "agent_start"
  BY DEF StartRun
<1>2. /\ Len(context') = Len(transcript) + Len(messages)
      /\ \A i \in 1..Len(transcript) : context'[i] = transcript[i]
      /\ \A i \in 1..Len(messages) : context'[Len(transcript) + i] = messages[i]
  BY <1>1, ConcatIndex, MessageTyping
<1>3. PromptInv'
  BY <1>1, <1>2 DEF PromptInv
<1> QED BY <1>1, <1>3 DEF HistoryInv, ReportInv, ContextInv, LevelPoints, ToolPoints,
      CallPoints, ResultPoints

LEMMA StartHistoryStep ==
    ASSUME TypeInv, Prompt \/ ContinueSteering \/ ContinueFollowUp \/ RunContinuation
    PROVE  HistoryInv'
<1>1. CASE Prompt
  BY <1>1, PromptType, StartHistory DEF Prompt, TypeInv, TypeOK
<1>2. CASE ContinueSteering
  BY <1>2, MessageTyping, DrainType, StartHistory DEF ContinueSteering
<1>3. CASE ContinueFollowUp
  BY <1>3, MessageTyping, DrainType, StartHistory DEF ContinueFollowUp
<1>4. CASE RunContinuation
  BY <1>4, EmptySeq, StartHistory DEF RunContinuation
<1> QED BY <1>1, <1>2, <1>3, <1>4

\* Announcing a prompt moves it from the prompts to the transcript.
LEMMA PromptEndHistory ==
    ASSUME TypeInv, PromptInv, PromptEnd
    PROVE  HistoryInv'
<1>1. /\ pc = "prompt_end" /\ prompts # <<>>
      /\ transcript' = Append(transcript, Head(prompts)) /\ prompts' = Tail(prompts)
      /\ pc' \in {"prompt_start", "poll_initial", "fail_message_start"}
      /\ UNCHANGED <<context, newMessages, runStart>>
  BY DEF PromptEnd, TypeInv, Positions, ReduceMessageEnd, LoopFrame, contextVars,
     Emit, Await
<1>2. Head(prompts) \in Message /\ prompts \in Seq(Message) /\ transcript \in Seq(Message)
  BY <1>1, MessageTyping, HeadTailType
<1>3. /\ Len(transcript') = Len(transcript) + 1
      /\ transcript'[Len(transcript) + 1] = Head(prompts)
      /\ \A k \in 1..Len(transcript) : transcript'[k] = transcript[k]
  BY <1>1, <1>2, AppendIndex, SMTT(60)
<1>4. /\ Head(prompts) = prompts[1] /\ 1 \in 1..Len(prompts)
      /\ Len(prompts') = Len(prompts) - 1
      /\ \A i \in 1..Len(prompts') : prompts'[i] = prompts[i + 1] /\ i + 1 \in 1..Len(prompts)
  BY <1>1, <1>2, TailIndex
<1>5. /\ Len(context) = Len(transcript) + Len(prompts)
      /\ \A i \in 1..Len(transcript) : context[i] = transcript[i]
      /\ \A i \in 1..Len(prompts) : context[Len(transcript) + i] = prompts[i]
      /\ Len(context) = runStart + Len(newMessages)
      /\ \A i \in 1..Len(newMessages) : newMessages[i] = context[runStart + i]
  BY <1>1 DEF PromptInv, PromptPoints
<1>6. Len(transcript) \in Nat /\ Len(prompts) \in Nat
  BY <1>2, SMTT(60)
<1>7. Len(context) = Len(transcript') + Len(prompts')
  BY <1>3, <1>4, <1>5, <1>6, SMTT(60)
<1>8. \A i \in 1..Len(transcript') : context[i] = transcript'[i]
  <2> TAKE i \in 1..Len(transcript')
  <2>1. i \in 1..Len(transcript) \/ i = Len(transcript) + 1
    BY <1>3, <1>6, SMTT(60)
  <2> QED BY <2>1, <1>3, <1>4, <1>5
<1>9. \A i \in 1..Len(prompts') : context[Len(transcript') + i] = prompts'[i]
  <2> TAKE i \in 1..Len(prompts')
  <2>1. i + 1 \in 1..Len(prompts) /\ prompts'[i] = prompts[i + 1]
    BY <1>4
  <2>2. Len(transcript') + i = Len(transcript) + (i + 1)
    BY <1>3, <1>6, SMTT(60)
  <2> QED BY <2>1, <2>2, <1>5
<1>10. PromptInv'
  BY <1>1, <1>5, <1>7, <1>8, <1>9 DEF PromptInv
<1> QED BY <1>1, <1>10 DEF HistoryInv, ReportInv, ContextInv, LevelPoints, ToolPoints,
      CallPoints, ResultPoints

LEMMA PollInitialHistory ==
    ASSUME TypeInv, WaitingInv, PromptInv, PollInitial
    PROVE  HistoryInv'
<1>1. /\ pc = "poll_initial" /\ pc' \in {"stream", "inject_start"}
      /\ UNCHANGED <<transcript, context, newMessages, runStart>>
  BY DEF PollInitial, LoopFrame, stateVars, contextVars
<1>2. prompts = <<>>
  BY <1>1 DEF WaitingInv, PromptPoints, FailPoints
<1>3. /\ Len(context) = Len(transcript)
      /\ \A i \in 1..Len(transcript) : context[i] = transcript[i]
      /\ Len(context) = runStart + Len(newMessages)
      /\ \A i \in 1..Len(newMessages) : newMessages[i] = context[runStart + i]
  BY <1>1, <1>2, HistoryTyping, SMTT(60) DEF PromptInv, PromptPoints
<1>4. \A i \in 1..Len(newMessages) : newMessages[i] = transcript[runStart + i]
  <2> TAKE i \in 1..Len(newMessages)
  <2>1. runStart + i \in 1..Len(transcript)
    BY <1>3, HistoryTyping, SMTT(60)
  <2> QED BY <2>1, <1>3
<1>5. Known' = Len(transcript)
  BY <1>1 DEF Known, ToolPoints, CallPoints, ResultPoints
<1>6. PromptInv'
  BY <1>1 DEF PromptInv, PromptPoints
<1>7. ReportInv'
  BY <1>1, <1>3, <1>4, <1>5 DEF ReportInv
<1>8. ContextInv'
  BY <1>1, <1>3, <1>5, HistoryTyping DEF ContextInv
<1> QED BY <1>6, <1>7, <1>8 DEF HistoryInv

\* A message that reaches the transcript and newMessages in one step keeps the
\* report in line with the transcript.
LEMMA ReportAppend ==
    ASSUME TypeInv, NEW m \in Message,
           runStart + Len(newMessages) = Len(transcript),
           \A i \in 1..Len(newMessages) : newMessages[i] = transcript[runStart + i],
           transcript' = Append(transcript, m), newMessages' = Append(newMessages, m)
    PROVE  /\ runStart + Len(newMessages') = Len(transcript')
           /\ \A i \in 1..Len(newMessages') : newMessages'[i] = transcript'[runStart + i]
<1>1. /\ Len(transcript') = Len(transcript) + 1 /\ transcript'[Len(transcript) + 1] = m
      /\ \A k \in 1..Len(transcript) : transcript'[k] = transcript[k]
  BY MessageTyping, AppendIndex, SMTT(60)
<1>2. /\ Len(newMessages') = Len(newMessages) + 1 /\ newMessages'[Len(newMessages) + 1] = m
      /\ \A k \in 1..Len(newMessages) : newMessages'[k] = newMessages[k]
  BY HistoryTyping, AppendIndex, SMTT(60)
<1>3. \A a, b, c \in Nat : a + b = c => a + (b + 1) = c + 1
  BY SMTT(60)
<1>4. runStart + (Len(newMessages) + 1) = Len(transcript) + 1
  BY <1>3, HistoryTyping, SMTT(60)
<1>5. runStart + Len(newMessages') = Len(transcript')
  BY <1>4, <1>1, <1>2
<1>6. ASSUME NEW i \in 1..Len(newMessages')
      PROVE  newMessages'[i] = transcript'[runStart + i]
  <2>1. CASE i = Len(newMessages) + 1
    <3>1. runStart + i = Len(transcript) + 1
      BY <2>1, <1>4
    <3> QED BY <2>1, <3>1, <1>1, <1>2
  <2>2. CASE i # Len(newMessages) + 1
    <3>1. i \in 1..Len(newMessages) /\ runStart + i \in 1..Len(transcript)
      BY <2>2, <1>2, HistoryTyping, SMTT(60)
    <3> QED BY <3>1, <1>1, <1>2
  <2> QED BY <2>1, <2>2
<1> QED BY <1>5, <1>6

\* An injected message enters both copies, unless a listener threw.
LEMMA InjectEndHistory ==
    ASSUME TypeInv, HistoryInv, InjectEnd
    PROVE  HistoryInv'
<1> USE DEF PromptPoints, LevelPoints, ToolPoints, CallPoints, ResultPoints
<1>1. pc' \in {"stream", "inject_start", "fail_message_start"}
  BY DEF InjectEnd, Emit, Await
<1>2. CASE pc' = "fail_message_start"
  BY <1>2 DEF HistoryInv, PromptInv, ReportInv, ContextInv
<1>3. CASE pc' # "fail_message_start"
  <2> DEFINE m == Head(pending)
  <2>1. /\ pc = "inject_end" /\ pending # <<>>
        /\ transcript' = Append(transcript, m) /\ newMessages' = Append(newMessages, m)
        /\ context' = Append(context, m) /\ UNCHANGED <<runStart, contextReplaced>>
    BY <1>3 DEF InjectEnd, Emit, Await, TypeInv, Positions, ReduceMessageEnd, LoopFrame
  <2>2. m \in Message
    BY <2>1, MessageTyping, HeadTailType
  <2> HIDE DEF m
  <2>3. Known = Len(transcript) /\ Known' = Len(transcript')
    BY <1>1, <1>3, <2>1 DEF Known
  <2>4. /\ runStart + Len(newMessages') = Len(transcript')
        /\ \A i \in 1..Len(newMessages') : newMessages'[i] = transcript'[runStart + i]
    BY <2>1, <2>2, <2>3, ReportAppend DEF HistoryInv, ReportInv
  <2>5. ReportInv'
    BY <2>1, <2>3, <2>4 DEF ReportInv
  <2>6. ASSUME ~contextReplaced
        PROVE  /\ Len(context') = Len(transcript')
               /\ \A i \in 1..Len(transcript') : context'[i] = transcript'[i]
    <3>1. /\ Len(context) = Len(transcript)
          /\ \A i \in 1..Len(transcript) : context[i] = transcript[i]
      BY <2>1, <2>3, <2>6 DEF HistoryInv, ContextInv
    <3>2. /\ Len(transcript') = Len(transcript) + 1 /\ transcript'[Len(transcript) + 1] = m
          /\ \A k \in 1..Len(transcript) : transcript'[k] = transcript[k]
      BY <2>1, <2>2, MessageTyping, AppendIndex, SMTT(60)
    <3>3. /\ Len(context') = Len(context) + 1 /\ context'[Len(context) + 1] = m
          /\ \A k \in 1..Len(context) : context'[k] = context[k]
      BY <2>1, <2>2, HistoryTyping, AppendIndex, SMTT(60)
    <3>4. \A i \in 1..Len(transcript') : i \in 1..Len(transcript) \/ i = Len(transcript) + 1
      BY <3>2, HistoryTyping, SMTT(60)
    <3> QED BY <3>1, <3>2, <3>3, <3>4
  <2>7. ContextInv'
    BY <1>1, <1>3, <2>1, <2>3, <2>6 DEF ContextInv
  <2>8. PromptInv'
    BY <1>1 DEF PromptInv
  <2> QED BY <2>5, <2>7, <2>8 DEF HistoryInv
<1> QED BY <1>2, <1>3

LEMMA StreamHistory ==
    ASSUME TypeInv, HistoryInv, StreamStart \/ StreamFinal \/ StreamFinalOnly
    PROVE  HistoryInv'
<1> USE DEF PromptPoints, LevelPoints, ToolPoints, CallPoints, ResultPoints
<1>1. /\ pc \in {"stream", "streaming"}
      /\ pc' \in {"streaming", "reply_end", "fail_message_start"}
      /\ UNCHANGED <<transcript, newMessages, runStart, contextReplaced>>
  BY DEF StreamStart, StreamFinal, StreamFinalOnly, Emit, Await, ReduceMessageStart,
     LoopFrame, stateVars
<1>2. CASE pc' = "fail_message_start"
  BY <1>2 DEF HistoryInv, PromptInv, ReportInv, ContextInv
<1>3. CASE pc' # "fail_message_start"
  <2>1. Known = Len(transcript) /\ Known' = Len(transcript)
    BY <1>1, <1>3 DEF Known
  <2>2. PromptInv' /\ ReportInv'
    BY <1>1, <2>1 DEF HistoryInv, PromptInv, ReportInv
  <2>3. CASE StreamStart \/ StreamFinalOnly
    <3>1. PICK m \in Message :
                  /\ context' = Append(context, m)
                  /\ pc' = "reply_end" => reply' = m
                  /\ pc = "stream"
      <4>1. CASE StreamStart
        <5>1. PartialMessage \in Message
          BY EmptyReply DEF PartialMessage, Kinds
        <5> QED BY <4>1, <5>1 DEF StreamStart, Emit, Await
      <4>2. CASE StreamFinalOnly
        BY <4>2, FinalMessageType DEF StreamFinalOnly, TypeInv, TypeOK
      <4> QED BY <2>3, <4>1, <4>2
    <3>2. /\ Len(context') = Len(context) + 1 /\ context'[Len(context) + 1] = m
          /\ \A k \in 1..Len(context) : context'[k] = context[k]
      BY <3>1, HistoryTyping, AppendIndex, SMTT(60)
    <3>3. ~contextReplaced => /\ Len(context) = Len(transcript)
                              /\ \A i \in 1..Len(transcript) : context[i] = transcript[i]
      BY <3>1, <2>1 DEF HistoryInv, ContextInv
    <3>4. ContextInv'
      BY <1>1, <1>3, <2>1, <3>1, <3>2, <3>3 DEF ContextInv
    <3> QED BY <2>2, <3>4 DEF HistoryInv
  <2>4. CASE StreamFinal
    <3>1. PICK m \in Message :
                  /\ context' = ReplaceLast(context, m) /\ reply' = m
                  /\ pc = "streaming" /\ pc' = "reply_end"
      BY <2>4, FinalMessageType DEF StreamFinal, TypeInv, TypeOK
    <3>2. ASSUME ~contextReplaced
          PROVE  /\ Len(context') = Len(transcript) + 1
                 /\ context'[Len(transcript) + 1] = m
                 /\ \A i \in 1..Len(transcript) : context'[i] = transcript[i]
      <4>1. /\ Len(context) = Len(transcript) + 1
            /\ \A i \in 1..Len(transcript) : context[i] = transcript[i]
        BY <3>1, <3>2, <2>1 DEF HistoryInv, ContextInv
      <4>2. /\ Len(context') = Len(context)
            /\ \A i \in 1..Len(context) :
                  context'[i] = IF i = Len(context) THEN m ELSE context[i]
        BY <3>1, HistoryTyping, SMTT(60) DEF ReplaceLast
      <4>3. /\ Len(transcript) + 1 \in 1..Len(context)
            /\ \A i \in 1..Len(transcript) : i \in 1..Len(context) /\ i # Len(context)
        BY <4>1, HistoryTyping, SMTT(60)
      <4> QED BY <4>1, <4>2, <4>3
    <3>3. ContextInv'
      BY <1>1, <2>1, <3>1, <3>2 DEF ContextInv
    <3> QED BY <2>2, <3>3 DEF HistoryInv
  <2> QED BY <2>3, <2>4
<1> QED BY <1>2, <1>3

LEMMA ReplyHistory ==
    ASSUME TypeInv, HistoryInv, ReplyEnd
    PROVE  HistoryInv'
<1> USE DEF PromptPoints, LevelPoints, ToolPoints, CallPoints, ResultPoints
<1>1. pc' \in {"tool_start", "turn_end", "turn_end_stopped", "fail_message_start"}
  BY DEF ReplyEnd, Emit, Await
<1>2. CASE pc' = "fail_message_start"
  BY <1>2 DEF HistoryInv, PromptInv, ReportInv, ContextInv
<1>3. CASE pc' # "fail_message_start"
  <2>1. /\ pc = "reply_end" /\ toolResults' = <<>>
        /\ transcript' = Append(transcript, reply) /\ newMessages' = Append(newMessages, reply)
        /\ UNCHANGED <<context, runStart, contextReplaced>>
    BY <1>3 DEF ReplyEnd, Emit, Await, ReduceMessageEnd, LoopFrame
  <2>2. /\ Len(transcript') = Len(transcript) + 1 /\ transcript'[Len(transcript) + 1] = reply
        /\ \A k \in 1..Len(transcript) : transcript'[k] = transcript[k]
    BY <2>1, MessageTyping, AppendIndex, SMTT(60)
  <2>3. Known = Len(transcript) /\ Known' = Len(transcript')
    <3>1. Len(toolResults') = 0
      BY <2>1
    <3> QED BY <1>1, <2>1, <2>2, <3>1, HistoryTyping, SMTT(60) DEF Known, ReplyPlace
  <2>4. /\ runStart + Len(newMessages') = Len(transcript')
        /\ \A i \in 1..Len(newMessages') : newMessages'[i] = transcript'[runStart + i]
    BY <2>1, <2>3, MessageTyping, ReportAppend DEF HistoryInv, ReportInv
  <2>5. PromptInv' /\ ReportInv'
    BY <1>1, <2>1, <2>3, <2>4 DEF PromptInv, ReportInv
  <2>6. ~contextReplaced => /\ Len(context) = Len(transcript')
                            /\ \A i \in 1..Len(transcript') : context[i] = transcript'[i]
    <3>1. ~contextReplaced => /\ Len(context) = Len(transcript) + 1
                              /\ context[Len(transcript) + 1] = reply
                              /\ \A i \in 1..Len(transcript) : context[i] = transcript[i]
      BY <2>1, <2>3 DEF HistoryInv, ContextInv
    <3>2. \A i \in 1..Len(transcript') : i \in 1..Len(transcript) \/ i = Len(transcript) + 1
      BY <2>2, HistoryTyping, SMTT(60)
    <3> QED BY <2>2, <3>1, <3>2
  <2>7. ContextInv'
    BY <1>1, <2>1, <2>3, <2>6 DEF ContextInv
  <2> QED BY <2>5, <2>7 DEF HistoryInv
<1> QED BY <1>2, <1>3

\* A result reaches the transcript first, and the locals at the end of the turn.
LEMMA ResultHistory ==
    ASSUME TypeInv, BlockInv, HistoryInv, ResultEnd
    PROVE  HistoryInv'
<1> USE DEF PromptPoints, LevelPoints, ToolPoints, CallPoints, ResultPoints
<1>1. /\ pc = "result_end"
      /\ transcript' = Append(transcript, ToolResultMessage(ResultCall))
      /\ toolResults' = Append(toolResults, ResultCall)
      /\ pc' \in {"tool_next", "turn_end", "result_start", "fail_message_start"}
      /\ UNCHANGED <<context, newMessages, runStart, contextReplaced>>
  BY DEF ResultEnd, ReduceMessageEnd, Emit, Await, LoopFrame, contextVars
<1>2. CASE pc' = "fail_message_start"
  BY <1>2 DEF HistoryInv, PromptInv, ReportInv, ContextInv
<1>3. CASE pc' # "fail_message_start"
  <2>1. ResultCall \in Calls /\ ToolResultMessage(ResultCall) \in Message
    BY <1>1, ResultCallType, CallsAreNat, MessageTypes
  <2>2. /\ Len(transcript') = Len(transcript) + 1
        /\ \A k \in 1..Len(transcript) : transcript'[k] = transcript[k]
        /\ Len(toolResults') = Len(toolResults) + 1
    BY <1>1, <2>1, MessageTyping, HistoryTyping, AppendIndex, SMTT(60)
  <2>3. /\ Known = ReplyPlace /\ Known' = Known
        /\ Known \in Nat /\ Known <= Len(transcript)
    BY <1>1, <1>3, <2>2, HistoryTyping, SMTT(60) DEF Known, ReplyPlace, BlockInv
  <2>4. /\ runStart + Len(newMessages) = Known
        /\ \A i \in 1..Len(newMessages) : newMessages[i] = transcript[runStart + i]
    BY <1>1 DEF HistoryInv, ReportInv
  <2>5. \A i \in 1..Len(newMessages) : runStart + i \in 1..Len(transcript)
    BY <2>3, <2>4, HistoryTyping, SMTT(60)
  <2>6. PromptInv' /\ ReportInv'
    BY <1>1, <2>2, <2>3, <2>4, <2>5 DEF PromptInv, ReportInv
  <2>7. ~contextReplaced => /\ Len(context) = Known
                            /\ \A i \in 1..Known : context[i] = transcript[i]
    BY <1>1 DEF HistoryInv, ContextInv
  <2>8. \A i \in 1..Known : i \in 1..Len(transcript)
    BY <2>3, HistoryTyping, SMTT(60)
  <2>9. ContextInv'
    BY <1>1, <2>2, <2>3, <2>7, <2>8 DEF ContextInv
  <2> QED BY <2>6, <2>9 DEF HistoryInv
<1> QED BY <1>2, <1>3

LEMMA TurnEndHistory ==
    ASSUME TypeInv, BlockInv, HistoryInv, TurnEnd
    PROVE  HistoryInv'
<1> USE DEF PromptPoints, LevelPoints, ToolPoints, CallPoints, ResultPoints
<1> DEFINE results == ToolResultMessages(toolResults)
<1>1. /\ pc = "turn_end" /\ pc' \in {"prepare_next_turn", "fail_message_start"}
      /\ context' = context \o results /\ newMessages' = newMessages \o results
      /\ UNCHANGED <<transcript, runStart, contextReplaced>>
  BY DEF TurnEnd, Emit, Await, LoopFrame, stateVars
<1>2. CASE pc' = "fail_message_start"
  BY <1>2 DEF HistoryInv, PromptInv, ReportInv, ContextInv
<1>3. CASE pc' = "prepare_next_turn"
  <2>1. results \in Seq(Message)
    BY HistoryTyping, ResultsType
  <2>2. /\ Len(results) = Len(toolResults)
        /\ \A i \in 1..Len(toolResults) : results[i] = ToolResultMessage(toolResults[i])
    BY HistoryTyping, SMTT(60) DEF ToolResultMessages
  <2> HIDE DEF results
  <2>3. /\ Known = ReplyPlace /\ Known' = Len(transcript)
        /\ Known \in Nat /\ Known + Len(results) = Len(transcript)
        /\ \A k \in 1..Len(results) : transcript[Known + k] = results[k]
    BY <1>1, <1>3, <2>2, HistoryTyping, SMTT(60) DEF Known, ReplyPlace, BlockInv
  <2>4. /\ Len(newMessages') = Len(newMessages) + Len(results)
        /\ \A i \in 1..Len(newMessages) : newMessages'[i] = newMessages[i]
        /\ \A i \in 1..Len(results) : newMessages'[Len(newMessages) + i] = results[i]
    BY <1>1, <2>1, HistoryTyping, ConcatIndex
  <2>5. /\ Len(context') = Len(context) + Len(results)
        /\ \A i \in 1..Len(context) : context'[i] = context[i]
        /\ \A i \in 1..Len(results) : context'[Len(context) + i] = results[i]
    BY <1>1, <2>1, HistoryTyping, ConcatIndex
  <2>6. /\ runStart + Len(newMessages) = Known
        /\ \A i \in 1..Len(newMessages) : newMessages[i] = transcript[runStart + i]
    BY <1>1 DEF HistoryInv, ReportInv
  <2>7. Len(results) \in Nat
    BY <2>1, SMTT(60)
  <2>8. ASSUME NEW i \in 1..Len(newMessages')
        PROVE  newMessages'[i] = transcript[runStart + i]
    <3>1. CASE i <= Len(newMessages)
      <4>1. i \in 1..Len(newMessages)
        BY <3>1, HistoryTyping, SMTT(60)
      <4> QED BY <4>1, <2>4, <2>6
    <3>2. CASE i > Len(newMessages)
      <4> DEFINE k == i - Len(newMessages)
      <4>1. i <= Len(newMessages) + Len(results) /\ i \in Nat
        BY <2>4, <2>7, HistoryTyping, SMTT(60)
      <4>2. k \in 1..Len(results) /\ Len(newMessages) + k = i
        BY <3>2, <4>1, <2>7, HistoryTyping, SMTT(60)
      <4>3. Known + k = runStart + i
        <5>1. /\ runStart \in Nat /\ Len(newMessages) \in Nat /\ Known \in Nat
              /\ i \in Nat /\ runStart + Len(newMessages) = Known
          BY <4>1, <2>3, <2>6, HistoryTyping
        <5>2. Known + (i - Len(newMessages)) = runStart + i
          BY <5>1, SMTT(60)
        <5> QED BY <5>2
      <4> HIDE DEF k
      <4> QED BY <4>2, <4>3, <2>3, <2>4
    <3> QED BY <3>1, <3>2, HistoryTyping, SMTT(60)
  <2>9. runStart + Len(newMessages') = Len(transcript)
    BY <2>3, <2>4, <2>6, <2>7, HistoryTyping, SMTT(60)
  <2>10. PromptInv' /\ ReportInv'
    BY <1>1, <1>3, <2>3, <2>8, <2>9 DEF PromptInv, ReportInv
  <2>11. ASSUME ~contextReplaced
         PROVE  /\ Len(context') = Len(transcript)
                /\ \A i \in 1..Len(transcript) : context'[i] = transcript[i]
    <3>1. /\ Len(context) = Known
          /\ \A i \in 1..Known : context[i] = transcript[i]
      BY <1>1, <2>11 DEF HistoryInv, ContextInv
    <3>2. ASSUME NEW i \in 1..Len(transcript)
          PROVE  context'[i] = transcript[i]
      <4>1. CASE i <= Known
        <5>1. i \in 1..Known
          BY <4>1, <2>3, SMTT(60)
        <5> QED BY <5>1, <2>5, <3>1
      <4>2. CASE i > Known
        <5> DEFINE k == i - Known
        <5>1. k \in 1..Len(results) /\ Known + k = i
          BY <4>2, <2>3, <2>7, HistoryTyping, SMTT(60)
        <5> HIDE DEF k
        <5> QED BY <5>1, <2>3, <2>5, <3>1
      <4> QED BY <4>1, <4>2, <2>3, SMTT(60)
    <3> QED BY <3>1, <3>2, <2>3, <2>5
  <2>12. ContextInv'
    BY <1>1, <1>3, <2>3, <2>11 DEF ContextInv
  <2> QED BY <2>10, <2>12 DEF HistoryInv
<1> QED BY <1>1, <1>2, <1>3

LEMMA HistoryStep ==
    ASSUME TypeInv, IdleIsClean, BlockInv, WaitingInv, HistoryInv, Next
    PROVE  HistoryInv'
<1> USE DEF PromptPoints, LevelPoints, ToolPoints, CallPoints, ResultPoints
<1>1. CASE pc' \notin PromptPoints \cup LevelPoints \cup ToolPoints \cup {"turn_end"}
  BY <1>1 DEF HistoryInv, PromptInv, ReportInv, ContextInv
<1>2. CASE UNCHANGED <<pc, prompts, historyVars>>
  <2>1. Known' = Known
    BY <1>2 DEF Known, ReplyPlace, historyVars
  <2> QED BY <1>2, <2>1 DEF HistoryInv, PromptInv, ReportInv, ContextInv, historyVars
<1>3. CASE UNCHANGED <<prompts, historyVars>> /\ pc \in PromptPoints /\ pc' \in PromptPoints
  BY <1>3 DEF HistoryInv, PromptInv, ReportInv, ContextInv, historyVars
<1>4. CASE /\ UNCHANGED historyVars
           /\ pc \in LevelPoints \ {"streaming", "reply_end"}
           /\ pc' \in LevelPoints \ {"streaming", "reply_end"}
  <2>1. Known' = Known
    BY <1>4 DEF Known, historyVars
  <2> QED BY <1>4, <2>1 DEF HistoryInv, PromptInv, ReportInv, ContextInv, historyVars
<1>5. CASE /\ UNCHANGED historyVars
           /\ pc \in ToolPoints \cup {"turn_end"} /\ pc' \in ToolPoints \cup {"turn_end"}
  <2>1. Known' = Known
    BY <1>5 DEF Known, ReplyPlace, historyVars
  <2> QED BY <1>5, <2>1 DEF HistoryInv, PromptInv, ReportInv, ContextInv, historyVars
<1>6. CASE Reset
  BY <1>6 DEF Reset, IdleIsClean, HistoryInv, PromptInv, ReportInv, ContextInv
<1>7. CASE PrepareNextTurn
  <2>1. /\ pc = "prepare_next_turn" /\ pc' \in {"should_stop", "fail_message_start"}
        /\ UNCHANGED <<transcript, newMessages, runStart>>
        /\ UNCHANGED <<context, contextReplaced>> \/ contextReplaced' = TRUE
    BY <1>7 DEF PrepareNextTurn, Await, LoopFrame, stateVars
  <2>2. pc' = "should_stop" => Known' = Known
    BY <2>1 DEF Known
  <2> QED BY <2>1, <2>2, SMTT(60) DEF HistoryInv, PromptInv, ReportInv, ContextInv
<1> QED BY <1>1, <1>2, <1>3, <1>4, <1>5, <1>6, <1>7, HistoryMoves, StartHistoryStep,
           PromptEndHistory, PollInitialHistory, InjectEndHistory, StreamHistory,
           ReplyHistory, ResultHistory, TurnEndHistory DEF HistoryInv

-----------------------------------------------------------------------------
(* The end of a failed run.                                                *)

\* A run starts at the end of the transcript and only adds to it; once
\* handleRunFailure emitted its message, that message is the last one.
FailureInv ==
    /\ pc = "idle" => runStart = 0
    /\ runStart <= Len(transcript)
    /\ pc \in {"fail_turn_end", "fail_agent_end"} =>
          runStart < Len(transcript) /\ transcript[Len(transcript)] = reply

Starts == Prompt \/ ContinueSteering \/ ContinueFollowUp \/ RunContinuation

LEMMA RunStartMoves ==
    ASSUME Next
    PROVE  \/ /\ UNCHANGED runStart
              /\ pc' \notin {"idle", "fail_turn_end", "fail_agent_end"}
           \/ UNCHANGED <<runStart, pc, reply>>
           \/ Starts \/ FailMessageEnd \/ FailTurnEnd \/ FinishRun
<1> USE DEF runVars, LoopFrame
<1>1. CASE Api
  BY <1>1 DEF Api, Steer, FollowUp, ClearSteeringQueue, ClearFollowUpQueue, Abort, Reset, Starts
<1>2. CASE RunStep
  BY <1>2 DEF RunStep, AgentStart, FirstTurnStart, PromptStart, PromptEnd, PollInitial,
     TurnStart, InjectStart, InjectEnd, StreamFails, StreamStart, StreamFinal,
     StreamFinalOnly, ReplyEnd, ToolStart, PrepareImmediate, PreparePrepared, ToolExecute,
     ToolWait, ToolEnd, ToolNext, Launch, WaitAll, ResultStart, ResultEnd, TurnEnd,
     TurnEndStopped, PrepareNextTurn, ShouldStopAfterTurn, PollSteering, PollFollowUp,
     AgentEnd, FailMessageStart, FailAgentEnd, Emit, Await, EmitFailure
<1>3. CASE StreamUpdate \/ \E c \in Calls : ToolUpdate(c) \/ ToolSettle(c) \/ TaskEnd(c)
  BY <1>3 DEF StreamUpdate, Emit, Await, ToolUpdate, ToolSettle, TaskEnd, TaskFrame
<1> QED BY <1>1, <1>2, <1>3 DEF Next

\* What the steps that change the transcript do to it.
LEMMA TranscriptGrows ==
    ASSUME TypeInv, BlockInv, WaitingInv, KindInv, Next
    PROVE  \/ UNCHANGED transcript
           \/ Reset
           \/ /\ \E m \in Message : transcript' = Append(transcript, m)
              /\ pc \notin {"idle", "fail_turn_end", "fail_agent_end"}
<1>1. CASE PromptEnd
  <2>1. prompts # <<>> /\ transcript' = Append(transcript, Head(prompts)) /\ pc = "prompt_end"
    BY <1>1 DEF PromptEnd, TypeInv, Positions, ReduceMessageEnd
  <2> QED BY <2>1, MessageTyping, HeadTailType
<1>2. CASE InjectEnd
  <2>1. pending # <<>> /\ transcript' = Append(transcript, Head(pending)) /\ pc = "inject_end"
    BY <1>2 DEF InjectEnd, TypeInv, Positions, ReduceMessageEnd
  <2> QED BY <2>1, MessageTyping, HeadTailType
<1>3. CASE ReplyEnd \/ FailMessageEnd \/ ResultEnd
  <2>1. pc \in {"reply_end", "fail_message_end", "result_end"}
    BY <1>3 DEF ReplyEnd, FailMessageEnd, ResultEnd
  <2> QED BY <1>3, <2>1, LoopMessages
<1> QED BY <1>1, <1>2, <1>3, TranscriptMoves

LEMMA FailureStep ==
    ASSUME TypeInv, IdleIsClean, BlockInv, WaitingInv, KindInv, FailureInv, Next
    PROVE  FailureInv'
<1>1. /\ Len(transcript) \in Nat /\ runStart \in Nat /\ transcript \in Seq(Message)
      /\ reply \in Message
  BY HistoryTyping, MessageTyping
<1>2. CASE Reset
  <2>1. /\ pc = "idle" /\ runStart = 0 /\ transcript' = <<>>
        /\ UNCHANGED <<pc, runStart>>
    BY <1>2 DEF Reset, IdleIsClean, FailureInv, runVars
  <2> QED BY <2>1, SMTT(60) DEF FailureInv
<1>3. CASE Starts
  <2>1. runStart' = Len(transcript) /\ transcript' = transcript /\ pc' = "agent_start"
    BY <1>3 DEF Starts, Prompt, ContinueSteering, ContinueFollowUp, RunContinuation, StartRun
  <2> QED BY <1>1, <2>1, SMTT(60) DEF FailureInv
<1>4. CASE FailMessageEnd
  <2>1. /\ transcript' = Append(transcript, reply) /\ UNCHANGED <<runStart, reply>>
        /\ pc' \in {"fail_turn_end", "finish"}
    BY <1>4 DEF FailMessageEnd, ReduceMessageEnd, LoopFrame, EmitFailure
  <2>2. Len(transcript') = Len(transcript) + 1 /\ transcript'[Len(transcript) + 1] = reply
    BY <1>1, <2>1, AppendIndex
  <2> QED BY <1>1, <2>1, <2>2, SMTT(60) DEF FailureInv
<1>5. CASE FailTurnEnd
  <2>1. /\ UNCHANGED <<transcript, runStart, reply>> /\ pc = "fail_turn_end"
        /\ pc' \in {"fail_agent_end", "finish"}
    BY <1>5 DEF FailTurnEnd, stateVars, LoopFrame, EmitFailure
  <2> QED BY <2>1 DEF FailureInv
<1>6. CASE FinishRun
  <2>1. runStart' = 0 /\ transcript' = transcript /\ pc' = "idle"
    BY <1>6 DEF FinishRun
  <2> QED BY <1>1, <2>1, SMTT(60) DEF FailureInv
<1>7. CASE ~Reset /\ UNCHANGED <<runStart, pc, reply>>
  <2>1. CASE UNCHANGED transcript
    BY <1>7, <2>1 DEF FailureInv
  <2>2. CASE UNCHANGED transcript \/ pc \notin {"idle", "fail_turn_end", "fail_agent_end"}
    <3>1. runStart <= Len(transcript')
      BY <1>1, <1>7, TranscriptGrows, AppendIndex, SMTT(60) DEF FailureInv
    <3> QED BY <1>7, <2>1, <2>2, <3>1 DEF FailureInv
  <2> QED BY <1>7, <2>1, <2>2, TranscriptGrows
<1>8. CASE /\ ~Reset /\ UNCHANGED runStart
           /\ pc' \notin {"idle", "fail_turn_end", "fail_agent_end"}
  <2>1. runStart <= Len(transcript')
    BY <1>1, <1>8, TranscriptGrows, AppendIndex, SMTT(60) DEF FailureInv
  <2> QED BY <1>8, <2>1 DEF FailureInv
<1> QED BY <1>2, <1>3, <1>4, <1>5, <1>6, <1>7, <1>8, RunStartMoves

-----------------------------------------------------------------------------
(* The invariants together, and what they say of every behaviour.          *)

LoopInv ==
    KindInv /\ OrderInv /\ ResultsFollowTheirCalls /\ NoMessageLost /\ HistoryInv /\ FailureInv

LEMMA LoopInit == Init => LoopInv
<1> USE DEF Init
<1>1. Len(<<>>) = 0
  OBVIOUS
<1>2. Init => KindInv /\ OrderInv
  BY <1>1, SMTT(60) DEF KindInv, OrderInv, Held, Issued, InOrder, Precedes
<1>3. Init => ResultsFollowTheirCalls
  BY <1>1, SMTT(60) DEF ResultsFollowTheirCalls
<1>4. Init => NoMessageLost
  BY SMTT(60) DEF NoMessageLost
<1>5. Init => HistoryInv
  BY DEF HistoryInv, PromptInv, ReportInv, ContextInv, ToolPoints, CallPoints,
     ResultPoints, PromptPoints, LevelPoints
<1>6. Init => FailureInv
  BY <1>1, SMTT(60) DEF FailureInv
<1> QED BY <1>2, <1>3, <1>4, <1>5, <1>6 DEF LoopInv

LEMMA LoopStutter ==
    ASSUME LoopInv, UNCHANGED vars
    PROVE  LoopInv'
<1> USE DEF LoopInv, vars, apiVars, queueVars, stateVars, runVars, contextVars, batchVars,
            toolVars
<1>1. KindInv' /\ OrderInv'
  BY DEF KindInv, OrderInv
<1>2. ResultsFollowTheirCalls' /\ NoMessageLost'
  BY SMTT(60) DEF ResultsFollowTheirCalls, NoMessageLost, Ids
<1>3. HistoryInv'
  BY DEF HistoryInv, PromptInv, ReportInv, ContextInv, Known, ReplyPlace
<1>4. FailureInv'
  BY DEF FailureInv
<1> QED BY <1>1, <1>2, <1>3, <1>4

LEMMA LoopInvariant == Spec => []LoopInv
<1>1. TypeInv /\ IdleIsClean /\ WorkInv /\ LoopInv /\ [Next]_vars => LoopInv'
  <2> SUFFICES ASSUME TypeInv, IdleIsClean, WorkInv, LoopInv, [Next]_vars
               PROVE  LoopInv'
    OBVIOUS
  <2>1. CASE Next
    BY <2>1, MessagesStep, ResultsStep, LostStep, HistoryStep, FailureStep DEF LoopInv, WorkInv
  <2>2. CASE UNCHANGED vars
    BY <2>2, LoopStutter
  <2> QED BY <2>1, <2>2
<1> QED BY <1>1, LoopInit, TypeInvariant, IdleIsCleanInvariant, WorkInvariant, PTL DEF Spec

\* Messages of each queue enter the transcript in the order they were queued
\* (steer, followUp and prompt of agent.ts), none of them twice, across runs,
\* aborts and failures.
THEOREM QueuedInOrderInvariant == Spec => []QueuedInOrder
<1>1. LoopInv => QueuedInOrder
  BY DEF LoopInv, OrderInv, InOrder, Older, QueuedInOrder
<1> QED BY <1>1, LoopInvariant, PTL

\* As long as no listener or hook threw, no message handed to the agent is
\* lost: every poll of runLoop moves what it drains into the transcript.
THEOREM NoMessageLostInvariant == Spec => []NoMessageLost
<1>1. LoopInv => NoMessageLost
  BY DEF LoopInv
<1> QED BY <1>1, LoopInvariant, PTL

\* Every tool result stands directly behind its assistant message, in the
\* source order of the calls, whatever the order the tools finished in.
THEOREM ResultsFollowTheirCallsInvariant == Spec => []ResultsFollowTheirCalls
<1>1. LoopInv => ResultsFollowTheirCalls
  BY DEF LoopInv
<1> QED BY <1>1, LoopInvariant, PTL

LEMMA SameMessages ==
    ASSUME NEW s \in Seq(Message), NEW t \in Seq(Message), Len(s) = Len(t),
           \A i \in 1..Len(s) : s[i] = t[i]
    PROVE  s = t
BY SMTT(60)

\* The provider is asked with exactly the transcript the Agent holds: the copy
\* runLoop keeps and the one processEvents keeps never drift apart.
THEOREM ContextIsTranscriptInvariant == Spec => []ContextIsTranscript
<1>1. TypeInv /\ LoopInv => ContextIsTranscript
  <2> SUFFICES ASSUME TypeInv, LoopInv, pc = "stream", ~contextReplaced
               PROVE  context = transcript
    BY DEF ContextIsTranscript
  <2>1. Known = Len(transcript)
    BY DEF Known, ToolPoints, CallPoints, ResultPoints
  <2>2. Len(context) = Len(transcript) /\ \A i \in 1..Len(context) : context[i] = transcript[i]
    BY <2>1 DEF LoopInv, HistoryInv, ContextInv, LevelPoints
  <2> QED BY <2>2, SameMessages, HistoryTyping, MessageTyping
<1> QED BY <1>1, LoopInvariant, TypeInvariant, PTL

\* The agent_end of runLoop reports exactly the messages its run added to the
\* transcript, the one of handleRunFailure the failure message, the last of them.
THEOREM AgentEndReportsRunInvariant == Spec => []AgentEndReportsRun
<1> DEFINE added == SubSeq(transcript, runStart + 1, Len(transcript))
<1>1. TypeInv /\ LoopInv /\ pc = "agent_end" => Reported = added
  <2> SUFFICES ASSUME TypeInv, LoopInv, pc = "agent_end"
               PROVE  newMessages = added
    BY DEF Reported
  <2>1. Known = Len(transcript)
    BY DEF Known, ToolPoints, CallPoints, ResultPoints
  <2>2. /\ runStart + Len(newMessages) = Len(transcript)
        /\ \A i \in 1..Len(newMessages) : newMessages[i] = transcript[runStart + i]
    BY <2>1 DEF LoopInv, HistoryInv, ReportInv, LevelPoints
  <2>3. /\ transcript \in Seq(Message) /\ newMessages \in Seq(Message)
        /\ runStart \in Nat /\ Len(transcript) \in Nat /\ Len(newMessages) \in Nat
    BY HistoryTyping, MessageTyping
  <2>4. added \in Seq(Message) /\ Len(added) = Len(newMessages)
    BY <2>2, <2>3, SMTT(60)
  <2>5. \A i \in 1..Len(newMessages) : added[i] = transcript[runStart + i]
    BY <2>2, <2>3, SMTT(60)
  <2> HIDE DEF added
  <2> QED BY <2>2, <2>3, <2>4, <2>5, SameMessages
<1>2. TypeInv /\ LoopInv /\ pc = "fail_agent_end" =>
          added # <<>> /\ Reported = <<added[Len(added)]>>
  <2> SUFFICES ASSUME TypeInv, LoopInv, pc = "fail_agent_end"
               PROVE  added # <<>> /\ added[Len(added)] = reply
    BY DEF Reported
  <2>1. runStart < Len(transcript) /\ transcript[Len(transcript)] = reply
    BY DEF LoopInv, FailureInv
  <2>2. transcript \in Seq(Message) /\ runStart \in Nat /\ Len(transcript) \in Nat
    BY HistoryTyping, MessageTyping
  <2>3. /\ Len(added) = Len(transcript) - runStart
        /\ added[Len(transcript) - runStart] = transcript[Len(transcript)]
    BY <2>1, <2>2, SMTT(60)
  <2>4. Len(added) # 0
    BY <2>1, <2>2, <2>3, SMTT(60)
  <2>5. Len(<<>>) = 0
    OBVIOUS
  <2> HIDE DEF added
  <2> QED BY <2>1, <2>3, <2>4, <2>5
<1>3. TypeInv /\ LoopInv => AgentEndReportsRun
  BY <1>1, <1>2 DEF AgentEndReportsRun
<1> QED BY <1>3, LoopInvariant, TypeInvariant, PTL
=============================================================================
