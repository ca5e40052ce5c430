------------------------- MODULE LiveSessionsProofs -------------------------
(***************************************************************************)
(* What the session server guarantees for every number of connections,     *)
(* requests and openings: exclusive runtimes, operations that keep their   *)
(* runtime, and attached connections that control it.                      *)
(***************************************************************************)
EXTENDS LiveSessions, FiniteSetTheorems, TLAPS

\* Each leaf goes to Zenon unless it names another prover.
USE ZenonT(60)

-----------------------------------------------------------------------------
(* The inductive invariant.                                                *)

CloseSteps == {"open", "listeners", "connections", "opening", "disposing",
               "closed", "rejected", "failed"}

TypeInv ==
    /\ closing \in BOOLEAN /\ closeStep \in CloseSteps
    /\ closeWaits \in 0 .. MaxLives
    /\ conn \in [Conns -> ConnState]
    /\ live \in [Lives -> LiveState]
    /\ lives \in 0 .. MaxLives
    /\ liveSession \in 0 .. MaxLives /\ opening \in 0 .. MaxLives
    /\ task \in [Tasks -> TaskState \cup {Idle}]

\* Connections: a terminal one has lost its transport, a request comes from one that finished its
\* handshake, and once close() went through them none is ready.
ConnInv ==
    /\ closing <=> closeStep # "open"
    /\ \A c \in Conns : IsTerminalConnection(c) => conn[c].closed
    /\ \A t \in Tasks : task[t].step # "idle" => conn[task[t].conn].stage \in {"ready", "closing", "closed"}
    /\ closeStep \notin {"open", "listeners"} =>
          \A c \in Conns : conn[c].stage \in {"none", "closing", "closed"}

\* The stages of one live object.
Staged(l) ==
    /\ live[l].status \in {"none", "acquiring"} => live[l].runtime = "none"
    /\ live[l].status = "snapshot" => live[l].runtime = "open"
    /\ live[l].status = "failing" => live[l].runtime = "disposing"
    /\ live[l].status = "failed" => live[l].runtime \in {"none", "disposed", "undisposed"}
    /\ live[l].status # "live" => live[l].disposing = "no" /\ live[l].terminal = "no"
    /\ live[l].subscribed => live[l].status = "live"
    /\ live[l].disposing = "pending" => live[l].runtime = "disposing"
    /\ live[l].disposing = "settled" => live[l].runtime = "disposed"
    /\ live[l].disposing = "rejected" => live[l].runtime = "undisposed"
    /\ live[l].status = "live" /\ live[l].disposing = "no" =>
          closeStep \in {"disposing", "closed", "rejected", "failed"} \/ live[l].runtime = "open"

StageInv == \A l \in Lives : Staged(l)

\* Where an object that holds the runtime is: being opened, in the map, or waited for by close();
\* never in two of these places.
PlaceInv ==
    /\ \A l \in Lives : l > lives => live[l].status = "none"
    /\ opening # 0 => live[opening].status \in {"acquiring", "snapshot", "failing"}
    /\ \A l \in Lives : live[l].status \in {"acquiring", "snapshot", "failing"} => opening = l
    /\ opening # 0 => liveSession = 0
    /\ liveSession # 0 => /\ live[liveSession].status = "live"
                          /\ live[liveSession].disposing \notin {"settled", "rejected"}
    /\ \A l \in Lives : Holds(l) => \/ l = opening \/ l = liveSession
                                    \/ closeStep = "disposing" /\ l = closeWaits
    /\ closeStep = "disposing" /\ closeWaits # 0 /\ Holds(closeWaits) => opening = 0 /\ liveSession = 0
    /\ closeStep = "disposing" /\ closeWaits # 0 => live[closeWaits].status = "live"

\* A request that waits for a disposal which has settled finds nobody holding a runtime but the
\* object being opened.
WaitInv ==
    /\ \A t \in Tasks : task[t].step = "disposing" => live[task[t].live].disposing # "no"
    /\ \A t \in Tasks : task[t].step = "disposing" /\ live[task[t].live].disposing = "settled" =>
          \A l \in Lives : Holds(l) => l = opening

Operations(l) == {t \in Tasks : task[t].step = "operation" /\ task[t].live = l}

\* operationCount counts the operations in flight, and they keep the object from being disposed.
OperationInv ==
    /\ \A l \in Lives : live[l].operationCount = Cardinality(Operations(l))
    /\ \A t \in Tasks : task[t].step = "operation" =>
          live[task[t].live].status = "live" /\ live[task[t].live].disposing = "no"

\* No transport closed and the server does not close.
Undisturbed == ~closing /\ \A c \in Conns : ~conn[c].closed

Usable(l) == live[l].disposing = "no" /\ live[l].terminal = "no"

\* Undisturbed, attached connections are those of the object in the map, and requests resume on it.
AttachInv ==
    Undisturbed =>
        /\ \A c \in Conns : conn[c].attached =>
              liveSession # 0 /\ c \in live[liveSession].connections /\ Usable(liveSession)
        /\ \A t \in Tasks : task[t].step = "opening" /\ live[task[t].live].status = "live" =>
              task[t].live = liveSession /\ Usable(liveSession)

LiveInv == TypeInv /\ ConnInv /\ StageInv /\ PlaceInv /\ WaitInv /\ OperationInv /\ AttachInv
-----------------------------------------------------------------------------
(* maybeDispose() as the proofs see it.                                    *)

\* maybeDispose keeps everything but the runtime, the subscription and the disposal, and touches
\* those only for an object that is live, unused and not being disposed.
LEMMA MaybeDisposeEffect ==
    ASSUME NEW r \in LiveState
    PROVE  /\ MaybeDispose(r) \in LiveState
           /\ MaybeDispose(r).status = r.status
           /\ MaybeDispose(r).connections = r.connections
           /\ MaybeDispose(r).operationCount = r.operationCount
           /\ MaybeDispose(r).terminal = r.terminal
           /\ MaybeDispose(r).subscribed => r.subscribed
           /\ \/ MaybeDispose(r).runtime = r.runtime /\ MaybeDispose(r).disposing = r.disposing
              \/ /\ ~closing /\ r.status = "live" /\ r.disposing = "no"
                 /\ r.connections = {} /\ r.operationCount = 0
                 /\ MaybeDispose(r).runtime = "disposing"
                 /\ MaybeDispose(r).disposing = "pending"
<1>1. CASE CanDispose(r)
  <2> DEFINE m == [r EXCEPT !.disposing = "pending", !.subscribed = FALSE, !.runtime = "disposing"]
  <2>1. m \in LiveState /\ m.status = r.status /\ m.connections = r.connections
        /\ m.operationCount = r.operationCount /\ m.terminal = r.terminal
        /\ m.runtime = "disposing" /\ m.disposing = "pending" /\ ~m.subscribed
    BY DEF LiveState
  <2>2. MaybeDispose(r) = m
    BY <1>1 DEF MaybeDispose
  <2> HIDE DEF m
  <2> QED BY <1>1, <2>1, <2>2 DEF CanDispose
<1>2. CASE ~CanDispose(r)
  <2>1. MaybeDispose(r) = r
    BY <1>2 DEF MaybeDispose
  <2> QED BY <2>1
<1> QED BY <1>1, <1>2

SameLife(l) ==
    /\ live'[l].status = live[l].status
    /\ live'[l].runtime = live[l].runtime
    /\ live'[l].disposing = live[l].disposing

StartsDisposal(l) ==
    /\ ~closing /\ live[l].status = "live" /\ live[l].disposing = "no"
    /\ live'[l].connections = {} /\ live'[l].operationCount = 0
    /\ live'[l].status = "live"
    /\ live'[l].runtime = "disposing" /\ live'[l].disposing = "pending"

\* A step that changes the maps not at all and a live object at most by starting its disposal.
Tame ==
    /\ UNCHANGED <<server, maps>>
    /\ \A l \in Lives : /\ SameLife(l) \/ StartsDisposal(l)
                        /\ live'[l].terminal = live[l].terminal \/ live[l].status = "live"
                        /\ live'[l].subscribed => live[l].subscribed

\* A tame step keeps the stages of every object.
LEMMA TameStages ==
    ASSUME TypeInv, StageInv, Tame
    PROVE  StageInv'
<1>1. closeStep' = closeStep
  BY DEF Tame, server
<1>2. ASSUME NEW l \in Lives PROVE Staged(l)'
  <2>1. Staged(l) /\ (SameLife(l) \/ StartsDisposal(l))
    BY DEF StageInv, Tame
  <2>2. CASE SameLife(l)
    BY <1>1, <2>1, <2>2 DEF Staged, Tame, SameLife
  <2>3. CASE StartsDisposal(l)
    BY <1>1, <2>1, <2>3 DEF Staged, Tame, StartsDisposal
  <2> QED BY <2>1, <2>2, <2>3
<1> QED BY <1>2 DEF StageInv

\* A tame step keeps every object that holds a runtime where it is.
LEMMA TamePlaces ==
    ASSUME TypeInv, ConnInv, StageInv, PlaceInv, Tame
    PROVE  PlaceInv'
<1>1. \A l \in Lives : Holds(l)' => Holds(l)
  BY DEF TypeInv, ConnInv, StageInv, Staged, Tame, SameLife, StartsDisposal, server, maps, LiveState, Holds
<1>2. \A l \in Lives : live'[l].status = live[l].status
  BY DEF Tame, SameLife, StartsDisposal
<1>3. liveSession # 0 => live'[liveSession].disposing \notin {"settled", "rejected"}
  BY SMTT(60) DEF PlaceInv, Tame, SameLife, StartsDisposal, TypeInv, Lives
<1> QED BY <1>1, <1>2, <1>3, SMTT(60) DEF TypeInv, PlaceInv, Tame, server, maps, Lives

\* A tame step that starts no wait for a disposal but for a pending one keeps the waits sound.
LEMMA TameWaits ==
    ASSUME TypeInv, ConnInv, StageInv, PlaceInv, WaitInv, Tame,
           TypeInv',
           \A t \in Tasks : task'[t].step = "disposing" =>
               \/ task'[t] = task[t]
               \/ live[task'[t].live].disposing = "pending"
    PROVE  WaitInv'
<1>1. \A l \in Lives : Holds(l)' => Holds(l)
  BY DEF TypeInv, ConnInv, StageInv, Staged, Tame, SameLife, StartsDisposal, server, maps, LiveState, Holds
<1>2. \A t \in Tasks : task'[t].step = "disposing" => task'[t].live \in Lives
  BY SMTT(60) DEF TypeInv, TaskState, Idle
<1>3. \A l \in Lives : /\ live[l].disposing # "no" => live'[l].disposing # "no"
                       /\ live'[l].disposing = "settled" => live[l].disposing = "settled"
  BY DEF Tame, SameLife, StartsDisposal
<1> QED BY <1>1, <1>2, <1>3, SMTT(60) DEF WaitInv, Tame, maps
\* What the objects count, and that it is what runs.
CountInv == \A l \in Lives : live[l].operationCount = Cardinality(Operations(l))

\* A step that starts and ends no operation keeps the counts right.
LEMMA SameCounts ==
    ASSUME OperationInv,
           \A l \in Lives : live'[l].operationCount = live[l].operationCount,
           \A t \in Tasks : /\ task'[t].step = "operation" <=> task[t].step = "operation"
                            /\ task[t].step = "operation" => task'[t] = task[t]
    PROVE  CountInv'
<1>1. \A l \in Lives : Operations(l)' = Operations(l)
  BY DEF Operations
<1> QED BY <1>1 DEF CountInv, OperationInv

\* A tame step never disposes an object that an operation runs on.
LEMMA TameOperations ==
    ASSUME TypeInv, OperationInv, Tame, TypeInv', CountInv',
           \A t \in Tasks : task'[t].step = "operation" =>
               \/ task'[t] = task[t]
               \/ live[task'[t].live].status = "live" /\ live[task'[t].live].disposing = "no"
    PROVE  OperationInv'
<1> SUFFICES ASSUME NEW t \in Tasks, task'[t].step = "operation"
             PROVE  live'[task'[t].live].status = "live" /\ live'[task'[t].live].disposing = "no"
  BY DEF OperationInv, CountInv
<1>1. PICK l \in Lives : task'[t].live = l
  BY SMTT(60) DEF TypeInv, TaskState, Idle
<1>2. live[l].status = "live" /\ live[l].disposing = "no"
  BY <1>1 DEF OperationInv
<1>3. t \in Operations(l)' /\ IsFiniteSet(Operations(l)')
  <2>1. Operations(l)' \subseteq Tasks
    BY DEF Operations
  <2>2. t \in Operations(l)'
    BY <1>1 DEF Operations
  <2> QED BY <2>1, <2>2, FS_Subset, TasksAssumption
<1>4. Cardinality(Operations(l)') # 0
  BY <1>3, FS_EmptySet
<1>5. ~StartsDisposal(l)
  BY <1>1, <1>4 DEF StartsDisposal, CountInv
<1> QED BY <1>1, <1>2, <1>5 DEF Tame, SameLife

\* A tame step that runs when no continuation is due leaves attached connections in control.
LEMMA TameAttached ==
    ASSUME TypeInv, Tame, Drained, TypeInv',
           AttachInv,
           \A c \in Conns : conn[c].closed => conn'[c].closed,
           Undisturbed /\ Undisturbed' => \A c \in Conns : conn'[c].attached =>
               /\ liveSession # 0 /\ c \in live'[liveSession].connections
               /\ live'[liveSession].terminal = "no" /\ live[liveSession].disposing = "no",
           \A t \in Tasks : task'[t].step = "opening" =>
               \/ task'[t] = task[t]
               \/ live[task'[t].live].status # "live"
    PROVE  AttachInv'
<1> SUFFICES ASSUME Undisturbed'
             PROVE  /\ \A c \in Conns : conn'[c].attached =>
                          /\ liveSession # 0 /\ c \in live'[liveSession].connections
                          /\ live'[liveSession].disposing = "no" /\ live'[liveSession].terminal = "no"
                    /\ \A t \in Tasks : task'[t].step = "opening" => live'[task'[t].live].status # "live"
  BY DEF AttachInv, Tame, maps, Usable
<1>1. Undisturbed
  BY DEF Undisturbed, Tame, server
<1>2. ASSUME NEW c \in Conns, conn'[c].attached
      PROVE  /\ liveSession # 0 /\ c \in live'[liveSession].connections
             /\ live'[liveSession].disposing = "no" /\ live'[liveSession].terminal = "no"
  <2>1. liveSession # 0 /\ c \in live'[liveSession].connections
        /\ live'[liveSession].terminal = "no" /\ live[liveSession].disposing = "no"
    BY <1>1, <1>2
  <2>2. liveSession \in Lives
    BY <2>1, SMTT(60) DEF TypeInv, Lives
  <2> QED BY <2>1, <2>2 DEF Tame, SameLife, StartsDisposal
<1>3. ASSUME NEW t \in Tasks, task'[t].step = "opening"
      PROVE  live'[task'[t].live].status # "live"
  <2>1. task'[t].live \in Lives
    BY <1>3, SMTT(60) DEF TypeInv, TaskState, Idle
  <2>2. live[task'[t].live].status # "live"
    BY <1>3 DEF Drained
  <2> QED BY <2>1, <2>2 DEF Tame, SameLife, StartsDisposal
<1> QED BY <1>2, <1>3

-----------------------------------------------------------------------------
(* Connections.                                                            *)

\* The steps of a connection that change nothing but its stage and its transport.
LEMMA ConnectionStep ==
    ASSUME LiveInv, Drained, NEW c \in Conns, NEW x \in ConnState,
           conn' = [conn EXCEPT ![c] = x],
           UNCHANGED <<server, live, maps, task>>,
           x.attached = conn[c].attached,
           conn[c].closed => x.closed,
           x.stage \in {"closing", "closed"} => x.closed,
           conn[c].stage \in {"ready", "closing", "closed"} => x.stage \in {"ready", "closing", "closed"},
           closeStep \notin {"open", "listeners"} => x.stage \in {"none", "closing", "closed"}
    PROVE  LiveInv'
<1>1. TypeInv'
  BY DEF LiveInv, TypeInv, server, maps
<1>2. ConnInv'
  BY SMTT(60) DEF LiveInv, TypeInv, ConnInv, server, maps, IsTerminalConnection
<1>3. Tame
  BY DEF Tame, SameLife, server, maps
<1>4. StageInv' /\ PlaceInv'
  BY <1>3, TameStages, TamePlaces DEF LiveInv
<1>5. WaitInv'
  BY <1>1, <1>3, TameWaits DEF LiveInv
<1>6. OperationInv'
  BY <1>1, <1>3, SameCounts, TameOperations DEF LiveInv
<1>7. AttachInv'
  <2>1. \A d \in Conns : conn[d].closed => conn'[d].closed
    BY DEF LiveInv, TypeInv
  <2>2. Undisturbed => \A d \in Conns : conn'[d].attached =>
               /\ liveSession # 0 /\ d \in live'[liveSession].connections
               /\ live'[liveSession].terminal = "no" /\ live[liveSession].disposing = "no"
    BY DEF LiveInv, TypeInv, AttachInv, Usable
  <2> QED BY <1>1, <1>3, <2>1, <2>2, TameAttached DEF LiveInv
<1> QED BY <1>1, <1>2, <1>4, <1>5, <1>6, <1>7 DEF LiveInv

\* accept(), the handshake, its failures, and a transport that closes.
LEMMA HandshakeSteps ==
    ASSUME LiveInv, Drained, NEW c \in Conns,
           \/ Accept(c) \/ Hello(c) \/ HandshakeListed(c) \/ HandshakeSent(c)
           \/ HandshakeTimeout(c) \/ ProtocolError(c) \/ TransportCloses(c)
    PROVE  LiveInv'
<1> DEFINE At(stage) == [conn[c] EXCEPT !.stage = stage]
           Closing == [conn[c] EXCEPT !.stage = "closing", !.closed = TRUE]
           Lost == [conn[c] EXCEPT !.closed = TRUE]
<1>1. conn[c] \in ConnState
  BY DEF LiveInv, TypeInv
<1>2. /\ closing <=> closeStep # "open"
      /\ IsTerminalConnection(c) => conn[c].closed
      /\ closeStep \notin {"open", "listeners"} => conn[c].stage \in {"none", "closing", "closed"}
  BY DEF LiveInv, ConnInv
<1>3. /\ \A s \in {"awaitingHello", "handshaking", "sendingHello", "ready"} :
            /\ At(s) \in ConnState /\ At(s).stage = s
            /\ At(s).attached = conn[c].attached /\ At(s).closed = conn[c].closed
      /\ Closing \in ConnState /\ Closing.stage = "closing"
      /\ Closing.attached = conn[c].attached /\ Closing.closed
      /\ Lost \in ConnState /\ Lost.stage = conn[c].stage
      /\ Lost.attached = conn[c].attached /\ Lost.closed
  BY <1>1 DEF ConnState
<1>4. CASE Accept(c)
  <2>1. conn' = [conn EXCEPT ![c] = At("awaitingHello")]
    BY <1>4 DEF Accept
  <2> HIDE DEF At
  <2> QED BY <1>2, <1>3, <1>4, <2>1, ConnectionStep DEF Accept
<1>5. CASE Hello(c)
  <2>1. conn' = [conn EXCEPT ![c] = At("handshaking")]
    BY <1>5 DEF Hello
  <2> HIDE DEF At
  <2> QED BY <1>2, <1>3, <1>5, <2>1, ConnectionStep DEF Hello
<1>6. CASE HandshakeListed(c)
  <2>1. conn' = [conn EXCEPT ![c] = At("sendingHello")]
    BY <1>6 DEF HandshakeListed
  <2> HIDE DEF At
  <2> QED BY <1>2, <1>3, <1>6, <2>1, ConnectionStep DEF HandshakeListed
<1>7. CASE HandshakeSent(c)
  <2>1. conn' = [conn EXCEPT ![c] = At("ready")]
    BY <1>7 DEF HandshakeSent
  <2> HIDE DEF At
  <2> QED BY <1>2, <1>3, <1>7, <2>1, ConnectionStep DEF HandshakeSent
<1>8. CASE HandshakeTimeout(c) \/ ProtocolError(c)
  <2>1. FailProtocol(c)
    BY <1>8 DEF HandshakeTimeout, ProtocolError
  <2>2. conn' = [conn EXCEPT ![c] = Closing]
    BY <2>1 DEF FailProtocol
  <2> HIDE DEF Closing
  <2> QED BY <1>2, <1>3, <2>1, <2>2, ConnectionStep DEF FailProtocol
<1>9. CASE TransportCloses(c)
  <2>1. conn' = [conn EXCEPT ![c] = Lost]
    BY <1>9 DEF TransportCloses
  <2> HIDE DEF Lost
  <2> QED BY <1>2, <1>3, <1>9, <2>1, ConnectionStep DEF TransportCloses, Handshaking
<1> QED BY <1>4, <1>5, <1>6, <1>7, <1>8, <1>9
-----------------------------------------------------------------------------
(* Steps that change one live object and may start its disposal.           *)

\* What a request becomes in a tame step: it stays, ends, or waits for what is not there yet.
TameTasks ==
    \A t \in Tasks :
        \/ task'[t] = task[t]
        \/ task'[t].step \in {"idle", "detaching"}
        \/ task'[t].step = "disposing" /\ live[task'[t].live].disposing = "pending"
        \/ task'[t].step = "opening" /\ live[task'[t].live].status # "live"
        \/ /\ task'[t].step = "operation"
           /\ live[task'[t].live].status = "live" /\ live[task'[t].live].disposing = "no"

\* A tame step keeps all of the invariant that is not about the connections.
LEMMA TameStep ==
    ASSUME LiveInv, TypeInv', Tame, TameTasks, CountInv'
    PROVE  StageInv' /\ PlaceInv' /\ WaitInv' /\ OperationInv'
<1>1. StageInv' /\ PlaceInv'
  BY TameStages, TamePlaces DEF LiveInv
<1>2. \A t \in Tasks : task'[t].step = "disposing" =>
          task'[t] = task[t] \/ live[task'[t].live].disposing = "pending"
  BY DEF TameTasks
<1>3. \A t \in Tasks : task'[t].step = "operation" =>
          \/ task'[t] = task[t]
          \/ live[task'[t].live].status = "live" /\ live[task'[t].live].disposing = "no"
  BY DEF TameTasks
<1>4. WaitInv'
  BY <1>2, TameWaits DEF LiveInv
<1>5. OperationInv'
  BY <1>3, TameOperations DEF LiveInv
<1> QED BY <1>1, <1>4, <1>5

\* r is the object l as it is before maybeDispose looks at it.
Touched(l, r) ==
    /\ r.status = live[l].status /\ r.runtime = live[l].runtime /\ r.disposing = live[l].disposing
    /\ r.terminal = live[l].terminal \/ live[l].status = "live"
    /\ r.subscribed => live[l].subscribed

\* The effect of writing to one object, with or without a maybeDispose.
LEMMA ObjectEffect ==
    ASSUME TypeInv, NEW l \in Lives, NEW r \in LiveState, Touched(l, r),
           UNCHANGED <<server, maps>>,
           \/ live' = [live EXCEPT ![l] = r]
           \/ live' = [live EXCEPT ![l] = MaybeDispose(r)]
    PROVE  /\ live' \in [Lives -> LiveState] /\ Tame
           /\ \A k \in Lives : k # l => live'[k] = live[k]
           /\ live'[l].connections = r.connections
           /\ live'[l].operationCount = r.operationCount
           /\ live'[l].terminal = r.terminal
<1>1. live \in [Lives -> LiveState]
  BY DEF TypeInv
<1>2. CASE live' = [live EXCEPT ![l] = r]
  <2>1. live'[l] = r /\ \A k \in Lives : k # l => live'[k] = live[k]
    BY <1>1, <1>2
  <2>2. live' \in [Lives -> LiveState]
    BY <1>1, <1>2
  <2>3. \A k \in Lives : /\ SameLife(k)
                         /\ live'[k].terminal = live[k].terminal \/ live[k].status = "live"
                         /\ live'[k].subscribed => live[k].subscribed
    BY <2>1 DEF SameLife, Touched
  <2> QED BY <2>1, <2>2, <2>3 DEF Tame
<1>3. CASE live' = [live EXCEPT ![l] = MaybeDispose(r)]
  <2> DEFINE m == MaybeDispose(r)
  <2>1. /\ m \in LiveState /\ m.status = r.status /\ m.connections = r.connections
        /\ m.operationCount = r.operationCount /\ m.terminal = r.terminal
        /\ m.subscribed => r.subscribed
        /\ \/ m.runtime = r.runtime /\ m.disposing = r.disposing
           \/ /\ ~closing /\ r.status = "live" /\ r.disposing = "no"
              /\ r.connections = {} /\ r.operationCount = 0
              /\ m.runtime = "disposing" /\ m.disposing = "pending"
    BY MaybeDisposeEffect
  <2>2. live' = [live EXCEPT ![l] = m]
    BY <1>3
  <2> HIDE DEF m
  <2>3. live'[l] = m /\ \A k \in Lives : k # l => live'[k] = live[k]
    BY <1>1, <2>2
  <2>4. live' \in [Lives -> LiveState]
    BY <1>1, <2>1, <2>2
  <2>5. SameLife(l) \/ StartsDisposal(l)
    BY <2>1, <2>3 DEF SameLife, StartsDisposal, Touched
  <2>6. /\ live'[l].terminal = live[l].terminal \/ live[l].status = "live"
        /\ live'[l].subscribed => live[l].subscribed
    BY <2>1, <2>3 DEF Touched
  <2>7. \A k \in Lives : k # l => /\ SameLife(k) /\ live'[k].terminal = live[k].terminal
                                  /\ live'[k].subscribed => live[k].subscribed
    BY <2>3 DEF SameLife
  <2> QED BY <2>1, <2>3, <2>4, <2>5, <2>6, <2>7 DEF Tame
<1> QED BY <1>2, <1>3

\* The steps of a runtime and the end of a detach: one object changes, no connection, no operation.
LEMMA RuntimeStep ==
    ASSUME LiveInv, Drained, NEW l \in Lives, NEW r \in LiveState, Touched(l, r),
           \/ live' = [live EXCEPT ![l] = r]
           \/ live' = [live EXCEPT ![l] = MaybeDispose(r)],
           UNCHANGED <<server, conn, maps>>,
           r.connections = live[l].connections, r.operationCount = live[l].operationCount,
           live[l].terminal = "no" => r.terminal = "no",
           task' \in [Tasks -> TaskState \cup {Idle}],
           \A t \in Tasks : \/ task'[t] = task[t]
                            \/ task[t].step # "operation" /\ task'[t] = Idle
    PROVE  LiveInv'
<1>1. /\ live' \in [Lives -> LiveState] /\ Tame
      /\ \A k \in Lives : k # l => live'[k] = live[k]
      /\ live'[l].connections = live[l].connections
      /\ live'[l].operationCount = live[l].operationCount
      /\ live'[l].terminal = r.terminal
  BY ObjectEffect DEF LiveInv
<1>2. TypeInv'
  BY <1>1 DEF LiveInv, TypeInv, server, maps
<1>3. ConnInv'
  BY SMTT(60) DEF LiveInv, ConnInv, server, IsTerminalConnection, Idle
<1>4. CountInv'
  <2>1. \A k \in Lives : live'[k].operationCount = live[k].operationCount
    BY <1>1
  <2>2. \A t \in Tasks : /\ task'[t].step = "operation" <=> task[t].step = "operation"
                         /\ task[t].step = "operation" => task'[t] = task[t]
    BY SMTT(60) DEF Idle
  <2> QED BY <2>1, <2>2, SameCounts DEF LiveInv
<1>5. TameTasks
  BY SMTT(60) DEF TameTasks, Idle
<1>6. AttachInv'
  <2>1. Undisturbed => \A d \in Conns : conn'[d].attached =>
               /\ liveSession # 0 /\ d \in live'[liveSession].connections
               /\ live'[liveSession].terminal = "no" /\ live[liveSession].disposing = "no"
    BY <1>1, SMTT(60) DEF LiveInv, TypeInv, AttachInv, Usable, Lives
  <2>2. \A t \in Tasks : task'[t].step = "opening" => task'[t] = task[t]
    BY SMTT(60) DEF Idle
  <2> QED BY <1>1, <1>2, <2>1, <2>2, TameAttached DEF LiveInv
<1> QED BY <1>1, <1>2, <1>3, <1>4, <1>5, <1>6, TameStep DEF LiveInv

\* Events of a runtime that change its phase, end terminate(), or only call maybeDispose.
LEMMA RuntimeEvents ==
    ASSUME LiveInv, Drained, NEW l \in Lives,
           RuntimeBusy(l) \/ RuntimeIdle(l) \/ RuntimeEvent(l) \/ Terminated(l)
    PROVE  LiveInv'
<1> DEFINE InPhase(p) == [live[l] EXCEPT !.phase = p]
           Over == [live[l] EXCEPT !.terminal = "done", !.captured = {}]
<1>1. live[l] \in LiveState /\ live \in [Lives -> LiveState] /\ task \in [Tasks -> TaskState \cup {Idle}]
  BY DEF LiveInv, TypeInv
<1>2. \A p \in {"idle", "busy"} :
          /\ InPhase(p) \in LiveState /\ Touched(l, InPhase(p))
          /\ InPhase(p).connections = live[l].connections
          /\ InPhase(p).operationCount = live[l].operationCount
          /\ InPhase(p).terminal = live[l].terminal
  BY <1>1 DEF LiveState, Touched
<1>3. CASE RuntimeBusy(l)
  <2>1. live' = [live EXCEPT ![l] = InPhase("busy")]
    BY <1>3 DEF RuntimeBusy
  <2> HIDE DEF InPhase
  <2> QED BY <1>1, <1>2, <1>3, <2>1, RuntimeStep DEF RuntimeBusy
<1>4. CASE RuntimeIdle(l)
  <2>1. \/ live' = [live EXCEPT ![l] = InPhase("idle")]
        \/ live' = [live EXCEPT ![l] = MaybeDispose(InPhase("idle"))]
    BY <1>4 DEF RuntimeIdle
  <2> HIDE DEF InPhase
  <2> QED BY <1>1, <1>2, <1>4, <2>1, RuntimeStep DEF RuntimeIdle
<1>5. CASE RuntimeEvent(l)
  <2>1. live' = [live EXCEPT ![l] = MaybeDispose(live[l])]
    BY <1>5 DEF RuntimeEvent
  <2> QED BY <1>1, <1>5, <2>1, RuntimeStep DEF RuntimeEvent, Touched
<1>6. CASE Terminated(l)
  <2>1. live' = [live EXCEPT ![l] = MaybeDispose(Over)]
    BY <1>6 DEF Terminated
  <2>2. /\ Over \in LiveState /\ Over.status = live[l].status /\ Over.runtime = live[l].runtime
        /\ Over.disposing = live[l].disposing /\ Over.connections = live[l].connections
        /\ Over.operationCount = live[l].operationCount /\ Over.subscribed = live[l].subscribed
    BY <1>1 DEF LiveState
  <2>3. live[l].status = "live" /\ live[l].terminal # "no"
    BY <1>6 DEF Terminated, LiveInv, StageInv, Staged
  <2> HIDE DEF Over
  <2> QED BY <1>1, <1>6, <2>1, <2>2, <2>3, RuntimeStep DEF Terminated, Touched
<1> QED BY <1>3, <1>4, <1>5, <1>6

\* The end of a detach.
LEMMA DetachEndsStep ==
    ASSUME LiveInv, Drained, NEW t \in Tasks, DetachEnds(t)
    PROVE  LiveInv'
<1>1. PICK l \in Lives : l = task[t].live
  BY SMTT(60) DEF LiveInv, TypeInv, DetachEnds, TaskState, Idle
<1>2. live[l] \in LiveState /\ live \in [Lives -> LiveState] /\ Touched(l, live[l])
  BY DEF LiveInv, TypeInv, Touched
<1>3. live' = [live EXCEPT ![l] = live[l]] \/ live' = [live EXCEPT ![l] = MaybeDispose(live[l])]
  BY <1>1, <1>2 DEF DetachEnds
<1>4. task' \in [Tasks -> TaskState \cup {Idle}]
  BY DEF LiveInv, TypeInv, DetachEnds, Done
<1>5. \A u \in Tasks : task'[u] = task[u] \/ (task[u].step # "operation" /\ task'[u] = Idle)
  BY DEF LiveInv, TypeInv, DetachEnds, Done
<1> QED BY <1>2, <1>3, <1>4, <1>5, RuntimeStep DEF DetachEnds
\* terminate(): the transports of the attached connections close with it.
LEMMA RuntimeErrorStep ==
    ASSUME LiveInv, Drained, NEW l \in Lives, RuntimeError(l)
    PROVE  LiveInv'
<1> DEFINE r == [live[l] EXCEPT !.terminal = "closing", !.subscribed = FALSE,
                                !.captured = live[l].connections]
<1>1. /\ live[l] \in LiveState /\ live \in [Lives -> LiveState] /\ conn \in [Conns -> ConnState]
      /\ liveSession \in 0 .. MaxLives
  BY DEF LiveInv, TypeInv
<1>2. /\ r \in LiveState /\ r.status = live[l].status /\ r.runtime = live[l].runtime
      /\ r.disposing = live[l].disposing /\ r.connections = live[l].connections
      /\ r.operationCount = live[l].operationCount /\ ~r.subscribed
  BY <1>1 DEF LiveState
<1>3. live' = [live EXCEPT ![l] = r]
  BY <1>1 DEF RuntimeError
<1> HIDE DEF r
<1>4. live[l].status = "live" /\ UNCHANGED <<server, maps, task>>
  BY DEF RuntimeError, LiveInv, StageInv, Staged
<1>5. /\ live' \in [Lives -> LiveState] /\ Tame
      /\ \A k \in Lives : k # l => live'[k] = live[k]
      /\ live'[l].connections = live[l].connections
      /\ live'[l].operationCount = live[l].operationCount
  BY <1>2, <1>3, <1>4, ObjectEffect DEF LiveInv, Touched
<1>6. /\ conn' \in [Conns -> ConnState]
      /\ \A c \in Conns : /\ conn'[c].stage = conn[c].stage /\ conn'[c].attached = conn[c].attached
                          /\ conn[c].closed \/ c \in live[l].connections => conn'[c].closed
  BY <1>1 DEF RuntimeError, ConnState
<1>7. TypeInv'
  BY <1>4, <1>5, <1>6 DEF LiveInv, TypeInv, server, maps
<1>8. ConnInv'
  <2>1. \A t \in Tasks : task[t].step # "idle" => task[t].conn \in Conns
    BY SMTT(60) DEF LiveInv, TypeInv, TaskState, Idle
  <2> QED BY <1>4, <1>6, <2>1 DEF LiveInv, ConnInv, server, IsTerminalConnection
<1>9. CountInv' /\ TameTasks
  BY <1>4, <1>5, SameCounts DEF LiveInv, TameTasks
<1>10. AttachInv'
  <2>1. Undisturbed /\ Undisturbed' => \A d \in Conns : conn'[d].attached =>
               /\ liveSession # 0 /\ d \in live'[liveSession].connections
               /\ live'[liveSession].terminal = "no" /\ live[liveSession].disposing = "no"
    BY <1>1, <1>5, <1>6, SMTT(60) DEF LiveInv, AttachInv, Undisturbed, Usable, Lives
  <2> QED BY <1>4, <1>5, <1>6, <1>7, <2>1, TameAttached DEF LiveInv
<1> QED BY <1>5, <1>7, <1>8, <1>9, <1>10, TameStep DEF LiveInv

-----------------------------------------------------------------------------
(* Disconnects and detaches.                                               *)

\* c leaves the object in the map, which maybeDispose may look at.
Leaves(c) ==
    \/ UNCHANGED live /\ (conn[c].attached => liveSession = 0)
    \/ /\ liveSession # 0
       /\ LET r == [live[liveSession] EXCEPT !.connections = @ \ {c}] IN
          \/ live' = [live EXCEPT ![liveSession] = r]
          \/ live' = [live EXCEPT ![liveSession] = MaybeDispose(r)]

\* The effect of a connection leaving.
LEMMA LeavesEffect ==
    ASSUME TypeInv, NEW c \in Conns, Leaves(c), UNCHANGED <<server, maps>>
    PROVE  /\ live' \in [Lives -> LiveState] /\ Tame
           /\ \A k \in Lives : /\ live'[k].operationCount = live[k].operationCount
                               /\ live'[k].terminal = live[k].terminal
                               /\ live[k].connections \ {c} \subseteq live'[k].connections
<1>1. CASE UNCHANGED live
  BY <1>1 DEF TypeInv, Tame, SameLife
<1>2. CASE liveSession # 0 /\ ~UNCHANGED live
  <2> DEFINE r == [live[liveSession] EXCEPT !.connections = @ \ {c}]
  <2>1. liveSession \in Lives /\ live[liveSession] \in LiveState /\ live \in [Lives -> LiveState]
    BY <1>2, SMTT(60) DEF TypeInv, Lives
  <2>2. /\ r \in LiveState /\ r.operationCount = live[liveSession].operationCount
        /\ r.connections = live[liveSession].connections \ {c}
        /\ r.terminal = live[liveSession].terminal
        /\ Touched(liveSession, r)
    BY <2>1 DEF LiveState, Touched
  <2>3. \/ live' = [live EXCEPT ![liveSession] = r]
        \/ live' = [live EXCEPT ![liveSession] = MaybeDispose(r)]
    BY <1>2 DEF Leaves
  <2> HIDE DEF r
  <2>4. /\ live' \in [Lives -> LiveState] /\ Tame
        /\ \A k \in Lives : k # liveSession => live'[k] = live[k]
        /\ live'[liveSession].connections = r.connections
        /\ live'[liveSession].operationCount = r.operationCount
        /\ live'[liveSession].terminal = r.terminal
    BY <2>1, <2>2, <2>3, ObjectEffect
  <2> QED BY <2>2, <2>4
<1> QED BY <1>1, <1>2 DEF Leaves

\* disconnect().
LEMMA DisconnectStep ==
    ASSUME LiveInv, Drained, NEW c \in Conns, Disconnect(c)
    PROVE  LiveInv'
<1>1. Leaves(c) /\ UNCHANGED <<server, maps, task>>
  <2>1. CASE conn[c].attached /\ liveSession # 0
    <3>1. live' = [live EXCEPT ![liveSession] =
                      MaybeDispose([live[liveSession] EXCEPT !.connections = @ \ {c}])]
      BY <2>1 DEF Disconnect
    <3> QED BY <2>1, <3>1 DEF Disconnect, Leaves
  <2>2. CASE ~(conn[c].attached /\ liveSession # 0)
    BY <2>2 DEF Disconnect, Leaves
  <2> QED BY <2>1, <2>2
<1>2. /\ live' \in [Lives -> LiveState] /\ Tame
      /\ \A k \in Lives : live'[k].operationCount = live[k].operationCount
  BY <1>1, LeavesEffect DEF LiveInv
<1>3. /\ conn' \in [Conns -> ConnState] /\ conn'[c].closed /\ conn'[c].stage = "closed"
      /\ \A d \in Conns : d # c => conn'[d] = conn[d]
  BY DEF Disconnect, LiveInv, TypeInv, ConnState
<1>4. TypeInv'
  BY <1>1, <1>2, <1>3 DEF LiveInv, TypeInv, server, maps
<1>5. ConnInv'
  <2>1. \A t \in Tasks : task[t].step # "idle" => task[t].conn \in Conns
    BY SMTT(60) DEF LiveInv, TypeInv, TaskState, Idle
  <2> QED BY <1>1, <1>3, <2>1 DEF LiveInv, ConnInv, server, IsTerminalConnection
<1>6. CountInv' /\ TameTasks
  BY <1>1, <1>2, SameCounts DEF LiveInv, TameTasks
<1>7. AttachInv'
  BY <1>3 DEF AttachInv, Undisturbed
<1> QED BY <1>2, <1>4, <1>5, <1>6, <1>7, TameStep DEF LiveInv

\* detach() up to its snapshot.
LEMMA RequestDetachStep ==
    ASSUME LiveInv, Drained, NEW t \in Tasks, NEW c \in Conns, RequestDetach(t, c)
    PROVE  LiveInv'
<1>1. Leaves(c) /\ UNCHANGED <<server, maps>>
  BY DEF RequestDetach, Leaves
<1>2. /\ live' \in [Lives -> LiveState] /\ Tame
      /\ \A k \in Lives : /\ live'[k].operationCount = live[k].operationCount
                          /\ live'[k].terminal = live[k].terminal
                          /\ live[k].connections \ {c} \subseteq live'[k].connections
  BY <1>1, LeavesEffect DEF LiveInv
<1>3. /\ conn' \in [Conns -> ConnState] /\ conn[c].stage = "ready" /\ ~conn'[c].attached
      /\ \A d \in Conns : conn'[d].stage = conn[d].stage /\ conn'[d].closed = conn[d].closed
      /\ \A d \in Conns : d # c => conn'[d] = conn[d]
  BY DEF RequestDetach, Receives, LiveInv, TypeInv, ConnState
<1>4. /\ task' \in [Tasks -> TaskState \cup {Idle}] /\ task[t].step = "idle"
      /\ \A u \in Tasks : u # t => task'[u] = task[u]
      /\ task'[t].step \in {"idle", "detaching"}
      /\ task'[t].step # "idle" => task'[t].conn = c
  <2>1. liveSession # 0 => liveSession \in Lives
    BY SMTT(60) DEF LiveInv, TypeInv, Lives
  <2>2. /\ task[t].step = "idle"
        /\ \/ task' = [task EXCEPT ![t] = Idle]
           \/ /\ liveSession # 0
              /\ task' = [task EXCEPT ![t] = [step |-> "detaching", conn |-> c, live |-> liveSession,
                                              creator |-> FALSE]]
    BY DEF RequestDetach, Receives, Done, Waiting
  <2> DEFINE d == [step |-> "detaching", conn |-> c, live |-> liveSession, creator |-> FALSE]
  <2>3. (liveSession # 0 => d \in TaskState) /\ d.step = "detaching" /\ d.conn = c
    BY <2>1 DEF TaskState
  <2>4. task \in [Tasks -> TaskState \cup {Idle}]
    BY DEF LiveInv, TypeInv
  <2>5. PICK x \in TaskState \cup {Idle} :
            /\ task' = [task EXCEPT ![t] = x]
            /\ x.step \in {"idle", "detaching"} /\ (x.step # "idle" => x.conn = c)
    <3>1. CASE task' = [task EXCEPT ![t] = Idle]
      <4>1. Idle.step = "idle" /\ Idle \in TaskState \cup {Idle}
        BY DEF Idle
      <4> QED BY <3>1, <4>1
    <3>2. CASE task' # [task EXCEPT ![t] = Idle]
      <4>1. liveSession # 0 /\ task' = [task EXCEPT ![t] = d]
        BY <2>2, <3>2
      <4> HIDE DEF d
      <4> QED BY <2>3, <4>1
    <3> QED BY <3>1, <3>2
  <2> QED BY <2>2, <2>4, <2>5
<1>5. TypeInv'
  BY <1>1, <1>2, <1>3, <1>4 DEF LiveInv, TypeInv, server, maps
<1>6. ConnInv'
  <2>1. \A u \in Tasks : task[u].step # "idle" => task[u].conn \in Conns
    BY SMTT(60) DEF LiveInv, TypeInv, TaskState, Idle
  <2> QED BY <1>1, <1>3, <1>4, <2>1, SMTT(60) DEF LiveInv, ConnInv, server, IsTerminalConnection
<1>7. CountInv'
  <2>1. \A u \in Tasks : /\ task'[u].step = "operation" <=> task[u].step = "operation"
                         /\ task[u].step = "operation" => task'[u] = task[u]
    BY <1>4
  <2> QED BY <1>2, <2>1, SameCounts DEF LiveInv
<1>8. TameTasks
  BY <1>4 DEF TameTasks
<1>9. AttachInv'
  <2>1. Undisturbed => \A d \in Conns : conn'[d].attached =>
               /\ liveSession # 0 /\ d \in live'[liveSession].connections
               /\ live'[liveSession].terminal = "no" /\ live[liveSession].disposing = "no"
    BY <1>2, <1>3, SMTT(60) DEF LiveInv, TypeInv, AttachInv, Usable, Lives
  <2>2. \A u \in Tasks : task'[u].step = "opening" => task'[u] = task[u]
    BY <1>4
  <2> QED BY <1>2, <1>3, <1>5, <2>1, <2>2, TameAttached DEF LiveInv
<1> QED BY <1>2, <1>5, <1>6, <1>7, <1>8, <1>9, TameStep DEF LiveInv
-----------------------------------------------------------------------------
(* Requests.                                                               *)

\* A request ends.
LEMMA DoneEffect ==
    ASSUME TypeInv, NEW t \in Tasks, Done(t)
    PROVE  /\ task' \in [Tasks -> TaskState \cup {Idle}]
           /\ task'[t].step = "idle"
           /\ \A u \in Tasks : u # t => task'[u] = task[u]
BY DEF TypeInv, Done, Idle

\* A request waits.
LEMMA WaitingEffect ==
    ASSUME TypeInv, NEW t \in Tasks, NEW c \in Conns, NEW l \in Lives,
           NEW s \in {"opening", "disposing", "detaching", "operation"}, NEW b \in BOOLEAN,
           Waiting(t, c, s, l, b)
    PROVE  /\ task' \in [Tasks -> TaskState \cup {Idle}]
           /\ task'[t].step = s /\ task'[t].conn = c /\ task'[t].live = l
           /\ \A u \in Tasks : u # t => task'[u] = task[u]
<1> DEFINE w == [step |-> s, conn |-> c, live |-> l, creator |-> b]
<1>1. w \in TaskState /\ w.step = s /\ w.conn = c /\ w.live = l
  BY DEF TaskState
<1>2. task' = [task EXCEPT ![t] = w]
  BY DEF Waiting
<1> HIDE DEF w
<1> QED BY <1>1, <1>2 DEF TypeInv

\* A request that is not idle has a connection and an object.
LEMMA TaskFields ==
    ASSUME TypeInv, NEW t \in Tasks, task[t].step # "idle"
    PROVE  task[t].conn \in Conns /\ task[t].live \in Lives
BY SMTT(60) DEF TypeInv, TaskState, Idle

\* runOperation up to its await counts the operation.
LEMMA RequestOperationStep ==
    ASSUME LiveInv, Drained, NEW t \in Tasks, NEW c \in Conns, RequestOperation(t, c)
    PROVE  LiveInv'
<1> DEFINE r == [live[liveSession] EXCEPT !.operationCount = @ + 1]
<1>1. /\ liveSession \in Lives /\ live[liveSession] \in LiveState /\ live \in [Lives -> LiveState]
      /\ live[liveSession].disposing = "no" /\ live[liveSession].status = "live"
      /\ conn[c].stage = "ready" /\ task[t].step = "idle" /\ UNCHANGED <<server, conn, maps>>
  BY SMTT(60) DEF RequestOperation, Receives, Existing, LiveInv, TypeInv, PlaceInv, Lives
<1>2. /\ r \in LiveState /\ Touched(liveSession, r) /\ r.connections = live[liveSession].connections
      /\ r.operationCount = live[liveSession].operationCount + 1
      /\ r.terminal = live[liveSession].terminal
  BY <1>1, SMTT(60) DEF LiveState, Touched
<1>3. live' = [live EXCEPT ![liveSession] = r]
  BY <1>1 DEF RequestOperation
<1> HIDE DEF r
<1>4. /\ live' \in [Lives -> LiveState] /\ Tame
      /\ \A k \in Lives : k # liveSession => live'[k] = live[k]
      /\ live'[liveSession].connections = r.connections
      /\ live'[liveSession].operationCount = r.operationCount
      /\ live'[liveSession].terminal = r.terminal
  BY <1>1, <1>2, <1>3, ObjectEffect DEF LiveInv
<1>5. /\ task' \in [Tasks -> TaskState \cup {Idle}]
      /\ task'[t].step = "operation" /\ task'[t].conn = c /\ task'[t].live = liveSession
      /\ \A u \in Tasks : u # t => task'[u] = task[u]
  <2>1. Waiting(t, c, "operation", liveSession, FALSE)
    BY DEF RequestOperation
  <2> QED BY <1>1, <2>1, WaitingEffect DEF LiveInv
<1>6. TypeInv'
  BY <1>1, <1>4, <1>5 DEF LiveInv, TypeInv, server, maps
<1>7. ConnInv'
  BY <1>1, <1>5 DEF LiveInv, ConnInv, server, IsTerminalConnection
<1>8. CountInv'
  <2> SUFFICES ASSUME NEW l \in Lives
               PROVE  live'[l].operationCount = Cardinality(Operations(l)')
    BY DEF CountInv
  <2>1. CASE l # liveSession
    <3>1. Operations(l)' = Operations(l)
      BY <1>1, <1>5, <2>1 DEF Operations
    <3> QED BY <1>4, <2>1, <3>1 DEF LiveInv, OperationInv
  <2>2. CASE l = liveSession
    <3>1. Operations(l)' = Operations(l) \cup {t} /\ t \notin Operations(l)
      BY <1>1, <1>5, <2>2 DEF Operations
    <3>2. Operations(l) \subseteq Tasks
      BY DEF Operations
    <3>3. IsFiniteSet(Operations(l))
      BY <3>2, FS_Subset, TasksAssumption
    <3>4. Cardinality(Operations(l) \cup {t}) = Cardinality(Operations(l)) + 1
      BY <3>1, <3>3, FS_AddElement
    <3> QED BY <1>2, <1>4, <2>2, <3>1, <3>4 DEF LiveInv, OperationInv
  <2> QED BY <2>1, <2>2
<1>9. TameTasks
  BY <1>1, <1>5 DEF TameTasks
<1>10. AttachInv'
  <2>1. Undisturbed => \A d \in Conns : conn'[d].attached =>
               /\ liveSession # 0 /\ d \in live'[liveSession].connections
               /\ live'[liveSession].terminal = "no" /\ live[liveSession].disposing = "no"
    BY <1>1, <1>2, <1>4 DEF LiveInv, AttachInv, Usable
  <2>2. \A u \in Tasks : task'[u].step = "opening" => task'[u] = task[u]
    BY <1>5
  <2> QED BY <1>1, <1>4, <1>6, <2>1, <2>2, TameAttached DEF LiveInv
<1> QED BY <1>4, <1>6, <1>7, <1>8, <1>9, <1>10, TameStep DEF LiveInv

\* The finally block of runOperation.
LEMMA OperationEndsStep ==
    ASSUME LiveInv, Drained, NEW t \in Tasks, OperationEnds(t)
    PROVE  LiveInv'
<1> DEFINE l == task[t].live
           r == [live[l] EXCEPT !.operationCount = @ - 1]
<1>1. /\ l \in Lives /\ live[l] \in LiveState /\ live \in [Lives -> LiveState]
      /\ task[t].step = "operation" /\ UNCHANGED <<server, conn, maps>>
  BY TaskFields DEF OperationEnds, LiveInv, TypeInv
<1>2. /\ t \in Operations(l) /\ IsFiniteSet(Operations(l))
      /\ live[l].operationCount = Cardinality(Operations(l))
  <2>1. Operations(l) \subseteq Tasks
    BY DEF Operations
  <2> QED BY <1>1, <2>1, FS_Subset, TasksAssumption DEF Operations, LiveInv, OperationInv
<1>3. Cardinality(Operations(l) \ {t}) = live[l].operationCount - 1 /\ live[l].operationCount - 1 \in Nat
  <2>1. Cardinality(Operations(l) \ {t}) = Cardinality(Operations(l)) - 1
    BY <1>2, FS_RemoveElement
  <2>2. Cardinality(Operations(l)) \in Nat /\ Cardinality(Operations(l)) # 0
    BY <1>2, FS_CardinalityType, FS_EmptySet
  <2> QED BY <1>2, <2>1, <2>2, SMTT(60)
<1>4. /\ r \in LiveState /\ Touched(l, r) /\ r.connections = live[l].connections
      /\ r.operationCount = live[l].operationCount - 1 /\ r.terminal = live[l].terminal
  BY <1>1, <1>3 DEF LiveState, Touched
<1>5. live' = [live EXCEPT ![l] = MaybeDispose(r)] /\ Done(t)
  BY DEF OperationEnds
<1> HIDE DEF r, l
<1>6. /\ live' \in [Lives -> LiveState] /\ Tame
      /\ \A k \in Lives : k # l => live'[k] = live[k]
      /\ live'[l].connections = r.connections
      /\ live'[l].operationCount = r.operationCount
      /\ live'[l].terminal = r.terminal
  BY <1>1, <1>4, <1>5, ObjectEffect DEF LiveInv
<1>7. /\ task' \in [Tasks -> TaskState \cup {Idle}] /\ task'[t].step = "idle"
      /\ \A u \in Tasks : u # t => task'[u] = task[u]
  BY <1>5, DoneEffect DEF LiveInv
<1>8. TypeInv'
  BY <1>1, <1>6, <1>7 DEF LiveInv, TypeInv, server, maps
<1>9. ConnInv'
  BY <1>1, <1>7 DEF LiveInv, ConnInv, server, IsTerminalConnection
<1>10. CountInv'
  <2> SUFFICES ASSUME NEW k \in Lives
               PROVE  live'[k].operationCount = Cardinality(Operations(k)')
    BY DEF CountInv
  <2>1. CASE k # l
    <3>1. Operations(k)' = Operations(k)
      BY <1>1, <1>7, <2>1 DEF Operations, l
    <3> QED BY <1>6, <2>1, <3>1 DEF LiveInv, OperationInv
  <2>2. CASE k = l
    <3>1. Operations(k)' = Operations(l) \ {t}
      BY <1>1, <1>7, <2>2 DEF Operations
    <3> QED BY <1>3, <1>4, <1>6, <2>2, <3>1
  <2> QED BY <2>1, <2>2
<1>11. TameTasks
  BY <1>7 DEF TameTasks
<1>12. AttachInv'
  <2>1. Undisturbed => \A d \in Conns : conn'[d].attached =>
               /\ liveSession # 0 /\ d \in live'[liveSession].connections
               /\ live'[liveSession].terminal = "no" /\ live[liveSession].disposing = "no"
    BY <1>1, <1>4, <1>6, SMTT(60) DEF LiveInv, TypeInv, AttachInv, Usable, Lives
  <2>2. \A u \in Tasks : task'[u].step = "opening" => task'[u] = task[u]
    BY <1>7
  <2> QED BY <1>1, <1>6, <1>8, <2>1, <2>2, TameAttached DEF LiveInv
<1> QED BY <1>6, <1>8, <1>9, <1>10, <1>11, <1>12, TameStep DEF LiveInv

-----------------------------------------------------------------------------
(* Attaching.                                                              *)

\* attach(): the connection joins the object, or has gone and leaves it to maybeDispose.
LEMMA AttachStep ==
    ASSUME LiveInv, NEW t \in Tasks, NEW c \in Conns, NEW l \in Lives,
           Attach(t, c, l), UNCHANGED <<server, maps>>,
           task[t].step # "operation", conn[c].stage \in {"ready", "closing", "closed"},
           Undisturbed => l = liveSession /\ Usable(l)
    PROVE  LiveInv'
<1> DEFINE r == IF conn[c].stage # "ready" \/ conn[c].closed THEN live[l]
                ELSE [live[l] EXCEPT !.connections = @ \cup {c}]
<1>1. live \in [Lives -> LiveState] /\ live[l] \in LiveState /\ conn \in [Conns -> ConnState]
  BY DEF LiveInv, TypeInv
<1>2. /\ r \in LiveState /\ Touched(l, r) /\ r.operationCount = live[l].operationCount
      /\ live[l].connections \subseteq r.connections /\ r.terminal = live[l].terminal
      /\ conn[c].stage = "ready" /\ ~conn[c].closed => c \in r.connections
  BY <1>1, SMTT(60) DEF LiveState, Touched
<1>3. \/ live' = [live EXCEPT ![l] = r]
      \/ live' = [live EXCEPT ![l] = MaybeDispose(r)]
  BY <1>1 DEF Attach
<1> HIDE DEF r
<1>4. /\ live' \in [Lives -> LiveState] /\ Tame
      /\ \A k \in Lives : k # l => live'[k] = live[k]
      /\ live'[l].connections = r.connections
      /\ live'[l].operationCount = r.operationCount
      /\ live'[l].terminal = r.terminal
  BY <1>2, <1>3, ObjectEffect DEF LiveInv
<1>5. /\ task' \in [Tasks -> TaskState \cup {Idle}] /\ task'[t].step = "idle"
      /\ \A u \in Tasks : u # t => task'[u] = task[u]
  <2>1. Done(t)
    BY DEF Attach
  <2> QED BY <2>1, DoneEffect DEF LiveInv
<1>6. /\ conn' \in [Conns -> ConnState]
      /\ \A d \in Conns : /\ conn'[d].stage = conn[d].stage /\ conn'[d].closed = conn[d].closed
                          /\ d # c => conn'[d] = conn[d]
  <2>1. CASE UNCHANGED conn
    BY <1>1, <2>1
  <2>2. CASE conn' = [conn EXCEPT ![c].attached = TRUE]
    BY <1>1, <2>2 DEF ConnState
  <2> QED BY <2>1, <2>2 DEF Attach
<1>7. TypeInv'
  BY <1>4, <1>5, <1>6 DEF LiveInv, TypeInv, server, maps
<1>8. ConnInv'
  BY <1>5, <1>6, TaskFields, SMTT(60) DEF LiveInv, ConnInv, server, IsTerminalConnection
<1>9. CountInv'
  <2>1. \A k \in Lives : live'[k].operationCount = live[k].operationCount
    BY <1>2, <1>4
  <2>2. \A u \in Tasks : /\ task'[u].step = "operation" <=> task[u].step = "operation"
                         /\ task[u].step = "operation" => task'[u] = task[u]
    BY <1>5
  <2> QED BY <2>1, <2>2, SameCounts DEF LiveInv
<1>10. TameTasks
  BY <1>5 DEF TameTasks
<1>11. AttachInv'
  <2> SUFFICES ASSUME Undisturbed'
               PROVE  /\ \A d \in Conns : conn'[d].attached =>
                             liveSession # 0 /\ d \in live'[liveSession].connections
                      /\ \A u \in Tasks : task'[u].step = "opening" /\ live'[task'[u].live].status = "live"
                             => task'[u].live = liveSession
                      /\ Usable(liveSession)'
    BY DEF AttachInv, maps, Usable
  <2>1. Undisturbed /\ ~conn[c].closed
    BY <1>6 DEF Undisturbed, server
  <2>2. conn[c].stage = "ready" /\ l = liveSession /\ Usable(l)
    BY <2>1 DEF LiveInv, ConnInv, IsTerminalConnection
  <2>3. \A d \in Conns : conn'[d].attached => d = c \/ conn[d].attached
    BY <1>6
  <2>4. \A d \in Conns : conn'[d].attached => liveSession # 0 /\ d \in live'[liveSession].connections
    BY <1>2, <1>4, <2>1, <2>2, <2>3, SMTT(60) DEF LiveInv, AttachInv, Lives
  <2>5. \A k \in Lives : live'[k].status = live[k].status
    BY <1>4 DEF Tame, SameLife, StartsDisposal
  <2>6. \A u \in Tasks : task'[u].step = "opening" /\ live'[task'[u].live].status = "live"
                            => task'[u].live = liveSession
    BY <1>5, <2>1, <2>5, TaskFields DEF LiveInv, AttachInv
  <2>7. Usable(liveSession)'
    BY <1>2, <1>4, <2>1, <2>2, SMTT(60) DEF Usable, Tame, SameLife, StartsDisposal, maps
  <2> QED BY <2>4, <2>6, <2>7
<1> QED BY <1>4, <1>7, <1>8, <1>9, <1>10, <1>11, TameStep DEF LiveInv

\* A request ends or waits, and nothing else happens.
LEMMA RequestOnly ==
    ASSUME LiveInv, NEW t \in Tasks, UNCHANGED <<server, conn, live, maps>>,
           task' \in [Tasks -> TaskState \cup {Idle}],
           \A u \in Tasks : u # t => task'[u] = task[u],
           task[t].step # "operation",
           \/ task'[t].step = "idle"
           \/ /\ task'[t].step = "disposing" /\ live[task'[t].live].disposing = "pending"
              /\ conn[task'[t].conn].stage \in {"ready", "closing", "closed"}
           \/ /\ task'[t].step = "opening" /\ live[task'[t].live].status # "live"
              /\ conn[task'[t].conn].stage \in {"ready", "closing", "closed"}
    PROVE  LiveInv'
<1>1. TypeInv' /\ Tame
  BY DEF LiveInv, TypeInv, server, maps, Tame, SameLife
<1>2. ConnInv'
  BY DEF LiveInv, ConnInv, server, IsTerminalConnection
<1>3. CountInv'
  <2>1. \A u \in Tasks : /\ task'[u].step = "operation" <=> task[u].step = "operation"
                         /\ task[u].step = "operation" => task'[u] = task[u]
    OBVIOUS
  <2> QED BY <2>1, SameCounts DEF LiveInv
<1>4. TameTasks
  BY DEF TameTasks
<1>5. AttachInv'
  BY DEF LiveInv, AttachInv, Undisturbed, Usable, server, maps
<1> QED BY <1>1, <1>2, <1>3, <1>4, <1>5, TameStep DEF LiveInv
\* create() up to the call of the service: nobody held a runtime.
LEMMA CreateStep ==
    ASSUME LiveInv, NEW t \in Tasks, NEW c \in Conns, Create(t, c), UNCHANGED server,
           task[t].step # "operation", conn[c].stage \in {"ready", "closing", "closed"},
           closeStep = "disposing" => \A l \in Lives : Holds(l) => l = opening
    PROVE  LiveInv'
<1> DEFINE n == lives + 1
<1>1. /\ n \in Lives /\ liveSession = 0 /\ opening = 0 /\ live \in [Lives -> LiveState]
      /\ lives' = n /\ opening' = n /\ liveSession' = 0 /\ UNCHANGED <<server, conn>>
  BY LivesAssumption, SMTT(60) DEF Create, LiveInv, TypeInv, Lives
<1>2. /\ live[n].status = "none" /\ live[n].runtime = "none" /\ live[n].disposing = "no"
      /\ live[n].terminal = "no" /\ ~live[n].subscribed
  <2>1. live[n].status = "none"
    BY <1>1, SMTT(60) DEF LiveInv, PlaceInv, TypeInv
  <2> QED BY <1>1, <2>1 DEF LiveInv, StageInv, Staged, LiveState
<1>3. /\ live' \in [Lives -> LiveState] /\ live'[n].status = "acquiring"
      /\ \A l \in Lives :
            /\ l # n => live'[l] = live[l]
            /\ live'[l].runtime = live[l].runtime /\ live'[l].disposing = live[l].disposing
            /\ live'[l].terminal = live[l].terminal /\ live'[l].subscribed = live[l].subscribed
            /\ live'[l].operationCount = live[l].operationCount
  <2>1. live' = [live EXCEPT ![n].status = "acquiring"]
    BY DEF Create
  <2> HIDE DEF n
  <2> QED BY <1>1, <2>1, SMTT(60) DEF LiveState
<1>4. /\ task' \in [Tasks -> TaskState \cup {Idle}]
      /\ task'[t].step = "opening" /\ task'[t].conn = c /\ task'[t].live = n
      /\ \A u \in Tasks : u # t => task'[u] = task[u]
  <2>1. Waiting(t, c, "opening", n, TRUE)
    BY DEF Create
  <2> HIDE DEF n
  <2> QED BY <1>1, <2>1, WaitingEffect DEF LiveInv
<1>5. \A l \in Lives : ~Holds(l) /\ live[l].status \notin {"acquiring", "snapshot", "failing"}
  BY <1>1, SMTT(60) DEF LiveInv, PlaceInv, Lives
<1>6. TypeInv'
  BY <1>1, <1>3, <1>4, SMTT(60) DEF LiveInv, TypeInv, server, Lives
<1>7. ConnInv'
  BY <1>1, <1>4, SMTT(60) DEF LiveInv, ConnInv, server, IsTerminalConnection
<1> HIDE DEF n
<1>8. StageInv'
  BY <1>1, <1>2, <1>3, SMTT(60) DEF LiveInv, StageInv, Staged, server
<1>9. PlaceInv'
  <2>1. \A l \in Lives : Holds(l)' => l = n
    BY <1>3, <1>5 DEF Holds
  <2>2. \A l \in Lives : l > lives' => live'[l].status = "none"
    BY <1>1, <1>3, SMTT(60) DEF n, LiveInv, PlaceInv, TypeInv, Lives
  <2>3. \A l \in Lives : live'[l].status \in {"acquiring", "snapshot", "failing"} => l = n
    BY <1>3, <1>5
  <2>4. closeStep = "disposing" /\ closeWaits # 0 =>
            closeWaits \in Lives /\ closeWaits # n /\ live'[closeWaits].status = "live"
    BY <1>2, <1>3, SMTT(60) DEF LiveInv, PlaceInv, TypeInv, Lives
  <2> QED BY <1>1, <1>3, <2>1, <2>2, <2>3, <2>4 DEF PlaceInv, server
<1>10. WaitInv'
  <2>1. \A l \in Lives : Holds(l)' => l = n
    BY <1>3, <1>5 DEF Holds
  <2> QED BY <1>1, <1>3, <1>4, <2>1, TaskFields, SMTT(60) DEF LiveInv, WaitInv
<1>11. OperationInv'
  <2>1. \A u \in Tasks : /\ task'[u].step = "operation" <=> task[u].step = "operation"
                         /\ task[u].step = "operation" => task'[u] = task[u]
    BY <1>4
  <2>2. CountInv'
    BY <1>3, <2>1, SameCounts DEF LiveInv
  <2> QED BY <1>2, <1>3, <2>1, <2>2, TaskFields, SMTT(60) DEF LiveInv, OperationInv, CountInv
<1>12. AttachInv'
  <2>1. Undisturbed' => Undisturbed
    BY <1>1, SMTT(60) DEF Undisturbed, server
  <2>2. Undisturbed => \A d \in Conns : ~conn[d].attached
    BY <1>1 DEF LiveInv, AttachInv
  <2>3. Undisturbed => \A u \in Tasks : task[u].step = "opening" => live[task[u].live].status # "live"
    BY <1>1, TaskFields, SMTT(60) DEF LiveInv, AttachInv, Lives
  <2>4. Undisturbed => \A u \in Tasks : task'[u].step = "opening" => live'[task'[u].live].status # "live"
    BY <1>3, <1>4, <2>3, TaskFields, SMTT(60) DEF LiveInv
  <2> QED BY <1>1, <2>1, <2>2, <2>4 DEF AttachInv
<1> QED BY <1>6, <1>7, <1>8, <1>9, <1>10, <1>11, <1>12 DEF LiveInv

\* One turn of the loop of acquire().
LEMMA AcquireStep ==
    ASSUME LiveInv, NEW t \in Tasks, NEW c \in Conns, Acquire(t, c),
           task[t].step # "operation", conn[c].stage \in {"ready", "closing", "closed"},
           closeStep = "disposing" => \A l \in Lives : Holds(l) => l = opening
    PROVE  LiveInv'
<1>1. UNCHANGED server /\ (liveSession # 0 => liveSession \in Lives) /\ (opening # 0 => opening \in Lives)
  BY SMTT(60) DEF Acquire, LiveInv, TypeInv, Lives
<1>2. CASE Existing /\ Attach(t, c, liveSession) /\ UNCHANGED maps
  BY <1>1, <1>2, AttachStep DEF Existing, Usable
<1>3. CASE Done(t) /\ UNCHANGED <<conn, live, maps>>
  BY <1>1, <1>3, DoneEffect, RequestOnly DEF LiveInv
<1>4. CASE /\ liveSession # 0 /\ live[liveSession].disposing # "no"
           /\ Waiting(t, c, "disposing", liveSession, FALSE) /\ UNCHANGED <<conn, live, maps>>
  <2>1. live[liveSession].disposing = "pending"
    BY <1>1, <1>4 DEF LiveInv, TypeInv, PlaceInv, LiveState
  <2>2. /\ task' \in [Tasks -> TaskState \cup {Idle}]
        /\ task'[t].step = "disposing" /\ task'[t].conn = c /\ task'[t].live = liveSession
        /\ \A u \in Tasks : u # t => task'[u] = task[u]
    BY <1>1, <1>4, WaitingEffect DEF LiveInv
  <2> QED BY <1>1, <1>4, <2>1, <2>2, RequestOnly
<1>5. CASE /\ opening # 0
           /\ Waiting(t, c, "opening", opening, FALSE) /\ UNCHANGED <<conn, live, maps>>
  <2>1. live[opening].status # "live"
    BY <1>5 DEF LiveInv, PlaceInv
  <2>2. /\ task' \in [Tasks -> TaskState \cup {Idle}]
        /\ task'[t].step = "opening" /\ task'[t].conn = c /\ task'[t].live = opening
        /\ \A u \in Tasks : u # t => task'[u] = task[u]
    BY <1>1, <1>5, WaitingEffect DEF LiveInv
  <2> QED BY <1>1, <1>5, <2>1, <2>2, RequestOnly
<1>6. CASE Create(t, c)
  BY <1>1, <1>6, CreateStep
<1> QED BY <1>2, <1>3, <1>4, <1>5, <1>6 DEF Acquire

\* attach(), from the request on.
LEMMA RequestAttachStep ==
    ASSUME LiveInv, NEW t \in Tasks, NEW c \in Conns, RequestAttach(t, c)
    PROVE  LiveInv'
<1>1. closeStep # "disposing" /\ conn[c].stage = "ready" /\ task[t].step = "idle" /\ Acquire(t, c)
  BY DEF RequestAttach, Receives, LiveInv, ConnInv
<1> QED BY <1>1, AcquireStep

\* acquire() goes on once the disposal it waited for has settled.
LEMMA DisposingSettledStep ==
    ASSUME LiveInv, NEW t \in Tasks, DisposingSettled(t)
    PROVE  LiveInv'
<1>1. /\ task[t].step = "disposing"
      /\ task[t].conn \in Conns /\ conn[task[t].conn].stage \in {"ready", "closing", "closed"}
  BY TaskFields DEF DisposingSettled, LiveInv, ConnInv
<1>3. CASE live[task[t].live].disposing = "settled" /\ Acquire(t, task[t].conn)
  <2>1. \A l \in Lives : Holds(l) => l = opening
    BY <1>1, <1>3 DEF LiveInv, WaitInv
  <2> QED BY <1>1, <1>3, <2>1, AcquireStep
<1>4. CASE Done(t) /\ UNCHANGED <<server, conn, live, maps>>
  BY <1>1, <1>4, DoneEffect, RequestOnly DEF LiveInv
<1> QED BY <1>3, <1>4 DEF DisposingSettled

\* attach() goes on once create() has settled.
LEMMA OpeningSettledStep ==
    ASSUME LiveInv, NEW t \in Tasks, OpeningSettled(t)
    PROVE  LiveInv'
<1>1. /\ task[t].step = "opening" /\ UNCHANGED <<server, maps>>
      /\ task[t].conn \in Conns /\ conn[task[t].conn].stage \in {"ready", "closing", "closed"}
      /\ task[t].live \in Lives
  BY TaskFields DEF OpeningSettled, LiveInv, ConnInv
<1>2. CASE live[task[t].live].status = "live"
  <2>1. Attach(t, task[t].conn, task[t].live)
    BY <1>2 DEF OpeningSettled
  <2>2. Undisturbed => task[t].live = liveSession /\ Usable(task[t].live)
    BY <1>1, <1>2 DEF LiveInv, AttachInv
  <2> QED BY <1>1, <2>1, <2>2, AttachStep
<1>3. CASE live[task[t].live].status # "live"
  <2>1. Done(t) /\ UNCHANGED <<conn, live>>
    BY <1>3 DEF OpeningSettled
  <2> QED BY <1>1, <2>1, DoneEffect, RequestOnly DEF LiveInv
<1> QED BY <1>2, <1>3
-----------------------------------------------------------------------------
(* create() after the service was called, and the end of a disposal.       *)

\* At most one object holds a runtime.
LEMMA Exclusive ==
    ASSUME LiveInv
    PROVE  RuntimeExclusive
BY SMTT(60) DEF LiveInv, PlaceInv, RuntimeExclusive, Lives

\* The object that is being opened moves on, fails, or enters the map.
LEMMA OpeningStep ==
    ASSUME LiveInv, Drained, NEW l \in Lives,
           live[l].status \in {"acquiring", "snapshot", "failing"},
           live' \in [Lives -> LiveState],
           \A k \in Lives : k # l => live'[k] = live[k],
           live'[l].operationCount = live[l].operationCount,
           live'[l].disposing = "no", live'[l].terminal = "no",
           UNCHANGED <<server, conn, lives, task>>,
           \/ /\ UNCHANGED <<liveSession, opening>> /\ ~live'[l].subscribed
              /\ \/ live'[l].status = "snapshot" /\ live'[l].runtime = "open"
                 \/ live'[l].status = "failing" /\ live'[l].runtime = "disposing"
           \/ /\ liveSession' = liveSession /\ opening' = 0 /\ ~live'[l].subscribed
              /\ live'[l].status = "failed" /\ live'[l].runtime \in {"none", "disposed", "undisposed"}
           \/ /\ liveSession' = l /\ opening' = 0
              /\ live'[l].status = "live" /\ live'[l].runtime = "open"
    PROVE  LiveInv'
<1>1. /\ opening = l /\ liveSession = 0 /\ l # 0
      /\ \A k \in Lives : k # l => live[k].status \notin {"acquiring", "snapshot", "failing"}
      /\ \A k \in Lives : k # l => ~Holds(k)
  <2>1. opening = l /\ liveSession = 0 /\ l # 0
        /\ \A k \in Lives : k # l => live[k].status \notin {"acquiring", "snapshot", "failing"}
    BY SMTT(60) DEF LiveInv, PlaceInv, Lives
  <2>2. Holds(l)
    BY DEF LiveInv, StageInv, Staged, Holds
  <2> QED BY <2>1, <2>2, Exclusive DEF RuntimeExclusive
<1>2. \A k \in Lives : k # l => ~Holds(k)'
  BY <1>1 DEF Holds
<1>3. TypeInv'
  BY <1>1 DEF LiveInv, TypeInv, server, Lives
<1>4. ConnInv'
  BY DEF LiveInv, ConnInv, server, IsTerminalConnection
<1>5. StageInv'
  BY SMTT(60) DEF LiveInv, StageInv, Staged, server
<1>6. PlaceInv'
  <2>1. \A k \in Lives : k > lives' => live'[k].status = "none"
    BY DEF LiveInv, PlaceInv
  <2>2. closeStep = "disposing" /\ closeWaits # 0 =>
            closeWaits \in Lives /\ closeWaits # l /\ live'[closeWaits].status = "live"
    BY SMTT(60) DEF LiveInv, PlaceInv, TypeInv, Lives
  <2>3. \A k \in Lives : live'[k].status \in {"acquiring", "snapshot", "failing"} => k = l
    BY <1>1
  <2>4. \A k \in Lives : Holds(k)' => k = opening' \/ k = liveSession'
    BY <1>1, <1>2 DEF Holds
  <2> QED BY <1>1, <1>2, <2>1, <2>2, <2>3, <2>4 DEF PlaceInv, server
<1>7. WaitInv'
  <2>1. \A k \in Lives : live'[k].disposing = live[k].disposing
    BY DEF LiveInv, StageInv, Staged
  <2> QED BY <2>1, TaskFields DEF LiveInv, WaitInv, Drained
<1>8. OperationInv'
  <2>1. \A k \in Lives : live'[k].operationCount = live[k].operationCount
    OBVIOUS
  <2>2. CountInv'
    BY <2>1, SameCounts DEF LiveInv
  <2>3. \A u \in Tasks : task[u].step = "operation" => task[u].live \in Lives /\ task[u].live # l
    BY TaskFields DEF LiveInv, OperationInv
  <2> QED BY <2>2, <2>3 DEF LiveInv, OperationInv, CountInv
<1>9. AttachInv'
  <2>1. Undisturbed' => Undisturbed
    BY DEF Undisturbed, server
  <2>2. Undisturbed => \A d \in Conns : ~conn[d].attached
    BY <1>1 DEF LiveInv, AttachInv
  <2>3. \A u \in Tasks : task[u].step = "opening" /\ live'[task[u].live].status = "live" =>
            task[u].live = l
    BY TaskFields DEF LiveInv, Drained
  <2> QED BY <2>1, <2>2, <2>3 DEF AttachInv, Usable
<1> QED BY <1>3, <1>4, <1>5, <1>6, <1>7, <1>8, <1>9 DEF LiveInv

\* The awaits of create().
LEMMA CreateSteps ==
    ASSUME LiveInv, Drained, NEW l \in Lives,
           RuntimeAcquired(l) \/ RuntimeRefused(l) \/ FirstSnapshot(l) \/ FirstSnapshotFails(l)
    PROVE  LiveInv'
<1>1. /\ live \in [Lives -> LiveState] /\ live[l] \in LiveState
      /\ live[l].status # "live" =>
            live[l].disposing = "no" /\ live[l].terminal = "no" /\ ~live[l].subscribed
      /\ live[l].status = "acquiring" => live[l].runtime = "none"
      /\ live[l].status = "snapshot" => live[l].runtime = "open"
  BY DEF LiveInv, TypeInv, StageInv, Staged
<1>2. CASE RuntimeAcquired(l)
  <2>1. /\ live[l].status = "acquiring" /\ UNCHANGED <<server, conn, maps, task>>
        /\ live' \in [Lives -> LiveState]
        /\ \A k \in Lives : k # l => live'[k] = live[k]
        /\ live'[l].operationCount = live[l].operationCount
        /\ live'[l].disposing = "no" /\ live'[l].terminal = "no" /\ ~live'[l].subscribed
        /\ \/ live'[l].status = "snapshot" /\ live'[l].runtime = "open"
           \/ live'[l].status = "failing" /\ live'[l].runtime = "disposing"
    BY <1>1, <1>2 DEF RuntimeAcquired, LiveState
  <2> QED BY <2>1, OpeningStep DEF maps
<1>3. CASE RuntimeRefused(l)
  <2>1. /\ live[l].status = "acquiring" /\ UNCHANGED <<server, conn, lives, liveSession, task>>
        /\ opening' = 0
        /\ live' \in [Lives -> LiveState]
        /\ \A k \in Lives : k # l => live'[k] = live[k]
        /\ live'[l].operationCount = live[l].operationCount
        /\ live'[l].disposing = "no" /\ live'[l].terminal = "no" /\ ~live'[l].subscribed
        /\ live'[l].status = "failed" /\ live'[l].runtime = "none"
    BY <1>1, <1>3 DEF RuntimeRefused, LiveState
  <2> QED BY <2>1, OpeningStep
<1>4. CASE FirstSnapshot(l)
  <2>1. /\ live[l].status = "snapshot" /\ UNCHANGED <<server, conn, lives, task>>
        /\ liveSession' = l /\ opening' = 0
        /\ live' \in [Lives -> LiveState]
        /\ \A k \in Lives : k # l => live'[k] = live[k]
        /\ live'[l].operationCount = live[l].operationCount
        /\ live'[l].disposing = "no" /\ live'[l].terminal = "no"
        /\ live'[l].status = "live" /\ live'[l].runtime = "open"
    BY <1>1, <1>4 DEF FirstSnapshot, LiveState
  <2> QED BY <2>1, OpeningStep
<1>5. CASE FirstSnapshotFails(l)
  <2>1. /\ live[l].status = "snapshot" /\ UNCHANGED <<server, conn, maps, task>>
        /\ live' \in [Lives -> LiveState]
        /\ \A k \in Lives : k # l => live'[k] = live[k]
        /\ live'[l].operationCount = live[l].operationCount
        /\ live'[l].disposing = "no" /\ live'[l].terminal = "no" /\ ~live'[l].subscribed
        /\ live'[l].status = "failing" /\ live'[l].runtime = "disposing"
    BY <1>1, <1>5 DEF FirstSnapshotFails, LiveState
  <2> QED BY <2>1, OpeningStep DEF maps
<1> QED BY <1>2, <1>3, <1>4, <1>5

\* A disposal settles.
LEMMA RuntimeDisposedStep ==
    ASSUME LiveInv, Drained, NEW l \in Lives, RuntimeDisposed(l)
    PROVE  LiveInv'
<1>1. /\ live \in [Lives -> LiveState] /\ live[l] \in LiveState /\ live[l].runtime = "disposing"
      /\ live[l].status \in {"failing", "live"} /\ UNCHANGED <<server, conn, lives, task>>
      /\ live[l].status # "live" =>
            live[l].disposing = "no" /\ live[l].terminal = "no" /\ ~live[l].subscribed
      /\ live[l].disposing \notin {"settled", "rejected"}
  BY DEF LiveInv, TypeInv, StageInv, Staged, RuntimeDisposed, LiveState
<1>2. /\ live' \in [Lives -> LiveState]
      /\ \A k \in Lives : k # l => live'[k] = live[k]
      /\ live'[l].operationCount = live[l].operationCount
      /\ live'[l].terminal = live[l].terminal /\ live'[l].subscribed = live[l].subscribed
      /\ live'[l].connections = live[l].connections
      /\ live'[l].runtime \in {"disposed", "undisposed"}
      /\ live'[l].status = IF live[l].status = "failing" THEN "failed" ELSE live[l].status
      /\ live'[l].disposing # live[l].disposing => live[l].disposing = "pending"
      /\ live'[l].disposing = "no" <=> live[l].disposing = "no"
      /\ live[l].disposing = "pending" =>
            live'[l].disposing = IF live'[l].runtime = "disposed" THEN "settled" ELSE "rejected"
  <2>1. PICK resolves \in BOOLEAN :
          live' = [live EXCEPT ![l].runtime = IF resolves THEN "disposed" ELSE "undisposed",
                               ![l].status = IF @ = "failing" THEN "failed" ELSE @,
                               ![l].disposing = IF @ # "pending" THEN @
                                                ELSE IF resolves THEN "settled" ELSE "rejected"]
    BY DEF RuntimeDisposed
  <2>2. CASE resolves
    BY <1>1, <2>1, <2>2 DEF LiveState
  <2>3. CASE ~resolves
    BY <1>1, <2>1, <2>3 DEF LiveState
  <2> QED BY <2>2, <2>3
<1>3. CASE live[l].status = "failing"
  <2>1. liveSession' = liveSession /\ opening' = 0
    BY <1>1, <1>3 DEF RuntimeDisposed
  <2> QED BY <1>1, <1>2, <1>3, <2>1, OpeningStep
<1>4. CASE live[l].status = "live"
  <2>1. /\ liveSession' = IF live[l].disposing = "pending" /\ liveSession = l THEN 0 ELSE liveSession
        /\ opening' = opening
    BY <1>4 DEF RuntimeDisposed
  <2>2. Holds(l)
    BY <1>1 DEF Holds
  <2>3. \A k \in Lives : k # l => ~Holds(k)
    BY <2>2, Exclusive DEF RuntimeExclusive
  <2>4. \A k \in Lives : ~Holds(k)'
    BY <1>2, <1>4, <2>3 DEF Holds
  <2>5. opening = 0
    BY <1>4, <2>3, SMTT(60) DEF LiveInv, PlaceInv, StageInv, Staged, Holds, TypeInv, Lives
  <2>6. TypeInv'
    BY <1>1, <1>2, <2>1, LivesAssumption, SMTT(60) DEF LiveInv, TypeInv, server
  <2>7. ConnInv'
    BY <1>1 DEF LiveInv, ConnInv, server, IsTerminalConnection
  <2>8. StageInv'
    BY <1>1, <1>2, <1>4, SMTT(60) DEF LiveInv, StageInv, Staged, server
  <2>9. PlaceInv'
    <3>1. \A k \in Lives : live'[k].status = live[k].status
      BY <1>2, <1>4
    <3>2. liveSession' # 0 => live'[liveSession'].disposing \notin {"settled", "rejected"}
      BY <1>1, <1>2, <2>1, SMTT(60) DEF LiveInv, PlaceInv, TypeInv, Lives
    <3> QED BY <1>1, <2>1, <2>4, <2>5, <3>1, <3>2, SMTT(60) DEF LiveInv, PlaceInv, TypeInv, server, Lives
  <2>10. WaitInv'
    BY <1>1, <1>2, <2>4, TaskFields DEF LiveInv, WaitInv
  <2>11. OperationInv'
    <3>1. \A k \in Lives : live'[k].operationCount = live[k].operationCount
      BY <1>2
    <3>2. CountInv'
      BY <1>1, <3>1, SameCounts DEF LiveInv
    <3> QED BY <1>1, <1>2, <1>4, <3>2, TaskFields DEF LiveInv, OperationInv, CountInv
  <2>12. AttachInv'
    <3> SUFFICES ASSUME Undisturbed
                 PROVE  /\ \A c \in Conns : conn[c].attached =>
                              /\ liveSession' # 0 /\ c \in live'[liveSession'].connections
                              /\ live'[liveSession'].disposing = "no"
                              /\ live'[liveSession'].terminal = "no"
                        /\ \A t \in Tasks : task[t].step = "opening" => live'[task[t].live].status # "live"
      BY <1>1 DEF AttachInv, Undisturbed, Usable, server
    <3>1. \A t \in Tasks : task[t].step = "opening" => live'[task[t].live].status # "live"
      BY <1>2, <1>4, TaskFields DEF Drained, LiveInv
    <3>2. \A c \in Conns : conn[c].attached =>
              liveSession # 0 /\ c \in live[liveSession].connections /\ Usable(liveSession)
      BY DEF LiveInv, AttachInv
    <3>3. liveSession # 0 => liveSession \in Lives
      BY SMTT(60) DEF LiveInv, TypeInv, Lives
    <3> QED BY <1>2, <2>1, <3>1, <3>2, <3>3 DEF Usable
  <2> QED BY <2>6, <2>7, <2>8, <2>9, <2>10, <2>11, <2>12 DEF LiveInv
<1> QED BY <1>1, <1>3, <1>4
-----------------------------------------------------------------------------
(* close().                                                                *)

\* The steps of close() up to the one that empties the map.
LEMMA CloseSteps1 ==
    ASSUME LiveInv, Close \/ CloseConnections \/ CloseSessions
    PROVE  LiveInv'
<1>1. /\ UNCHANGED <<live, maps, task>> /\ closing' /\ closing' \in BOOLEAN
      /\ closeStep \in {"open", "listeners", "connections"}
      /\ closeStep' \in {"listeners", "connections", "opening"}
      /\ closeWaits' \in {closeWaits, opening}
  BY DEF Close, CloseConnections, CloseSessions, LiveInv, TypeInv, ConnInv
<1>2. /\ conn' \in [Conns -> ConnState]
      /\ \A c \in Conns : conn'[c].stage \in {"closing", "closed"} => conn'[c].closed
      /\ \A c \in Conns : conn[c].stage \in {"ready", "closing", "closed"} =>
            conn'[c].stage \in {"ready", "closing", "closed"}
      /\ closeStep' # "listeners" => \A c \in Conns : conn'[c].stage \in {"none", "closing", "closed"}
  <2>0. conn \in [Conns -> ConnState]
    BY DEF LiveInv, TypeInv
  <2>1. CASE Close
    BY <2>0, <2>1 DEF Close, LiveInv, ConnInv, IsTerminalConnection
  <2>2. CASE CloseConnections
    <3>1. \A c \in Conns : conn'[c] = IF c \in Accepted
                                      THEN [conn[c] EXCEPT !.stage = "closing", !.closed = TRUE]
                                      ELSE conn[c]
      BY <2>2 DEF CloseConnections
    <3>2. \A c \in Conns : /\ conn'[c] \in ConnState
                           /\ conn'[c].stage \in {"none", "closing", "closed"}
                           /\ conn'[c].stage # "none" => conn'[c].closed
                           /\ conn[c].stage # "none" => conn'[c].stage # "none"
      <4> TAKE c \in Conns
      <4>1. conn[c] \in ConnState /\ (conn[c].stage = "closed" => conn[c].closed)
        BY <2>0 DEF LiveInv, ConnInv, IsTerminalConnection
      <4>2. CASE c \in Accepted
        <5> DEFINE x == [conn[c] EXCEPT !.stage = "closing", !.closed = TRUE]
        <5>1. x \in ConnState /\ x.stage = "closing" /\ x.closed
          BY <4>1 DEF ConnState
        <5>2. conn'[c] = x
          BY <3>1, <4>2
        <5> QED BY <5>1, <5>2
      <4>3. CASE c \notin Accepted
        <5>1. conn'[c] = conn[c] /\ conn[c].stage \in {"none", "closed"}
          BY <3>1, <4>3 DEF Accepted
        <5> QED BY <4>1, <5>1
      <4> QED BY <4>2, <4>3
    <3>3. conn' \in [Conns -> ConnState]
      BY <2>2, <3>2 DEF CloseConnections
    <3> QED BY <3>2, <3>3
  <2>3. CASE CloseSessions
    BY <2>0, <2>3 DEF CloseSessions, LiveInv, ConnInv, IsTerminalConnection
  <2> QED BY <2>1, <2>2, <2>3
<1>3. TypeInv'
  BY <1>1, <1>2 DEF LiveInv, TypeInv, maps, CloseSteps
<1>4. ConnInv'
  BY <1>1, <1>2, TaskFields DEF LiveInv, ConnInv, IsTerminalConnection
<1>5. StageInv'
  BY <1>1 DEF LiveInv, StageInv, Staged
<1>6. PlaceInv'
  BY <1>1 DEF LiveInv, PlaceInv, maps, Holds
<1>7. WaitInv'
  BY <1>1 DEF LiveInv, WaitInv, maps, Holds
<1>8. OperationInv'
  BY <1>1, SameCounts DEF LiveInv, OperationInv, CountInv
<1>9. AttachInv'
  BY <1>1 DEF AttachInv, Undisturbed
<1> QED BY <1>3, <1>4, <1>5, <1>6, <1>7, <1>8, <1>9 DEF LiveInv

\* close() empties the map and starts the disposal of what it held.
LEMMA CloseLiveStep ==
    ASSUME LiveInv, Drained, CloseLive
    PROVE  LiveInv'
<1>1. /\ closing /\ UNCHANGED <<closing, conn, lives, opening, task>>
      /\ closeStep = "opening" /\ closeStep' = "disposing"
      /\ closeWaits' = liveSession /\ liveSession' = 0
      /\ liveSession # 0 => liveSession \in Lives
      /\ live \in [Lives -> LiveState]
  BY SMTT(60) DEF CloseLive, LiveInv, TypeInv, ConnInv, Lives
<1>2. /\ live' \in [Lives -> LiveState]
      /\ \A l \in Lives : /\ live'[l].status = live[l].status
                          /\ live'[l].disposing = live[l].disposing
                          /\ live'[l].terminal = live[l].terminal
                          /\ live'[l].subscribed => live[l].subscribed
                          /\ live'[l].operationCount = live[l].operationCount
                          /\ \/ live'[l].runtime = live[l].runtime
                             \/ /\ l = liveSession /\ live[l].disposing = "no"
                                /\ live'[l].runtime = "disposing"
  <2>1. CASE liveSession # 0 /\ live[liveSession].disposing = "no"
    <3>1. live' = [live EXCEPT ![liveSession].subscribed = FALSE, ![liveSession].runtime = "disposing"]
      BY <2>1 DEF CloseLive
    <3> DEFINE x == [live[liveSession] EXCEPT !.subscribed = FALSE, !.runtime = "disposing"]
    <3>2. live' = [live EXCEPT ![liveSession] = x]
      BY <1>1, <2>1, <3>1
    <3>3. live[liveSession] \in LiveState
      BY <1>1, <2>1
    <3>4. /\ x \in LiveState /\ x.status = live[liveSession].status /\ ~x.subscribed
          /\ x.disposing = live[liveSession].disposing /\ x.terminal = live[liveSession].terminal
          /\ x.operationCount = live[liveSession].operationCount /\ x.runtime = "disposing"
      BY <3>3 DEF LiveState
    <3> HIDE DEF x
    <3> QED BY <1>1, <2>1, <3>2, <3>4
  <2>2. CASE ~(liveSession # 0 /\ live[liveSession].disposing = "no")
    BY <1>1, <2>2 DEF CloseLive
  <2> QED BY <2>1, <2>2
<1>3. TypeInv'
  BY <1>1, <1>2, LivesAssumption, SMTT(60) DEF LiveInv, TypeInv, CloseSteps
<1>4. ConnInv'
  BY <1>1 DEF LiveInv, ConnInv, IsTerminalConnection
<1>5. liveSession # 0 => live[liveSession].status = "live"
  BY DEF LiveInv, PlaceInv
<1>6. StageInv'
  <2>1. \A l \in Lives : l = liveSession => live[l].status = "live"
    BY <1>5, SMTT(60) DEF Lives
  <2> QED BY <1>1, <1>2, <2>1, SMTT(60) DEF LiveInv, StageInv, Staged
<1>7. PlaceInv'
  <2>1. \A l \in Lives : Holds(l)' => Holds(l) \/ l = liveSession
    BY <1>2 DEF Holds
  <2>2. \A l \in Lives : Holds(l)' => l = opening \/ l = liveSession
    BY <1>1, <2>1 DEF LiveInv, PlaceInv
  <2> QED BY <1>1, <1>2, <1>5, <2>2, SMTT(60) DEF LiveInv, PlaceInv, TypeInv, Lives
<1>8. WaitInv'
  BY <1>1, <1>2, TaskFields, SMTT(60) DEF LiveInv, WaitInv, Drained
<1>9. OperationInv'
  <2>1. CountInv'
    BY <1>1, <1>2, SameCounts DEF LiveInv
  <2> QED BY <1>1, <1>2, <2>1, TaskFields, SMTT(60) DEF LiveInv, OperationInv, CountInv
<1>10. AttachInv'
  BY <1>1 DEF AttachInv, Undisturbed
<1> QED BY <1>3, <1>4, <1>6, <1>7, <1>8, <1>9, <1>10 DEF LiveInv

\* close() ends when dispose() of the runtime it waits for has settled.
LEMMA CloseDoneStep ==
    ASSUME LiveInv, CloseDone
    PROVE  LiveInv'
<1>1. /\ UNCHANGED <<closing, conn, live, maps, task>>
      /\ closing /\ closeStep = "disposing" /\ closeWaits' = 0
      /\ closeStep' \in {"closed", "rejected", "failed"}
      /\ closeWaits # 0 => live[closeWaits].runtime \in {"disposed", "undisposed"}
  BY DEF CloseDone, LiveInv, ConnInv
<1>2. TypeInv'
  BY <1>1, LivesAssumption, SMTT(60) DEF LiveInv, TypeInv, maps, CloseSteps
<1>3. ConnInv'
  BY <1>1 DEF LiveInv, ConnInv, IsTerminalConnection
<1>4. StageInv'
  BY <1>1 DEF LiveInv, StageInv, Staged
<1>5. PlaceInv'
  <2>1. \A l \in Lives : Holds(l) => l = opening \/ l = liveSession
    BY <1>1 DEF LiveInv, PlaceInv, Holds, Lives
  <2>2. \A l \in Lives : Holds(l)' <=> Holds(l)
    BY <1>1 DEF Holds
  <2> QED BY <1>1, <2>1, <2>2 DEF LiveInv, PlaceInv, maps
<1>6. WaitInv'
  BY <1>1 DEF LiveInv, WaitInv, maps, Holds
<1>7. OperationInv'
  BY <1>1, SameCounts DEF LiveInv, OperationInv, CountInv
<1>8. AttachInv'
  BY <1>1 DEF AttachInv, Undisturbed
<1> QED BY <1>2, <1>3, <1>4, <1>5, <1>6, <1>7, <1>8 DEF LiveInv

-----------------------------------------------------------------------------
(* The theorems.                                                           *)

\* The server starts in the invariant.
LEMMA InitInvariant == Init => LiveInv
<1> SUFFICES ASSUME Init PROVE LiveInv
  OBVIOUS
<1>1. \A l \in Lives : live[l] = NoLive
  BY DEF Init
<1>2. /\ NoLive \in LiveState /\ NoLive.status = "none" /\ NoLive.runtime = "none"
      /\ NoLive.disposing = "no" /\ NoLive.terminal = "no" /\ ~NoLive.subscribed
      /\ NoLive.operationCount = 0
  BY DEF NoLive, LiveState
<1>3. /\ NoConnection \in ConnState /\ NoConnection.stage = "none" /\ ~NoConnection.attached
  BY DEF NoConnection, ConnState
<1>4. \A t \in Tasks : task[t].step = "idle"
  BY DEF Init, Idle
<1>5. TypeInv
  <2>1. /\ conn \in [Conns -> ConnState] /\ live \in [Lives -> LiveState]
        /\ task \in [Tasks -> TaskState \cup {Idle}]
    BY <1>2, <1>3 DEF Init
  <2>2. closing \in BOOLEAN /\ closeStep \in CloseSteps
    BY DEF Init, CloseSteps
  <2>3. 0 \in 0 .. MaxLives
    BY LivesAssumption, SMTT(60)
  <2> QED BY <2>1, <2>2, <2>3 DEF Init, TypeInv
<1>6. ConnInv
  BY <1>3, <1>4 DEF Init, ConnInv, IsTerminalConnection
<1>7. StageInv /\ PlaceInv /\ WaitInv
  <2>1. StageInv
    BY <1>1, <1>2, <1>4 DEF Init, StageInv, Staged
  <2>2. PlaceInv
    BY <1>1, <1>2, <1>4 DEF Init, PlaceInv, Holds
  <2>3. WaitInv
    BY <1>1, <1>2, <1>4 DEF Init, WaitInv, Holds
  <2> QED BY <2>1, <2>2, <2>3
<1>8. OperationInv
  <2>1. \A l \in Lives : Operations(l) = {}
    BY <1>4 DEF Operations
  <2> QED BY <1>1, <1>2, <1>4, <2>1, FS_EmptySet DEF OperationInv
<1>9. AttachInv
  BY <1>3, <1>4 DEF Init, AttachInv
<1> QED BY <1>5, <1>6, <1>7, <1>8, <1>9 DEF LiveInv

\* Every step keeps the invariant.
LEMMA StepInvariant ==
    ASSUME LiveInv, [Next]_vars
    PROVE  LiveInv'
<1>1. CASE UNCHANGED vars
  <2>1. UNCHANGED <<server, conn, live, maps, task>>
    BY <1>1 DEF vars, server, maps
  <2>2. TypeInv' /\ ConnInv'
    BY <2>1 DEF LiveInv, TypeInv, ConnInv, server, maps, IsTerminalConnection
  <2>3. StageInv' /\ PlaceInv' /\ WaitInv'
    BY <2>1 DEF LiveInv, StageInv, Staged, PlaceInv, WaitInv, Holds, server, maps
  <2>4. OperationInv'
    BY <2>1, SameCounts DEF LiveInv, OperationInv, CountInv
  <2>5. AttachInv'
    BY <2>1 DEF LiveInv, AttachInv, Undisturbed, Usable, server, maps
  <2> QED BY <2>2, <2>3, <2>4, <2>5 DEF LiveInv
<1>2. CASE \E t \in Tasks : OpeningSettled(t) \/ DisposingSettled(t)
  BY <1>2, OpeningSettledStep, DisposingSettledStep
<1>3. CASE Drained /\ \E c \in Conns : ConnStep(c)
  BY <1>3, HandshakeSteps, DisconnectStep DEF ConnStep
<1>4. CASE Drained /\ \E t \in Tasks : TaskStep(t)
  BY <1>4, RequestAttachStep, RequestDetachStep, RequestOperationStep, DetachEndsStep,
     OperationEndsStep DEF TaskStep
<1>5. CASE Drained /\ \E l \in Lives : LiveStep(l)
  BY <1>5, CreateSteps, RuntimeEvents, RuntimeErrorStep, RuntimeDisposedStep DEF LiveStep
<1>6. CASE Drained /\ CloseStep
  BY <1>6, CloseSteps1, CloseLiveStep, CloseDoneStep DEF CloseStep
<1> QED BY <1>1, <1>2, <1>3, <1>4, <1>5, <1>6 DEF Next

\* The invariant holds in every reachable state.
THEOREM InvariantTheorem == Spec => []LiveInv
BY InitInvariant, StepInvariant, PTL DEF Spec

\* Whatever attaches, disconnects, failures and closes overlap, acquire() never asks the service
\* for the session while an earlier runtime of it is undisposed.
THEOREM RuntimeExclusiveTheorem == Spec => []RuntimeExclusive
<1>1. LiveInv => RuntimeExclusive
  BY Exclusive
<1> QED BY <1>1, InvariantTheorem, PTL

\* Until close(), maybeDispose disposes no runtime under an operation, and operationCount is the
\* number of operations in flight, for any number of requests and connections.
THEOREM OperationKeepsRuntimeTheorem == Spec => []OperationKeepsRuntime
<1>1. LiveInv => OperationKeepsRuntime
  BY TaskFields DEF LiveInv, ConnInv, StageInv, Staged, OperationInv, Operations, OperationKeepsRuntime
<1> QED BY <1>1, InvariantTheorem, PTL

\* As long as no transport closed and the server does not close, the session a connection is
\* attached to is live and counts the connection.
THEOREM AttachedControlsRuntimeTheorem == Spec => []AttachedControlsRuntime
<1>1. LiveInv => AttachedControlsRuntime
  BY DEF LiveInv, AttachInv, Undisturbed, Usable, AttachedControlsRuntime
<1> QED BY <1>1, InvariantTheorem, PTL
=============================================================================
