--------------------------- MODULE LiveSessions ---------------------------
(***************************************************************************)
(* The session server: PiServer (server.ts) and LiveSessionManager         *)
(* (sessions.ts), for one durable session that several connections attach  *)
(* to.  Every action is the code between two awaits; between actions any   *)
(* other callback of the process may run.                                  *)
(*                                                                         *)
(* A number l in Lives stands for one object LiveSession together with the *)
(* runtime the service opened for it, from the call of create() on.        *)
(* `liveSession' is the entry of the map liveSessions for the session and  *)
(* `opening' the one of openingSessions, 0 when the map has none.          *)
(*                                                                         *)
(* Left out: what snapshots and responses carry (sending changes no state  *)
(* of the manager), and the server snapshots of snapshots.ts.              *)
(***************************************************************************)
EXTENDS Integers, FiniteSets

CONSTANTS
    Conns,      \* connections a listener hands to accept()
    Tasks,      \* requests that can be in progress at a time
    MaxLives    \* bound: how often the service opens the session

ASSUME LivesAssumption == MaxLives \in Nat
ASSUME TasksAssumption == IsFiniteSet(Tasks)

VARIABLES
    closing,      \* PiServer.closing
    closeStep,    \* where closeInternal() is
    closeWaits,   \* the live object close() waits for, 0 for none
    conn,         \* the ConnectionState of every connection
    live,         \* the LiveSession objects
    lives,        \* how many of them exist
    liveSession,  \* liveSessions.get(id)
    opening,      \* openingSessions.get(id)
    task          \* the requests in progress

vars == <<closing, closeStep, closeWaits, conn, live, lives, liveSession, opening, task>>
server == <<closing, closeStep, closeWaits>>
maps == <<lives, liveSession, opening>>

Lives == 1 .. MaxLives

\* The stage "sendingHello" is the part of "handshaking" after the first await of
\* finishHandshake.  disconnect() sets `disconnected' and the stage "closed" together.
ConnState == [stage : {"none", "awaitingHello", "handshaking", "sendingHello", "ready", "closing", "closed"},
              closed : BOOLEAN,        \* connection.connection.closed
              attached : BOOLEAN]      \* sessionIds.has(id)

LiveState == [status : {"none", "acquiring", "snapshot", "failing", "failed", "live"},
              runtime : {"none", "open", "disposing", "disposed", "undisposed"},   \* its dispose() rejected
              phase : {"idle", "busy"},
              connections : SUBSET Conns,
              operationCount : Nat,
              subscribed : BOOLEAN,
              terminal : {"no", "closing", "done"},
              captured : SUBSET Conns,    \* the connections terminate() closes
              disposing : {"no", "pending", "settled", "rejected"}]

TaskState == [step : {"opening", "disposing", "detaching", "operation"},
              conn : Conns, live : Lives, creator : BOOLEAN]

NoConnection == [stage |-> "none", closed |-> FALSE, attached |-> FALSE]

Idle == [step |-> "idle"]

NoLive == [status |-> "none", runtime |-> "none", phase |-> "idle", connections |-> {},
           operationCount |-> 0, subscribed |-> FALSE, terminal |-> "no",
           captured |-> {}, disposing |-> "no"]

Init ==
    /\ closing = FALSE
    /\ closeStep = "open"
    /\ closeWaits = 0
    /\ conn = [c \in Conns |-> NoConnection]
    /\ live = [l \in Lives |-> NoLive]
    /\ lives = 0
    /\ liveSession = 0
    /\ opening = 0
    /\ task = [t \in Tasks |-> Idle]

-----------------------------------------------------------------------------
(* maybeDispose() and what it decides on.                                  *)

\* The condition of maybeDispose without the check of operationCount.
MutCanDispose(r) ==
    /\ ~closing
    /\ r.status = "live"
    /\ r.disposing = "no"
    /\ r.connections = {}
    /\ r.terminal # "no" \/ r.phase = "idle"

\* maybeDispose may go on: nobody is attached, nothing runs.
CanDispose(r) ==
    /\ ~closing
    /\ r.status = "live"
    /\ r.disposing = "no"
    /\ r.connections = {}
    /\ r.operationCount = 0
    /\ r.terminal # "no" \/ r.phase = "idle"

\* maybeDispose up to its await: unsubscribe, and start runtime.dispose().
MaybeDispose(r) ==
    IF CanDispose(r)
    THEN [r EXCEPT !.disposing = "pending", !.subscribed = FALSE, !.runtime = "disposing"]
    ELSE r

\* runtime.dispose() resolves or rejects.  Either way the finally block takes the object out of
\* the map, and a create() that disposed the runtime rejects.
RuntimeDisposed(l) ==
    /\ live[l].runtime = "disposing"
    /\ \E resolves \in BOOLEAN :
           live' = [live EXCEPT ![l].runtime = IF resolves THEN "disposed" ELSE "undisposed",
                                ![l].status = IF @ = "failing" THEN "failed" ELSE @,
                                ![l].disposing = IF @ # "pending" THEN @
                                                 ELSE IF resolves THEN "settled" ELSE "rejected"]
    /\ liveSession' = IF live[l].disposing = "pending" /\ liveSession = l THEN 0 ELSE liveSession
    /\ opening' = IF live[l].status = "failing" THEN 0 ELSE opening
    /\ UNCHANGED <<server, conn, lives, task>>

-----------------------------------------------------------------------------
(* Connections: accept(), the handshake, and every way to be closed.       *)

Handshaking(c) == conn[c].stage \in {"awaitingHello", "handshaking", "sendingHello"}

IsTerminalConnection(c) == conn[c].stage \in {"closing", "closed"}

Accept(c) ==
    /\ conn[c].stage = "none"
    /\ ~closing
    /\ conn' = [conn EXCEPT ![c].stage = "awaitingHello"]
    /\ UNCHANGED <<server, live, maps, task>>

Hello(c) ==
    /\ conn[c].stage = "awaitingHello"
    /\ conn' = [conn EXCEPT ![c].stage = "handshaking"]
    /\ UNCHANGED <<server, live, maps, task>>

\* finishHandshake: the snapshot is there, and the server hello is sent.
HandshakeListed(c) ==
    /\ conn[c].stage = "handshaking"
    /\ ~closing /\ ~conn[c].closed
    /\ conn' = [conn EXCEPT ![c].stage = "sendingHello"]
    /\ UNCHANGED <<server, live, maps, task>>

HandshakeSent(c) ==
    /\ conn[c].stage = "sendingHello"
    /\ conn' = [conn EXCEPT ![c].stage = "ready"]
    /\ UNCHANGED <<server, live, maps, task>>

\* failProtocol: the stage is closing and the transport is closed; Disconnect follows.
FailProtocol(c) ==
    /\ conn[c].stage # "none"
    /\ ~IsTerminalConnection(c)
    /\ conn' = [conn EXCEPT ![c].stage = "closing", ![c].closed = TRUE]
    /\ UNCHANGED <<server, live, maps, task>>

\* The timer is cleared only once the server hello was sent.
HandshakeTimeout(c) ==
    /\ Handshaking(c)
    /\ FailProtocol(c)

\* A malformed frame, a second hello, an unsupported version, a failing listSessions.
ProtocolError(c) == (Handshaking(c) \/ conn[c].stage = "ready") /\ FailProtocol(c)

\* The peer, or a send that fails, closes the transport.
TransportCloses(c) ==
    /\ (Handshaking(c) \/ conn[c].stage = "ready")
    /\ ~conn[c].closed
    /\ conn' = [conn EXCEPT ![c].closed = TRUE]
    /\ UNCHANGED <<server, live, maps, task>>

\* disconnect() without the maybeDispose of the session's live object.
MutDisconnect(c) ==
    /\ conn[c].closed /\ conn[c].stage # "closed"
    /\ conn' = [conn EXCEPT ![c].stage = "closed", ![c].attached = FALSE]
    /\ live' = IF conn[c].attached /\ liveSession # 0
               THEN [live EXCEPT ![liveSession].connections = @ \ {c}]
               ELSE live
    /\ UNCHANGED <<server, maps, task>>

\* PiServer.disconnect and LiveSessionManager.disconnect.
Disconnect(c) ==
    /\ conn[c].closed /\ conn[c].stage # "closed"
    /\ conn' = [conn EXCEPT ![c].stage = "closed", ![c].attached = FALSE]
    /\ live' = IF conn[c].attached /\ liveSession # 0
               THEN [live EXCEPT ![liveSession] = MaybeDispose([live[liveSession] EXCEPT !.connections = @ \ {c}])]
               ELSE live
    /\ UNCHANGED <<server, maps, task>>

-----------------------------------------------------------------------------
(* Requests.  A task is one call of handleRequest.                         *)

Done(t) == task' = [task EXCEPT ![t] = Idle]

Waiting(t, c, step, l, creator) ==
    task' = [task EXCEPT ![t] = [step |-> step, conn |-> c, live |-> l, creator |-> creator]]

\* attach(): a connection that went away leaves the object to maybeDispose.
Attach(t, c, l) ==
    /\ Done(t)
    /\ IF conn[c].stage # "ready" \/ conn[c].closed
       THEN /\ live' = [live EXCEPT ![l] = MaybeDispose(@)]
            /\ UNCHANGED conn
       ELSE /\ conn' = [conn EXCEPT ![c].attached = TRUE]
            /\ live' = [live EXCEPT ![l].connections = @ \cup {c}]

\* Mutant: a session being disposed is handed out.
MutExisting == liveSession # 0 /\ live[liveSession].terminal = "no"

\* The object in the map can be attached to.
Existing == liveSession # 0 /\ live[liveSession].terminal = "no" /\ live[liveSession].disposing = "no"

\* The create() that does not look whether the session is being opened already.
MutCreate(t, c) ==
    /\ liveSession = 0
    /\ lives < MaxLives
    /\ lives' = lives + 1
    /\ opening' = lives + 1
    /\ live' = [live EXCEPT ![lives + 1].status = "acquiring"]
    /\ Waiting(t, c, "opening", lives + 1, TRUE)
    /\ UNCHANGED <<conn, liveSession>>

\* acquire() with no object in the map and none being opened: create().
Create(t, c) ==
    /\ liveSession = 0 /\ opening = 0
    /\ lives < MaxLives
    /\ lives' = lives + 1
    /\ opening' = lives + 1
    /\ live' = [live EXCEPT ![lives + 1].status = "acquiring"]
    /\ Waiting(t, c, "opening", lives + 1, TRUE)
    /\ UNCHANGED <<conn, liveSession>>

\* One turn of the loop of acquire(), and the attach() that follows its return.
Acquire(t, c) ==
    /\ UNCHANGED server
    /\ \/ /\ Existing
          /\ Attach(t, c, liveSession)
          /\ UNCHANGED maps
       \/ /\ liveSession # 0 /\ live[liveSession].terminal # "no"
          /\ Done(t)                                   \* session_locked
          /\ UNCHANGED <<conn, live, maps>>
       \/ /\ liveSession # 0 /\ live[liveSession].terminal = "no"
          /\ live[liveSession].disposing # "no"
          /\ Waiting(t, c, "disposing", liveSession, FALSE)
          /\ UNCHANGED <<conn, live, maps>>
       \/ /\ liveSession = 0 /\ opening # 0
          /\ Waiting(t, c, "opening", opening, FALSE)
          /\ UNCHANGED <<conn, live, maps>>
       \/ Create(t, c)
       \/ /\ liveSession = 0 /\ opening = 0 /\ lives = MaxLives
          /\ Done(t)                                   \* the bound: openSession rejects
          /\ UNCHANGED <<conn, live, maps>>

\* handleRequest runs for a connection that finished its handshake.
Receives(t, c) == task[t].step = "idle" /\ conn[c].stage = "ready"

RequestAttach(t, c) == Receives(t, c) /\ Acquire(t, c)

\* The await of existing.disposing ends; a rejected one fails the request.
DisposingSettled(t) ==
    /\ task[t].step = "disposing"
    /\ \/ live[task[t].live].disposing = "settled" /\ Acquire(t, task[t].conn)
       \/ /\ live[task[t].live].disposing = "rejected"
          /\ Done(t) /\ UNCHANGED <<server, conn, live, maps>>

\* Callers that share an opening are not told that it failed.
MutOpeningSettled(t) ==
    LET l == task[t].live IN
    /\ task[t].step = "opening"
    /\ live[l].status \in (IF task[t].creator THEN {"live", "failed"} ELSE {"live"})
    /\ task[t].creator \/ \A u \in Tasks : task[u].step = "opening" /\ task[u].live = l => ~task[u].creator
    /\ IF live[l].status = "live"
       THEN Attach(t, task[t].conn, l)
       ELSE Done(t) /\ UNCHANGED <<conn, live>>
    /\ UNCHANGED <<server, maps>>

\* The await of create() ends.  The caller that created resumes before those that share it.
OpeningSettled(t) ==
    LET l == task[t].live IN
    /\ task[t].step = "opening"
    /\ live[l].status \in {"live", "failed"}
    /\ task[t].creator \/ \A u \in Tasks : task[u].step = "opening" /\ task[u].live = l => ~task[u].creator
    /\ IF live[l].status = "live"
       THEN Attach(t, task[t].conn, l)
       ELSE Done(t) /\ UNCHANGED <<conn, live>>
    /\ UNCHANGED <<server, maps>>

RequestDetach(t, c) ==
    /\ Receives(t, c)
    /\ conn[c].attached
    /\ conn' = [conn EXCEPT ![c].attached = FALSE]
    /\ IF liveSession = 0
       THEN Done(t) /\ UNCHANGED live
       ELSE LET r == [live[liveSession] EXCEPT !.connections = @ \ {c}] IN
            IF r.connections # {} /\ r.terminal = "no" /\ r.disposing = "no"
            THEN /\ live' = [live EXCEPT ![liveSession] = r]
                 /\ Waiting(t, c, "detaching", liveSession, FALSE)
            ELSE /\ live' = [live EXCEPT ![liveSession] = MaybeDispose(r)]
                 /\ Done(t)
    /\ UNCHANGED <<server, maps>>

\* The snapshot for the remaining connections was sent, or taking it threw.
DetachEnds(t) ==
    /\ task[t].step = "detaching"
    /\ \/ live' = [live EXCEPT ![task[t].live] = MaybeDispose(@)]
       \/ UNCHANGED live
    /\ Done(t)
    /\ UNCHANGED <<server, conn, maps>>

\* prompt, steer, abort, set_model, set_thinking: requireAttached and runOperation.
RequestOperation(t, c) ==
    /\ Receives(t, c)
    /\ conn[c].attached
    /\ Existing
    /\ live' = [live EXCEPT ![liveSession].operationCount = @ + 1]
    /\ Waiting(t, c, "operation", liveSession, FALSE)
    /\ UNCHANGED <<server, conn, maps>>

\* The operation and its snapshot ended, well or not: the finally block.
OperationEnds(t) ==
    /\ task[t].step = "operation"
    /\ live' = [live EXCEPT ![task[t].live] =
                   MaybeDispose([live[task[t].live] EXCEPT !.operationCount = @ - 1])]
    /\ Done(t)
    /\ UNCHANGED <<server, conn, maps>>

-----------------------------------------------------------------------------
(* create(), and the events of a runtime.                                  *)

\* The service hands over the runtime; a server that closes disposes it at once.
RuntimeAcquired(l) ==
    /\ live[l].status = "acquiring"
    /\ live' = IF closing
               THEN [live EXCEPT ![l].status = "failing", ![l].runtime = "disposing"]
               ELSE [live EXCEPT ![l].status = "snapshot", ![l].runtime = "open"]
    /\ UNCHANGED <<server, conn, maps, task>>

RuntimeRefused(l) ==
    /\ live[l].status = "acquiring"
    /\ live' = [live EXCEPT ![l].status = "failed"]
    /\ opening' = 0
    /\ UNCHANGED <<server, conn, lives, liveSession, task>>

\* The first snapshot: the object enters the map, or the runtime is disposed again.
FirstSnapshot(l) ==
    /\ live[l].status = "snapshot"
    /\ live' = [live EXCEPT ![l].status = "live", ![l].subscribed = TRUE]
    /\ liveSession' = l
    /\ opening' = 0
    /\ UNCHANGED <<server, conn, lives, task>>

FirstSnapshotFails(l) ==
    /\ live[l].status = "snapshot"
    /\ live' = [live EXCEPT ![l].status = "failing", ![l].runtime = "disposing"]
    /\ UNCHANGED <<server, conn, maps, task>>

\* A prompt makes the runtime busy.
RuntimeBusy(l) ==
    /\ live[l].runtime = "open" /\ live[l].phase = "idle" /\ live[l].operationCount > 0
    /\ live' = [live EXCEPT ![l].phase = "busy"]
    /\ UNCHANGED <<server, conn, maps, task>>

\* It becomes idle again and says so with a snapshot event.
RuntimeIdle(l) ==
    /\ live[l].runtime = "open" /\ live[l].phase = "busy"
    /\ live' = [live EXCEPT ![l] = IF live[l].subscribed THEN MaybeDispose([@ EXCEPT !.phase = "idle"])
                                                  ELSE [@ EXCEPT !.phase = "idle"]]
    /\ UNCHANGED <<server, conn, maps, task>>

\* Any other snapshot or progress event.
RuntimeEvent(l) ==
    /\ live[l].runtime = "open" /\ live[l].subscribed
    /\ CanDispose(live[l])
    /\ live' = [live EXCEPT ![l] = MaybeDispose(@)]
    /\ UNCHANGED <<server, conn, maps, task>>

\* terminate() up to its first await: the transports of the attached connections close.
RuntimeError(l) ==
    /\ live[l].runtime = "open" /\ live[l].subscribed /\ live[l].terminal = "no"
    /\ live' = [live EXCEPT ![l].terminal = "closing", ![l].subscribed = FALSE,
                            ![l].captured = live[l].connections]
    /\ conn' = [c \in Conns |-> IF c \in live[l].connections THEN [conn[c] EXCEPT !.closed = TRUE]
                                                             ELSE conn[c]]
    /\ UNCHANGED <<server, maps, task>>

\* terminate() after the connections it closed have been disconnected.
Terminated(l) ==
    /\ live[l].terminal = "closing"
    /\ \A c \in live[l].captured : conn[c].stage = "closed"
    /\ live' = [live EXCEPT ![l] = MaybeDispose([@ EXCEPT !.terminal = "done", !.captured = {}])]
    /\ UNCHANGED <<server, conn, maps, task>>

-----------------------------------------------------------------------------
(* close().                                                                *)

Close ==
    /\ ~closing
    /\ closing' = TRUE
    /\ closeStep' = "listeners"
    /\ UNCHANGED <<closeWaits, conn, live, maps, task>>

Accepted == {c \in Conns : conn[c].stage \notin {"none", "closed"}}

\* The listeners are closed: closeServerState up to its first await.
CloseConnections ==
    /\ closeStep = "listeners"
    /\ closeStep' = "connections"
    /\ conn' = [c \in Conns |-> IF c \in Accepted
                                THEN [conn[c] EXCEPT !.stage = "closing", !.closed = TRUE]
                                ELSE conn[c]]
    /\ UNCHANGED <<closing, closeWaits, live, maps, task>>

\* All connections are disconnected; sessions.close() reads openingSessions.
CloseSessions ==
    /\ closeStep = "connections"
    /\ Accepted = {}
    /\ closeStep' = "opening"
    /\ closeWaits' = opening
    /\ UNCHANGED <<closing, conn, live, maps, task>>

\* close() that leaves what is not being disposed to maybeDispose.
MutCloseLive ==
    /\ closeStep = "opening"
    /\ closeWaits # 0 => live[closeWaits].status \in {"live", "failed"}
    /\ closeStep' = "disposing"
    /\ closeWaits' = liveSession
    /\ liveSession' = 0
    /\ UNCHANGED <<closing, conn, live, lives, opening, task>>

\* What was being opened has settled: empty the map, and dispose what it held.
CloseLive ==
    /\ closeStep = "opening"
    /\ closeWaits # 0 => live[closeWaits].status \in {"live", "failed"}
    /\ closeStep' = "disposing"
    /\ closeWaits' = liveSession
    /\ liveSession' = 0
    /\ live' = IF liveSession # 0 /\ live[liveSession].disposing = "no"
               THEN [live EXCEPT ![liveSession].subscribed = FALSE,
                                 ![liveSession].runtime = "disposing"]
               ELSE live
    /\ UNCHANGED <<closing, conn, lives, opening, task>>

\* closeInternal ends.  A dispose() that rejects skips the rest of closeServerState and leaves
\* `started' set ("failed"); a listener's close() that rejected only makes close() reject.
CloseDone ==
    /\ closeStep = "disposing"
    /\ closeWaits # 0 => live[closeWaits].runtime \in {"disposed", "undisposed"}
    /\ closeStep' \in IF closeWaits # 0 /\ live[closeWaits].runtime = "undisposed" THEN {"failed"}
                      ELSE {"closed", "rejected"}
    /\ closeWaits' = 0
    /\ UNCHANGED <<closing, conn, live, maps, task>>

-----------------------------------------------------------------------------
ConnStep(c) ==
    \/ Accept(c) \/ Hello(c) \/ HandshakeListed(c) \/ HandshakeSent(c)
    \/ HandshakeTimeout(c) \/ ProtocolError(c) \/ TransportCloses(c) \/ Disconnect(c)

TaskStep(t) ==
    \/ \E c \in Conns : RequestAttach(t, c) \/ RequestDetach(t, c) \/ RequestOperation(t, c)
    \/ DetachEnds(t) \/ OperationEnds(t)

LiveStep(l) ==
    \/ RuntimeAcquired(l) \/ RuntimeRefused(l) \/ FirstSnapshot(l) \/ FirstSnapshotFails(l)
    \/ RuntimeBusy(l) \/ RuntimeIdle(l) \/ RuntimeEvent(l) \/ RuntimeError(l)
    \/ Terminated(l) \/ RuntimeDisposed(l)

CloseStep == Close \/ CloseConnections \/ CloseSessions \/ CloseLive \/ CloseDone

\* No continuation of a create() or of a disposal is due.  Those that are run before the process
\* takes the next event of a socket, a timer or a runtime.
Drained ==
    \A t \in Tasks :
        /\ task[t].step = "opening" => live[task[t].live].status \notin {"live", "failed"}
        /\ task[t].step = "disposing" => live[task[t].live].disposing \notin {"settled", "rejected"}

Next ==
    \/ \E t \in Tasks : OpeningSettled(t) \/ DisposingSettled(t)
    \/ Drained /\ \/ \E c \in Conns : ConnStep(c)
                  \/ \E t \in Tasks : TaskStep(t)
                  \/ \E l \in Lives : LiveStep(l)
                  \/ CloseStep

Spec == Init /\ [][Next]_vars

\* Timers fire, promises the service and the runtime returned settle, and pending
\* continuations run.  Peers, runtimes and the application promise nothing.
Fairness ==
    /\ \A c \in Conns : WF_vars(HandshakeTimeout(c)) /\ WF_vars(Disconnect(c))
    /\ \A t \in Tasks :
          /\ WF_vars(DisposingSettled(t))
          /\ WF_vars(OpeningSettled(t))
          /\ WF_vars(DetachEnds(t))
          /\ WF_vars(OperationEnds(t))
    /\ \A l \in Lives :
          /\ WF_vars(RuntimeAcquired(l) \/ RuntimeRefused(l))
          /\ WF_vars(FirstSnapshot(l) \/ FirstSnapshotFails(l))
          /\ WF_vars(RuntimeDisposed(l))
          /\ WF_vars(Terminated(l))
    /\ WF_vars(CloseConnections \/ CloseSessions \/ CloseLive \/ CloseDone)

FairSpec == Spec /\ Fairness

-----------------------------------------------------------------------------
(* Properties.                                                             *)

\* The service is asked for the session, or holds a runtime of it, for this object.
Holds(l) == live[l].status = "acquiring" \/ live[l].runtime \in {"open", "disposing"}

\* The service opens runtimes exclusively: whatever attaches, disconnects, fails and closes
\* overlap, acquire() never asks for the session before dispose() of its last runtime settled.
\* (One that rejected counts: the manager forgets the runtime and lets the service decide.)
RuntimeExclusive == \A l, m \in Lives : Holds(l) /\ Holds(m) => l = m

\* Until close(), no runtime is disposed while an operation on it is in flight, although the
\* connection that asked for it may have gone and others detached meanwhile.
OperationKeepsRuntime ==
    \A t \in Tasks : task[t].step = "operation" /\ ~closing =>
        /\ live[task[t].live].runtime = "open"
        /\ live[task[t].live].operationCount =
              Cardinality({u \in Tasks : task[u].step = "operation" /\ task[u].live = task[t].live})

\* A live object nobody uses: no connection, no operation, an idle runtime.
Unused(l) ==
    /\ live[l].status = "live" /\ live[l].runtime = "open" /\ live[l].phase = "idle"
    /\ live[l].connections = {} /\ live[l].operationCount = 0

\* No runtime leaks: an unused one does not stay open for ever, whichever of detach, disconnect,
\* the end of an operation, terminate or a failed attach left it unused.
UnusedIsDisposed == \A l \in Lives : Unused(l) ~> ~Unused(l)

\* Every request is answered: nothing waits for ever on an opening or a disposal, and no two
\* requests wait on each other.
RequestsAnswered == \A t \in Tasks : task[t].step # "idle" ~> task[t].step = "idle"

\* close() settles, and by then dispose() of every runtime the service opened has settled.  It
\* stops half-way only when one of them rejected.
CloseCompletes ==
    closing ~> /\ closeStep \in {"closed", "rejected", "failed"}
               /\ \A l \in Lives : ~Holds(l)
               /\ closeStep = "failed" => \E l \in Lives : live[l].runtime = "undisposed"

\* An attached client controls the live runtime: as long as no transport closed and the server
\* does not close, the session a connection is attached to is live and counts the connection,
\* so that its operations are served and its detach lets the runtime go.
AttachedControlsRuntime ==
    ~closing /\ (\A c \in Conns : ~conn[c].closed) =>
        \A c \in Conns : conn[c].attached =>
            /\ liveSession # 0 /\ c \in live[liveSession].connections
            /\ live[liveSession].disposing = "no" /\ live[liveSession].terminal = "no"
=============================================================================
