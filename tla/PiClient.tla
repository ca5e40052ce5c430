------------------------------ MODULE PiClient ------------------------------
(***************************************************************************)
(* PiClient (client.ts) with its Connection (connection.ts) and ClientState *)
(* (state.ts): leases on one session, the attach and detach requests behind *)
(* them, and the snapshots that say whether the session is attached.  The   *)
(* server is what sessions.ts does for this one connection: it answers in   *)
(* any order, a failing command may have taken effect already, and a        *)
(* session it opens again starts with a lower revision.                     *)
(*                                                                         *)
(* Every action of the client is the code between two awaits.  A promise is *)
(* the number of the request it settles with, 0 when a map has no entry.    *)
(*                                                                         *)
(* The application's calls come at any point, those of a listener included; *)
(* what listeners are told is left out, and so are createSession and list,  *)
(* the event session_removed (no server code sends it) and frames (protocol *)
(* errors end in Lost).                                                     *)
(***************************************************************************)
EXTENDS Integers, Sequences, FiniteSets

CONSTANTS
    Leases,          \* users of the session, each with one lease at a time
    MaxRequests,     \* bound: requests sent
    MaxConnections,  \* bound: calls of connect
    MaxRevision,     \* bound: revision of a session snapshot
    MaxInFlight      \* bound: server messages in transit

ASSUME ClientBounds ==
    /\ MaxRequests \in Nat /\ MaxConnections \in Nat
    /\ MaxRevision \in Nat /\ MaxInFlight \in Nat

VARIABLES
    lifecycle, connections,              \* Connection
    disposed,
    leaseCount, exclusive, generation,   \* sessionLeaseCounts, exclusiveSessionLeases, ...Generations
    attachment, detachment, reconciliation, cleanupRequired,
    attached, snapshot,                  \* ClientState: attachedSessionIds, the stored revision
    request, sent,                       \* what became of each request, and how many there are
    lease,
    toServer, toClient,                  \* requests and server messages in transit
    chunk,                               \* messages of the chunk being handled that still wait
    serverAttached,                      \* the server's side: connection.sessionIds,
    opening, serving, revision,          \* attach commands before and commands after attach()
    lateFailure,                         \* the last command that took effect was reported as failed
    overtaken                            \* see ReservationsHold

connVars == <<lifecycle, connections, disposed>>
countVars == <<leaseCount, exclusive, generation>>
promiseVars == <<attachment, detachment, reconciliation, cleanupRequired>>
stateVars == <<attached, snapshot>>
requestVars == <<request, sent, toServer>>
incoming == <<toClient, chunk>>
serverVars == <<serverAttached, opening, serving, revision, lateFailure>>
vars == <<connVars, countVars, promiseVars, stateVars, requestVars, lease, incoming, serverVars,
          overtaken>>

Requests == 1 .. MaxRequests
NoSnapshot == -1
NoRequest == [command |-> "none", status |-> "none", previous |-> NoSnapshot]
NoLease == [step |-> "none", mode |-> "shared", on |-> 0, generation |-> 0, relinquish |-> FALSE]

Init ==
    /\ lifecycle = "disconnected" /\ connections = 0 /\ disposed = FALSE
    /\ leaseCount = 0 /\ exclusive = "nobody" /\ generation = 0
    /\ attachment = 0 /\ detachment = 0 /\ reconciliation = 0 /\ cleanupRequired = FALSE
    /\ attached = FALSE /\ snapshot = NoSnapshot
    /\ request = [r \in Requests |-> NoRequest] /\ sent = 0
    /\ lease = [a \in Leases |-> NoLease]
    /\ toServer = <<>> /\ toClient = <<>> /\ chunk = 0
    /\ serverAttached = FALSE /\ opening = {} /\ serving = {} /\ revision = 0 /\ lateFailure = FALSE
    /\ overtaken = FALSE

Settled(r) == request[r].status \in {"ok", "error"}

\* A lease whose await has ended.
Due(a) == lease[a].on # 0 /\ Settled(lease[a].on)

\* No continuation is due.
Drained == \A a \in Leases : ~Due(a)

-----------------------------------------------------------------------------
(* The connection.                                                         *)

Connect ==
    /\ ~disposed /\ lifecycle = "disconnected" /\ connections < MaxConnections
    /\ lifecycle' = "connecting" /\ connections' = connections + 1
    /\ attached' = FALSE /\ snapshot' = NoSnapshot        \* ClientState.reset
    /\ UNCHANGED <<disposed, countVars, promiseVars, requestVars, lease,
                   incoming, serverVars, overtaken>>

\* The transport is open and the client hello sent; the server hello arrives.
Handshake ==
    /\ lifecycle = "connecting"
    /\ lifecycle' = "connected"
    /\ UNCHANGED <<connections, disposed, countVars, promiseVars, stateVars, requestVars, lease,
                   incoming, serverVars, overtaken>>

\* invalidateAllSessionLeases that keeps the generation.
MutInvalidateAll ==
    /\ leaseCount' = 0 /\ exclusive' = "nobody" /\ cleanupRequired' = FALSE
    /\ UNCHANGED generation

InvalidateAll ==
    /\ leaseCount' = 0 /\ exclusive' = "nobody" /\ cleanupRequired' = FALSE
    /\ generation' = IF leaseCount > 0 THEN generation + 1 ELSE generation

\* The connection loss that leaves pending requests pending.
MutFail ==
    /\ lifecycle' = "disconnected"
    /\ attached' = FALSE
    /\ InvalidateAll
    /\ toServer' = <<>> /\ toClient' = <<>> /\ chunk' = 0
    /\ serverAttached' = FALSE /\ opening' = {} /\ serving' = {} /\ lateFailure' = FALSE
    /\ overtaken' = (~Drained \/ (overtaken /\ leaseCount = 0))
    /\ UNCHANGED <<connections, attachment, detachment, reconciliation, request, sent, lease, revision>>

\* Connection.#fail and handleConnectionStateChange: attachments and leases are gone and pending
\* requests rejected.  What is in transit is lost; the server has forgotten the connection.
Fail ==
    /\ lifecycle' = "disconnected"
    /\ attached' = FALSE
    /\ InvalidateAll
    /\ request' = [r \in Requests |-> IF request[r].status = "pending"
                                      THEN [request[r] EXCEPT !.status = "error"] ELSE request[r]]
    /\ toServer' = <<>> /\ toClient' = <<>> /\ chunk' = 0
    /\ serverAttached' = FALSE /\ opening' = {} /\ serving' = {} /\ lateFailure' = FALSE
    /\ overtaken' = (~Drained \/ (overtaken /\ leaseCount = 0))
    /\ UNCHANGED <<connections, attachment, detachment, reconciliation, sent, lease, revision>>

\* The transport closes or fails, a frame is malformed, or the application disconnects.
Lost == lifecycle # "disconnected" /\ Fail /\ UNCHANGED <<disposed, snapshot>>

Dispose ==
    /\ ~disposed
    /\ disposed' = TRUE
    /\ Fail
    /\ snapshot' = NoSnapshot

-----------------------------------------------------------------------------
(* Leases.                                                                 *)

\* releaseSessionLease(token)
Released(a) ==
    /\ leaseCount' = IF leaseCount <= 1 THEN 0 ELSE leaseCount - 1
    /\ exclusive' = IF exclusive = a THEN "nobody" ELSE exclusive
    /\ UNCHANGED generation

\* The bound leaves room for the two requests that acquisitions on their way may still send.
Room ==
    sent + (IF \E a \in Leases : lease[a].step \in {"waiting", "reconciling"} THEN 3 ELSE 1) <= MaxRequests

\* A call that is over: its lease is released, was never created or is found invalidated.
Over(a) == lease' = [lease EXCEPT ![a] = NoLease]

\* The application holds no lease from this call, or one that a disconnection has invalidated.
Free(a) ==
    \/ lease[a].step = "none"
    \/ lease[a].step = "active" /\ lease[a].generation # generation

\* #request, when the client is connected.
Send(command, previous) ==
    /\ lifecycle = "connected"
    /\ sent' = sent + 1
    /\ request' = [request EXCEPT ![sent + 1] =
                      [command |-> command, status |-> "pending", previous |-> previous]]
    /\ toServer' = Append(toServer, sent + 1)

CanReserve(mode) ==
    /\ mode = "exclusive" => leaseCount = 0
    /\ mode = "shared" => exclusive = "nobody"

\* The counts while a is being acquired: reserved in this step, or before.
Counts(a, mode) ==
    IF Free(a)
    THEN /\ leaseCount' = leaseCount + 1
         /\ exclusive' = IF mode = "exclusive" THEN a ELSE exclusive
         /\ UNCHANGED generation
    ELSE UNCHANGED countVars

Goes(a, mode, step, on) ==
    lease' = [lease EXCEPT ![a] = [step |-> step, mode |-> mode, on |-> on,
                                   generation |-> generation, relinquish |-> FALSE]]

\* acquireSession from the test of isSessionAttached on.
AttachOrLease(a, mode, reconciled) ==
    \/ /\ attached /\ ~reconciled
       /\ Goes(a, mode, "active", 0)
       /\ Counts(a, mode)
       /\ UNCHANGED <<attachment, snapshot, requestVars>>
    \/ /\ ~attached \/ reconciled
       /\ attachment # 0
       /\ Goes(a, mode, "attaching", attachment)
       /\ Counts(a, mode)
       /\ UNCHANGED <<attachment, snapshot, requestVars>>
    \/ /\ ~attached \/ reconciled
       /\ attachment = 0
       /\ Send("attach", snapshot)
       /\ snapshot' = NoSnapshot                       \* forgetSessionSnapshot
       /\ attachment' = sent + 1
       /\ Goes(a, mode, "attaching", sent + 1)
       /\ Counts(a, mode)
    \/ /\ ~attached \/ reconciled
       /\ attachment = 0
       /\ lifecycle # "connected"                      \* #request rejects at once
       /\ Over(a)
       /\ IF Free(a) THEN UNCHANGED countVars ELSE Released(a)
       /\ UNCHANGED <<attachment, snapshot, requestVars>>

\* acquireSession after the detachment in progress, if any, has settled.
Reconcile(a, mode) ==
    \/ /\ ~cleanupRequired
       /\ AttachOrLease(a, mode, FALSE)
       /\ UNCHANGED reconciliation
    \/ /\ cleanupRequired /\ reconciliation # 0
       /\ Goes(a, mode, "reconciling", reconciliation)
       /\ Counts(a, mode)
       /\ UNCHANGED <<attachment, reconciliation, snapshot, requestVars>>
    \/ /\ cleanupRequired /\ reconciliation = 0
       /\ Send("detach", NoSnapshot)
       /\ reconciliation' = sent + 1
       /\ Goes(a, mode, "reconciling", sent + 1)
       /\ Counts(a, mode)
       /\ UNCHANGED <<attachment, snapshot>>

\* acquireSession up to its first await.
Acquire(a, mode) ==
    /\ Free(a) /\ ~disposed /\ sent + (IF reconciliation = 0 THEN 2 ELSE 1) <= MaxRequests
    /\ CanReserve(mode)
    /\ \/ /\ detachment # 0
          /\ Goes(a, mode, "waiting", detachment)
          /\ Counts(a, mode)
          /\ UNCHANGED <<attachment, reconciliation, snapshot, requestVars>>
       \/ /\ detachment = 0
          /\ Reconcile(a, mode)
    /\ UNCHANGED <<connVars, detachment, cleanupRequired, attached, incoming, serverVars, overtaken>>

\* isActive()
IsActive(a) == lease[a].step = "active" /\ lease[a].generation = generation /\ attached

\* The release that takes the last lease for one of several and does not detach.
MutRelease(a, relinquish) ==
    /\ IsActive(a) /\ ~disposed /\ lifecycle = "connected" /\ Room
    /\ Over(a)
    /\ Released(a)
    /\ UNCHANGED <<connVars, promiseVars, stateVars, requestVars, incoming, serverVars, overtaken>>

\* detach() and dispose() of a lease: the last one sends the detach request.
Release(a, relinquish) ==
    /\ IsActive(a) /\ ~disposed /\ lifecycle = "connected" /\ Room
    /\ IF leaseCount <= 1
       THEN /\ Send("detach", NoSnapshot)
            /\ detachment' = sent + 1
            /\ lease' = [lease EXCEPT ![a].step = "releasing", ![a].on = sent + 1,
                                      ![a].relinquish = relinquish]
            /\ UNCHANGED countVars
       ELSE /\ Over(a)
            /\ Released(a)
            /\ UNCHANGED <<detachment, requestVars>>
    /\ UNCHANGED <<connVars, attachment, reconciliation, cleanupRequired, stateVars,
                   incoming, serverVars, overtaken>>

\* prompt, steer, abort, setModel, setThinking of a lease.
Command(a) ==
    /\ IsActive(a) /\ ~disposed /\ Room
    /\ Send("operation", NoSnapshot)
    /\ UNCHANGED <<connVars, countVars, promiseVars, stateVars, lease,
                   incoming, serverVars, overtaken>>

-----------------------------------------------------------------------------
(* Continuations of the client.                                            *)

\* A waiting acquisition goes on after the releaser's finally block has run.
DetachmentSettled(a) ==
    /\ lease[a].step = "waiting" /\ Due(a) /\ detachment # lease[a].on
    /\ Reconcile(a, lease[a].mode)
    /\ UNCHANGED <<connVars, detachment, cleanupRequired, attached, incoming, serverVars, overtaken>>

ReconciliationSettled(a) ==
    /\ lease[a].step = "reconciling" /\ Due(a)
    /\ reconciliation' = IF reconciliation = lease[a].on THEN 0 ELSE reconciliation
    /\ IF request[lease[a].on].status = "ok"
       THEN /\ cleanupRequired' = FALSE
            /\ AttachOrLease(a, lease[a].mode, TRUE)
       ELSE /\ Released(a)
            /\ Over(a)
            /\ UNCHANGED <<cleanupRequired, attachment, snapshot, requestVars>>
    /\ UNCHANGED <<connVars, detachment, attached, incoming, serverVars, overtaken>>

AttachmentSettled(a) ==
    LET r == request[lease[a].on] IN
    /\ lease[a].step = "attaching" /\ Due(a)
    /\ attachment' = IF attachment = lease[a].on THEN 0 ELSE attachment
    /\ IF r.status = "ok"
       THEN /\ Goes(a, lease[a].mode, "active", 0)
            /\ UNCHANGED <<countVars, snapshot>>
       ELSE /\ Released(a)
            /\ Over(a)
            /\ snapshot' = IF snapshot = NoSnapshot THEN r.previous ELSE snapshot
    /\ UNCHANGED <<connVars, detachment, reconciliation, cleanupRequired, attached, requestVars,
                   incoming, serverVars, overtaken>>

ReleaseSettled(a) ==
    /\ lease[a].step = "releasing" /\ Due(a)
    /\ detachment' = IF detachment = lease[a].on THEN 0 ELSE detachment
    /\ \/ /\ request[lease[a].on].status = "ok"
          /\ Released(a)
          /\ Over(a)
          /\ UNCHANGED cleanupRequired
       \/ /\ request[lease[a].on].status = "error"
          /\ lease[a].generation # generation
          /\ Over(a)
          /\ UNCHANGED <<countVars, cleanupRequired>>
       \/ /\ request[lease[a].on].status = "error"
          /\ lease[a].generation = generation /\ lease[a].relinquish
          /\ Released(a)
          /\ cleanupRequired' = TRUE
          /\ Over(a)
       \/ /\ request[lease[a].on].status = "error"
          /\ lease[a].generation = generation /\ ~lease[a].relinquish
          /\ lease' = [lease EXCEPT ![a].step = "active", ![a].on = 0]
          /\ UNCHANGED <<countVars, cleanupRequired>>
    /\ UNCHANGED <<connVars, attachment, reconciliation, stateVars, requestVars,
                   incoming, serverVars, overtaken>>

-----------------------------------------------------------------------------
(* Messages from the server.                                               *)

\* #applySessionSnapshot
ApplySnapshot(rev, isAttached) ==
    IF snapshot # NoSnapshot /\ rev < snapshot
    THEN UNCHANGED stateVars
    ELSE snapshot' = rev /\ attached' = isAttached

\* The messages of one chunk are handled in one go; the next chunk is read once the continuations
\* have run.
NextMessage ==
    /\ toClient # <<>>
    /\ \/ chunk > 0 /\ chunk' = chunk - 1
       \/ chunk = 0 /\ Drained /\ chunk' \in 0 .. Len(toClient) - 1

\* The detach result that leaves the session among the attached ones.
MutDeliver ==
    LET m == Head(toClient) IN
    /\ NextMessage
    /\ toClient' = Tail(toClient)
    /\ IF m.type = "event"
       THEN ApplySnapshot(m.revision, TRUE) /\ UNCHANGED request
       ELSE /\ request' = [request EXCEPT ![m.id].status = IF m.ok THEN "ok" ELSE "error"]
            /\ IF ~m.ok \/ request[m.id].command = "detach" THEN UNCHANGED stateVars
               ELSE ApplySnapshot(m.revision, m.attached)
    /\ UNCHANGED <<connVars, countVars, promiseVars, sent, toServer, lease, serverVars, overtaken>>

Deliver ==
    LET m == Head(toClient) IN
    /\ NextMessage
    /\ toClient' = Tail(toClient)
    /\ \/ /\ m.type = "event"
          /\ ApplySnapshot(m.revision, TRUE)
          /\ UNCHANGED request
       \/ /\ m.type = "response"
          /\ request' = [request EXCEPT ![m.id].status = IF m.ok THEN "ok" ELSE "error"]
          /\ IF ~m.ok THEN UNCHANGED stateVars
             ELSE IF request[m.id].command = "detach"
                  THEN attached' = FALSE /\ UNCHANGED snapshot
                  ELSE ApplySnapshot(m.revision, m.attached)
    /\ UNCHANGED <<connVars, countVars, promiseVars, sent, toServer, lease, serverVars, overtaken>>

-----------------------------------------------------------------------------
(* The server's side of the connection (sessions.ts).                      *)

Event(rev) == [type |-> "event", revision |-> rev]
Success(r, rev, isAttached) ==
    [type |-> "response", id |-> r, ok |-> TRUE, revision |-> rev, attached |-> isAttached]
Failure(r) == [type |-> "response", id |-> r, ok |-> FALSE]

Says(messages) ==
    /\ Len(toClient) < MaxInFlight
    /\ toClient' = toClient \o messages

client == <<connVars, countVars, promiseVars, stateVars, request, sent, lease, chunk, overtaken>>

\* An operation keeps the session live; otherwise its runtime may have been disposed, and the next
\* one counts its revisions from the start.
ServerTakesAttach ==
    LET r == Head(toServer) IN
    /\ toServer # <<>> /\ request[r].command = "attach"
    /\ toServer' = Tail(toServer)
    /\ \/ /\ serverAttached' = TRUE /\ lateFailure' = FALSE
          /\ serving' = serving \cup {r}
          /\ UNCHANGED <<opening, revision>>
       \/ /\ ~serverAttached /\ serving = {}
          /\ opening' = {r} /\ revision' = 0
          /\ UNCHANGED <<serverAttached, serving, lateFailure>>
    /\ UNCHANGED <<client, toClient>>

\* openSession succeeds or fails; the connection is attached in the same step.
ServerOpens(r) ==
    /\ r \in opening
    /\ opening' = opening \ {r}
    /\ \/ /\ serverAttached' = TRUE /\ lateFailure' = FALSE
          /\ serving' = serving \cup {r}
          /\ UNCHANGED toClient
       \/ Says(<<Failure(r)>>) /\ UNCHANGED <<serverAttached, serving, lateFailure>>
    /\ UNCHANGED <<client, toServer, revision>>

\* detach and operations up to their first await.  A connection that is not attached is answered
\* at once.
ServerTakes ==
    LET r == Head(toServer) IN
    /\ toServer # <<>> /\ request[r].command # "attach"
    /\ toServer' = Tail(toServer)
    /\ serverAttached' = (serverAttached /\ request[r].command # "detach")
    /\ IF serverAttached
       THEN serving' = serving \cup {r} /\ UNCHANGED toClient
       ELSE /\ Says(<<IF request[r].command = "detach" THEN Success(r, 0, FALSE) ELSE Failure(r)>>)
            /\ UNCHANGED serving
    /\ lateFailure' = (lateFailure /\ request[r].command # "detach")
    /\ UNCHANGED <<client, opening, revision>>

Answers(r, command) ==
    /\ r \in serving /\ request[r].command = command
    /\ serving' = serving \ {r}
    /\ UNCHANGED <<client, toServer, serverAttached, opening>>

\* broadcastSnapshot and the response that carries the same snapshot.
Broadcast(r) ==
    Says((IF serverAttached THEN <<Event(revision')>> ELSE <<>>) \o <<Success(r, revision', serverAttached)>>)

ServerAttaches(r) ==
    /\ Answers(r, "attach")
    /\ UNCHANGED revision
    /\ \/ Broadcast(r) /\ UNCHANGED lateFailure
       \/ Says(<<Failure(r)>>) /\ lateFailure' = (lateFailure \/ serverAttached)

ServerDetaches(r) ==
    /\ Answers(r, "detach")
    /\ UNCHANGED revision
    /\ \/ Says(<<Success(r, 0, FALSE)>>) /\ UNCHANGED lateFailure
       \/ Says(<<Failure(r)>>) /\ lateFailure' = (lateFailure \/ ~serverAttached)

ServerOperates(r) ==
    /\ Answers(r, "operation")
    /\ revision' = IF revision < MaxRevision THEN revision + 1 ELSE revision
    /\ Broadcast(r) \/ Says(<<Failure(r)>>)
    /\ UNCHANGED lateFailure

-----------------------------------------------------------------------------
Continuation(a) ==
    DetachmentSettled(a) \/ ReconciliationSettled(a) \/ AttachmentSettled(a) \/ ReleaseSettled(a)

Server ==
    \/ ServerTakesAttach \/ ServerTakes
    \/ \E r \in Requests : ServerOpens(r) \/ ServerAttaches(r) \/ ServerDetaches(r) \/ ServerOperates(r)

\* The application calls the client at any time, also from a listener while a chunk is handled;
\* continuations run in between, and before the next event of the socket.
Next ==
    \/ chunk = 0 /\ \E a \in Leases : Continuation(a)
    \/ Drained /\ Handshake
    \/ Deliver
    \/ Connect \/ Lost \/ Dispose
    \/ \E a \in Leases, mode \in {"shared", "exclusive"} : Acquire(a, mode)
    \/ \E a \in Leases, relinquish \in BOOLEAN : Release(a, relinquish)
    \/ \E a \in Leases : Command(a)
    \/ Server

Spec == Init /\ [][Next]_vars

\* Continuations run, what is in transit arrives, and the server answers every command it takes.
Fairness ==
    /\ WF_vars(chunk = 0 /\ \E a \in Leases : Continuation(a))
    /\ WF_vars(Deliver)
    /\ WF_vars(ServerTakesAttach \/ ServerTakes)
    /\ \A r \in Requests : WF_vars(ServerOpens(r) \/ ServerAttaches(r) \/ ServerDetaches(r) \/ ServerOperates(r))

FairSpec == Spec /\ Fairness

-----------------------------------------------------------------------------
(* Properties.                                                             *)

Acquiring(a) == lease[a].step \in {"waiting", "reconciling", "attaching"}

\* The tokens that are reserved: acquisitions on their way, and leases no disconnection invalidated.
Reserved ==
    {a \in Leases : \/ Acquiring(a)
                    \/ lease[a].step \in {"active", "releasing"} /\ lease[a].generation = generation}

\* No command or message is in transit or being served.
Quiet == /\ Drained /\ toServer = <<>> /\ toClient = <<>> /\ opening = {} /\ serving = {}
         /\ lifecycle = "connected"

\* The lease count of a session is the number of leases that exist, whatever releases, failures
\* and disconnections came between, so that the last release is the one that detaches
\* (client.ts:238).  An exclusive lease is the only one, from its reservation until it is released
\* or invalidated, also while its detach request is in flight or has failed (client.ts:381).
\* One order of events is excepted: the connection is lost after an answer was handled and before
\* the awaiting call went on (overtaken).  acquireSession then takes the generation that the loss
\* began (client.ts:210), and its lease outlives the count, which the loss has set to 0.  The
\* exception ends with the next loss that invalidates the counted leases.
ReservationsHold ==
    Drained /\ ~overtaken =>
        /\ leaseCount = Cardinality(Reserved)
        /\ \A a \in Reserved : lease[a].mode = "exclusive" => Reserved = {a}

\* When the last lease is gone and nothing is in flight, the server does not hold the session
\* attached for this client, so that the runtime can be disposed (client.ts:240).  Excepted: an attach that
\* took effect and was answered with an error, until a later command takes effect.
NothingLeaked == Quiet /\ Reserved = {} /\ ~cleanupRequired /\ ~lateFailure => ~serverAttached

\* A lease that says it is active is backed by an attachment on the server once nothing is in
\* flight (client.ts:160 and 222).  Excepted: a detach that took effect and was answered with an
\* error, until a later command takes effect.
ActiveIsAttached == Quiet /\ ~lateFailure /\ (\E a \in Leases : IsActive(a)) => serverAttached

\* Every acquireSession, detach and dispose settles, by an answer or by the disconnection
\* (client.ts:325).
LeaseCallsSettle ==
    [](\A a \in Leases :
          /\ Acquiring(a) => <>~Acquiring(a)
          /\ lease[a].step = "releasing" => <>(lease[a].step # "releasing"))
=============================================================================
