---------------------------- MODULE SqliteLease ----------------------------
(***************************************************************************)
(* Writer leases of the SQLite session backend (session-backends/          *)
(* sqlite-node): several repositories - processes, or independent          *)
(* SqliteSessionRepository objects - share one database file and fight     *)
(* over one session id.                                                    *)
(*                                                                         *)
(* A step is what SQLite and the event loop make atomic: one BEGIN         *)
(* IMMEDIATE transaction, or one synchronous stretch of JavaScript.  Each  *)
(* SqliteSessionStorage has its own serial queue of tasks; the repository  *)
(* has one more, on which open, create, delete and repairBranchCache run;  *)
(* close() only drains that queue and then runs beside it.                 *)
(*                                                                         *)
(* Time is relative.  lease.left is expires_at_ms - now (0 once expired)   *)
(* and storage[o].age the time since the heartbeat was last scheduled, so  *)
(* the clock itself need not be a variable.                                *)
(***************************************************************************)
EXTENDS Naturals, Sequences, FiniteSets, FiniteSetsExt

CONSTANTS
  Repos,        \* the repositories
  TTL,          \* writerLease.ttlMs
  HB,           \* writerLease.heartbeatIntervalMs
  MaxDelay,     \* how late a due heartbeat may run, where Timely
  Timely,       \* TRUE: no heartbeat is later than MaxDelay
  Busy,         \* TRUE: a transaction may fail (SQLITE_BUSY, I/O error)
  Jobs,         \* which of delete, repair and close are called
  MaxOwners,    \* bound on the leases acquired by open and create
  MaxSessions,  \* bound on how often the session id is created
  MaxQueue,     \* bound on the tasks waiting in one storage's queue
  MaxWrites     \* bound on the committed writes

\* resolveWriterLeaseOptions: both positive, the heartbeat below the TTL.
ASSUME LeaseOptions == TTL \in Nat /\ HB \in Nat /\ 0 < HB /\ HB < TTL
ASSUME Bounds == /\ MaxDelay \in Nat /\ MaxOwners \in Nat /\ MaxSessions \in Nat
                 /\ MaxQueue \in Nat /\ MaxWrites \in Nat
ASSUME Switches == Timely \in BOOLEAN /\ Busy \in BOOLEAN

VARIABLES
  session,   \* which creation of the session id the row belongs to, 0: no row
  created,   \* how often the session id has been created
  lease,     \* the writer_leases row; owner 0: there is none
  acquired,  \* how many leases open and create have acquired
  storage,   \* the SqliteSessionStorage of each acquired lease
  job,       \* the delete or repair a repository's queue is running
  closer,    \* the close() a repository is running
  writes     \* the committed write operations, oldest first

vars == <<session, created, lease, acquired, storage, job, closer, writes>>

\* An ownerId is a fresh uuid: owners are numbered in order of acquisition.
Owners == 1..MaxOwners
NoLease == [owner |-> 0, fence |-> 0, left |-> 0]
Unused == [status |-> "unused", repo |-> 0, session |-> 0, fence |-> 0,
           leaseError |-> FALSE, closing |-> FALSE, connected |-> FALSE,
           timer |-> "off", age |-> 0, queue |-> <<>>]
NewStorage(r, s, f) ==
  [status |-> "active", repo |-> r, session |-> s, fence |-> f,
   leaseError |-> FALSE, closing |-> FALSE, connected |-> TRUE,
   timer |-> "armed", age |-> 0, queue |-> <<>>]
\* After onRelease or a crash nothing of a storage matters any more.
Gone == [Unused EXCEPT !.status = "gone"]
\* SerialOperationQueue: a task joins the queue, the oldest one has run.
Enqueued(st, task) == [st EXCEPT !.queue = Append(@, task)]
Done(st) == [st EXCEPT !.queue = Tail(@)]
NoJob == [op |-> "idle", await |-> {}]

Active(o) == storage[o].status = "active"
\* activeStorages of a repository, for this session id.
ActiveOf(r) == {o \in Owners : Active(o) /\ storage[o].repo = r}

----------------------------------------------------------------------------
(* The writer_leases table *)

\* acquireWriterLease: insert with fence 1, or take over an expired row.
Claimable == lease.owner = 0 \/ lease.left = 0
ClaimedBy(o) == [owner |-> o, left |-> TTL,
                 fence |-> IF lease.owner = 0 THEN 1 ELSE lease.fence + 1]

\* Mutant: renewal without the owner.
MutRenewableFence(o) == lease.fence = storage[o].fence /\ lease.left > 0
\* renewWriterLease: UPDATE ... WHERE owner, fence match AND not expired.
Renewable(o) == /\ lease.owner = o
                /\ lease.fence = storage[o].fence
                /\ lease.left > 0
Renewed == [lease EXCEPT !.left = TTL]

\* Mutant: release deletes the row of whoever owns the session.
MutReleased(o) == NoLease
\* releaseWriterLease: DELETE ... WHERE owner and fence match.
Released(o) == IF lease.owner = o /\ lease.fence = storage[o].fence
               THEN NoLease ELSE lease
----------------------------------------------------------------------------
Init ==
  /\ session = 0
  /\ created = 0
  /\ lease = NoLease
  /\ acquired = 0
  /\ storage = [o \in Owners |-> Unused]
  /\ job = [r \in Repos |-> NoJob]
  /\ closer = [r \in Repos |-> NoJob]
  /\ writes = <<>>

\* Time passes.  Where Timely, it waits for a heartbeat MaxDelay overdue.
Running(o) == Active(o) /\ storage[o].timer # "off"
Tick ==
  /\ Timely => \A o \in Owners : Running(o) => storage[o].age < HB + MaxDelay
  /\ lease' = [lease EXCEPT !.left = IF @ = 0 THEN 0 ELSE @ - 1]
  /\ storage' = [o \in Owners |->
       IF Running(o) /\ storage[o].age < HB + MaxDelay
       THEN [storage[o] EXCEPT !.age = @ + 1] ELSE storage[o]]
  /\ UNCHANGED <<session, created, acquired, job, closer, writes>>

----------------------------------------------------------------------------
(* SqliteSessionRepository: the serial queue *)

\* create: the session row and its lease in one transaction.
Create(r) ==
  /\ job[r].op = "idle"
  /\ session = 0
  /\ created < MaxSessions /\ acquired < MaxOwners
  /\ Claimable
  /\ created' = created + 1
  /\ session' = created + 1
  /\ acquired' = acquired + 1
  /\ lease' = ClaimedBy(acquired + 1)
  /\ storage' = [storage EXCEPT ![acquired + 1] =
                   NewStorage(r, created + 1, ClaimedBy(acquired + 1).fence)]
  /\ UNCHANGED <<job, closer, writes>>

\* open where no storage is active: claimStorage.  With an active storage
\* claimSession returns that one, whatever its state, and nothing changes.
Open(r) ==
  /\ job[r].op = "idle"
  /\ session # 0
  /\ ActiveOf(r) = {}
  /\ acquired < MaxOwners
  /\ Claimable
  /\ acquired' = acquired + 1
  /\ lease' = ClaimedBy(acquired + 1)
  /\ storage' = [storage EXCEPT ![acquired + 1] =
                   NewStorage(r, session, ClaimedBy(acquired + 1).fence)]
  /\ UNCHANGED <<session, created, job, closer, writes>>

\* delete and repairBranchCache first release the repository's own storages.
StartJob(r, op) ==
  /\ op \in Jobs /\ job[r].op = "idle"
  /\ job' = [job EXCEPT ![r] = [op |-> op, await |-> ActiveOf(r)]]
  /\ UNCHANGED <<session, created, lease, acquired, storage, closer, writes>>

\* close: once the queue is drained, release every storage active then.
Close(r) ==
  /\ "close" \in Jobs /\ job[r].op = "idle"
  /\ closer[r].op = "idle"
  /\ closer' = [closer EXCEPT ![r] = [op |-> "close", await |-> ActiveOf(r)]]
  /\ UNCHANGED <<session, created, lease, acquired, storage, job, writes>>

\* The storage a job or a close awaits: the oldest of its snapshot still
\* active.  release() of it was not called yet, or is being awaited.
Remaining(j) == {o \in j.await : Active(o)}
Awaits(j, o) == j.op # "idle" /\ Remaining(j) # {} /\ o = Min(Remaining(j))

\* Mutant: a storage that lost its lease enqueues no release task.
MutRequestRelease(r, o) ==
  /\ Awaits(job[r], o) \/ Awaits(closer[r], o)
  /\ ~storage[o].closing
  /\ storage' = [storage EXCEPT ![o] =
       [IF storage[o].leaseError THEN @ ELSE Enqueued(@, "release")
        EXCEPT !.closing = TRUE, !.timer = "off", !.age = 0]]
  /\ UNCHANGED <<session, created, lease, acquired, job, closer, writes>>

\* finishRelease up to its first await: closing, no timer, one more task.
RequestRelease(r, o) ==
  /\ Awaits(job[r], o) \/ Awaits(closer[r], o)
  /\ ~storage[o].closing
  /\ storage' = [storage EXCEPT ![o] =
       [Enqueued(@, "release") EXCEPT !.closing = TRUE, !.timer = "off", !.age = 0]]
  /\ UNCHANGED <<session, created, lease, acquired, job, closer, writes>>

\* The transaction of delete, its own lease claimed and deleted inside it.
\* It throws, and changes nothing, when another owner's lease is valid.
DeleteRun(r) ==
  /\ job[r].op = "delete" /\ Remaining(job[r]) = {}
  /\ job' = [job EXCEPT ![r] = NoJob]
  /\ \/ /\ session = 0 \/ Claimable
        /\ session' = 0
        /\ lease' = NoLease
     \/ /\ Busy \/ (session # 0 /\ ~Claimable)
        /\ UNCHANGED <<session, lease>>
  /\ UNCHANGED <<created, acquired, storage, closer, writes>>

\* The transaction of repairBranchCache: claim, rebuild, release.
RepairRun(r) ==
  /\ job[r].op = "repair" /\ Remaining(job[r]) = {}
  /\ job' = [job EXCEPT ![r] = NoJob]
  /\ \/ /\ session # 0 /\ Claimable
        /\ lease' = NoLease
     \/ /\ Busy \/ session = 0 \/ ~Claimable
        /\ UNCHANGED lease
  /\ UNCHANGED <<session, created, acquired, storage, closer, writes>>

\* close, its snapshot released: the connection goes, also under a storage
\* that an open running meanwhile has added.
CloseDatabase(r) ==
  /\ closer[r].op = "close" /\ Remaining(closer[r]) = {}
  /\ closer' = [closer EXCEPT ![r] = NoJob]
  /\ storage' = [o \in Owners |-> IF o \in ActiveOf(r)
                                  THEN [storage[o] EXCEPT !.connected = FALSE]
                                  ELSE storage[o]]
  /\ UNCHANGED <<session, created, lease, acquired, job, writes>>

\* The process dies and another one takes its place.
Crash(r) ==
  /\ job' = [job EXCEPT ![r] = NoJob]
  /\ closer' = [closer EXCEPT ![r] = NoJob]
  /\ storage' = [o \in Owners |-> IF o \in ActiveOf(r)
                                  THEN Gone
                                  ELSE storage[o]]
  /\ UNCHANGED <<session, created, lease, acquired, writes>>
----------------------------------------------------------------------------
(* SqliteSessionStorage: its serial queue of tasks *)

\* enqueueWrite, called by any operation of a session that writes.
EnqueueWrite(o) ==
  /\ Active(o) /\ ~storage[o].closing
  /\ Len(storage[o].queue) < MaxQueue
  /\ storage' = [storage EXCEPT ![o] = Enqueued(@, "write")]
  /\ UNCHANGED <<session, created, lease, acquired, job, closer, writes>>

\* The heartbeat timer fires.
FireHeartbeat(o) ==
  /\ Active(o) /\ storage[o].timer = "armed" /\ storage[o].age >= HB
  /\ storage' = [storage EXCEPT ![o] = [Enqueued(@, "heartbeat") EXCEPT !.timer = "fired"]]
  /\ UNCHANGED <<session, created, lease, acquired, job, closer, writes>>

Next1(o, task) == Active(o) /\ storage[o].queue # <<>> /\ Head(storage[o].queue) = task
\* A transaction that does not run: BEGIN throws on a closed connection.
Throws(o) == ~storage[o].connected \/ Busy

\* Mutant: a write checks that its session still exists, not its lease.
MutWriteCommits(o) ==
  /\ Next1(o, "write") /\ ~storage[o].leaseError
  /\ storage[o].connected /\ storage[o].session = session
  /\ Len(writes) < MaxWrites
  /\ writes' = Append(writes, [owner |-> o, opened |-> storage[o].session,
                               session |-> session])
  /\ storage' = [storage EXCEPT ![o] = Done(@)]
  /\ UNCHANGED <<session, created, lease, acquired, job, closer>>

\* A write whose lease holds: renewal and operation commit together.
WriteCommits(o) ==
  /\ Next1(o, "write") /\ ~storage[o].leaseError
  /\ storage[o].connected /\ Renewable(o)
  /\ Len(writes) < MaxWrites
  /\ lease' = Renewed
  /\ writes' = Append(writes, [owner |-> o, opened |-> storage[o].session,
                               session |-> session])
  /\ storage' = [storage EXCEPT ![o] = Done(@)]
  /\ UNCHANGED <<session, created, acquired, job, closer>>

\* A write that leaves nothing behind: the lease was lost before, the
\* transaction throws, or the operation does and rolls the renewal back.
WriteRejected(o) ==
  /\ Next1(o, "write")
  /\ storage[o].leaseError \/ Throws(o) \/ Renewable(o)
  /\ storage' = [storage EXCEPT ![o] = Done(@)]
  /\ UNCHANGED <<session, created, lease, acquired, job, closer, writes>>

\* A write that finds the lease lost: leaseError, and no more heartbeats.
LostByWrite(st) == [st EXCEPT !.leaseError = TRUE, !.age = 0,
                              !.timer = IF @ = "armed" THEN "off" ELSE @]
WriteLosesLease(o) ==
  /\ Next1(o, "write") /\ ~storage[o].leaseError
  /\ storage[o].connected /\ ~Renewable(o)
  /\ storage' = [storage EXCEPT ![o] = LostByWrite(Done(@))]
  /\ UNCHANGED <<session, created, lease, acquired, job, closer, writes>>

\* scheduleHeartbeat, after every heartbeat task.
Rescheduled(st) == IF st.closing \/ st.leaseError
                   THEN [st EXCEPT !.timer = "off", !.age = 0]
                   ELSE [st EXCEPT !.timer = "armed", !.age = 0]

HeartbeatRenews(o) ==
  /\ Next1(o, "heartbeat") /\ ~storage[o].closing /\ ~storage[o].leaseError
  /\ storage[o].connected /\ Renewable(o)
  /\ lease' = Renewed
  /\ storage' = [storage EXCEPT ![o] = Rescheduled(Done(@))]
  /\ UNCHANGED <<session, created, acquired, job, closer, writes>>

\* Mutant: a heartbeat that cannot renew is treated as a passing failure.
MutHeartbeatLosesLease(o) ==
  /\ Next1(o, "heartbeat") /\ ~storage[o].closing /\ ~storage[o].leaseError
  /\ storage[o].connected /\ ~Renewable(o)
  /\ storage' = [storage EXCEPT ![o] = Rescheduled(Done(@))]
  /\ UNCHANGED <<session, created, lease, acquired, job, closer, writes>>

HeartbeatLosesLease(o) ==
  /\ Next1(o, "heartbeat") /\ ~storage[o].closing /\ ~storage[o].leaseError
  /\ storage[o].connected /\ ~Renewable(o)
  /\ storage' = [storage EXCEPT ![o] =
       Rescheduled([Done(@) EXCEPT !.leaseError = TRUE])]
  /\ UNCHANGED <<session, created, lease, acquired, job, closer, writes>>

\* A heartbeat with nothing to do, or whose transaction throws: it is
\* caught, and the next one is scheduled.
HeartbeatSkips(o) ==
  /\ Next1(o, "heartbeat")
  /\ storage[o].closing \/ storage[o].leaseError \/ Throws(o)
  /\ storage' = [storage EXCEPT ![o] = Rescheduled(Done(@))]
  /\ UNCHANGED <<session, created, lease, acquired, job, closer, writes>>

\* The task of finishRelease, and onRelease.
ReleaseLease(o) ==
  /\ Next1(o, "release") /\ storage[o].connected
  /\ lease' = Released(o)
  /\ storage' = [storage EXCEPT ![o] = Gone]
  /\ UNCHANGED <<session, created, acquired, job, closer, writes>>

\* The release throws: the storage goes all the same, the row stays, and
\* the job or close awaiting it is rejected.
Rejected(j, o) == IF Awaits(j, o) THEN NoJob ELSE j
ReleaseThrows(o) ==
  /\ Next1(o, "release") /\ Throws(o)
  /\ storage' = [storage EXCEPT ![o] = Gone]
  /\ job' = [r \in Repos |-> Rejected(job[r], o)]
  /\ closer' = [r \in Repos |-> Rejected(closer[r], o)]
  /\ UNCHANGED <<session, created, lease, acquired, writes>>

RunTask(o) ==
  \/ WriteCommits(o) \/ WriteRejected(o) \/ WriteLosesLease(o)
  \/ HeartbeatRenews(o) \/ HeartbeatLosesLease(o) \/ HeartbeatSkips(o)
  \/ ReleaseLease(o) \/ ReleaseThrows(o)

RunJob(r) == \/ \E o \in Owners : RequestRelease(r, o)
             \/ DeleteRun(r) \/ RepairRun(r) \/ CloseDatabase(r)

Next ==
  \/ Tick
  \/ \E r \in Repos : \/ Create(r) \/ Open(r) \/ Close(r) \/ Crash(r)
                      \/ StartJob(r, "delete") \/ StartJob(r, "repair")
                      \/ RunJob(r)
  \/ \E o \in Owners : EnqueueWrite(o) \/ FireHeartbeat(o) \/ RunTask(o)

Spec == Init /\ [][Next]_vars

\* The event loop runs what is queued and due, and time passes.
Fairness == /\ WF_vars(Tick)
            /\ \A r \in Repos : /\ WF_vars(\E o \in Owners : RequestRelease(r, o))
                                /\ WF_vars(DeleteRun(r) \/ RepairRun(r))
                                /\ WF_vars(CloseDatabase(r))
            /\ \A o \in Owners : WF_vars(RunTask(o)) /\ WF_vars(FireHeartbeat(o))
FairSpec == Spec /\ Fairness
----------------------------------------------------------------------------
(* Properties *)

StorageType ==
  [status : {"unused", "active", "gone"}, repo : Repos \cup {0},
   session : Nat, fence : Nat, leaseError : BOOLEAN, closing : BOOLEAN,
   connected : BOOLEAN, timer : {"off", "armed", "fired"}, age : Nat,
   queue : Seq({"write", "heartbeat", "release"})]
JobType == [op : {"idle", "delete", "repair", "close"}, await : SUBSET Owners]

\* The variables have the types of the rows and fields they stand for.
TypeOK ==
  /\ session \in Nat /\ created \in Nat
  /\ lease \in [owner : Nat, fence : Nat, left : 0..TTL]
  /\ acquired \in 0..MaxOwners
  /\ storage \in [Owners -> StorageType]
  /\ job \in [Repos -> JobType] /\ closer \in [Repos -> JobType]
  /\ writes \in Seq([owner : Owners, opened : Nat, session : Nat])

\* Fencing: committed writes appear in the order in which their owners
\* acquired the session.  Once a later owner has written, an earlier one -
\* suspended past its TTL, then resumed - never commits again.
FencedWrites == \A i, j \in DOMAIN writes :
                  i < j => writes[i].owner <= writes[j].owner

\* A storage opened on a session that was deleted and created anew under the
\* same id never writes into the new one, although the fence restarts at 1.
NoForeignSession == \A i \in DOMAIN writes : writes[i].opened = writes[i].session

\* The valid lease of the session is this owner's.
Owns(o) == lease.owner = o /\ lease.left > 0

\* Nobody but its holder ends a valid lease: no open, create, delete, repair,
\* release or crash of anyone else takes it away, and only time expires it.
LiveLeaseIsStable ==
  [][\A o \in Owners :
       Active(o) /\ Owns(o) /\ storage'[o] = storage[o] /\ lease' # lease
       => lease' = [lease EXCEPT !.left = @ - 1]]_vars

\* A session that can be written to is not lost while its repository lives:
\* if heartbeats run at most MaxDelay late and HB + MaxDelay < TTL, every
\* storage not being released on an open connection still holds its lease.
Holding(o) == Active(o) /\ ~storage[o].closing /\ storage[o].connected
HeartbeatKeepsLease == \A o \in Owners : Holding(o) => Owns(o)

\* delete, repairBranchCache and close always finish: the releases they wait for, on the
\* repository's queue or beside it, get through whatever is queued on the storages.
JobsFinish ==
  [](\A r \in Repos : /\ job[r].op # "idle" => <>(job[r].op = "idle")
                      /\ closer[r].op # "idle" => <>(closer[r].op = "idle"))

\* An owner whose lease was taken over learns it without writing: its next
\* heartbeat fails and every later write is refused before its transaction.
StaleOwnerLearns ==
  [](\A o \in Owners : Holding(o) /\ lease.owner # o
                       => <>(~Holding(o) \/ storage[o].leaseError))
=============================================================================
