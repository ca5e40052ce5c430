------------------------- MODULE SqliteLeaseProofs -------------------------
(***************************************************************************)
(* What SqliteLease guarantees for every number of repositories, every     *)
(* timing and every bound: type correctness, fencing, the stability of a   *)
(* valid lease, and that timely heartbeats keep it.                        *)
(***************************************************************************)
EXTENDS SqliteLease, TLAPS

\* Each leaf goes to Zenon unless it names another prover.
USE ZenonT(60)

----------------------------------------------------------------------------
(* Types *)

LeaseType == [owner : Nat, fence : Nat, left : 0..TTL]
WriteType == [owner : Owners, opened : Nat, session : Nat]
TaskType == {"write", "heartbeat", "release"}

LEMMA UnusedType == Unused \in StorageType /\ Gone \in StorageType
<1>1. <<>> \in Seq({"write", "heartbeat", "release"})
  BY SMTT(60)
<1> QED BY <1>1 DEF Unused, Gone, StorageType

LEMMA NewStorageType ==
  ASSUME NEW r \in Repos, NEW s \in Nat, NEW f \in Nat
  PROVE  NewStorage(r, s, f) \in StorageType
<1>1. <<>> \in Seq({"write", "heartbeat", "release"})
  BY SMTT(60)
<1> QED BY <1>1 DEF NewStorage, StorageType

LEMMA ClaimedType ==
  ASSUME TypeOK, NEW o \in Nat
  PROVE  ClaimedBy(o) \in LeaseType
BY LeaseOptions, SMTT(60) DEF TypeOK, ClaimedBy, LeaseType

LEMMA RenewedType ==
  ASSUME TypeOK
  PROVE  Renewed \in LeaseType /\ NoLease \in LeaseType
<1>1. Renewed \in LeaseType
  <2>1. lease \in [owner : Nat, fence : Nat, left : 0..TTL]
    BY DEF TypeOK
  <2>2. TTL \in 0..TTL
    BY LeaseOptions, SMTT(60)
  <2> QED BY <2>1, <2>2 DEF Renewed, LeaseType
<1>2. NoLease \in LeaseType
  BY LeaseOptions, SMTT(60) DEF LeaseType, NoLease
<1> QED BY <1>1, <1>2

LEMMA RescheduledType ==
  ASSUME NEW st \in StorageType
  PROVE  Rescheduled(st) \in StorageType
BY DEF Rescheduled, StorageType

\* Every update of a storage yields a storage.
LEMMA QueueType ==
  ASSUME NEW st \in StorageType
  PROVE  /\ \A task \in TaskType : Enqueued(st, task) \in StorageType
         /\ st.queue # <<>> => Done(st) \in StorageType
<1>0. st.queue \in Seq({"write", "heartbeat", "release"})
  BY DEF StorageType
<1>1. ASSUME NEW q \in Seq({"write", "heartbeat", "release"})
      PROVE  [st EXCEPT !.queue = q] \in StorageType
  BY DEF StorageType
<1>2. \A task \in TaskType : Append(st.queue, task) \in Seq({"write", "heartbeat", "release"})
  BY <1>0, SMTT(60) DEF TaskType
<1>3. st.queue # <<>> => Tail(st.queue) \in Seq({"write", "heartbeat", "release"})
  BY <1>0, SMTT(60)
<1>4. \A task \in TaskType : Enqueued(st, task) \in StorageType
  BY <1>1, <1>2 DEF Enqueued
<1>5. st.queue # <<>> => Done(st) \in StorageType
  BY <1>1, <1>3 DEF Done
<1> QED BY <1>4, <1>5

LEMMA FieldTypes ==
  ASSUME NEW st \in StorageType
  PROVE  /\ [st EXCEPT !.closing = TRUE, !.timer = "off", !.age = 0] \in StorageType
         /\ [st EXCEPT !.timer = "fired"] \in StorageType
         /\ [st EXCEPT !.leaseError = TRUE] \in StorageType
         /\ [st EXCEPT !.connected = FALSE] \in StorageType
         /\ [st EXCEPT !.age = @ + 1] \in StorageType
         /\ LostByWrite(st) \in StorageType
<1>1. [st EXCEPT !.closing = TRUE, !.timer = "off", !.age = 0] \in StorageType
  BY DEF StorageType
<1>2. [st EXCEPT !.timer = "fired"] \in StorageType
  BY DEF StorageType
<1>3. [st EXCEPT !.leaseError = TRUE] \in StorageType
  BY DEF StorageType
<1>4. [st EXCEPT !.connected = FALSE] \in StorageType
  BY DEF StorageType
<1>5. [st EXCEPT !.age = @ + 1] \in StorageType
  BY SMTT(60) DEF StorageType
<1>6. LostByWrite(st) \in StorageType
  BY DEF StorageType, LostByWrite
<1> QED BY <1>1, <1>2, <1>3, <1>4, <1>5, <1>6

LEMMA TypeInit == Init => TypeOK
<1> SUFFICES ASSUME Init PROVE TypeOK
  OBVIOUS
<1>1. lease \in [owner : Nat, fence : Nat, left : 0..TTL]
  BY LeaseOptions, SMTT(60) DEF Init, NoLease
<1>2. NoJob \in JobType
  BY DEF NoJob, JobType
<1>3. <<>> \in Seq([owner : Owners, opened : Nat, session : Nat])
  BY SMTT(60)
<1> QED BY <1>1, <1>2, <1>3, UnusedType, Bounds, SMTT(60) DEF Init, TypeOK

\* A storage is only replaced by a storage.
LEMMA StoragesStep ==
  ASSUME TypeOK, [Next]_vars
  PROVE  storage' \in [Owners -> StorageType]
<1>0. storage \in [Owners -> StorageType] /\ session \in Nat /\ created \in Nat
      /\ acquired \in 0..MaxOwners /\ Bounds
  BY Bounds DEF TypeOK
<1> DEFINE S == [Owners -> StorageType]
<1>1. CASE Tick
  BY <1>0, <1>1, FieldTypes DEF Tick
<1>2. ASSUME NEW r \in Repos, Create(r) \/ Open(r) PROVE storage' \in S
  <2>1. ClaimedBy(acquired + 1).fence \in Nat
    BY <1>0, ClaimedType, SMTT(60) DEF LeaseType
  <2>2. NewStorage(r, created + 1, ClaimedBy(acquired + 1).fence) \in StorageType
    BY <1>0, <2>1, NewStorageType, SMTT(60)
  <2>3. NewStorage(r, session, ClaimedBy(acquired + 1).fence) \in StorageType
    BY <1>0, <2>1, NewStorageType
  <2> QED BY <1>0, <1>2, <2>2, <2>3 DEF Create, Open
<1>3. ASSUME NEW r \in Repos, Close(r) \/ StartJob(r, "delete") \/ StartJob(r, "repair")
                              \/ DeleteRun(r) \/ RepairRun(r)
      PROVE  storage' \in S
  BY <1>0, <1>3 DEF Close, StartJob, DeleteRun, RepairRun
<1>4. ASSUME NEW r \in Repos, Crash(r) PROVE storage' \in S
  BY <1>0, <1>4, UnusedType DEF Crash
<1>5. ASSUME NEW r \in Repos, CloseDatabase(r) PROVE storage' \in S
  BY <1>0, <1>5, FieldTypes DEF CloseDatabase
<1>6. ASSUME NEW r \in Repos, NEW o \in Owners, RequestRelease(r, o)
      PROVE  storage' \in S
  <2>1. Enqueued(storage[o], "release") \in StorageType
    BY <1>0, QueueType DEF TaskType
  <2> QED BY <1>0, <1>6, <2>1, FieldTypes DEF RequestRelease
<1>7. ASSUME NEW o \in Owners, EnqueueWrite(o) \/ FireHeartbeat(o)
      PROVE  storage' \in S
  <2>1. /\ Enqueued(storage[o], "write") \in StorageType
        /\ Enqueued(storage[o], "heartbeat") \in StorageType
    BY <1>0, QueueType DEF TaskType
  <2> QED BY <1>0, <1>7, <2>1, FieldTypes DEF EnqueueWrite, FireHeartbeat
<1>8. ASSUME NEW o \in Owners, RunTask(o) PROVE storage' \in S
  <2>1. storage[o].queue # <<>> /\ Done(storage[o]) \in StorageType
    <3>1. storage[o].queue # <<>>
      BY <1>8 DEF RunTask, WriteCommits, WriteRejected, WriteLosesLease, HeartbeatRenews,
                  HeartbeatLosesLease, HeartbeatSkips, ReleaseLease, ReleaseThrows, Next1
    <3> QED BY <1>0, <3>1, QueueType
  <2>2. CASE WriteCommits(o) \/ WriteRejected(o)
    BY <1>0, <2>1, <2>2 DEF WriteCommits, WriteRejected
  <2>3. CASE WriteLosesLease(o)
    BY <1>0, <2>1, <2>3, FieldTypes DEF WriteLosesLease
  <2>4. CASE HeartbeatRenews(o) \/ HeartbeatSkips(o)
    BY <1>0, <2>1, <2>4, RescheduledType DEF HeartbeatRenews, HeartbeatSkips
  <2>5. CASE HeartbeatLosesLease(o)
    BY <1>0, <2>1, <2>5, FieldTypes, RescheduledType DEF HeartbeatLosesLease
  <2>6. CASE ReleaseLease(o) \/ ReleaseThrows(o)
    BY <1>0, <2>6, UnusedType DEF ReleaseLease, ReleaseThrows
  <2> QED BY <1>8, <2>2, <2>3, <2>4, <2>5, <2>6 DEF RunTask
<1>9. CASE UNCHANGED vars
  BY <1>0, <1>9 DEF vars
<1> QED BY <1>1, <1>2, <1>3, <1>4, <1>5, <1>6, <1>7, <1>8, <1>9 DEF Next, RunJob

\* The rows: the session, its lease, and the two counters.
LEMMA RowsStep ==
  ASSUME TypeOK, [Next]_vars
  PROVE  /\ session' \in Nat /\ created' \in Nat
         /\ lease' \in LeaseType /\ acquired' \in 0..MaxOwners
<1>0. /\ session \in Nat /\ created \in Nat
      /\ lease \in LeaseType /\ acquired \in 0..MaxOwners /\ MaxOwners \in Nat
  BY Bounds DEF TypeOK, LeaseType
<1> DEFINE G == /\ session' \in Nat /\ created' \in Nat
                /\ lease' \in LeaseType /\ acquired' \in 0..MaxOwners
<1>1. CASE Tick
  <2>1. lease' \in LeaseType
    BY <1>0, <1>1, LeaseOptions, SMTT(60) DEF Tick, LeaseType
  <2> QED BY <1>0, <1>1, <2>1 DEF Tick
<1>2. ASSUME NEW r \in Repos, Create(r) \/ Open(r) PROVE G
  <2>1. ClaimedBy(acquired + 1) \in LeaseType
    BY <1>0, ClaimedType, SMTT(60)
  <2> QED BY <1>0, <1>2, <2>1, SMTT(60) DEF Create, Open
<1>3. ASSUME NEW r \in Repos, \/ Close(r) \/ StartJob(r, "delete") \/ StartJob(r, "repair")
                              \/ Crash(r) \/ CloseDatabase(r)
      PROVE  G
  BY <1>0, <1>3 DEF Close, StartJob, Crash, CloseDatabase
<1>4. ASSUME NEW r \in Repos, DeleteRun(r) \/ RepairRun(r) PROVE G
  BY <1>0, <1>4, RenewedType, SMTT(60) DEF DeleteRun, RepairRun
<1>5. ASSUME NEW r \in Repos, NEW o \in Owners, RequestRelease(r, o) PROVE G
  BY <1>0, <1>5 DEF RequestRelease
<1>6. ASSUME NEW o \in Owners, EnqueueWrite(o) \/ FireHeartbeat(o) \/ RunTask(o)
      PROVE  G
  <2>1. Released(o) \in LeaseType
    BY <1>0, RenewedType DEF Released
  <2>2. CASE EnqueueWrite(o) \/ FireHeartbeat(o)
    BY <1>0, <2>2 DEF EnqueueWrite, FireHeartbeat
  <2>3. CASE WriteCommits(o) \/ WriteRejected(o) \/ WriteLosesLease(o)
    BY <1>0, <2>3, RenewedType DEF WriteCommits, WriteRejected, WriteLosesLease
  <2>4. CASE HeartbeatRenews(o) \/ HeartbeatLosesLease(o) \/ HeartbeatSkips(o)
    BY <1>0, <2>4, RenewedType DEF HeartbeatRenews, HeartbeatLosesLease, HeartbeatSkips
  <2>5. CASE ReleaseLease(o) \/ ReleaseThrows(o)
    BY <1>0, <2>1, <2>5 DEF ReleaseLease, ReleaseThrows
  <2> QED BY <1>6, <2>2, <2>3, <2>4, <2>5 DEF RunTask
<1>7. CASE UNCHANGED vars
  BY <1>0, <1>7 DEF vars
<1> QED BY <1>1, <1>2, <1>3, <1>4, <1>5, <1>6, <1>7 DEF Next, RunJob

\* Jobs: each is the idle job or names the storages active when it began.
LEMMA JobsStep ==
  ASSUME TypeOK, [Next]_vars
  PROVE  job' \in [Repos -> JobType] /\ closer' \in [Repos -> JobType]
<1>0. job \in [Repos -> JobType] /\ closer \in [Repos -> JobType]
  BY DEF TypeOK
<1>1. NoJob \in JobType
  BY DEF NoJob, JobType
<1>2. ASSUME NEW r \in Repos, NEW op \in {"delete", "repair", "close"}
      PROVE  [op |-> op, await |-> ActiveOf(r)] \in JobType
  BY DEF JobType, ActiveOf
<1> DEFINE G == job' \in [Repos -> JobType] /\ closer' \in [Repos -> JobType]
<1>3. ASSUME NEW r \in Repos, StartJob(r, "delete") \/ StartJob(r, "repair") \/ Close(r)
      PROVE  G
  BY <1>0, <1>2, <1>3 DEF StartJob, Close
<1>4. ASSUME NEW r \in Repos, Crash(r) \/ CloseDatabase(r) \/ DeleteRun(r) \/ RepairRun(r)
      PROVE  G
  BY <1>0, <1>1, <1>4 DEF Crash, CloseDatabase, DeleteRun, RepairRun
<1>5. ASSUME NEW o \in Owners, ReleaseThrows(o) PROVE G
  <2>1. \A r \in Repos : Rejected(job[r], o) \in JobType /\ Rejected(closer[r], o) \in JobType
    BY <1>0, <1>1 DEF Rejected
  <2> QED BY <1>5, <2>1 DEF ReleaseThrows
<1>6. CASE \/ Tick \/ UNCHANGED vars
           \/ \E r \in Repos : Create(r) \/ Open(r) \/ \E o \in Owners : RequestRelease(r, o)
  BY <1>0, <1>6 DEF Tick, vars, Create, Open, RequestRelease
<1>7. ASSUME NEW o \in Owners, EnqueueWrite(o) \/ FireHeartbeat(o) \/ RunTask(o),
             ~ReleaseThrows(o)
      PROVE  G
  BY <1>0, <1>7 DEF EnqueueWrite, FireHeartbeat, RunTask, WriteCommits, WriteRejected,
     WriteLosesLease, HeartbeatRenews, HeartbeatLosesLease, HeartbeatSkips, ReleaseLease
<1> QED BY <1>3, <1>4, <1>5, <1>6, <1>7 DEF Next, RunJob, RunTask

\* Only WriteCommits extends the history.
LEMMA WritesFrame ==
  ASSUME [Next]_vars, \A o \in Owners : ~WriteCommits(o)
  PROVE  writes' = writes
BY DEF Next, Tick, Create, Open, Close, Crash, StartJob, RunJob, RequestRelease, DeleteRun,
   RepairRun, CloseDatabase, EnqueueWrite, FireHeartbeat, RunTask, WriteRejected,
   WriteLosesLease, HeartbeatRenews, HeartbeatLosesLease, HeartbeatSkips, ReleaseLease,
   ReleaseThrows, vars

LEMMA WritesStep ==
  ASSUME TypeOK, [Next]_vars
  PROVE  writes' \in Seq(WriteType)
<1>0. writes \in Seq(WriteType) /\ storage \in [Owners -> StorageType] /\ session \in Nat
  BY DEF TypeOK, WriteType
<1>1. ASSUME NEW o \in Owners, WriteCommits(o) PROVE writes' \in Seq(WriteType)
  <2>1. storage[o].session \in Nat
    BY <1>0 DEF StorageType
  <2>2. [owner |-> o, opened |-> storage[o].session, session |-> session] \in WriteType
    BY <1>0, <2>1 DEF WriteType
  <2> QED BY <1>0, <1>1, <2>2, SMTT(60) DEF WriteCommits
<1> QED BY <1>0, <1>1, WritesFrame

\* Every variable keeps its type: no step of a repository, a storage or the
\* clock leaves the tables or the queues ill-formed, for all bounds.
THEOREM TypeCorrect == Spec => []TypeOK
<1>1. TypeOK /\ [Next]_vars => TypeOK'
  BY StoragesStep, RowsStep, JobsStep, WritesStep DEF TypeOK, LeaseType, WriteType
<1> QED BY TypeInit, <1>1, PTL DEF Spec
----------------------------------------------------------------------------
(* Fencing *)

\* Two states of one storage: what identifies it and its lease is the same.
SameStorage(a, b) == a.status = b.status /\ a.session = b.session /\ a.fence = b.fence

\* Every update of a storage short of replacing it leaves its identity alone.
LEMMA UpdatesKeepIdentity ==
  ASSUME NEW st \in StorageType
  PROVE  /\ \A task \in TaskType : SameStorage(Enqueued(st, task), st)
         /\ SameStorage(Done(st), st)
         /\ SameStorage([st EXCEPT !.closing = TRUE, !.timer = "off", !.age = 0], st)
         /\ SameStorage([st EXCEPT !.timer = "fired"], st)
         /\ SameStorage([st EXCEPT !.leaseError = TRUE], st)
         /\ SameStorage([st EXCEPT !.connected = FALSE], st)
         /\ SameStorage([st EXCEPT !.age = @ + 1], st)
         /\ SameStorage(LostByWrite(st), st)
         /\ SameStorage(Rescheduled(st), st)
<1>1. (\A task \in TaskType : SameStorage(Enqueued(st, task), st)) /\ SameStorage(Done(st), st)
  BY DEF SameStorage, Enqueued, Done, StorageType
<1>2. /\ SameStorage([st EXCEPT !.closing = TRUE, !.timer = "off", !.age = 0], st)
      /\ SameStorage([st EXCEPT !.timer = "fired"], st)
      /\ SameStorage([st EXCEPT !.leaseError = TRUE], st)
  BY DEF SameStorage, StorageType
<1>3. /\ SameStorage([st EXCEPT !.connected = FALSE], st)
      /\ SameStorage([st EXCEPT !.age = @ + 1], st)
  BY DEF SameStorage, StorageType
<1>4. SameStorage(LostByWrite(st), st) /\ SameStorage(Rescheduled(st), st)
  BY DEF SameStorage, StorageType, LostByWrite, Rescheduled
<1> QED BY <1>1, <1>2, <1>3, <1>4

\* A step in which open or create acquires the lease for a new owner.
Acquires == /\ acquired < MaxOwners /\ acquired' = acquired + 1
            /\ Claimable /\ lease' = ClaimedBy(acquired + 1)
            /\ session' # 0
            /\ \E r \in Repos : storage' = [storage EXCEPT ![acquired + 1] =
                 NewStorage(r, session', ClaimedBy(acquired + 1).fence)]
            /\ writes' = writes

\* Any other step: storages are what they were, or gone.
Survives(o) == storage'[o].status = "active" => SameStorage(storage'[o], storage[o])

LEMMA SurvivesAll ==
  ASSUME TypeOK, [Next]_vars, ~Acquires
  PROVE  /\ \A o \in Owners : Survives(o)
         /\ acquired' = acquired
<1>0. /\ storage \in [Owners -> StorageType] /\ acquired \in 0..MaxOwners
      /\ created \in Nat /\ MaxOwners \in Nat
  BY Bounds DEF TypeOK
<1>a. ASSUME storage' = storage PROVE \A o \in Owners : Survives(o)
  BY <1>a DEF Survives, SameStorage
<1>b. ASSUME NEW o \in Owners, NEW st, storage' = [storage EXCEPT ![o] = st],
             st = Gone \/ SameStorage(st, storage[o])
      PROVE  \A p \in Owners : Survives(p)
  BY <1>0, <1>b DEF Survives, SameStorage, Gone, Unused
<1> DEFINE G == (\A o \in Owners : Survives(o)) /\ acquired' = acquired
<1>1. CASE Tick
  <2>1. ASSUME NEW o \in Owners PROVE SameStorage(storage'[o], storage[o])
    <3>1. SameStorage([storage[o] EXCEPT !.age = @ + 1], storage[o])
      BY <1>0, UpdatesKeepIdentity
    <3> QED BY <1>1, <3>1 DEF Tick, SameStorage
  <2> QED BY <1>1, <2>1 DEF Tick, Survives
<1>2. ASSUME NEW r \in Repos, Create(r) \/ Open(r) PROVE FALSE
  <2>1. Acquires
    BY <1>0, <1>2, SMTT(60) DEF Create, Open, Acquires
  <2> QED BY <2>1
<1>3. ASSUME NEW r \in Repos, Close(r) \/ StartJob(r, "delete") \/ StartJob(r, "repair")
                              \/ DeleteRun(r) \/ RepairRun(r)
      PROVE  G
  BY <1>a, <1>3 DEF Close, StartJob, DeleteRun, RepairRun
<1>4. ASSUME NEW r \in Repos, Crash(r) PROVE G
  BY <1>4 DEF Crash, Survives, SameStorage, Gone, Unused
<1>5. ASSUME NEW r \in Repos, CloseDatabase(r) PROVE G
  <2>1. ASSUME NEW o \in Owners PROVE SameStorage(storage'[o], storage[o])
    <3>1. SameStorage([storage[o] EXCEPT !.connected = FALSE], storage[o])
      BY <1>0, UpdatesKeepIdentity
    <3> QED BY <1>5, <3>1 DEF CloseDatabase, SameStorage
  <2> QED BY <1>5, <2>1 DEF CloseDatabase, Survives
<1>6. ASSUME NEW r \in Repos, NEW o \in Owners, RequestRelease(r, o) PROVE G
  <2> DEFINE st == Enqueued(storage[o], "release")
  <2>1. st \in StorageType /\ SameStorage(st, storage[o])
    BY <1>0, QueueType, UpdatesKeepIdentity DEF TaskType
  <2>2. SameStorage([st EXCEPT !.closing = TRUE, !.timer = "off", !.age = 0], st)
    BY <2>1, UpdatesKeepIdentity
  <2>3. SameStorage([st EXCEPT !.closing = TRUE, !.timer = "off", !.age = 0], storage[o])
    BY <2>1, <2>2 DEF SameStorage
  <2> QED BY <1>6, <1>b, <2>3 DEF RequestRelease
<1>7. ASSUME NEW o \in Owners, EnqueueWrite(o) PROVE G
  BY <1>0, <1>7, <1>b, UpdatesKeepIdentity DEF EnqueueWrite, TaskType
<1>8. ASSUME NEW o \in Owners, FireHeartbeat(o) PROVE G
  <2> DEFINE st == Enqueued(storage[o], "heartbeat")
  <2>1. st \in StorageType /\ SameStorage(st, storage[o])
    BY <1>0, QueueType, UpdatesKeepIdentity DEF TaskType
  <2>2. SameStorage([st EXCEPT !.timer = "fired"], st)
    BY <2>1, UpdatesKeepIdentity
  <2>3. SameStorage([st EXCEPT !.timer = "fired"], storage[o])
    BY <2>1, <2>2 DEF SameStorage
  <2> QED BY <1>8, <1>b, <2>3 DEF FireHeartbeat
<1>9. ASSUME NEW o \in Owners, RunTask(o) PROVE G
  <2> DEFINE st == Done(storage[o])
             ls == [st EXCEPT !.leaseError = TRUE]
  <2>1. CASE ReleaseLease(o) \/ ReleaseThrows(o)
    BY <1>b, <2>1 DEF ReleaseLease, ReleaseThrows
  <2>2. CASE ~(ReleaseLease(o) \/ ReleaseThrows(o))
    <3>1. storage[o].queue # <<>>
      BY <1>9, <2>2 DEF RunTask, Next1, WriteCommits, WriteRejected, WriteLosesLease,
         HeartbeatRenews, HeartbeatLosesLease, HeartbeatSkips
    <3>2. st \in StorageType /\ SameStorage(st, storage[o])
      BY <1>0, <3>1, QueueType, UpdatesKeepIdentity
    <3>3. ls \in StorageType /\ SameStorage(ls, st)
      BY <3>2, FieldTypes, UpdatesKeepIdentity
    <3>4. /\ SameStorage(LostByWrite(st), st) /\ SameStorage(Rescheduled(st), st)
          /\ SameStorage(Rescheduled(ls), ls)
      BY <3>2, <3>3, UpdatesKeepIdentity
    <3>5. /\ SameStorage(LostByWrite(st), storage[o])
          /\ SameStorage(Rescheduled(st), storage[o])
          /\ SameStorage(Rescheduled(ls), storage[o])
      BY <3>2, <3>3, <3>4 DEF SameStorage
    <3>6. CASE WriteCommits(o) \/ WriteRejected(o)
      BY <1>b, <3>2, <3>6 DEF WriteCommits, WriteRejected
    <3>7. CASE WriteLosesLease(o)
      BY <1>b, <3>5, <3>7 DEF WriteLosesLease
    <3>8. CASE HeartbeatRenews(o) \/ HeartbeatSkips(o)
      BY <1>b, <3>5, <3>8 DEF HeartbeatRenews, HeartbeatSkips
    <3>9. CASE HeartbeatLosesLease(o)
      BY <1>b, <3>5, <3>9 DEF HeartbeatLosesLease
    <3> QED BY <1>9, <2>2, <3>6, <3>7, <3>8, <3>9 DEF RunTask
  <2> QED BY <2>1, <2>2
<1>10. CASE UNCHANGED vars
  BY <1>a, <1>10 DEF vars
<1> QED BY <1>1, <1>2, <1>3, <1>4, <1>5, <1>6, <1>7, <1>8, <1>9, <1>10 DEF Next, RunJob

\* What a step that acquires nothing may do to the lease row: delete it, or
\* leave owner and fence alone together with the session it belongs to.
LEMMA LeaseFrame ==
  ASSUME TypeOK, [Next]_vars, ~Acquires
  PROVE  \/ lease'.owner = 0
         \/ lease'.owner = lease.owner /\ lease'.fence = lease.fence /\ session' = session
<1>0. /\ lease \in LeaseType /\ acquired \in 0..MaxOwners /\ created \in Nat
      /\ MaxOwners \in Nat
  BY Bounds DEF TypeOK, LeaseType
<1> DEFINE G == \/ lease'.owner = 0
                \/ /\ lease'.owner = lease.owner /\ lease'.fence = lease.fence
                   /\ session' = session
<1>1. CASE Tick
  BY <1>0, <1>1 DEF Tick, LeaseType
<1>2. ASSUME NEW r \in Repos, Create(r) \/ Open(r) PROVE FALSE
  <2>1. Acquires
    BY <1>0, <1>2, SMTT(60) DEF Create, Open, Acquires
  <2> QED BY <2>1
<1>3. ASSUME NEW r \in Repos, DeleteRun(r) \/ RepairRun(r) PROVE G
  BY <1>3, SMTT(60) DEF DeleteRun, RepairRun, NoLease
<1>4. ASSUME NEW r \in Repos, \/ Close(r) \/ StartJob(r, "delete") \/ StartJob(r, "repair")
                              \/ Crash(r) \/ CloseDatabase(r)
      PROVE  G
  BY <1>4 DEF Close, StartJob, Crash, CloseDatabase
<1>5. ASSUME NEW r \in Repos, NEW o \in Owners, RequestRelease(r, o) PROVE G
  BY <1>5 DEF RequestRelease
<1>6. ASSUME NEW o \in Owners, EnqueueWrite(o) \/ FireHeartbeat(o) \/ RunTask(o) PROVE G
  <2>1. CASE WriteCommits(o) \/ HeartbeatRenews(o)
    BY <1>0, <2>1 DEF WriteCommits, HeartbeatRenews, Renewed, LeaseType
  <2>2. CASE ReleaseLease(o)
    BY <2>2 DEF ReleaseLease, Released, NoLease
  <2>3. CASE \/ EnqueueWrite(o) \/ FireHeartbeat(o) \/ WriteRejected(o) \/ WriteLosesLease(o)
             \/ HeartbeatLosesLease(o) \/ HeartbeatSkips(o) \/ ReleaseThrows(o)
    BY <2>3 DEF EnqueueWrite, FireHeartbeat, WriteRejected, WriteLosesLease,
       HeartbeatLosesLease, HeartbeatSkips, ReleaseThrows
  <2> QED BY <1>6, <2>1, <2>2, <2>3 DEF RunTask
<1>7. CASE UNCHANGED vars
  BY <1>7 DEF vars
<1> QED BY <1>1, <1>2, <1>3, <1>4, <1>5, <1>6, <1>7 DEF Next, RunJob

\* The row belongs to the latest owner, its session exists, and the storage
\* of that owner, while active, carries its fence and its session.
LeaseInv ==
  /\ lease.owner \in {0, acquired}
  /\ lease.owner # 0 => session # 0
  /\ \A o \in Owners : Active(o) /\ lease.owner = o
                       => storage[o].fence = lease.fence /\ storage[o].session = session
\* No write is newer than the latest owner.
WritesInv == \A i \in DOMAIN writes : writes[i].owner <= acquired
FencingInv == TypeOK /\ LeaseInv /\ WritesInv /\ FencedWrites /\ NoForeignSession

LEMMA LeaseInvStep ==
  ASSUME TypeOK, LeaseInv, [Next]_vars
  PROVE  LeaseInv'
<1>0. /\ storage \in [Owners -> StorageType] /\ acquired \in 0..MaxOwners
      /\ session \in Nat /\ created \in Nat /\ MaxOwners \in Nat
  BY Bounds DEF TypeOK
<1>1. CASE Acquires
  <2>0. acquired + 1 \in Owners /\ acquired' = acquired + 1
    BY <1>0, <1>1, SMTT(60) DEF Owners, Acquires
  <2>1. lease'.owner = acquired + 1 /\ lease'.fence = ClaimedBy(acquired + 1).fence
    BY <1>1 DEF Acquires, ClaimedBy
  <2>2. PICK r \in Repos : storage' = [storage EXCEPT ![acquired + 1] =
                             NewStorage(r, session', ClaimedBy(acquired + 1).fence)]
    BY <1>1 DEF Acquires
  <2>3. storage'[acquired + 1].fence = lease'.fence /\ storage'[acquired + 1].session = session'
    BY <1>0, <2>0, <2>1, <2>2 DEF NewStorage
  <2>4. session' # 0
    BY <1>1 DEF Acquires
  <2> QED BY <2>0, <2>1, <2>3, <2>4 DEF LeaseInv, Active
<1>2. CASE ~Acquires
  <2>1. acquired' = acquired /\ \A o \in Owners : Survives(o)
    BY <1>2, SurvivesAll
  <2>2. CASE lease'.owner = 0
    <3>1. \A o \in Owners : o # 0
      BY <1>0, SMTT(60) DEF Owners
    <3> QED BY <2>2, <3>1 DEF LeaseInv
  <2>3. CASE lease'.owner = lease.owner /\ lease'.fence = lease.fence /\ session' = session
    BY <2>1, <2>3 DEF LeaseInv, Survives, SameStorage, Active
  <2> QED BY <1>2, <2>2, <2>3, LeaseFrame
<1> QED BY <1>1, <1>2

\* A committed write is the latest owner's, and enters its own session.
LEMMA WritesInvStep ==
  ASSUME FencingInv, [Next]_vars
  PROVE  WritesInv' /\ FencedWrites' /\ NoForeignSession'
<1>0. /\ writes \in Seq(WriteType) /\ acquired \in 0..MaxOwners /\ MaxOwners \in Nat
      /\ \A w \in WriteType : w.owner \in Nat
  BY Bounds, SMTT(60) DEF FencingInv, TypeOK, WriteType, Owners
<1>1. acquired' >= acquired /\ acquired' \in Nat
  BY <1>0, SurvivesAll, SMTT(60) DEF FencingInv, Acquires
<1>2. CASE writes' = writes
  <2>1. \A i \in DOMAIN writes : writes[i].owner \in Nat
    BY <1>0, SMTT(60)
  <2>2. WritesInv'
    BY <1>0, <1>1, <1>2, <2>1, SMTT(60) DEF FencingInv, WritesInv
  <2> QED BY <1>2, <2>2 DEF FencingInv, FencedWrites, NoForeignSession
<1>3. ASSUME NEW o \in Owners, WriteCommits(o)
      PROVE  WritesInv' /\ FencedWrites' /\ NoForeignSession'
  <2> DEFINE w == [owner |-> o, opened |-> storage[o].session, session |-> session]
  <2>1. writes' = Append(writes, w) /\ acquired' = acquired
    BY <1>3 DEF WriteCommits
  <2>2. o = acquired /\ storage[o].session = session
    <3>1. o = lease.owner /\ o # 0 /\ Active(o)
      BY <1>0, <1>3, SMTT(60) DEF WriteCommits, Renewable, Next1, Owners
    <3> QED BY <3>1 DEF FencingInv, LeaseInv
  <2>3. w \in WriteType
    <3>1. storage[o].session \in Nat /\ session \in Nat
      BY <2>2 DEF FencingInv, TypeOK
    <3> QED BY <3>1 DEF WriteType
  <2>4. /\ DOMAIN writes' = 1..(Len(writes) + 1) /\ DOMAIN writes = 1..Len(writes)
        /\ Len(writes) \in Nat
        /\ \A i \in 1..Len(writes) : writes'[i] = writes[i]
        /\ writes'[Len(writes) + 1] = w
    BY <1>0, <2>1, <2>3, SMTT(60)
  <2>5. \A i \in DOMAIN writes : writes[i].owner \in Nat /\ writes[i].owner <= o
    BY <1>0, <2>2, SMTT(60) DEF FencingInv, WritesInv
  <2>6. \A i \in DOMAIN writes' : i \in DOMAIN writes \/ (i = Len(writes) + 1 /\ writes'[i] = w)
    BY <2>4, SMTT(60)
  <2>7. w.owner = o /\ w.opened = w.session /\ o \in Nat
    BY <2>2, <1>0, SMTT(60)
  <2>8. WritesInv'
    BY <2>1, <2>2, <2>4, <2>5, <2>6, <2>7, SMTT(60) DEF WritesInv
  <2>9. NoForeignSession'
    BY <2>4, <2>6, <2>7 DEF NoForeignSession, FencingInv
  <2>10. FencedWrites'
    <3>1. SUFFICES ASSUME NEW i \in DOMAIN writes', NEW j \in DOMAIN writes', i < j
                   PROVE  writes'[i].owner <= writes'[j].owner
      BY DEF FencedWrites
    <3>2. i \in DOMAIN writes /\ writes'[i] = writes[i]
      BY <2>4, <3>1, SMTT(60)
    <3>3. CASE j \in DOMAIN writes
      BY <2>4, <3>1, <3>2, <3>3 DEF FencingInv, FencedWrites
    <3>4. CASE j = Len(writes) + 1
      BY <2>4, <2>5, <2>7, <3>2, <3>4
    <3> QED BY <2>6, <3>3, <3>4
  <2> QED BY <2>8, <2>9, <2>10
<1> QED BY <1>2, <1>3, WritesFrame

LEMMA FencingInvariant == Spec => []FencingInv
<1>1. Init => FencingInv
  <2> SUFFICES ASSUME Init PROVE FencingInv
    OBVIOUS
  <2>1. LeaseInv
    BY DEF Init, LeaseInv, NoLease, Active, Unused
  <2>2. DOMAIN writes = {}
    BY SMTT(60) DEF Init
  <2> QED BY <2>1, <2>2, TypeInit DEF FencingInv, WritesInv, FencedWrites, NoForeignSession
<1>2. FencingInv /\ [Next]_vars => FencingInv'
  <2> SUFFICES ASSUME FencingInv, [Next]_vars PROVE FencingInv'
    OBVIOUS
  <2>1. TypeOK' /\ LeaseInv'
    BY StoragesStep, RowsStep, JobsStep, WritesStep, LeaseInvStep
       DEF FencingInv, TypeOK, LeaseType, WriteType
  <2> QED BY <2>1, WritesInvStep DEF FencingInv
<1> QED BY <1>1, <1>2, PTL DEF Spec

\* Fencing holds whatever the clock, the number of processes and the failures
\* do: the writes of the session are ordered by acquisition of its lease.
THEOREM WritesAreFenced == Spec => []FencedWrites
BY FencingInvariant, PTL DEF FencingInv

\* No storage of a deleted session writes into its successor.
THEOREM WritesStayInSession == Spec => []NoForeignSession
BY FencingInvariant, PTL DEF FencingInv
----------------------------------------------------------------------------
(* A valid lease and the steps of others *)

LEMMA DoneChanges ==
  ASSUME NEW st \in StorageType, st.queue # <<>>
  PROVE  Done(st) # st /\ Rescheduled(Done(st)) # st
<1>0. st.queue \in Seq(TaskType)
  BY DEF StorageType, TaskType
<1>1. Tail(st.queue) # st.queue
  <2>1. Len(Tail(st.queue)) = Len(st.queue) - 1 /\ Len(st.queue) \in Nat
    BY <1>0, SMTT(60)
  <2>2. Len(Tail(st.queue)) # Len(st.queue)
    BY <2>1, SMTT(60)
  <2> QED BY <2>2
<1>2. Done(st).queue = Tail(st.queue)
  BY DEF Done, StorageType
<1>3. Done(st) \in StorageType
  BY QueueType
<1>4. Rescheduled(Done(st)).queue = Done(st).queue
  BY <1>3 DEF Rescheduled, StorageType
<1> QED BY <1>1, <1>2, <1>4

\* One step of anyone, seen from the holder of a valid lease.
LeaseStable(o) == Active(o) /\ Owns(o) /\ storage'[o] = storage[o] /\ lease' # lease
                  => lease' = [lease EXCEPT !.left = @ - 1]

LEMMA StableStep ==
  ASSUME TypeOK, LeaseInv, [Next]_vars, NEW o \in Owners
  PROVE  LeaseStable(o)
<1>0. /\ storage \in [Owners -> StorageType] /\ lease \in LeaseType
      /\ acquired \in 0..MaxOwners /\ MaxOwners \in Nat
  BY Bounds DEF TypeOK, LeaseType
<1> SUFFICES ASSUME Active(o), Owns(o), storage'[o] = storage[o], lease' # lease
             PROVE  lease' = [lease EXCEPT !.left = @ - 1]
  BY DEF LeaseStable
<1>1. lease.owner = o /\ o # 0 /\ lease.left # 0 /\ ~Claimable /\ session # 0
  BY <1>0, SMTT(60) DEF Owns, Owners, Claimable, LeaseInv
<1>2. CASE Tick
  BY <1>1, <1>2 DEF Tick
<1>3. ASSUME NEW r \in Repos, Create(r) \/ Open(r) \/ DeleteRun(r) \/ RepairRun(r) PROVE FALSE
  BY <1>1, <1>3 DEF Create, Open, DeleteRun, RepairRun
<1>4. ASSUME NEW r \in Repos, \/ Close(r) \/ StartJob(r, "delete") \/ StartJob(r, "repair")
                              \/ Crash(r) \/ CloseDatabase(r)
      PROVE  FALSE
  BY <1>4 DEF Close, StartJob, Crash, CloseDatabase
<1>5. ASSUME NEW r \in Repos, NEW p \in Owners, RequestRelease(r, p) PROVE FALSE
  BY <1>5 DEF RequestRelease
<1>6. ASSUME NEW p \in Owners, EnqueueWrite(p) \/ FireHeartbeat(p) \/ RunTask(p) PROVE FALSE
  <2>1. CASE WriteCommits(p) \/ HeartbeatRenews(p)
    <3>1. p = o /\ storage[o].queue # <<>>
      BY <1>1, <2>1 DEF WriteCommits, HeartbeatRenews, Renewable, Next1
    <3>2. storage'[o] = Done(storage[o]) \/ storage'[o] = Rescheduled(Done(storage[o]))
      BY <1>0, <2>1, <3>1 DEF WriteCommits, HeartbeatRenews
    <3> QED BY <1>0, <3>1, <3>2, DoneChanges
  <2>2. CASE ReleaseLease(p)
    <3>1. p = o
      BY <1>1, <2>2 DEF ReleaseLease, Released
    <3>2. storage'[o] = Gone
      BY <1>0, <2>2, <3>1 DEF ReleaseLease
    <3> QED BY <3>2 DEF Active, Gone, Unused
  <2>3. CASE \/ EnqueueWrite(p) \/ FireHeartbeat(p) \/ WriteRejected(p) \/ WriteLosesLease(p)
             \/ HeartbeatLosesLease(p) \/ HeartbeatSkips(p) \/ ReleaseThrows(p)
    BY <2>3 DEF EnqueueWrite, FireHeartbeat, WriteRejected, WriteLosesLease,
       HeartbeatLosesLease, HeartbeatSkips, ReleaseThrows
  <2> QED BY <1>6, <2>1, <2>2, <2>3 DEF RunTask
<1>7. CASE UNCHANGED vars
  BY <1>7 DEF vars
<1> QED BY <1>2, <1>3, <1>4, <1>5, <1>6, <1>7 DEF Next, RunJob

\* For every number of repositories, whatever each of them does and however
\* it fails, a valid lease ends only by its holder's own step or by time.
THEOREM ValidLeaseIsStable == Spec => LiveLeaseIsStable
<1>1. FencingInv /\ [Next]_vars => [\A o \in Owners : LeaseStable(o)]_vars
  BY StableStep DEF FencingInv
<1>2. [\A o \in Owners : LeaseStable(o)]_vars
      => [\A o \in Owners :
            Active(o) /\ Owns(o) /\ storage'[o] = storage[o] /\ lease' # lease
            => lease' = [lease EXCEPT !.left = @ - 1]]_vars
  BY DEF LeaseStable
<1> QED BY FencingInvariant, <1>1, <1>2, PTL DEF Spec, LiveLeaseIsStable

----------------------------------------------------------------------------
(* Timely heartbeats keep the lease *)

\* The heartbeat of a storage is scheduled, and the lease was renewed at or
\* after the moment it was.
Kept(o) == /\ storage[o].timer # "off" /\ ~storage[o].leaseError
           /\ lease.owner = o /\ lease.left + storage[o].age >= TTL
           /\ storage[o].age <= HB + MaxDelay
KeptInv == \A o \in Owners : Holding(o) => Kept(o)

\* What the tasks of a queue do to the fields that Kept and Holding read.
LEMMA TaskFields ==
  ASSUME NEW st \in StorageType, NEW task \in TaskType
  PROVE  /\ Enqueued(st, task).closing = st.closing
         /\ Enqueued(st, task).connected = st.connected
         /\ Enqueued(st, task).timer = st.timer
         /\ Enqueued(st, task).leaseError = st.leaseError
         /\ Enqueued(st, task).age = st.age
         /\ Done(st).closing = st.closing /\ Done(st).connected = st.connected
         /\ Done(st).timer = st.timer /\ Done(st).leaseError = st.leaseError
         /\ Done(st).age = st.age
         /\ Rescheduled(st).closing = st.closing
         /\ Rescheduled(st).connected = st.connected
         /\ Rescheduled(st).leaseError = st.leaseError
         /\ Rescheduled(st).age = 0
         /\ ~st.closing /\ ~st.leaseError => Rescheduled(st).timer = "armed"
<1>1. /\ Enqueued(st, task).closing = st.closing
      /\ Enqueued(st, task).connected = st.connected
      /\ Enqueued(st, task).timer = st.timer
      /\ Enqueued(st, task).leaseError = st.leaseError
      /\ Enqueued(st, task).age = st.age
  BY DEF Enqueued, StorageType
<1>2. /\ Done(st).closing = st.closing /\ Done(st).connected = st.connected
      /\ Done(st).timer = st.timer /\ Done(st).leaseError = st.leaseError
      /\ Done(st).age = st.age
  BY DEF Done, StorageType
<1>3. /\ Rescheduled(st).closing = st.closing
      /\ Rescheduled(st).connected = st.connected
      /\ Rescheduled(st).leaseError = st.leaseError
      /\ Rescheduled(st).age = 0
      /\ ~st.closing /\ ~st.leaseError => Rescheduled(st).timer = "armed"
  BY DEF Rescheduled, StorageType
<1> QED BY <1>1, <1>2, <1>3

\* A storage whose lease row and own state stay what they were stays kept.
LEMMA KeptFrame ==
  ASSUME NEW o \in Owners, Holding(o) => Kept(o),
         lease' = lease, storage'[o] = storage[o]
  PROVE  Holding(o)' => Kept(o)'
BY DEF Holding, Kept, Active

LEMMA KeptStep ==
  ASSUME Timely, ~Busy, HB + MaxDelay < TTL,
         TypeOK, LeaseInv, KeptInv, [Next]_vars,
         NEW o \in Owners
  PROVE  Holding(o)' => Kept(o)'
<1>0. /\ storage \in [Owners -> StorageType] /\ lease \in LeaseType
      /\ acquired \in 0..MaxOwners /\ MaxOwners \in Nat /\ created \in Nat
      /\ HB \in Nat /\ MaxDelay \in Nat /\ TTL \in Nat
      /\ storage[o].age \in Nat /\ lease.left \in Nat /\ o # 0
  <2>1. storage \in [Owners -> StorageType] /\ lease \in LeaseType /\ acquired \in 0..MaxOwners
    BY DEF TypeOK, LeaseType
  <2>2. MaxOwners \in Nat /\ HB \in Nat /\ MaxDelay \in Nat /\ TTL \in Nat
    BY Bounds, LeaseOptions, SMTT(60)
  <2>3. created \in Nat
    BY <2>2, SMTT(60) DEF TypeOK
  <2>4. storage[o] \in StorageType /\ o # 0
    BY <2>1, SMTT(60) DEF Owners
  <2>5. storage[o].age \in Nat
    BY <2>2, <2>4, SMTT(60) DEF StorageType
  <2>6. lease.left \in Nat
    BY <2>1, <2>2, SMTT(60) DEF LeaseType
  <2> QED BY <2>1, <2>2, <2>3, <2>4, <2>5, <2>6
<1>a. Holding(o) => Kept(o)
  BY DEF KeptInv
<1>b. ASSUME Holding(o) PROVE lease.left > 0 /\ ~Claimable /\ session # 0 /\ Renewable(o)
  <2>1. /\ lease.owner = o /\ lease.left + storage[o].age >= TTL
        /\ storage[o].age <= HB + MaxDelay
    BY <1>a, <1>b DEF Kept
  <2>2. lease.left > 0
    BY <1>0, <2>1, SMTT(60)
  <2>3. ~Claimable /\ session # 0
    BY <1>0, <2>1, <2>2, SMTT(60) DEF Claimable, LeaseInv
  <2>4. storage[o].fence = lease.fence
    BY <1>b, <2>1 DEF LeaseInv, Holding
  <2> QED BY <2>1, <2>2, <2>3, <2>4 DEF Renewable
<1> SUFFICES ASSUME Holding(o)' PROVE Kept(o)'
  OBVIOUS
<1>1. CASE Tick
  <2>1. CASE ~Running(o)
    <3>1. storage'[o] = storage[o]
      BY <1>1, <2>1 DEF Tick
    <3>2. Holding(o)
      BY <3>1 DEF Holding, Active
    <3> QED BY <1>a, <2>1, <3>2 DEF Kept, Running, Holding
  <2>2. CASE Running(o)
    <3>1. storage[o].age < HB + MaxDelay
      BY <1>1, <2>2 DEF Tick
    <3>2. storage'[o] = [storage[o] EXCEPT !.age = @ + 1]
      BY <1>1, <2>2, <3>1 DEF Tick
    <3>3. /\ storage'[o].status = storage[o].status /\ storage'[o].closing = storage[o].closing
          /\ storage'[o].connected = storage[o].connected
          /\ storage'[o].timer = storage[o].timer
          /\ storage'[o].leaseError = storage[o].leaseError
          /\ storage'[o].age = storage[o].age + 1
      BY <1>0, <3>2 DEF StorageType
    <3>4. Holding(o)
      BY <3>3 DEF Holding, Active
    <3>5. lease'.owner = lease.owner /\ lease'.left = lease.left - 1
      BY <1>0, <1>1, <1>b, <3>4, SMTT(60) DEF Tick, LeaseType
    <3>6. Kept(o)
      BY <1>a, <3>4
    <3>7. /\ lease'.left + storage'[o].age = lease.left + storage[o].age
          /\ storage'[o].age <= HB + MaxDelay
      BY <1>0, <3>1, <3>3, <3>5, SMTT(60)
    <3> QED BY <3>3, <3>5, <3>6, <3>7 DEF Kept
  <2> QED BY <2>1, <2>2
<1>2. CASE Acquires
  <2>1. PICK r \in Repos : storage' = [storage EXCEPT ![acquired + 1] =
                             NewStorage(r, session', ClaimedBy(acquired + 1).fence)]
    BY <1>2 DEF Acquires
  <2>2. CASE o # acquired + 1
    <3>1. storage'[o] = storage[o]
      BY <1>0, <2>1, <2>2
    <3> QED BY <1>2, <1>b, <3>1 DEF Acquires, Holding, Active
  <2>3. CASE o = acquired + 1
    <3>1. storage'[o] = NewStorage(r, session', ClaimedBy(acquired + 1).fence)
      BY <1>0, <2>1, <2>3
    <3>2. storage'[o].timer = "armed" /\ ~storage'[o].leaseError /\ storage'[o].age = 0
      BY <3>1, SMTT(60) DEF NewStorage
    <3>3. lease'.owner = o /\ lease'.left = TTL
      BY <1>2, <2>3 DEF Acquires, ClaimedBy
    <3> QED BY <1>0, <3>2, <3>3, SMTT(60) DEF Kept
  <2> QED BY <2>2, <2>3
<1>3. ASSUME NEW r \in Repos, Create(r) \/ Open(r) PROVE Kept(o)'
  <2>1. Acquires
    BY <1>0, <1>3, SMTT(60) DEF Create, Open, Acquires
  <2> QED BY <1>2, <2>1
<1>4. ASSUME NEW r \in Repos, DeleteRun(r) \/ RepairRun(r) PROVE Kept(o)'
  <2>1. storage' = storage
    BY <1>4 DEF DeleteRun, RepairRun
  <2>2. Holding(o)
    BY <2>1 DEF Holding, Active
  <2>3. lease' = lease
    BY <1>4, <1>b, <2>2 DEF DeleteRun, RepairRun
  <2> QED BY <1>a, <2>1, <2>3, KeptFrame
<1>5. ASSUME NEW r \in Repos, Close(r) \/ StartJob(r, "delete") \/ StartJob(r, "repair")
      PROVE  Kept(o)'
  BY <1>a, <1>5, KeptFrame DEF Close, StartJob
<1>6. ASSUME NEW r \in Repos, Crash(r) \/ CloseDatabase(r) PROVE Kept(o)'
  <2>1. lease' = lease
    BY <1>6 DEF Crash, CloseDatabase
  <2>2. storage'[o] = storage[o] \/ storage'[o] = Gone
        \/ storage'[o] = [storage[o] EXCEPT !.connected = FALSE]
    BY <1>6 DEF Crash, CloseDatabase
  <2>3. storage'[o] # Gone
    BY DEF Holding, Active, Gone, Unused
  <2>4. storage'[o] # [storage[o] EXCEPT !.connected = FALSE]
    <3>1. [storage[o] EXCEPT !.connected = FALSE].connected = FALSE
      BY <1>0 DEF StorageType
    <3> QED BY <3>1 DEF Holding
  <2> QED BY <1>a, <2>1, <2>2, <2>3, <2>4, KeptFrame
<1>7. ASSUME NEW r \in Repos, NEW p \in Owners, RequestRelease(r, p) PROVE Kept(o)'
  <2>2. CASE p # o
    BY <1>0, <1>7, <1>a, <2>2, KeptFrame DEF RequestRelease
  <2>3. CASE p = o
    <3> DEFINE st == Enqueued(storage[o], "release")
    <3>1. st \in StorageType
      BY <1>0, QueueType DEF TaskType
    <3>2. storage'[o] = [st EXCEPT !.closing = TRUE, !.timer = "off", !.age = 0]
      BY <1>0, <1>7, <2>3 DEF RequestRelease
    <3>3. storage'[o].closing
      BY <3>1, <3>2 DEF StorageType
    <3> QED BY <3>3 DEF Holding
  <2> QED BY <2>2, <2>3
<1>8. ASSUME NEW p \in Owners, EnqueueWrite(p) \/ FireHeartbeat(p) \/ RunTask(p), p # o
      PROVE  Kept(o)'
  <2>1. storage'[o] = storage[o]
    BY <1>0, <1>8 DEF EnqueueWrite, FireHeartbeat, RunTask, WriteCommits, WriteRejected,
       WriteLosesLease, HeartbeatRenews, HeartbeatLosesLease, HeartbeatSkips,
       ReleaseLease, ReleaseThrows
  <2>2. Holding(o) /\ Kept(o)
    BY <1>a, <2>1 DEF Holding, Active
  <2>3. lease' = lease
    BY <1>8, <2>2 DEF Kept, EnqueueWrite, FireHeartbeat, RunTask, WriteCommits,
       WriteRejected, WriteLosesLease, HeartbeatRenews, HeartbeatLosesLease,
       HeartbeatSkips, ReleaseLease, ReleaseThrows, Renewable, Released
  <2> QED BY <1>a, <2>1, <2>3, KeptFrame
<1>9. CASE EnqueueWrite(o) \/ FireHeartbeat(o)
  <2>0. lease' = lease /\ Active(o)
    BY <1>9 DEF EnqueueWrite, FireHeartbeat
  <2> DEFINE wr == Enqueued(storage[o], "write")
             hb == Enqueued(storage[o], "heartbeat")
  <2>1. hb \in StorageType
    BY <1>0, QueueType DEF TaskType
  <2>2. storage'[o] = wr \/ storage'[o] = [hb EXCEPT !.timer = "fired"]
    BY <1>0, <1>9 DEF EnqueueWrite, FireHeartbeat
  <2>3. CASE storage'[o] = wr
    <3>1. /\ wr.closing = storage[o].closing /\ wr.connected = storage[o].connected
          /\ wr.timer = storage[o].timer /\ wr.leaseError = storage[o].leaseError
          /\ wr.age = storage[o].age
      BY <1>0, TaskFields DEF TaskType
    <3> QED BY <1>a, <2>0, <2>3, <3>1 DEF Holding, Kept
  <2>4. CASE storage'[o] = [hb EXCEPT !.timer = "fired"]
    <3>1. /\ hb.closing = storage[o].closing /\ hb.connected = storage[o].connected
          /\ hb.leaseError = storage[o].leaseError /\ hb.age = storage[o].age
      BY <1>0, TaskFields DEF TaskType
    <3>2. /\ storage'[o].closing = hb.closing /\ storage'[o].connected = hb.connected
          /\ storage'[o].leaseError = hb.leaseError /\ storage'[o].age = hb.age
          /\ storage'[o].timer = "fired"
      BY <2>1, <2>4 DEF StorageType
    <3> QED BY <1>a, <2>0, <3>1, <3>2 DEF Holding, Kept
  <2> QED BY <2>2, <2>3, <2>4
<1>10. CASE RunTask(o)
  <2> DEFINE st == Done(storage[o])
  <2>1. storage'[o] # Gone
    BY DEF Holding, Active, Gone, Unused
  <2>2. ~ReleaseLease(o) /\ ~ReleaseThrows(o)
    BY <1>0, <2>1 DEF ReleaseLease, ReleaseThrows
  <2>3. Active(o) /\ storage[o].queue # <<>>
    BY <1>10, <2>2 DEF RunTask, Next1, WriteCommits, WriteRejected, WriteLosesLease,
       HeartbeatRenews, HeartbeatLosesLease, HeartbeatSkips
  <2>4. st \in StorageType
    BY <1>0, <2>3, QueueType
  <2>5. /\ st.closing = storage[o].closing /\ st.connected = storage[o].connected
        /\ st.timer = storage[o].timer /\ st.leaseError = storage[o].leaseError
        /\ st.age = storage[o].age
    BY <1>0, TaskFields DEF TaskType
  <2>6. /\ Rescheduled(st).closing = st.closing /\ Rescheduled(st).connected = st.connected
        /\ Rescheduled(st).leaseError = st.leaseError /\ Rescheduled(st).age = 0
        /\ ~st.closing /\ ~st.leaseError => Rescheduled(st).timer = "armed"
    BY <2>4, TaskFields DEF TaskType
  <2>7. CASE WriteCommits(o) \/ WriteRejected(o)
    <3>1. storage'[o] = st
      BY <1>0, <2>7 DEF WriteCommits, WriteRejected
    <3>2. Kept(o)
      BY <1>a, <2>3, <2>5, <3>1 DEF Holding
    <3>3. lease' = lease \/ (lease'.owner = lease.owner /\ lease'.left = TTL)
      BY <1>0, <2>7 DEF WriteCommits, WriteRejected, Renewed, LeaseType
    <3> QED BY <1>0, <2>5, <3>1, <3>2, <3>3, SMTT(60) DEF Kept
  <2>8. CASE HeartbeatRenews(o)
    <3>1. storage'[o] = Rescheduled(st) /\ ~storage[o].closing /\ ~storage[o].leaseError
      BY <1>0, <2>8 DEF HeartbeatRenews
    <3>2. lease'.owner = o /\ lease'.left = TTL
      BY <1>0, <2>8 DEF HeartbeatRenews, Renewable, Renewed, LeaseType
    <3>3. storage'[o].timer = "armed" /\ ~storage'[o].leaseError /\ storage'[o].age = 0
      BY <2>5, <2>6, <3>1
    <3> QED BY <1>0, <3>2, <3>3, SMTT(60) DEF Kept
  <2>9. CASE HeartbeatSkips(o)
    <3>1. storage'[o] = Rescheduled(st)
      BY <1>0, <2>9 DEF HeartbeatSkips
    <3>2. Holding(o)
      BY <2>3, <2>5, <2>6, <3>1 DEF Holding
    <3> QED BY <1>a, <2>9, <3>2 DEF HeartbeatSkips, Holding, Kept, Throws
  <2>10. CASE WriteLosesLease(o)
    <3>1. storage'[o] = LostByWrite(st)
      BY <1>0, <2>10 DEF WriteLosesLease
    <3>2. LostByWrite(st).closing = st.closing
      BY <2>4 DEF LostByWrite, StorageType
    <3>3. Holding(o)
      BY <2>3, <2>5, <2>10, <3>1, <3>2 DEF WriteLosesLease, Holding
    <3> QED BY <1>b, <2>10, <3>3 DEF WriteLosesLease
  <2>11. CASE HeartbeatLosesLease(o)
    BY <1>b, <2>3, <2>11 DEF HeartbeatLosesLease, Holding
  <2> QED BY <1>10, <2>2, <2>7, <2>8, <2>9, <2>10, <2>11 DEF RunTask
<1>11. CASE UNCHANGED vars
  BY <1>a, <1>11, KeptFrame DEF vars
<1> QED BY <1>1, <1>3, <1>4, <1>5, <1>6, <1>7, <1>8, <1>9, <1>10, <1>11 DEF Next, RunJob

\* With heartbeats at most MaxDelay late, no failing transaction, and
\* HB + MaxDelay below the TTL, an open session is never lost to another
\* process: for all those delays, not only the one the run tries.
THEOREM HeartbeatsSuffice ==
  ASSUME Timely, ~Busy, HB + MaxDelay < TTL
  PROVE  Spec => []HeartbeatKeepsLease
<1>1. Init => KeptInv
  BY SMTT(60) DEF Init, KeptInv, Holding, Active, Unused
<1>2. FencingInv /\ KeptInv /\ [Next]_vars => KeptInv'
  <2> SUFFICES ASSUME FencingInv, KeptInv, [Next]_vars PROVE KeptInv'
    OBVIOUS
  <2>1. \A o \in Owners : Holding(o)' => Kept(o)'
    BY KeptStep DEF FencingInv
  <2> QED BY <2>1 DEF KeptInv
<1>3. FencingInv /\ KeptInv => HeartbeatKeepsLease
  <2> SUFFICES ASSUME FencingInv, KeptInv, NEW o \in Owners, Holding(o) PROVE Owns(o)
    BY DEF HeartbeatKeepsLease
  <2>1. /\ lease.owner = o /\ lease.left + storage[o].age >= TTL
        /\ storage[o].age <= HB + MaxDelay
    BY DEF KeptInv, Kept
  <2>2. /\ lease.left \in Nat /\ storage[o].age \in Nat
        /\ HB \in Nat /\ MaxDelay \in Nat /\ TTL \in Nat
    BY Bounds, LeaseOptions, SMTT(60) DEF FencingInv, TypeOK, StorageType
  <2> QED BY <2>1, <2>2, SMTT(60) DEF Owns
<1> QED BY FencingInvariant, <1>1, <1>2, <1>3, PTL DEF Spec
=============================================================================
