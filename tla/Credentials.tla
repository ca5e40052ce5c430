---------------------------- MODULE Credentials ----------------------------
(***************************************************************************)
(* The credentials in auth.json: AuthStorage and FileAuthStorageBackend    *)
(* (auth-storage.ts), and the refresh, login and logout of pi-ai's Models  *)
(* that go through them, in several processes that share the file.         *)
(*                                                                         *)
(* An operation is one call of withLockAsync: a task's modify() or         *)
(* delete(), or the reload that the reads of a process share.  Every       *)
(* action is the code between two awaits.  Credentials are numbers; those  *)
(* of an OAuth provider are used up by the refresh that replaces them.     *)
(*                                                                         *)
(* The lock is the directory proper-lockfile creates next to the file.     *)
(* `age' is the time since its owner touched it; only the order of the     *)
(* three thresholds matters.                                               *)
(* Deadlines are not counted: an attempt that finds the lock held may be   *)
(* the last one, and a refresh may fail at any time.                       *)
(* auth.json is there from the start: ensureFileExists, which creates it   *)
(* before it asks for the lock, finds it and does nothing.                 *)
(***************************************************************************)
EXTENDS Integers

CONSTANTS
    Procs,       \* processes that use auth.json
    Tasks,       \* calls of getAuth(), login() and logout() in progress, of all processes
    Reloads,     \* reloads in progress, of all processes
    ProcessOf,   \* the process of a task or reload
    Providers,
    OAuth,       \* the providers whose credentials expire
    Free, Dead,  \* a lock nobody holds, and one whose owner crashed
    StaleSync,   \* when lockSync takes a lock over: the library's default
    StaleAsync,  \* when lock() does: staleMs
    UpdateEvery, \* how often the owner of lock() touches it: half of staleMs
    Timely,      \* whether it always does so in time
    MaxTokens,   \* bound: credentials ever issued
    MaxLogouts,  \* bound: calls of logout()
    MaxFaults    \* bound: aborted signals and crashes

Ops == Tasks \cup Reloads

ASSUME OpsAssumption ==
    /\ Tasks \cap Reloads = {}
    /\ ProcessOf \in [Ops -> Procs]
    /\ Free \notin Ops /\ Dead \notin Ops /\ Free # Dead
    /\ OAuth \subseteq Providers
    /\ {StaleSync, StaleAsync, UpdateEvery, MaxTokens, MaxLogouts, MaxFaults} \subseteq Nat

VARIABLES
    file,       \* the contents of auth.json
    lock,       \* the lock directory
    op,         \* the operations
    reading,    \* the tasks that wait for a reload, and for which
    readState,  \* every process's AuthFileReadState; `current': its revision is the file's
    issued,     \* how many credentials were issued
    expired,    \* the credentials up to this one are about to expire
    used,       \* the credentials whose refresh the provider served
    lost,       \* a credential a provider issued was not stored
    taken,      \* a lock was taken over from a process that still runs
    logouts,    \* how often logout() was called
    faults      \* how many signals were aborted, and processes crashed

vars == <<file, lock, op, reading, readState, issued, expired, used, lost, taken, logouts, faults>>
bounds == <<logouts, faults>>
oauth == <<issued, expired, used, lost>>

NoCredentials == [p \in Providers |-> 0]

\* An operation that is not in progress, and a task that waits for no reload.
NoOp == [step |-> "none", kind |-> "none", provider |-> Free, answer |-> 0, aborted |-> FALSE,
         compromised |-> FALSE, result |-> "failed", data |-> NoCredentials]
NotReading == [provider |-> Free, reload |-> Free]

\* The read state of a process that just started.
Fresh == [data |-> NoCredentials, current |-> FALSE, reload |-> Free]

\* withLockAsync is called: the file is there, about to ask for the lock.
Begin(kind, p, answer) ==
    [NoOp EXCEPT !.step = "acquiring", !.kind = kind, !.provider = p, !.answer = answer]

Init ==
    /\ file = NoCredentials
    /\ lock = [owner |-> Free, age |-> 0]
    /\ op = [o \in Ops |-> NoOp]
    /\ reading = [t \in Tasks |-> NotReading]
    /\ readState = [q \in Procs |-> Fresh]
    /\ issued = 0 /\ expired = 0 /\ used = {}
    /\ lost = FALSE /\ taken = FALSE
    /\ logouts = 0 /\ faults = 0

-----------------------------------------------------------------------------
(* Requests.                                                               *)

ExpiresSoon(p, c) == p \in OAuth /\ c # 0 /\ c <= expired

Ready(t) == op[t].step = "none" /\ reading[t] = NotReading

Readers(r) == {t \in Tasks : reading[t].reload = r}

\* readLatestData: the cached contents are those of the file's revision.
Cached(q) == readState[q].current

\* getAuth() of a provider whose cached credential expires soon: on to modify().
GetAuthCached(t, p) ==
    LET q == ProcessOf[t] IN
    /\ Ready(t)
    /\ Cached(q)
    /\ ExpiresSoon(p, readState[q].data[p])
    /\ op' = [op EXCEPT ![t] = Begin("refresh", p, 0)]
    /\ UNCHANGED <<file, lock, reading, readState, oauth, taken, bounds>>

\* readLatestData: wait for the reload that is in progress, or start one.
Read(t, p) ==
    LET q == ProcessOf[t]
        Wait(r) == reading' = [reading EXCEPT ![t] = [provider |-> p, reload |-> r]]
    IN
    /\ Ready(t)
    /\ ~Cached(q)
    /\ \/ /\ readState[q].reload # Free
          /\ Wait(readState[q].reload)
          /\ UNCHANGED <<op, readState>>
       \/ /\ readState[q].reload = Free
          /\ \E r \in Reloads :
                /\ ProcessOf[r] = q /\ op[r].step = "none"
                /\ op' = [op EXCEPT ![r] = Begin("reload", p, 0)]
                /\ readState' = [readState EXCEPT ![q].reload = r]
                /\ Wait(r)
    /\ UNCHANGED <<file, lock, oauth, taken, bounds>>

\* login(): the provider issued a credential; store it.
Login(t, p) ==
    /\ Ready(t)
    /\ issued < MaxTokens
    /\ issued' = issued + 1
    /\ op' = [op EXCEPT ![t] = Begin("login", p, issued + 1)]
    /\ UNCHANGED <<file, lock, reading, readState, expired, used, lost, taken, bounds>>

Logout(t, p) ==
    /\ Ready(t)
    /\ logouts < MaxLogouts
    /\ logouts' = logouts + 1
    /\ op' = [op EXCEPT ![t] = Begin("logout", p, 0)]
    /\ UNCHANGED <<file, lock, reading, readState, oauth, taken, faults>>

Fault == faults < MaxFaults /\ faults' = faults + 1 /\ UNCHANGED logouts

\* Mutant: any reader that leaves aborts the reload.
MutLastReader(t) == readState[ProcessOf[t]].reload = reading[t].reload

\* reload.readers becomes 0, and the reload is still the one that new readers would join.
LastReader(t) ==
    /\ Readers(reading[t].reload) = {t}
    /\ readState[ProcessOf[t]].reload = reading[t].reload

\* A reader's signal aborts: the last one to leave aborts the reload.
AbortRead(t) ==
    /\ reading[t] # NotReading
    /\ Fault
    /\ reading' = [reading EXCEPT ![t] = NotReading]
    /\ op' = IF LastReader(t) THEN [op EXCEPT ![reading[t].reload].aborted = TRUE] ELSE op
    /\ readState' = IF LastReader(t) THEN [readState EXCEPT ![ProcessOf[t]].reload = Free] ELSE readState
    /\ UNCHANGED <<file, lock, oauth, taken>>

\* The signal of a modify() or delete() aborts; the code looks at it later.
Abort(t) ==
    /\ op[t].step \in {"acquiring", "granted", "running"}
    /\ ~op[t].aborted
    /\ Fault
    /\ op' = [op EXCEPT ![t].aborted = TRUE]
    /\ UNCHANGED <<file, lock, reading, readState, oauth, taken>>

-----------------------------------------------------------------------------
(* withLockAsync.                                                          *)

\* Mutant: modify() takes the revision after it released the lock.
MutKnown(w) == w.result # "failed"

\* The revision modify() read belongs to the contents it read, and is still the file's.
Known(w) == w.result = "unchanged"

\* updateReadState at the end of a modify() or delete() that did not fail; what it wrote itself
\* has no known revision.  A reload that settled is not there to be joined any more.
AfterOp(o, rs) ==
    IF o \in Reloads THEN [rs EXCEPT !.reload = IF rs.reload = o THEN Free ELSE rs.reload]
    ELSE IF op[o].result = "failed" THEN rs
    ELSE [rs EXCEPT !.data = op[o].data, !.current = Known(op[o])]

\* The promise of the operation settles.  The reads that shared a reload go on: getAuth() of a
\* credential that expires soon calls modify().
Settled(o) ==
    LET Refreshes(t) == /\ op[o].result # "failed"
                        /\ ExpiresSoon(reading[t].provider, op[o].data[reading[t].provider])
    IN
    /\ op' = [x \in Ops |-> IF x = o THEN NoOp
                            ELSE IF x \in Readers(o) /\ Refreshes(x) THEN Begin("refresh", reading[x].provider, 0)
                            ELSE op[x]]
    /\ reading' = [t \in Tasks |-> IF t \in Readers(o) THEN NotReading ELSE reading[t]]
    /\ readState' = [readState EXCEPT ![ProcessOf[o]] = AfterOp(o, @)]

\* Mutant: an attempt that finds the lock held goes on without it.
MutAcquire(o) ==
    /\ op[o].step = "acquiring"
    /\ lock' = IF lock.owner = Free THEN [owner |-> o, age |-> 0] ELSE lock
    /\ op' = [op EXCEPT ![o].step = "granted"]
    /\ UNCHANGED <<file, reading, readState, oauth, taken, bounds>>

\* lockfile.lock: the directory is created, or taken over when it is stale.
Acquire(o) ==
    /\ op[o].step = "acquiring"
    /\ lock.owner = Free \/ lock.age >= StaleAsync
    /\ lock' = [owner |-> o, age |-> 0]
    /\ taken' = (taken \/ lock.owner \in Ops)
    /\ op' = [op EXCEPT ![o].step = "granted"]
    /\ UNCHANGED <<file, reading, readState, oauth, bounds>>

\* acquireLockAsync throws: aborted, or past its deadline.
AcquireFails(o) ==
    /\ op[o].step = "acquiring"
    /\ op[o].aborted \/ (lock.owner # Free /\ lock.age < StaleAsync)
    /\ Settled(o)
    /\ UNCHANGED <<file, lock, oauth, taken, bounds>>

\* A file operation that completed earlier resumes its process earlier.
InOrder(o) == \A x \in Ops : op[x].step = "released" => ProcessOf[x] # ProcessOf[o]

\* The callback is done, or was not called: on to the finally block.
Returned(w, result, data) ==
    [NoOp EXCEPT !.step = "releasing", !.result = result, !.data = data,
                 !.aborted = w.aborted, !.compromised = w.compromised]

Returns(o, result, data) == op' = [op EXCEPT ![o] = Returned(@, result, data)]

\* The callback waits for oauth.refresh.
Running(w, data) == [w EXCEPT !.step = "running", !.data = data]

\* The revision it read is not the file's any more.
Outdated(w) == [w EXCEPT !.result = "outdated"]

\* writeFileSync of the merged contents.
Writes(o, data) ==
    /\ file' = data
    /\ op' = [x \in Ops |-> IF x = o THEN Returned(op[o], "written", data)
                           ELSE IF op[x].result = "unchanged" THEN Outdated(op[x])
                           ELSE op[x]]
    /\ readState' = [q \in Procs |-> [readState[q] EXCEPT !.data = NoCredentials, !.current = FALSE]]

\* The lock is there: look at it and at the signal, read the file, call fn up to its first await.
Enter(o) ==
    LET w == op[o]
        current == file
    IN
    /\ w.step = "granted"
    /\ InOrder(o)
    /\ \/ /\ w.aborted \/ w.compromised
          /\ Returns(o, "failed", NoCredentials)
          /\ UNCHANGED <<file, readState>>
       \/ /\ ~w.aborted /\ ~w.compromised
          /\ \/ /\ w.kind = "reload"
                /\ readState' = [readState EXCEPT ![ProcessOf[o]] = [@ EXCEPT !.data = current, !.current = TRUE]]
                /\ Returns(o, "unchanged", current)
                /\ UNCHANGED file
             \/ /\ w.kind \in {"login", "logout"}
                /\ Writes(o, [current EXCEPT ![w.provider] = w.answer])
             \/ /\ w.kind = "refresh" /\ ~ExpiresSoon(w.provider, current[w.provider])
                /\ Returns(o, "unchanged", current)
                /\ UNCHANGED <<file, readState>>
             \/ /\ w.kind = "refresh" /\ ExpiresSoon(w.provider, current[w.provider])
                /\ op' = [op EXCEPT ![o] = Running(@, current)]
                /\ UNCHANGED <<file, readState>>
    /\ UNCHANGED <<lock, reading, oauth, taken, bounds>>

\* The provider serves the refresh: the credential is used up, a new one is on its way.
RefreshServed(o) ==
    LET w == op[o] IN
    /\ w.step = "running" /\ w.answer = 0
    /\ w.data[w.provider] \notin used
    /\ issued < MaxTokens
    /\ issued' = issued + 1
    /\ used' = used \cup {w.data[w.provider]}
    /\ op' = [op EXCEPT ![o].answer = issued + 1]
    /\ UNCHANGED <<file, lock, reading, readState, expired, lost, taken, bounds>>

\* oauth.refresh rejects: refused, timed out or aborted, before or after it was served.
RefreshFails(o) ==
    /\ op[o].step = "running"
    /\ Returns(o, "failed", NoCredentials)
    /\ lost' = (lost \/ op[o].answer # 0)
    /\ UNCHANGED <<file, lock, reading, readState, issued, expired, used, taken, bounds>>

\* Mutant: the rotated credential is returned but not written.
MutCommit(o) ==
    /\ op[o].step = "running" /\ op[o].answer # 0
    /\ Returns(o, "unchanged", op[o].data)
    /\ UNCHANGED <<file, lock, reading, readState, oauth, taken, bounds>>

\* oauth.refresh resolved: look at the lock and the signal again, and write.
Commit(o) ==
    LET w == op[o] IN
    /\ w.step = "running" /\ w.answer # 0
    /\ IF w.aborted \/ w.compromised
       THEN /\ Returns(o, "failed", NoCredentials)
            /\ lost' = TRUE
            /\ UNCHANGED <<file, readState>>
       ELSE /\ Writes(o, [w.data EXCEPT ![w.provider] = w.answer])
            /\ UNCHANGED lost
    /\ UNCHANGED <<lock, reading, issued, expired, used, taken, bounds>>

\* release(): removes the directory, whoever owns it, unless the lock is known to be lost.
Release(o) ==
    /\ op[o].step = "releasing"
    /\ lock' = IF op[o].compromised THEN lock ELSE [owner |-> Free, age |-> 0]
    /\ op' = [op EXCEPT ![o].step = "released"]
    /\ UNCHANGED <<file, reading, readState, oauth, taken, bounds>>

Settle(o) ==
    /\ op[o].step = "released"
    /\ Settled(o)
    /\ UNCHANGED <<file, lock, oauth, taken, bounds>>

-----------------------------------------------------------------------------
(* The library's timer, the synchronous reload, time and crashes.          *)

Holding(o) == op[o].step \in {"granted", "running", "releasing"}

\* The timer of lock() touches the directory, or finds that it is not its own any more.
UpdateLock(o) ==
    /\ Holding(o) /\ ~op[o].compromised
    /\ IF lock.owner = o
       THEN lock.age >= UpdateEvery /\ lock' = [lock EXCEPT !.age = 0] /\ UNCHANGED op
       ELSE op' = [op EXCEPT ![o].compromised = TRUE] /\ UNCHANGED lock
    /\ UNCHANGED <<file, reading, readState, oauth, taken, bounds>>

\* The constructor's reload(): lock, read and unlock without an await.  It keeps what it has when
\* the lock stays busy.
ReloadSync(q) ==
    /\ ~Cached(q)
    /\ lock.owner = Free \/ lock.age >= StaleSync
    /\ lock' = [owner |-> Free, age |-> 0]
    /\ taken' = (taken \/ lock.owner \in Ops)
    /\ readState' = [readState EXCEPT ![q] = [@ EXCEPT !.data = file, !.current = TRUE]]
    /\ UNCHANGED <<file, op, reading, oauth, bounds>>

Tick ==
    /\ lock.owner # Free /\ lock.age < StaleAsync
    /\ Timely /\ lock.owner \in Ops => lock.age < UpdateEvery
    /\ lock' = [lock EXCEPT !.age = @ + 1]
    /\ UNCHANGED <<file, op, reading, readState, oauth, taken, bounds>>

\* Credentials come close to their expiry.
Expire ==
    /\ expired < issued
    /\ expired' = issued
    /\ UNCHANGED <<file, lock, op, reading, readState, issued, used, lost, taken, bounds>>

\* A process dies and starts again.  Its lock stays behind.
Crash(q) ==
    LET Of(x) == ProcessOf[x] = q IN
    /\ Fault
    /\ op' = [o \in Ops |-> IF Of(o) THEN NoOp ELSE op[o]]
    /\ reading' = [t \in Tasks |-> IF Of(t) THEN NotReading ELSE reading[t]]
    /\ readState' = [readState EXCEPT ![q] = Fresh]
    /\ lock' = IF lock.owner \in Ops /\ Of(lock.owner) THEN [lock EXCEPT !.owner = Dead] ELSE lock
    /\ lost' = (lost \/ \E o \in Ops : Of(o) /\ op[o].step = "running" /\ op[o].answer # 0)
    /\ UNCHANGED <<file, issued, expired, used, taken>>

-----------------------------------------------------------------------------
Request(t) ==
    \/ \E p \in Providers : GetAuthCached(t, p) \/ Read(t, p) \/ Login(t, p) \/ Logout(t, p)
    \/ AbortRead(t) \/ Abort(t)

Step(o) ==
    \/ Acquire(o) \/ AcquireFails(o) \/ Enter(o) \/ RefreshServed(o) \/ RefreshFails(o)
    \/ Commit(o) \/ Release(o) \/ Settle(o) \/ UpdateLock(o)

Next ==
    \/ \E t \in Tasks : Request(t)
    \/ \E o \in Ops : Step(o)
    \/ \E q \in Procs : ReloadSync(q) \/ Crash(q)
    \/ Tick \/ Expire

Spec == Init /\ [][Next]_vars

-----------------------------------------------------------------------------
(* Properties.                                                             *)

\* "Mutual exclusion per provider id, cross-process too where the backing store supports it":
\* never are two callbacks of modify() in progress.
MutualExclusion == \A o, x \in Ops : op[o].step = "running" /\ op[x].step = "running" => o = x

\* As long as no lock was taken from a running process, a refresh writes over the very contents it
\* read, although it waited for the provider in between: no login, logout or refresh is undone.
NoLostUpdate ==
    [][\A o \in Ops : ~taken /\ op[o].step = "running" /\ op'[o].step = "releasing"
                      /\ op'[o].result = "written" => op[o].data = file]_vars

\* "refresh once globally": a credential is sent for refresh again only after a credential that
\* replaced it got lost, or a lock was taken over.
OneRefreshPerToken ==
    \A o \in Ops : op[o].step = "running" /\ op[o].answer = 0 /\ op[o].data[op[o].provider] \in used
                      => lost \/ taken

\* What a process serves without reading the file is what the file says, whatever order operations
\* and reloads ended in.
CacheIsCurrent == \A q \in Procs : Cached(q) => readState[q].data = file

\* Aborting one reader does not fail the others: a reload somebody waits for is in progress, and
\* not aborted.
ReadersKeepReload ==
    \A t \in Tasks : reading[t] # NotReading =>
        op[reading[t].reload].step # "none" /\ ~op[reading[t].reload].aborted
=============================================================================
