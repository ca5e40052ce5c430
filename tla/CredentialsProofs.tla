------------------------- MODULE CredentialsProofs --------------------------
(***************************************************************************)
(* What Credentials guarantees for every number of processes, tasks and    *)
(* providers, all staleness thresholds and every bound.                    *)
(***************************************************************************)
EXTENDS Credentials, TLAPS

\* Each leaf goes to Zenon unless it names another prover.
USE ZenonT(60)

-----------------------------------------------------------------------------
(* The inductive invariant.                                                *)

Data == [Providers -> Nat]

OpState ==
    [step : {"none", "acquiring", "granted", "running", "releasing", "released"},
     kind : {"none", "reload", "refresh", "login", "logout"},
     provider : Providers \cup {Free}, answer : Nat, aborted : BOOLEAN, compromised : BOOLEAN,
     result : {"failed", "unchanged", "outdated", "written"}, data : Data]

LockState == [owner : Ops \cup {Free, Dead}, age : Nat]

ReadState == [data : Data, current : BOOLEAN, reload : Reloads \cup {Free}]

\* Everything has its type, and what is in progress has a provider.
TypeInv ==
    /\ file \in Data
    /\ lock \in LockState
    /\ op \in [Ops -> OpState]
    /\ reading \in [Tasks -> [provider : Providers \cup {Free}, reload : Reloads \cup {Free}]]
    /\ readState \in [Procs -> ReadState]
    /\ \A o \in Ops : op[o].step \in {"acquiring", "granted", "running"} => op[o].provider \in Providers
    /\ \A t \in Tasks : reading[t].reload # Free => reading[t].provider \in Providers

\* Contents that carry the file's revision are the file's contents, in the caches and in the
\* operations that are about to fill them.
CacheInv ==
    /\ \A q \in Procs : readState[q].current => readState[q].data = file
    /\ \A o \in Ops : op[o].result = "unchanged" => op[o].data = file

\* The reload that new readers would join is the process's, in progress and not aborted; a task
\* that waits for a reload waits for that one, and does nothing else.
ReadInv ==
    /\ \A q \in Procs : readState[q].reload # Free =>
          LET r == readState[q].reload IN
          r \in Reloads /\ ProcessOf[r] = q /\ op[r].step # "none" /\ ~op[r].aborted
    /\ \A t \in Tasks : reading[t] # NotReading =>
          /\ op[t].step = "none"
          /\ reading[t].reload # Free /\ reading[t].reload = readState[ProcessOf[t]].reload

\* Until a lock is taken over, whoever holds it owns the directory and was not told otherwise, and
\* a refresh that waits for the provider has seen the file as it is.
LockInv ==
    ~taken => \A o \in Ops :
        /\ Holding(o) => lock.owner = o /\ ~op[o].compromised
        /\ op[o].step = "acquiring" => ~op[o].compromised
        /\ op[o].step = "running" => op[o].data = file

\* Credentials that were issued but not stored yet.
Pending(o) == op[o].step \in {"acquiring", "granted", "running"} /\ op[o].answer # 0

\* Until a lock is taken over, credentials are issued once and stored in one place, and only stored
\* ones are refreshed.
TokenInv ==
    /\ issued \in Nat
    /\ ~taken =>
          /\ used \subseteq 1 .. issued
          /\ \A p \in Providers : file[p] <= issued
          /\ \A p, q \in Providers : file[p] = file[q] => file[p] = 0 \/ p = q
          /\ \A o \in Ops : Pending(o) =>
                /\ op[o].answer <= issued /\ op[o].answer \notin used
                /\ \A p \in Providers : file[p] # op[o].answer
                /\ \A x \in Ops : Pending(x) /\ op[x].answer = op[o].answer => x = o
          /\ \A o \in Ops : op[o].step = "running" => op[o].data[op[o].provider] # 0

\* Until one gets lost or a lock is taken over, a stored credential was not used, unless what
\* replaces it is on its way.
UsedInv ==
    ~lost /\ ~taken =>
        \A p \in Providers : file[p] \in used =>
            \E o \in Ops : op[o].step = "running" /\ op[o].provider = p /\ op[o].answer # 0

-----------------------------------------------------------------------------
(* Types                                                                   *)

\* The empty values have their types.
LEMMA NothingType == NoCredentials \in Data /\ NoOp \in OpState
BY DEF NoCredentials, NoOp, OpState, Data

\* An operation that begins has its type and its provider.
LEMMA BeginType ==
    ASSUME NEW kind \in {"reload", "refresh", "login", "logout"}, NEW p \in Providers, NEW n \in Nat
    PROVE  /\ Begin(kind, p, n) \in OpState
           /\ Begin(kind, p, n).provider = p
BY NothingType DEF Begin, NoOp, OpState

\* An operation whose callback is done has its type.
LEMMA ReturnedType ==
    ASSUME NEW w \in OpState, NEW d \in Data, NEW result \in {"failed", "unchanged", "written"}
    PROVE  /\ Returned(w, result, d) \in OpState
           /\ Returned(w, result, d).step = "releasing"
BY NothingType DEF Returned, NoOp, OpState

\* The fields of an operation that most steps leave alone.
Same(x) ==
    /\ op'[x].kind = op[x].kind
    /\ op'[x].provider = op[x].provider
    /\ op'[x].answer = op[x].answer
    /\ op'[x].result = op[x].result
    /\ op'[x].data = op[x].data

\* What the single-field updates of operations do.
LEMMA SetStep ==
    ASSUME TypeInv, NEW o \in Ops, NEW s \in {"granted", "released"}, op' = [op EXCEPT ![o].step = s]
    PROVE  /\ op' \in [Ops -> OpState]
           /\ op'[o].step = s
           /\ Same(o)
           /\ op'[o].aborted = op[o].aborted
           /\ op'[o].compromised = op[o].compromised
           /\ \A x \in Ops : x # o => op'[x] = op[x]
BY DEF TypeInv, OpState, Same

\* An abort sets one field.
LEMMA SetAborted ==
    ASSUME TypeInv, NEW o \in Ops, op' = [op EXCEPT ![o].aborted = TRUE]
    PROVE  /\ op' \in [Ops -> OpState]
           /\ op'[o].step = op[o].step
           /\ Same(o)
           /\ op'[o].compromised = op[o].compromised
           /\ \A x \in Ops : x # o => op'[x] = op[x]
BY DEF TypeInv, OpState, Same

\* The timer that finds the lock lost sets one field.
LEMMA SetCompromised ==
    ASSUME TypeInv, NEW o \in Ops, op' = [op EXCEPT ![o].compromised = TRUE]
    PROVE  /\ op' \in [Ops -> OpState]
           /\ op'[o].step = op[o].step
           /\ Same(o)
           /\ op'[o].aborted = op[o].aborted
           /\ \A x \in Ops : x # o => op'[x] = op[x]
BY DEF TypeInv, OpState, Same

\* The answer of the provider sets one field.
LEMMA SetAnswer ==
    ASSUME TypeInv, NEW o \in Ops, NEW n \in Nat, op' = [op EXCEPT ![o].answer = n]
    PROVE  /\ op' \in [Ops -> OpState]
           /\ op'[o].answer = n
           /\ op'[o].step = op[o].step /\ op'[o].kind = op[o].kind
           /\ op'[o].provider = op[o].provider
           /\ op'[o].result = op[o].result /\ op'[o].data = op[o].data
           /\ op'[o].aborted = op[o].aborted
           /\ op'[o].compromised = op[o].compromised
           /\ \A x \in Ops : x # o => op'[x] = op[x]
BY DEF TypeInv, OpState

\* What Running changes and what it keeps.
LEMMA SetRunning ==
    ASSUME NEW w \in OpState, NEW d \in Data
    PROVE  /\ Running(w, d) \in OpState
           /\ Running(w, d).step = "running" /\ Running(w, d).data = d
           /\ Running(w, d).kind = w.kind /\ Running(w, d).provider = w.provider
           /\ Running(w, d).answer = w.answer /\ Running(w, d).result = w.result
           /\ Running(w, d).aborted = w.aborted /\ Running(w, d).compromised = w.compromised
BY DEF OpState, Running

\* Outdated changes the result only.
LEMMA SetOutdated ==
    ASSUME NEW w \in OpState
    PROVE  /\ Outdated(w) \in OpState
           /\ Outdated(w).result = "outdated"
           /\ Outdated(w).step = w.step /\ Outdated(w).kind = w.kind
           /\ Outdated(w).provider = w.provider /\ Outdated(w).answer = w.answer
           /\ Outdated(w).data = w.data
           /\ Outdated(w).aborted = w.aborted /\ Outdated(w).compromised = w.compromised
BY DEF OpState, Outdated

\* The updates of a read state keep its type.
LEMMA ReadStateTypes ==
    ASSUME NEW rs \in ReadState
    PROVE  /\ \A r \in Reloads \cup {Free} : [rs EXCEPT !.reload = r] \in ReadState
           /\ \A d \in Data, b \in BOOLEAN : [rs EXCEPT !.data = d, !.current = b] \in ReadState
           /\ Fresh \in ReadState
BY NothingType DEF ReadState, Fresh

\* An operation that settles, and the refreshes its readers go on to, keep the types.
LEMMA SettledType ==
    ASSUME OpsAssumption, TypeInv, NEW o \in Ops, Settled(o), UNCHANGED <<file, lock>>
    PROVE  TypeInv'
<1>1. op' \in [Ops -> OpState]
  BY NothingType, BeginType, SMTT(60) DEF Settled, TypeInv, Readers, Ops
<1>2. reading' \in [Tasks -> [provider : Providers \cup {Free}, reload : Reloads \cup {Free}]]
  BY DEF Settled, TypeInv, NotReading
<1>3. readState' \in [Procs -> ReadState]
  <2>1. op[o].data \in Data
    BY DEF TypeInv, OpState
  <2>2. ProcessOf[o] \in Procs
    BY OpsAssumption DEF OpsAssumption
  <2>3. readState[ProcessOf[o]] \in ReadState /\ readState[ProcessOf[o]].reload \in Reloads \cup {Free}
    BY <2>2 DEF TypeInv, ReadState
  <2>4. Known(op[o]) \in BOOLEAN
    BY DEF Known
  <2>5. AfterOp(o, readState[ProcessOf[o]]) \in ReadState
    BY <2>1, <2>3, <2>4, ReadStateTypes DEF AfterOp
  <2>6. readState' = [readState EXCEPT ![ProcessOf[o]] = AfterOp(o, readState[ProcessOf[o]])]
    BY DEF Settled
  <2> QED BY <2>2, <2>5, <2>6 DEF TypeInv
<1>4. \A x \in Ops : op'[x].step \in {"acquiring", "granted", "running"} => op'[x].provider \in Providers
  <2> SUFFICES ASSUME NEW x \in Ops, op'[x].step \in {"acquiring", "granted", "running"}
               PROVE  op'[x].provider \in Providers
    OBVIOUS
  <2>1. \/ op'[x] = NoOp \/ op'[x] = op[x]
        \/ \E p \in Providers : op'[x] = Begin("refresh", p, 0)
    BY OpsAssumption DEF Settled, TypeInv, Readers, Ops, OpsAssumption
  <2>2. NoOp.step = "none"
    BY DEF NoOp
  <2> QED BY <2>1, <2>2, BeginType, SMTT(60) DEF TypeInv
<1>5. \A t \in Tasks : reading'[t].reload # Free => reading'[t].provider \in Providers
  BY DEF Settled, TypeInv, NotReading
<1> QED BY <1>1, <1>2, <1>3, <1>4, <1>5 DEF TypeInv

\* A step that changes one operation, and perhaps the file, the lock and the read states.
LEMMA UpdateType ==
    ASSUME TypeInv, NEW o \in Ops, NEW w \in OpState,
           w.step \in {"acquiring", "granted", "running"} => w.provider \in Providers,
           op' = [op EXCEPT ![o] = w], reading' = reading,
           file' \in Data, lock' \in LockState, readState' \in [Procs -> ReadState]
    PROVE  TypeInv'
BY DEF TypeInv

\* A write keeps the types.
LEMMA WritesType ==
    ASSUME TypeInv, NEW o \in Ops, NEW d \in Data, Writes(o, d), UNCHANGED <<lock, reading>>
    PROVE  TypeInv'
<1>1. file' \in Data
  BY DEF Writes
<1>2. readState' \in [Procs -> ReadState]
  BY NothingType, ReadStateTypes DEF Writes, TypeInv
<1>3. \A x \in Ops : /\ op'[x] \in OpState
                     /\ op'[x].step \in {"acquiring", "granted", "running"} => op'[x].provider \in Providers
  <2> SUFFICES ASSUME NEW x \in Ops
               PROVE  /\ op'[x] \in OpState
                      /\ op'[x].step \in {"acquiring", "granted", "running"} => op'[x].provider \in Providers
    OBVIOUS
  <2>1. CASE x = o
    BY <2>1, ReturnedType DEF Writes, TypeInv
  <2>2. CASE x # o /\ op[x].result = "unchanged"
    <3>1. op'[x] = Outdated(op[x])
      BY <2>2 DEF Writes
    <3>2. op[x] \in OpState
      BY DEF TypeInv
    <3> QED BY <3>1, <3>2, SetOutdated, SMTT(60) DEF TypeInv
  <2>3. CASE x # o /\ op[x].result # "unchanged"
    BY <2>3 DEF Writes, TypeInv
  <2> QED BY <2>1, <2>2, <2>3
<1>4. op' = [x \in Ops |-> op'[x]]
  BY DEF Writes
<1> QED BY <1>1, <1>2, <1>3, <1>4 DEF TypeInv

\* A task that waits for a reload waits for one of its process, and does nothing else.
LEMMA ReadFacts ==
    ASSUME OpsAssumption, ReadInv, NEW t \in Tasks, reading[t] # NotReading
    PROVE  /\ t \in Ops /\ ProcessOf[t] \in Procs /\ op[t].step = "none"
           /\ reading[t].reload \in Reloads /\ reading[t].reload \in Ops
           /\ ProcessOf[reading[t].reload] = ProcessOf[t]
           /\ op[reading[t].reload].step # "none" /\ ~op[reading[t].reload].aborted
           /\ readState[ProcessOf[t]].reload = reading[t].reload
BY SMTT(60) DEF ReadInv, Ops, OpsAssumption

\* Requests keep the types.
LEMMA RequestType ==
    ASSUME OpsAssumption, TypeInv, TokenInv, ReadInv, NEW t \in Tasks, Request(t)
    PROVE  TypeInv'
<1>0. t \in Ops /\ ProcessOf[t] \in Procs /\ 0 \in Nat
  BY DEF Ops, OpsAssumption
<1>1. ASSUME NEW p \in Providers, GetAuthCached(t, p)  PROVE TypeInv'
  BY <1>0, <1>1, BeginType, UpdateType, SMTT(60) DEF GetAuthCached, TypeInv
<1>2. ASSUME NEW p \in Providers, Read(t, p)  PROVE TypeInv'
  <2>0. PICK s \in Reloads : reading' = [reading EXCEPT ![t] = [provider |-> p, reload |-> s]]
    BY <1>0, <1>2 DEF Read, TypeInv, ReadState
  <2>1. reading' \in [Tasks -> [provider : Providers \cup {Free}, reload : Reloads \cup {Free}]]
    BY <2>0 DEF TypeInv
  <2>2. \A u \in Tasks : reading'[u].reload # Free => reading'[u].provider \in Providers
    BY <2>0 DEF TypeInv
  <2>3. CASE UNCHANGED <<op, readState>>
    BY <1>2, <2>1, <2>2, <2>3 DEF Read, TypeInv
  <2>4. CASE readState[ProcessOf[t]].reload = Free
    <3>1. PICK r \in Reloads : /\ op' = [op EXCEPT ![r] = Begin("reload", p, 0)]
                               /\ readState' = [readState EXCEPT ![ProcessOf[t]].reload = r]
      BY <1>2, <2>4 DEF Read
    <3>2. Begin("reload", p, 0) \in OpState /\ Begin("reload", p, 0).provider = p
      BY <1>0, BeginType
    <3>3. op' \in [Ops -> OpState]
      BY <3>1, <3>2 DEF TypeInv
    <3>4. \A o \in Ops : op'[o].step \in {"acquiring", "granted", "running"} => op'[o].provider \in Providers
      BY <3>1, <3>2 DEF TypeInv
    <3>5. readState' \in [Procs -> ReadState]
      BY <1>0, <3>1, ReadStateTypes DEF TypeInv
    <3> QED BY <1>2, <2>1, <2>2, <3>3, <3>4, <3>5 DEF Read, TypeInv
  <2> QED BY <1>2, <2>3, <2>4 DEF Read
<1>3. ASSUME NEW p \in Providers, Login(t, p)  PROVE TypeInv'
  <2>1. issued + 1 \in Nat
    BY SMTT(60) DEF TokenInv
  <2> QED BY <1>0, <1>3, <2>1, BeginType, UpdateType, SMTT(60) DEF Login, TypeInv
<1>4. ASSUME NEW p \in Providers, Logout(t, p)  PROVE TypeInv'
  BY <1>0, <1>4, BeginType, UpdateType, SMTT(60) DEF Logout, TypeInv
<1>5. ASSUME AbortRead(t)  PROVE TypeInv'
  <2>1. reading' \in [Tasks -> [provider : Providers \cup {Free}, reload : Reloads \cup {Free}]]
    BY <1>5 DEF AbortRead, TypeInv, NotReading
  <2>2. \A u \in Tasks : reading'[u].reload # Free => reading'[u].provider \in Providers
    BY <1>5 DEF AbortRead, TypeInv, NotReading
  <2>3. reading[t].reload \in Ops
    BY <1>5, ReadFacts DEF AbortRead
  <2>4. /\ op' \in [Ops -> OpState]
        /\ \A o \in Ops : op'[o].step = op[o].step /\ op'[o].provider = op[o].provider
    <3>1. CASE LastReader(t)
      <4>1. op' = [op EXCEPT ![reading[t].reload].aborted = TRUE]
        BY <1>5, <3>1 DEF AbortRead
      <4> QED BY <2>3, <4>1, SetAborted DEF Same
    <3>2. CASE ~LastReader(t)
      BY <1>5, <3>2 DEF AbortRead, TypeInv
    <3> QED BY <3>1, <3>2
  <2>5. readState' \in [Procs -> ReadState]
    BY <1>0, <1>5, ReadStateTypes DEF AbortRead, TypeInv
  <2> QED BY <1>5, <2>1, <2>2, <2>4, <2>5 DEF AbortRead, TypeInv
<1>6. ASSUME Abort(t)  PROVE TypeInv'
  <2>1. op' = [op EXCEPT ![t].aborted = TRUE]
    BY <1>6 DEF Abort
  <2>2. /\ op' \in [Ops -> OpState]
        /\ \A o \in Ops : op'[o].step = op[o].step /\ op'[o].provider = op[o].provider
    BY <1>0, <2>1, SetAborted DEF Same
  <2> QED BY <1>6, <2>2 DEF Abort, TypeInv
<1> QED BY <1>1, <1>2, <1>3, <1>4, <1>5, <1>6 DEF Request

\* The start of a callback keeps the types.
LEMMA EnterType ==
    ASSUME OpsAssumption, TypeInv, NEW o \in Ops, Enter(o)
    PROVE  TypeInv'
<1>0. op[o] \in OpState /\ file \in Data /\ op[o].provider \in Providers /\ op[o].answer \in Nat
  BY DEF Enter, TypeInv, OpState
<1>1. CASE \E d \in Data, result \in {"failed", "unchanged"} :
              Returns(o, result, d) /\ UNCHANGED file /\ readState' \in [Procs -> ReadState]
  <2>1. PICK d \in Data, result \in {"failed", "unchanged"} : Returns(o, result, d)
    BY <1>1
  <2> DEFINE w == Returned(op[o], result, d)
  <2>2. w \in OpState /\ w.step = "releasing"
    BY <1>0, <2>1, ReturnedType
  <2>3. op' = [op EXCEPT ![o] = w]
    BY <2>1 DEF Returns
  <2>4. file' \in Data /\ lock' \in LockState /\ reading' = reading /\ readState' \in [Procs -> ReadState]
    BY <1>1 DEF Enter, TypeInv
  <2> HIDE DEF w
  <2> QED BY <2>2, <2>3, <2>4, UpdateType
<1>2. CASE Writes(o, [file EXCEPT ![op[o].provider] = op[o].answer])
  <2>1. [file EXCEPT ![op[o].provider] = op[o].answer] \in Data
    BY <1>0 DEF Data
  <2> QED BY <1>2, <2>1, WritesType DEF Enter
<1>3. CASE /\ op' = [op EXCEPT ![o] = Running(@, file)]
           /\ UNCHANGED <<file, readState>>
  <2> DEFINE w == Running(op[o], file)
  <2>1. w \in OpState /\ w.provider = op[o].provider
    BY <1>0, SetRunning
  <2>2. op' = [op EXCEPT ![o] = w]
    BY <1>3
  <2>3. file' \in Data /\ lock' \in LockState /\ reading' = reading /\ readState' \in [Procs -> ReadState]
    BY <1>3 DEF Enter, TypeInv
  <2> HIDE DEF w
  <2> QED BY <1>0, <2>1, <2>2, <2>3, UpdateType
<1>4. CASE readState' = [readState EXCEPT ![ProcessOf[o]] = [@ EXCEPT !.data = file, !.current = TRUE]]
  <2>1. readState' \in [Procs -> ReadState]
    BY <1>0, <1>4, ReadStateTypes DEF OpsAssumption, TypeInv
  <2> QED BY <2>1, <1>1, <1>2, <1>3, NothingType, <1>0 DEF Enter
<1>5. CASE UNCHANGED readState
  BY <1>0, <1>1, <1>2, <1>3, <1>5, NothingType DEF Enter, TypeInv
<1>6. CASE readState' = [q \in Procs |-> [readState[q] EXCEPT !.data = NoCredentials, !.current = FALSE]]
  <2>1. readState' \in [Procs -> ReadState]
    BY <1>6, NothingType, ReadStateTypes DEF TypeInv
  <2> QED BY <2>1, <1>1, <1>2, <1>3, NothingType, <1>0 DEF Enter
<1> QED BY <1>1, <1>2, <1>3, <1>4, <1>5, <1>6 DEF Enter, Writes

\* The steps of withLockAsync keep the types.
LEMMA StepType ==
    ASSUME OpsAssumption, TypeInv, TokenInv, NEW o \in Ops, Step(o)
    PROVE  TypeInv'
<1>0. op[o] \in OpState /\ file \in Data /\ 0 \in Nat
  BY DEF TypeInv
<1>1. ASSUME Acquire(o)  PROVE TypeInv'
  <2>1. lock' \in LockState
    BY <1>1 DEF Acquire, LockState
  <2>2. op' \in [Ops -> OpState]
    BY <1>1, SetStep DEF Acquire
  <2>3. \A x \in Ops : op'[x].step \in {"acquiring", "granted", "running"} => op'[x].provider \in Providers
    BY <1>1, SetStep, SMTT(60) DEF Acquire, TypeInv, Same
  <2> QED BY <1>1, <2>1, <2>2, <2>3 DEF Acquire, TypeInv
<1>2. ASSUME AcquireFails(o)  PROVE TypeInv'
  BY <1>2, SettledType DEF AcquireFails
<1>3. ASSUME RefreshServed(o)  PROVE TypeInv'
  <2>1. issued + 1 \in Nat
    BY SMTT(60) DEF TokenInv
  <2>2. op' \in [Ops -> OpState]
    BY <1>3, <2>1, SetAnswer DEF RefreshServed
  <2>3. \A x \in Ops : op'[x].step \in {"acquiring", "granted", "running"} => op'[x].provider \in Providers
    BY <1>3, <2>1, SetAnswer, SMTT(60) DEF RefreshServed, TypeInv
  <2> QED BY <1>3, <2>2, <2>3 DEF RefreshServed, TypeInv
<1>4. ASSUME RefreshFails(o)  PROVE TypeInv'
  BY <1>0, <1>4, NothingType, ReturnedType, UpdateType DEF RefreshFails, Returns, TypeInv
<1>5. ASSUME Commit(o)  PROVE TypeInv'
  <2>1. CASE op[o].aborted \/ op[o].compromised
    BY <1>0, <1>5, <2>1, NothingType, ReturnedType, UpdateType DEF Commit, Returns, TypeInv
  <2>2. CASE ~(op[o].aborted \/ op[o].compromised)
    <3>1. [op[o].data EXCEPT ![op[o].provider] = op[o].answer] \in Data
      BY <1>0 DEF OpState, Data
    <3> QED BY <1>5, <2>2, <3>1, WritesType DEF Commit
  <2> QED BY <2>1, <2>2
<1>6. ASSUME Release(o)  PROVE TypeInv'
  <2>1. lock' \in LockState
    BY <1>0, <1>6 DEF Release, LockState, TypeInv
  <2>2. op' \in [Ops -> OpState]
    BY <1>6, SetStep DEF Release
  <2>3. \A x \in Ops : op'[x].step \in {"acquiring", "granted", "running"} => op'[x].provider \in Providers
    BY <1>6, SetStep DEF Release, TypeInv, Same
  <2> QED BY <1>6, <2>1, <2>2, <2>3 DEF Release, TypeInv
<1>7. ASSUME Settle(o)  PROVE TypeInv'
  BY <1>7, SettledType DEF Settle
<1>8. ASSUME UpdateLock(o)  PROVE TypeInv'
  <2>1. lock' \in LockState
    BY <1>0, <1>8 DEF UpdateLock, LockState, TypeInv
  <2>2. /\ op' \in [Ops -> OpState]
        /\ \A x \in Ops : op'[x].step = op[x].step /\ op'[x].provider = op[x].provider
    BY <1>8, SetCompromised DEF UpdateLock, TypeInv, Same
  <2> QED BY <1>8, <2>1, <2>2 DEF UpdateLock, TypeInv
<1>9. ASSUME Enter(o)  PROVE TypeInv'
  BY <1>9, EnterType
<1> QED BY <1>1, <1>2, <1>3, <1>4, <1>5, <1>6, <1>7, <1>8, <1>9 DEF Step

\* The synchronous reload, crashes and time keep the types.
LEMMA ProcessType ==
    ASSUME OpsAssumption, TypeInv, (\E q \in Procs : ReloadSync(q) \/ Crash(q)) \/ Tick \/ Expire
    PROVE  TypeInv'
<1>1. ASSUME NEW q \in Procs, ReloadSync(q)  PROVE TypeInv'
  <2>1. lock' \in LockState
    BY <1>1 DEF ReloadSync, LockState
  <2>2. readState' \in [Procs -> ReadState]
    BY <1>1, ReadStateTypes DEF ReloadSync, TypeInv
  <2> QED BY <1>1, <2>1, <2>2 DEF ReloadSync, TypeInv
<1>2. ASSUME NEW q \in Procs, Crash(q)  PROVE TypeInv'
  <2>1. lock' \in LockState
    BY <1>2 DEF Crash, LockState, TypeInv
  <2>2. readState' \in [Procs -> ReadState]
    BY <1>2, ReadStateTypes DEF Crash, TypeInv
  <2>3. op' \in [Ops -> OpState]
    BY <1>2, NothingType DEF Crash, TypeInv
  <2>4. \A x \in Ops : op'[x].step \in {"acquiring", "granted", "running"} => op'[x].provider \in Providers
    BY <1>2 DEF Crash, TypeInv, NoOp
  <2>5. reading' \in [Tasks -> [provider : Providers \cup {Free}, reload : Reloads \cup {Free}]]
    BY <1>2 DEF Crash, TypeInv, NotReading
  <2>6. \A t \in Tasks : reading'[t].reload # Free => reading'[t].provider \in Providers
    BY <1>2 DEF Crash, TypeInv, NotReading
  <2> QED BY <1>2, <2>1, <2>2, <2>3, <2>4, <2>5, <2>6 DEF Crash, TypeInv
<1>3. CASE Tick
  <2>1. lock' \in LockState
    BY <1>3, SMTT(60) DEF Tick, LockState, TypeInv
  <2> QED BY <1>3, <2>1 DEF Tick, TypeInv
<1>4. CASE Expire
  BY <1>4 DEF Expire, TypeInv
<1> QED BY <1>1, <1>2, <1>3, <1>4

-----------------------------------------------------------------------------
(* What the updates do to the operations                                   *)

\* The fields of an operation that is not in progress.
LEMMA NoOpFields ==
    /\ NoOp.step = "none" /\ NoOp.answer = 0 /\ NoOp.result = "failed"
    /\ ~NoOp.aborted /\ ~NoOp.compromised
BY DEF NoOp

\* The fields of an operation that begins.
LEMMA BeginFields ==
    ASSUME NEW kind, NEW p, NEW n
    PROVE  /\ Begin(kind, p, n).step = "acquiring" /\ Begin(kind, p, n).answer = n
           /\ Begin(kind, p, n).result = "failed" /\ ~Begin(kind, p, n).aborted
           /\ ~Begin(kind, p, n).compromised
BY DEF Begin, NoOp

\* Beginning an operation changes no other.
LEMMA BeginEffect ==
    ASSUME TypeInv, NEW o \in Ops, NEW kind \in {"reload", "refresh", "login", "logout"},
           NEW p \in Providers, NEW n \in Nat, op' = [op EXCEPT ![o] = Begin(kind, p, n)]
    PROVE  /\ op'[o].step = "acquiring" /\ op'[o].provider = p /\ op'[o].answer = n
           /\ op'[o].result = "failed" /\ ~op'[o].aborted /\ ~op'[o].compromised
           /\ op'[o].kind = kind
           /\ \A x \in Ops : x # o => op'[x] = op[x]
BY DEF TypeInv, Begin, NoOp

\* The end of a callback changes no other operation.
LEMMA ReturnsEffect ==
    ASSUME TypeInv, NEW o \in Ops, NEW result, NEW d, Returns(o, result, d)
    PROVE  /\ op'[o].step = "releasing" /\ op'[o].answer = 0
           /\ op'[o].result = result /\ op'[o].data = d
           /\ op'[o].aborted = op[o].aborted /\ op'[o].compromised = op[o].compromised
           /\ \A x \in Ops : x # o => op'[x] = op[x]
BY DEF TypeInv, Returns, Returned, NoOp

\* A write ends the callback, and makes the revisions that others read outdated.
LEMMA WritesEffect ==
    ASSUME TypeInv, NEW o \in Ops, NEW d, Writes(o, d)
    PROVE  /\ file' = d
           /\ op'[o].step = "releasing" /\ op'[o].answer = 0
           /\ op'[o].result = "written" /\ op'[o].data = d
           /\ op'[o].aborted = op[o].aborted /\ op'[o].compromised = op[o].compromised
           /\ \A x \in Ops : x # o =>
                 /\ op'[x].step = op[x].step /\ op'[x].kind = op[x].kind
                 /\ op'[x].provider = op[x].provider /\ op'[x].answer = op[x].answer
                 /\ op'[x].data = op[x].data /\ op'[x].result # "unchanged"
                 /\ op'[x].aborted = op[x].aborted /\ op'[x].compromised = op[x].compromised
<1>1. op'[o] = Returned(op[o], "written", d)
  BY DEF Writes
<1>2. ASSUME NEW x \in Ops, x # o, op[x].result = "unchanged"
      PROVE  op'[x] = Outdated(op[x]) /\ op[x] \in OpState
  BY <1>2 DEF Writes, TypeInv
<1>3. ASSUME NEW x \in Ops, x # o, op[x].result # "unchanged"
      PROVE  op'[x] = op[x]
  BY <1>3 DEF Writes
<1>4. /\ op'[o].step = "releasing" /\ op'[o].answer = 0
      /\ op'[o].result = "written" /\ op'[o].data = d
      /\ op'[o].aborted = op[o].aborted /\ op'[o].compromised = op[o].compromised
  BY <1>1 DEF Returned, NoOp
<1>5. file' = d
  BY DEF Writes
<1>6. ASSUME NEW x \in Ops, x # o
      PROVE  /\ op'[x].step = op[x].step /\ op'[x].kind = op[x].kind
             /\ op'[x].provider = op[x].provider /\ op'[x].answer = op[x].answer
             /\ op'[x].data = op[x].data /\ op'[x].result # "unchanged"
             /\ op'[x].aborted = op[x].aborted /\ op'[x].compromised = op[x].compromised
  <2>1. CASE op[x].result = "unchanged"
    BY <1>2, <1>6, <2>1, SetOutdated, SMTT(60)
  <2>2. CASE op[x].result # "unchanged"
    BY <1>3, <1>6, <2>2
  <2> QED BY <2>1, <2>2
<1> QED BY <1>4, <1>5, <1>6

\* Only the operation itself ends; a task that waited for it may start a modify().
LEMMA SettledEffect ==
    ASSUME OpsAssumption, TypeInv, ReadInv, NEW o \in Ops, Settled(o)
    PROVE  /\ op'[o] = NoOp
           /\ \A x \in Ops : x # o /\ op[x].step # "none" => op'[x] = op[x]
           /\ \A x \in Ops : \/ op'[x] = op[x]
                             \/ /\ op'[x].step \in {"none", "acquiring"} /\ op'[x].answer = 0
                                /\ op'[x].result = "failed" /\ ~op'[x].aborted /\ ~op'[x].compromised
<1>1. op'[o] = NoOp
  BY DEF Settled
<1>2. \A x \in Ops : x # o /\ op[x].step # "none" => op'[x] = op[x]
  <2>1. \A x \in Readers(o) : x \in Tasks /\ op[x].step = "none"
    BY SMTT(60) DEF ReadInv, Readers, NotReading, OpsAssumption
  <2> QED BY <2>1 DEF Settled
<1>3. ASSUME NEW x \in Ops, op'[x] # op[x]
      PROVE  /\ op'[x].step \in {"none", "acquiring"} /\ op'[x].answer = 0
             /\ op'[x].result = "failed" /\ ~op'[x].aborted /\ ~op'[x].compromised
  <2>1. op'[x] = NoOp \/ op'[x] = Begin("refresh", reading[x].provider, 0)
    BY <1>3 DEF Settled
  <2> QED BY <2>1, NoOpFields, BeginFields, SMTT(60)
<1> QED BY <1>1, <1>2, <1>3

\* A crash ends the operations of its process and no other.
LEMMA CrashEffect ==
    ASSUME OpsAssumption, TypeInv, NEW q \in Procs, Crash(q)
    PROVE  \A x \in Ops : IF ProcessOf[x] = q THEN op'[x] = NoOp ELSE op'[x] = op[x]
BY DEF Crash

-----------------------------------------------------------------------------
(* Caches                                                                  *)

\* A step that leaves the file alone keeps the caches if it fills them from the file.
LEMMA CacheKept ==
    ASSUME CacheInv, file' = file,
           \A o \in Ops : op'[o].result = "unchanged" =>
               op'[o].data = file \/ (op[o].result = "unchanged" /\ op'[o].data = op[o].data),
           \A q \in Procs : readState'[q].current =>
               readState'[q].data = file \/ (readState[q].current /\ readState'[q].data = readState[q].data)
    PROVE  CacheInv'
BY DEF CacheInv

\* After a write no cache carries the revision of the file.
LEMMA WritesCache ==
    ASSUME OpsAssumption, TypeInv, NEW o \in Ops, NEW d, Writes(o, d)
    PROVE  CacheInv'
<1>1. \A x \in Ops : op'[x].result # "unchanged"
  BY WritesEffect
<1>2. \A q \in Procs : ~readState'[q].current
  BY DEF Writes, TypeInv, ReadState
<1> QED BY <1>1, <1>2 DEF CacheInv

\* What a settled operation leaves in the read state is the file, or has no revision.
LEMMA SettledCache ==
    ASSUME OpsAssumption, TypeInv, ReadInv, CacheInv, NEW o \in Ops, Settled(o), file' = file
    PROVE  CacheInv'
<1>1. \A x \in Ops : op'[x].result = "unchanged" => op[x].result = "unchanged" /\ op'[x].data = op[x].data
  BY SettledEffect
<1>2. ASSUME NEW q \in Procs, readState'[q].current
      PROVE  readState'[q].data = file \/ (readState[q].current /\ readState'[q].data = readState[q].data)
  <2>1. CASE q # ProcessOf[o]
    BY <1>2, <2>1 DEF Settled, TypeInv
  <2>2. CASE q = ProcessOf[o]
    <3>1. readState'[q] = AfterOp(o, readState[q])
      BY <2>2 DEF Settled, TypeInv
    <3>2. CASE o \in Reloads \/ op[o].result = "failed"
      BY <1>2, <3>1, <3>2 DEF AfterOp, TypeInv, ReadState
    <3>3. CASE o \notin Reloads /\ op[o].result # "failed"
      <4>1. readState'[q] = [readState[q] EXCEPT !.data = op[o].data, !.current = Known(op[o])]
        BY <3>1, <3>3 DEF AfterOp
      <4>2. readState'[q].data = op[o].data /\ (readState'[q].current <=> Known(op[o]))
        BY <4>1, SMTT(60) DEF TypeInv, ReadState
      <4> QED BY <1>2, <4>2 DEF Known, CacheInv
    <3> QED BY <3>2, <3>3
  <2> QED BY <2>1, <2>2
<1> QED BY <1>1, <1>2, CacheKept

\* The caches stay true, whoever holds the lock.
LEMMA CacheStep ==
    ASSUME OpsAssumption, TypeInv, TokenInv, ReadInv, CacheInv, Next
    PROVE  CacheInv'
<1>0. 0 \in Nat /\ issued + 1 \in Nat
  BY SMTT(60) DEF TokenInv
<1>1. ASSUME NEW t \in Tasks, Request(t)  PROVE CacheInv'
  <2>0. t \in Ops /\ ProcessOf[t] \in Procs
    BY DEF Ops, OpsAssumption
  <2>1. ASSUME NEW p \in Providers, GetAuthCached(t, p)  PROVE CacheInv'
    BY <1>0, <2>0, <2>1, BeginEffect, CacheKept DEF GetAuthCached
  <2>2. ASSUME NEW p \in Providers, Read(t, p)  PROVE CacheInv'
    <3>1. \A x \in Ops : op'[x].result = "unchanged" => op'[x] = op[x]
      <4>1. CASE op' = op
        BY <4>1
      <4>2. CASE \E r \in Reloads : op' = [op EXCEPT ![r] = Begin("reload", p, 0)]
        BY <1>0, <4>2, BeginEffect DEF Ops
      <4> QED BY <2>2, <4>1, <4>2 DEF Read
    <3>2. \A q \in Procs : readState'[q].current => readState[q].current /\ readState'[q].data = readState[q].data
      BY <2>0, <2>2, SMTT(60) DEF Read, TypeInv, ReadState
    <3> QED BY <2>2, <3>1, <3>2, CacheKept DEF Read
  <2>3. ASSUME NEW p \in Providers, Login(t, p)  PROVE CacheInv'
    BY <1>0, <2>0, <2>3, BeginEffect, CacheKept DEF Login
  <2>4. ASSUME NEW p \in Providers, Logout(t, p)  PROVE CacheInv'
    BY <1>0, <2>0, <2>4, BeginEffect, CacheKept DEF Logout
  <2>5. ASSUME AbortRead(t)  PROVE CacheInv'
    <3>1. \A x \in Ops : op'[x].result = op[x].result /\ op'[x].data = op[x].data
      <4>1. CASE op' = op
        BY <4>1
      <4>2. CASE op' = [op EXCEPT ![reading[t].reload].aborted = TRUE]
        <5>1. reading[t].reload \in Ops
          BY <2>5, ReadFacts DEF AbortRead
        <5> QED BY <4>2, <5>1, SetAborted DEF Same
      <4> QED BY <2>5, <4>1, <4>2 DEF AbortRead
    <3>2. \A q \in Procs : readState'[q].current => readState[q].current /\ readState'[q].data = readState[q].data
      BY <2>0, <2>5 DEF AbortRead, TypeInv, ReadState
    <3> QED BY <2>5, <3>1, <3>2, CacheKept DEF AbortRead
  <2>6. ASSUME Abort(t)  PROVE CacheInv'
    BY <2>0, <2>6, SetAborted, CacheKept DEF Abort, Same
  <2> QED BY <1>1, <2>1, <2>2, <2>3, <2>4, <2>5, <2>6 DEF Request
<1>2. ASSUME NEW o \in Ops, Step(o)  PROVE CacheInv'
  <2>1. CASE Acquire(o)
    BY <2>1, SetStep, CacheKept DEF Acquire, Same
  <2>2. CASE AcquireFails(o) \/ Settle(o)
    BY <2>2, SettledCache DEF AcquireFails, Settle
  <2>3. CASE Enter(o)
    <3>0. op[o] \in OpState /\ file \in Data
      BY DEF TypeInv
    <3>1. CASE Writes(o, [file EXCEPT ![op[o].provider] = op[o].answer])
      BY <3>1, WritesCache
    <3>2. CASE file' = file /\ \A q \in Procs : readState'[q] = readState[q] \/ readState'[q].data = file
      <4>1. CASE Returns(o, "failed", NoCredentials)
        BY <3>2, <4>1, ReturnsEffect, CacheKept, SMTT(60)
      <4>2. CASE Returns(o, "unchanged", file)
        BY <3>2, <4>2, ReturnsEffect, CacheKept, SMTT(60)
      <4>3. CASE op' = [op EXCEPT ![o] = Running(@, file)]
        <5>1. op'[o] = Running(op[o], file) /\ \A x \in Ops : x # o => op'[x] = op[x]
          BY <4>3 DEF TypeInv
        <5> QED BY <3>0, <3>2, <5>1, SetRunning, CacheKept, SMTT(60)
      <4>4. CASE Writes(o, [file EXCEPT ![op[o].provider] = op[o].answer])
        BY <4>4, WritesCache
      <4> QED BY <2>3, <4>1, <4>2, <4>3, <4>4 DEF Enter
    <3>3. CASE readState' = [readState EXCEPT ![ProcessOf[o]] = [@ EXCEPT !.data = file, !.current = TRUE]]
      <4>1. \A q \in Procs : readState'[q] = readState[q] \/ readState'[q].data = file
        BY <3>3 DEF TypeInv, ReadState
      <4> QED BY <2>3, <3>1, <3>2, <4>1 DEF Enter
    <3> QED BY <2>3, <3>1, <3>2, <3>3 DEF Enter
  <2>4. CASE RefreshServed(o)
    BY <1>0, <2>4, SetAnswer, CacheKept DEF RefreshServed
  <2>5. CASE RefreshFails(o)
    BY <2>5, ReturnsEffect, CacheKept, SMTT(60) DEF RefreshFails
  <2>6. CASE Commit(o)
    <3>1. CASE Returns(o, "failed", NoCredentials) /\ UNCHANGED <<file, readState>>
      BY <3>1, ReturnsEffect, CacheKept, SMTT(60)
    <3>2. CASE Writes(o, [op[o].data EXCEPT ![op[o].provider] = op[o].answer])
      BY <3>2, WritesCache
    <3> QED BY <2>6, <3>1, <3>2 DEF Commit
  <2>7. CASE Release(o)
    BY <2>7, SetStep, CacheKept DEF Release, Same
  <2>8. CASE UpdateLock(o)
    BY <2>8, SetCompromised, CacheKept DEF UpdateLock, Same
  <2> QED BY <1>2, <2>1, <2>2, <2>3, <2>4, <2>5, <2>6, <2>7, <2>8 DEF Step
<1>3. ASSUME NEW q \in Procs, ReloadSync(q)  PROVE CacheInv'
  <2>1. \A p \in Procs : readState'[p] = readState[p] \/ readState'[p].data = file
    BY <1>3 DEF ReloadSync, TypeInv, ReadState
  <2> QED BY <1>3, <2>1, CacheKept DEF ReloadSync
<1>4. ASSUME NEW q \in Procs, Crash(q)  PROVE CacheInv'
  <2>1. \A x \in Ops : op'[x].result = "unchanged" => op'[x] = op[x]
    BY <1>4, CrashEffect, NoOpFields
  <2>2. \A p \in Procs : readState'[p].current => readState'[p] = readState[p]
    BY <1>4 DEF Crash, TypeInv, Fresh
  <2> QED BY <1>4, <2>1, <2>2, CacheKept DEF Crash
<1>5. CASE Tick \/ Expire
  BY <1>5, CacheKept DEF Tick, Expire
<1> QED BY <1>1, <1>2, <1>3, <1>4, <1>5 DEF Next

-----------------------------------------------------------------------------
(* Readers and their reload                                                *)

\* The condition on readers is kept when reloads and readers are only taken away.
LEMMA ReadKept ==
    ASSUME OpsAssumption, TypeInv, ReadInv,
           \A q \in Procs : readState'[q].reload # Free =>
               LET r == readState'[q].reload IN
               r = readState[q].reload /\ op'[r].step # "none" /\ ~op'[r].aborted,
           \A t \in Tasks : reading'[t] # NotReading =>
               /\ reading'[t] = reading[t] /\ op'[t].step = "none"
               /\ readState'[ProcessOf[t]].reload = reading[t].reload
    PROVE  ReadInv'
BY SMTT(60) DEF ReadInv

\* A step within an operation that is in progress and goes on.
LEMMA ReadKeptByStep ==
    ASSUME OpsAssumption, TypeInv, ReadInv, reading' = reading, NEW o \in Ops,
           op[o].step # "none", op'[o].step # "none", op'[o].aborted = op[o].aborted,
           \A x \in Ops : x # o => op'[x].step = op[x].step /\ op'[x].aborted = op[x].aborted,
           \A q \in Procs : readState'[q].reload = readState[q].reload
    PROVE  ReadInv'
<1>1. ASSUME NEW q \in Procs, readState'[q].reload # Free
      PROVE  LET r == readState'[q].reload IN
             r = readState[q].reload /\ op'[r].step # "none" /\ ~op'[r].aborted
  <2> DEFINE r == readState[q].reload
  <2>1. r \in Ops /\ op[r].step # "none" /\ ~op[r].aborted
    BY <1>1 DEF ReadInv, Ops
  <2> QED BY <2>1
<1>2. ASSUME NEW t \in Tasks, reading'[t] # NotReading
      PROVE  /\ op'[t].step = "none"
             /\ readState'[ProcessOf[t]].reload = reading[t].reload
  <2>1. /\ t \in Ops /\ ProcessOf[t] \in Procs /\ op[t].step = "none"
        /\ readState[ProcessOf[t]].reload = reading[t].reload
    BY <1>2, ReadFacts
  <2>2. op'[t].step = "none"
    BY <2>1
  <2> QED BY <2>1, <2>2
<1> QED BY <1>1, <1>2, ReadKept

\* A reload that settles takes its readers with it.
LEMMA SettledRead ==
    ASSUME OpsAssumption, TypeInv, ReadInv, NEW o \in Ops, op[o].step # "none", Settled(o)
    PROVE  ReadInv'
<1>0. ProcessOf[o] \in Procs /\ readState[ProcessOf[o]] \in ReadState
  BY DEF OpsAssumption, TypeInv
<1>1. \A q \in Procs : q # ProcessOf[o] => readState'[q] = readState[q]
  BY DEF Settled, TypeInv
<1>2. readState'[ProcessOf[o]].reload =
        IF o \in Reloads /\ readState[ProcessOf[o]].reload = o THEN Free ELSE readState[ProcessOf[o]].reload
  <2>1. readState'[ProcessOf[o]] = AfterOp(o, readState[ProcessOf[o]])
    BY <1>0 DEF Settled, TypeInv
  <2> QED BY <1>0, <2>1 DEF AfterOp, ReadState
<1>3. ASSUME NEW q \in Procs, readState'[q].reload # Free
      PROVE  LET r == readState'[q].reload IN
             r = readState[q].reload /\ op'[r].step # "none" /\ ~op'[r].aborted
  <2> DEFINE r == readState[q].reload
  <2>1. readState'[q].reload = r
    BY <1>1, <1>2, <1>3
  <2>2. r \in Reloads /\ r \in Ops /\ ProcessOf[r] = q /\ op[r].step # "none" /\ ~op[r].aborted
    BY <1>3, <2>1 DEF ReadInv, Ops
  <2>3. r # o
    BY <1>2, <1>3, <2>1, <2>2
  <2>4. op'[r] = op[r]
    BY <2>2, <2>3, SettledEffect
  <2> QED BY <2>1, <2>2, <2>4
<1>4. ASSUME NEW t \in Tasks, reading'[t] # NotReading
      PROVE  /\ reading'[t] = reading[t] /\ op'[t].step = "none"
             /\ readState'[ProcessOf[t]].reload = reading[t].reload
  <2>1. t \notin Readers(o) /\ reading'[t] = reading[t] /\ reading[t].reload # o
    BY <1>4 DEF Settled, Readers
  <2>2. /\ t \in Ops /\ ProcessOf[t] \in Procs /\ op[t].step = "none"
        /\ readState[ProcessOf[t]].reload = reading[t].reload
    BY <1>4, <2>1, ReadFacts
  <2>3. op'[t] = op[t]
    BY <2>1, <2>2 DEF Settled
  <2> QED BY <1>1, <1>2, <2>1, <2>2, <2>3
<1> QED BY <1>3, <1>4, ReadKept

\* A request of another task than those that wait.
LEMMA RequestRead ==
    ASSUME OpsAssumption, TypeInv, ReadInv, NEW t \in Tasks, reading[t] = NotReading, reading' = reading,
           readState' = readState, \A x \in Ops : x # t => op'[x] = op[x]
    PROVE  ReadInv'
<1>1. ASSUME NEW q \in Procs, readState[q].reload # Free
      PROVE  LET r == readState[q].reload IN op'[r].step # "none" /\ ~op'[r].aborted
  BY <1>1, SMTT(60) DEF ReadInv, Ops, OpsAssumption
<1>2. \A u \in Tasks : reading[u] # NotReading =>
          op'[u].step = "none" /\ readState[ProcessOf[u]].reload = reading[u].reload
  BY ReadFacts
<1> QED BY <1>1, <1>2, ReadKept

\* A task joins the reload of its process or starts it.
LEMMA ReadRead ==
    ASSUME OpsAssumption, TypeInv, ReadInv, NEW t \in Tasks, NEW p \in Providers, Read(t, p)
    PROVE  ReadInv'
<1>0. /\ t \in Ops /\ ProcessOf[t] \in Procs /\ 0 \in Nat
      /\ op[t].step = "none" /\ t \notin Reloads
  BY DEF Read, Ready, OpsAssumption, Ops
<1>1. CASE readState[ProcessOf[t]].reload # Free
  <2> DEFINE r == readState[ProcessOf[t]].reload
  <2>1. /\ UNCHANGED <<op, readState>>
        /\ reading' = [reading EXCEPT ![t] = [provider |-> p, reload |-> r]]
    BY <1>1 DEF Read
  <2>2. reading'[t].reload = r /\ \A u \in Tasks : u # t => reading'[u] = reading[u]
    BY <2>1 DEF TypeInv
  <2> QED BY <1>0, <1>1, <2>1, <2>2, SMTT(60) DEF ReadInv
<1>2. CASE readState[ProcessOf[t]].reload = Free
  <2>1. PICK r \in Reloads : /\ ProcessOf[r] = ProcessOf[t] /\ op[r].step = "none"
                             /\ op' = [op EXCEPT ![r] = Begin("reload", p, 0)]
                             /\ readState' = [readState EXCEPT ![ProcessOf[t]].reload = r]
                             /\ reading' = [reading EXCEPT ![t] = [provider |-> p, reload |-> r]]
    BY <1>2 DEF Read
  <2>2. r \in Ops /\ r # Free
    BY <2>1 DEF Ops, OpsAssumption
  <2>3. /\ op'[r].step = "acquiring" /\ ~op'[r].aborted
        /\ \A x \in Ops : x # r => op'[x] = op[x]
    BY <1>0, <2>1, <2>2, BeginEffect
  <2>4. /\ readState'[ProcessOf[t]].reload = r
        /\ \A q \in Procs : q # ProcessOf[t] => readState'[q] = readState[q]
    BY <1>0, <2>1 DEF TypeInv, ReadState
  <2>5. reading'[t].reload = r /\ \A u \in Tasks : u # t => reading'[u] = reading[u]
    BY <2>1 DEF TypeInv
  <2>6. ASSUME NEW q \in Procs, readState'[q].reload # Free
        PROVE  LET x == readState'[q].reload IN
               x \in Reloads /\ ProcessOf[x] = q /\ op'[x].step # "none" /\ ~op'[x].aborted
    <3>1. CASE q = ProcessOf[t]
      BY <2>1, <2>3, <2>4, <3>1
    <3>2. CASE q # ProcessOf[t]
      <4> DEFINE x == readState[q].reload
      <4>1. x \in Reloads /\ ProcessOf[x] = q /\ op[x].step # "none" /\ ~op[x].aborted
        BY <2>4, <2>6, <3>2 DEF ReadInv
      <4>2. x \in Ops /\ x # r
        BY <2>1, <3>2, <4>1 DEF Ops
      <4> QED BY <2>3, <2>4, <3>2, <4>1, <4>2
    <3> QED BY <3>1, <3>2
  <2>7. ASSUME NEW u \in Tasks, reading'[u] # NotReading
        PROVE  /\ op'[u].step = "none"
               /\ reading'[u].reload # Free /\ reading'[u].reload = readState'[ProcessOf[u]].reload
    <3>1. u \in Ops /\ u # r
      BY <2>1 DEF Ops, OpsAssumption
    <3>2. CASE u = t
      BY <1>0, <2>2, <2>3, <2>4, <2>5, <3>1, <3>2
    <3>3. CASE u # t
      <4>1. reading'[u] = reading[u] /\ reading[u] # NotReading
        BY <2>5, <2>7, <3>3
      <4>2. /\ op[u].step = "none" /\ ProcessOf[u] \in Procs
            /\ reading[u].reload = readState[ProcessOf[u]].reload /\ reading[u].reload # Free
        BY <4>1, ReadFacts DEF OpsAssumption, Ops
      <4> QED BY <1>2, <2>3, <2>4, <3>1, <4>1, <4>2
    <3> QED BY <3>2, <3>3
  <2> QED BY <2>6, <2>7 DEF ReadInv
<1> QED BY <1>1, <1>2

\* A reader leaves; the last one takes the reload with it.
LEMMA AbortReadRead ==
    ASSUME OpsAssumption, TypeInv, ReadInv, NEW t \in Tasks, AbortRead(t)
    PROVE  ReadInv'
<1> DEFINE r == reading[t].reload
<1>0. /\ ProcessOf[t] \in Procs /\ r \in Ops /\ r \in Reloads /\ ProcessOf[r] = ProcessOf[t]
      /\ readState[ProcessOf[t]].reload = r
  BY ReadFacts DEF AbortRead
<1>1. reading'[t] = NotReading /\ \A u \in Tasks : u # t => reading'[u] = reading[u]
  BY DEF AbortRead, TypeInv
<1>2. CASE ~LastReader(t)
  <2>1. op' = op /\ readState' = readState
    BY <1>2 DEF AbortRead
  <2> QED BY <1>1, <2>1 DEF ReadInv
<1>3. CASE LastReader(t)
  <2>1. /\ \A x \in Ops : op'[x].step = op[x].step
        /\ \A x \in Ops : x # r => op'[x] = op[x]
    <3>1. op' = [op EXCEPT ![r].aborted = TRUE]
      BY <1>3 DEF AbortRead
    <3> QED BY <1>0, <3>1, SetAborted
  <2>2. /\ readState'[ProcessOf[t]].reload = Free
        /\ \A q \in Procs : q # ProcessOf[t] => readState'[q] = readState[q]
    BY <1>0, <1>3 DEF AbortRead, TypeInv, ReadState
  <2>3. ASSUME NEW q \in Procs, readState'[q].reload # Free
        PROVE  LET x == readState'[q].reload IN
               x = readState[q].reload /\ op'[x].step # "none" /\ ~op'[x].aborted
    <3>1. q # ProcessOf[t] /\ readState'[q] = readState[q]
      BY <2>2, <2>3
    <3> DEFINE x == readState[q].reload
    <3>2. x \in Reloads /\ ProcessOf[x] = q /\ op[x].step # "none" /\ ~op[x].aborted
      BY <2>3, <3>1 DEF ReadInv
    <3>3. x \in Ops /\ x # r
      BY <1>0, <3>1, <3>2 DEF Ops
    <3> QED BY <2>1, <3>1, <3>2, <3>3
  <2>4. ASSUME NEW u \in Tasks, reading'[u] # NotReading
        PROVE  /\ reading'[u] = reading[u] /\ op'[u].step = "none"
               /\ readState'[ProcessOf[u]].reload = reading[u].reload
    <3>1. u # t /\ reading'[u] = reading[u] /\ reading[u] # NotReading
      BY <1>1, <2>4
    <3>2. /\ u \in Ops /\ op[u].step = "none" /\ ProcessOf[u] \in Procs
          /\ readState[ProcessOf[u]].reload = reading[u].reload
      BY <3>1, ReadFacts
    <3>3. reading[u].reload # r
      BY <1>3, <3>1 DEF LastReader, Readers
    <3>4. ProcessOf[u] # ProcessOf[t]
      BY <1>0, <3>2, <3>3
    <3> QED BY <2>1, <2>2, <3>1, <3>2, <3>4
  <2> QED BY <2>3, <2>4, ReadKept
<1> QED BY <1>2, <1>3

\* Every step keeps ReadInv.
LEMMA ReadStep ==
    ASSUME OpsAssumption, TypeInv, TokenInv, ReadInv, Next
    PROVE  ReadInv'
<1>0. 0 \in Nat /\ issued + 1 \in Nat
  BY SMTT(60) DEF TokenInv
<1>1. ASSUME NEW t \in Tasks, Request(t)  PROVE ReadInv'
  <2>0. t \in Ops
    BY DEF Ops
  <2>1. ASSUME NEW p \in Providers, GetAuthCached(t, p)  PROVE ReadInv'
    BY <1>0, <2>0, <2>1, BeginEffect, RequestRead DEF GetAuthCached, Ready
  <2>2. ASSUME NEW p \in Providers, Read(t, p)  PROVE ReadInv'
    BY <2>2, ReadRead
  <2>3. ASSUME NEW p \in Providers, Login(t, p)  PROVE ReadInv'
    BY <1>0, <2>0, <2>3, BeginEffect, RequestRead DEF Login, Ready
  <2>4. ASSUME NEW p \in Providers, Logout(t, p)  PROVE ReadInv'
    BY <1>0, <2>0, <2>4, BeginEffect, RequestRead DEF Logout, Ready
  <2>5. ASSUME AbortRead(t)  PROVE ReadInv'
    BY <2>5, AbortReadRead
  <2>6. ASSUME Abort(t)  PROVE ReadInv'
    <3>1. reading[t] = NotReading
      BY <2>6, ReadFacts DEF Abort
    <3> QED BY <2>0, <2>6, <3>1, SetAborted, RequestRead DEF Abort
  <2> QED BY <1>1, <2>1, <2>2, <2>3, <2>4, <2>5, <2>6 DEF Request
<1>2. ASSUME NEW o \in Ops, Step(o)  PROVE ReadInv'
  <2>0. op[o] \in OpState /\ file \in Data
    BY DEF TypeInv
  <2>1. CASE Acquire(o)
    BY <2>1, SetStep, ReadKeptByStep DEF Acquire
  <2>2. CASE AcquireFails(o) \/ Settle(o)
    BY <2>2, SettledRead DEF AcquireFails, Settle
  <2>3. ASSUME NEW d, Writes(o, d), reading' = reading, op[o].step # "none"  PROVE ReadInv'
    <3>1. \A q \in Procs : readState'[q].reload = readState[q].reload
      BY <2>3 DEF Writes, TypeInv, ReadState
    <3> QED BY <2>3, <3>1, WritesEffect, ReadKeptByStep
  <2>4. CASE Enter(o)
    <3>0. op[o].step = "granted" /\ reading' = reading
      BY <2>4 DEF Enter
    <3>1. CASE Writes(o, [file EXCEPT ![op[o].provider] = op[o].answer])
      BY <2>3, <3>0, <3>1
    <3>2. CASE \A q \in Procs : readState'[q].reload = readState[q].reload
      <4>1. CASE Returns(o, "failed", NoCredentials) \/ Returns(o, "unchanged", file)
        BY <3>0, <3>2, <4>1, ReturnsEffect, ReadKeptByStep
      <4>2. CASE op' = [op EXCEPT ![o] = Running(@, file)]
        <5>1. op'[o] = Running(op[o], file) /\ \A x \in Ops : x # o => op'[x] = op[x]
          BY <4>2 DEF TypeInv
        <5> QED BY <2>0, <3>0, <3>2, <5>1, SetRunning, ReadKeptByStep, SMTT(60)
      <4> QED BY <2>4, <3>1, <4>1, <4>2 DEF Enter
    <3>3. CASE readState' = [readState EXCEPT ![ProcessOf[o]] = [@ EXCEPT !.data = file, !.current = TRUE]]
      <4>1. \A q \in Procs : readState'[q].reload = readState[q].reload
        BY <3>3 DEF TypeInv, ReadState
      <4> QED BY <3>2, <4>1
    <3> QED BY <2>4, <3>1, <3>2, <3>3 DEF Enter
  <2>5. CASE RefreshServed(o)
    BY <1>0, <2>5, SetAnswer, ReadKeptByStep DEF RefreshServed
  <2>6. CASE RefreshFails(o)
    BY <2>6, ReturnsEffect, ReadKeptByStep DEF RefreshFails
  <2>7. CASE Commit(o)
    <3>1. CASE Returns(o, "failed", NoCredentials) /\ UNCHANGED readState
      BY <2>7, <3>1, ReturnsEffect, ReadKeptByStep, SMTT(60) DEF Commit
    <3>2. CASE Writes(o, [op[o].data EXCEPT ![op[o].provider] = op[o].answer])
      BY <2>3, <2>7, <3>2 DEF Commit
    <3> QED BY <2>7, <3>1, <3>2 DEF Commit
  <2>8. CASE Release(o)
    BY <2>8, SetStep, ReadKeptByStep DEF Release
  <2>9. CASE UpdateLock(o)
    BY <2>9, SetCompromised, ReadKeptByStep DEF UpdateLock, Holding
  <2> QED BY <1>2, <2>1, <2>2, <2>4, <2>5, <2>6, <2>7, <2>8, <2>9 DEF Step
<1>3. ASSUME NEW q \in Procs, ReloadSync(q)  PROVE ReadInv'
  <2>1. \A p \in Procs : readState'[p].reload = readState[p].reload
    BY <1>3 DEF ReloadSync, TypeInv, ReadState
  <2>2. op' = op /\ reading' = reading
    BY <1>3 DEF ReloadSync
  <2> QED BY <2>1, <2>2 DEF ReadInv, OpsAssumption, Ops
<1>4. ASSUME NEW q \in Procs, Crash(q)  PROVE ReadInv'
  <2>1. /\ readState'[q].reload = Free
        /\ \A p \in Procs : p # q => readState'[p] = readState[p]
    BY <1>4 DEF Crash, TypeInv, Fresh
  <2>2. \A t \in Tasks : IF ProcessOf[t] = q THEN reading'[t] = NotReading ELSE reading'[t] = reading[t]
    BY <1>4 DEF Crash
  <2>3. \A x \in Ops : ProcessOf[x] # q => op'[x] = op[x]
    BY <1>4, CrashEffect
  <2>4. ASSUME NEW p \in Procs, readState'[p].reload # Free
        PROVE  LET r == readState'[p].reload IN
               r = readState[p].reload /\ op'[r].step # "none" /\ ~op'[r].aborted
    <3> DEFINE r == readState[p].reload
    <3>1. p # q /\ readState'[p] = readState[p]
      BY <2>1, <2>4
    <3>2. r \in Ops /\ ProcessOf[r] = p /\ op[r].step # "none" /\ ~op[r].aborted
      BY <2>4, <3>1 DEF ReadInv, Ops
    <3> QED BY <2>3, <3>1, <3>2
  <2>5. ASSUME NEW t \in Tasks, reading'[t] # NotReading
        PROVE  /\ reading'[t] = reading[t] /\ op'[t].step = "none"
               /\ readState'[ProcessOf[t]].reload = reading[t].reload
    <3>1. ProcessOf[t] # q /\ reading'[t] = reading[t]
      BY <2>2, <2>5
    <3>2. /\ t \in Ops /\ ProcessOf[t] \in Procs /\ op[t].step = "none"
          /\ readState[ProcessOf[t]].reload = reading[t].reload
      BY <2>5, <3>1, ReadFacts
    <3> QED BY <2>1, <2>3, <3>1, <3>2
  <2> QED BY <2>4, <2>5, ReadKept
<1>5. CASE Tick \/ Expire
  BY <1>5 DEF Tick, Expire, ReadInv
<1> QED BY <1>1, <1>2, <1>3, <1>4, <1>5 DEF Next

-----------------------------------------------------------------------------
(* The lock                                                                *)

\* A step that grants no lock and writes nothing keeps LockInv.
LEMMA LockKept ==
    ASSUME LockInv, file' = file, lock'.owner = lock.owner, taken' = taken,
           \A o \in Ops : op'[o].step \in {"granted", "running", "releasing"} =>
               /\ op[o].step \in {"granted", "running", "releasing"}
               /\ op'[o].compromised = op[o].compromised,
           \A o \in Ops : op'[o].step = "acquiring" =>
               \/ ~op'[o].compromised
               \/ op[o].step = "acquiring" /\ op'[o].compromised = op[o].compromised,
           \A o \in Ops : op'[o].step = "running" => op[o].step = "running" /\ op'[o].data = op[o].data
    PROVE  LockInv'
BY DEF LockInv, Holding

\* Two operations do not hold the lock before it was taken over.
LEMMA HolderAlone ==
    ASSUME LockInv, ~taken, NEW o \in Ops, NEW x \in Ops, Holding(o), Holding(x)
    PROVE  x = o
BY DEF LockInv

\* A write by the holder keeps LockInv: nobody else has read the file.
LEMMA WritesLock ==
    ASSUME TypeInv, LockInv, NEW o \in Ops, Holding(o), NEW d, Writes(o, d), UNCHANGED <<lock, taken>>
    PROVE  LockInv'
<1> SUFFICES ASSUME ~taken
             PROVE  \A x \in Ops :
                       /\ op'[x].step \in {"granted", "running", "releasing"} =>
                             lock.owner = x /\ ~op'[x].compromised
                       /\ op'[x].step = "acquiring" => ~op'[x].compromised
                       /\ op'[x].step # "running"
  BY DEF LockInv, Holding
<1>1. \A x \in Ops : x # o => ~Holding(x)
  BY HolderAlone
<1>2. lock.owner = o /\ ~op[o].compromised
  BY DEF LockInv
<1> QED BY <1>1, <1>2, WritesEffect, SMTT(60) DEF Holding, LockInv

\* Every step keeps LockInv.
LEMMA LockStep ==
    ASSUME OpsAssumption, TypeInv, TokenInv, ReadInv, LockInv, Next
    PROVE  LockInv'
<1>0. 0 \in Nat /\ issued + 1 \in Nat
  BY SMTT(60) DEF TokenInv
<1>1. ASSUME NEW t \in Tasks, Request(t)  PROVE LockInv'
  <2>0. t \in Ops /\ UNCHANGED <<file, lock, taken>>
    BY <1>1 DEF Ops, Request, GetAuthCached, Read, Login, Logout, AbortRead, Abort
  <2>1. ASSUME NEW x \in Ops, NEW kind \in {"reload", "refresh", "login", "logout"},
               NEW p \in Providers, NEW n \in Nat, op' = [op EXCEPT ![x] = Begin(kind, p, n)]
        PROVE  LockInv'
    <3>1. op'[x].step = "acquiring" /\ ~op'[x].compromised /\ \A y \in Ops : y # x => op'[y] = op[y]
      BY <2>1, BeginEffect
    <3> QED BY <2>0, <3>1, LockKept
  <2>2. ASSUME NEW x \in Ops, op' = [op EXCEPT ![x].aborted = TRUE]  PROVE LockInv'
    BY <2>0, <2>2, SetAborted, LockKept, SMTT(60) DEF Same
  <2>3. CASE op' = op
    BY <2>0, <2>3, LockKept
  <2>4. ASSUME NEW p \in Providers, GetAuthCached(t, p)  PROVE LockInv'
    BY <1>0, <2>0, <2>1, <2>4 DEF GetAuthCached
  <2>5. ASSUME NEW p \in Providers, Read(t, p)  PROVE LockInv'
    BY <1>0, <2>1, <2>3, <2>5, SMTT(60) DEF Read, Ops
  <2>6. ASSUME NEW p \in Providers, Login(t, p)  PROVE LockInv'
    BY <1>0, <2>0, <2>1, <2>6 DEF Login
  <2>7. ASSUME NEW p \in Providers, Logout(t, p)  PROVE LockInv'
    BY <1>0, <2>0, <2>1, <2>7 DEF Logout
  <2>8. ASSUME AbortRead(t)  PROVE LockInv'
    <3>1. reading[t].reload \in Ops
      BY <2>8, ReadFacts DEF AbortRead, TypeInv, Ops
    <3> QED BY <2>2, <2>3, <2>8, <3>1 DEF AbortRead
  <2>9. ASSUME Abort(t)  PROVE LockInv'
    BY <2>0, <2>2, <2>9 DEF Abort
  <2> QED BY <1>1, <2>4, <2>5, <2>6, <2>7, <2>8, <2>9 DEF Request
<1>2. ASSUME NEW o \in Ops, Step(o)  PROVE LockInv'
  <2>0. op[o] \in OpState /\ file \in Data
    BY DEF TypeInv
  <2>1. CASE Acquire(o)
    <3> SUFFICES ASSUME ~taken'  PROVE LockInv'
      BY DEF LockInv
    <3>1. ~taken /\ lock.owner \notin Ops /\ lock'.owner = o /\ file' = file
      BY <2>1 DEF Acquire
    <3>2. \A x \in Ops : ~Holding(x)
      BY <3>1 DEF LockInv
    <3>3. ~op[o].compromised
      BY <2>1, <3>1 DEF Acquire, LockInv
    <3> QED BY <2>1, <3>1, <3>2, <3>3, SetStep, SMTT(60) DEF Acquire, LockInv, Holding
  <2>2. CASE AcquireFails(o) \/ Settle(o)
    <3>1. \A x \in Ops : op'[x] = op[x] \/ op'[x].step = "none"
                           \/ (op'[x].step = "acquiring" /\ ~op'[x].compromised)
      BY <2>2, SettledEffect DEF AcquireFails, Settle
    <3> QED BY <2>2, <3>1, LockKept DEF AcquireFails, Settle
  <2>3. CASE Enter(o)
    <3>0. Holding(o) /\ UNCHANGED <<lock, taken>> /\ op[o].step = "granted"
      BY <2>3 DEF Enter, Holding
    <3>1. CASE Writes(o, [file EXCEPT ![op[o].provider] = op[o].answer])
      BY <3>0, <3>1, WritesLock
    <3>2. CASE /\ Returns(o, "failed", NoCredentials) \/ Returns(o, "unchanged", file)
               /\ UNCHANGED file
      BY <3>0, <3>2, ReturnsEffect, LockKept
    <3>3. CASE op' = [op EXCEPT ![o] = Running(@, file)] /\ UNCHANGED file
      <4>1. op'[o] = Running(op[o], file) /\ \A x \in Ops : x # o => op'[x] = op[x]
        BY <3>3 DEF TypeInv
      <4>2. op'[o].step = "running" /\ op'[o].data = file /\ op'[o].compromised = op[o].compromised
        BY <2>0, <4>1, SetRunning, SMTT(60)
      <4> QED BY <3>0, <3>3, <4>1, <4>2, SMTT(60) DEF LockInv, Holding
    <3> QED BY <2>3, <3>1, <3>2, <3>3 DEF Enter
  <2>4. CASE RefreshServed(o)
    BY <1>0, <2>4, SetAnswer, LockKept, SMTT(60) DEF RefreshServed
  <2>5. CASE RefreshFails(o)
    BY <2>5, ReturnsEffect, LockKept DEF RefreshFails
  <2>6. CASE Commit(o)
    <3>1. CASE Returns(o, "failed", NoCredentials) /\ UNCHANGED file
      BY <2>6, <3>1, ReturnsEffect, LockKept DEF Commit
    <3>2. CASE Writes(o, [op[o].data EXCEPT ![op[o].provider] = op[o].answer])
      BY <2>6, <3>2, WritesLock DEF Commit, Holding
    <3> QED BY <2>6, <3>1, <3>2 DEF Commit
  <2>7. CASE Release(o)
    <3> SUFFICES ASSUME ~taken  PROVE \A x \in Ops : ~Holding(x)'
      BY <2>7, SetStep DEF Release, LockInv, Holding
    <3>1. Holding(o)
      BY <2>7 DEF Release, Holding
    <3>2. \A x \in Ops : x # o => ~Holding(x)
      BY <3>1, HolderAlone
    <3> QED BY <2>7, <3>2, SetStep DEF Release, Holding
  <2>8. CASE UpdateLock(o)
    <3> SUFFICES ASSUME ~taken  PROVE LockInv'
      BY <2>8 DEF UpdateLock, LockInv
    <3>1. lock.owner = o
      BY <2>8 DEF UpdateLock, LockInv
    <3>2. lock'.owner = lock.owner /\ op' = op /\ file' = file /\ taken' = taken
      BY <2>8, <3>1 DEF UpdateLock, TypeInv, LockState
    <3> QED BY <3>2, LockKept
  <2> QED BY <1>2, <2>1, <2>2, <2>3, <2>4, <2>5, <2>6, <2>7, <2>8 DEF Step
<1>3. ASSUME NEW q \in Procs, ReloadSync(q)  PROVE LockInv'
  <2> SUFFICES ASSUME ~taken'  PROVE LockInv'
    BY DEF LockInv
  <2>1. ~taken /\ lock.owner \notin Ops /\ op' = op
    BY <1>3 DEF ReloadSync
  <2>2. \A x \in Ops : ~Holding(x)
    BY <2>1 DEF LockInv
  <2> QED BY <2>1, <2>2 DEF LockInv, Holding
<1>4. ASSUME NEW q \in Procs, Crash(q)  PROVE LockInv'
  <2>1. \A x \in Ops : \/ op'[x].step = "none"
                       \/ op'[x] = op[x] /\ ProcessOf[x] # q
    BY <1>4, CrashEffect, NoOpFields
  <2>2. ASSUME ~taken, NEW x \in Ops, Holding(x), ProcessOf[x] # q
        PROVE  lock'.owner = x
    <3>1. lock.owner = x
      BY <2>2 DEF LockInv
    <3> QED BY <1>4, <2>2, <3>1 DEF Crash
  <2>3. file' = file /\ taken' = taken
    BY <1>4 DEF Crash
  <2> QED BY <2>1, <2>2, <2>3 DEF LockInv, Holding
<1>5. CASE Tick \/ Expire
  <2>1. lock'.owner = lock.owner /\ UNCHANGED <<file, op, taken>>
    BY <1>5 DEF Tick, Expire, TypeInv, LockState
  <2> QED BY <2>1, LockKept
<1> QED BY <1>1, <1>2, <1>3, <1>4, <1>5 DEF Next

-----------------------------------------------------------------------------
(* Credentials                                                             *)

\* A step that issues, stores and uses up no credential.
Quiet ==
    /\ UNCHANGED <<file, issued, used>>
    /\ taken => taken'
    /\ lost => lost'
    /\ \A o \in Ops : Pending(o)' => Pending(o) /\ op'[o].answer = op[o].answer
    /\ \A o \in Ops : op'[o].step = "running" =>
          \/ op'[o].data[op'[o].provider] # 0
          \/ /\ op[o].step = "running"
             /\ op'[o].provider = op[o].provider /\ op'[o].data = op[o].data
    /\ \A o \in Ops : op[o].step = "running" /\ op[o].answer # 0 /\ ~lost' =>
          /\ op'[o].step = "running"
          /\ op'[o].provider = op[o].provider /\ op'[o].answer = op[o].answer

\* Quiet steps keep the invariants on credentials.
LEMMA QuietTokens ==
    ASSUME TokenInv, UsedInv, Quiet
    PROVE  TokenInv' /\ UsedInv'
<1>1. issued' \in Nat
  BY DEF Quiet, TokenInv
<1>2. ASSUME ~taken'  PROVE ~taken /\ UNCHANGED <<file, issued, used>>
  BY <1>2 DEF Quiet
<1>3. ASSUME ~taken', NEW o \in Ops, Pending(o)'
      PROVE  /\ op'[o].answer <= issued' /\ op'[o].answer \notin used'
             /\ \A p \in Providers : file'[p] # op'[o].answer
             /\ \A x \in Ops : Pending(x)' /\ op'[x].answer = op'[o].answer => x = o
  BY <1>2, <1>3 DEF Quiet, TokenInv
<1>4. ASSUME ~taken', NEW o \in Ops, op'[o].step = "running"
      PROVE  op'[o].data[op'[o].provider] # 0
  BY <1>2, <1>4 DEF Quiet, TokenInv
<1>5. TokenInv'
  BY <1>1, <1>2, <1>3, <1>4 DEF TokenInv
<1>6. UsedInv'
  BY <1>2, SMTT(60) DEF Quiet, UsedInv
<1> QED BY <1>5, <1>6

\* Most steps change one operation, and are quiet when that one is.
LEMMA QuietByOne ==
    ASSUME UNCHANGED <<file, issued, used>>, taken => taken', lost => lost', NEW o \in Ops,
           \A x \in Ops : x # o => op'[x] = op[x],
           Pending(o)' => Pending(o) /\ op'[o].answer = op[o].answer,
           op'[o].step = "running" =>
              \/ op'[o].data[op'[o].provider] # 0
              \/ /\ op[o].step = "running"
                 /\ op'[o].provider = op[o].provider /\ op'[o].data = op[o].data,
           op[o].step = "running" /\ op[o].answer # 0 /\ ~lost' =>
              /\ op'[o].step = "running"
              /\ op'[o].provider = op[o].provider /\ op'[o].answer = op[o].answer
    PROVE  Quiet
BY DEF Quiet, Pending

\* Requests other than a login are quiet.
LEMMA QuietRequest ==
    ASSUME OpsAssumption, TypeInv, TokenInv, ReadInv, NEW t \in Tasks, Request(t),
           \A p \in Providers : ~Login(t, p)
    PROVE  Quiet
<1>0. /\ t \in Ops /\ 0 \in Nat
      /\ UNCHANGED <<file, issued, used, lost, taken>>
  BY DEF Ops, Request, GetAuthCached, Read, Logout, AbortRead, Abort, oauth
<1>1. ASSUME NEW x \in Ops, op[x].step = "none", NEW kind \in {"reload", "refresh", "login", "logout"},
             NEW p \in Providers, op' = [op EXCEPT ![x] = Begin(kind, p, 0)]
      PROVE  Quiet
  <2>1. op'[x].step = "acquiring" /\ op'[x].answer = 0 /\ \A y \in Ops : y # x => op'[y] = op[y]
    BY <1>1 DEF TypeInv, Begin, NoOp
  <2> QED BY <1>0, <1>1, <2>1, QuietByOne DEF Pending
<1>2. ASSUME NEW x \in Ops, op' = [op EXCEPT ![x].aborted = TRUE]  PROVE Quiet
  <2>1. Same(x) /\ op'[x].step = op[x].step /\ \A y \in Ops : y # x => op'[y] = op[y]
    BY <1>2, SetAborted
  <2> QED BY <1>0, <2>1, QuietByOne DEF Pending, Same
<1>3. CASE op' = op
  BY <1>0, <1>3 DEF Quiet, Pending
<1>4. ASSUME NEW p \in Providers, GetAuthCached(t, p)  PROVE Quiet
  BY <1>0, <1>1, <1>4 DEF GetAuthCached, Ready
<1>5. ASSUME NEW p \in Providers, Read(t, p)  PROVE Quiet
  BY <1>1, <1>3, <1>5 DEF Read, Ops
<1>6. ASSUME NEW p \in Providers, Logout(t, p)  PROVE Quiet
  BY <1>0, <1>1, <1>6 DEF Logout, Ready
<1>7. ASSUME AbortRead(t)  PROVE Quiet
  <2>1. reading[t].reload \in Ops
    BY <1>7, ReadFacts DEF AbortRead, TypeInv, Ops
  <2> QED BY <1>2, <1>3, <1>7, <2>1 DEF AbortRead
<1>8. ASSUME Abort(t)  PROVE Quiet
  BY <1>0, <1>2, <1>8 DEF Abort
<1> QED BY <1>4, <1>5, <1>6, <1>7, <1>8 DEF Request

\* The steps that write the file.
Stores(o) ==
    \/ Enter(o) /\ Writes(o, [file EXCEPT ![op[o].provider] = op[o].answer])
    \/ Commit(o) /\ UNCHANGED lost /\ Writes(o, [op[o].data EXCEPT ![op[o].provider] = op[o].answer])

\* Steps that neither write nor get an answer are quiet.
LEMMA QuietStep ==
    ASSUME OpsAssumption, TypeInv, TokenInv, ReadInv, NEW o \in Ops, Step(o), ~RefreshServed(o), ~Stores(o)
    PROVE  Quiet
<1>0. op[o] \in OpState /\ file \in Data
  BY DEF TypeInv
<1>1. CASE Acquire(o)
  <2>1. UNCHANGED <<file, issued, used, lost>> /\ (taken => taken') /\ op[o].step = "acquiring"
    BY <1>1 DEF Acquire, oauth
  <2>2. op'[o].step = "granted" /\ Same(o) /\ \A x \in Ops : x # o => op'[x] = op[x]
    BY <1>1, SetStep DEF Acquire
  <2> QED BY <2>1, <2>2, QuietByOne DEF Pending, Same
<1>2. CASE AcquireFails(o) \/ Settle(o)
  <2>1. \A x \in Ops : x # o /\ op[x].step # "none" => op'[x] = op[x]
    BY <1>2, SettledEffect DEF AcquireFails, Settle
  <2>2. \A x \in Ops : op'[x] = op[x] \/ (op'[x].step \in {"none", "acquiring"} /\ op'[x].answer = 0)
    BY <1>2, SettledEffect DEF AcquireFails, Settle
  <2>3. op[o].step # "running"
    BY <1>2 DEF AcquireFails, Settle
  <2> QED BY <1>2, <2>1, <2>2, <2>3, SMTT(60) DEF AcquireFails, Settle, Quiet, Pending, oauth
<1>3. CASE Enter(o)
  <2>0. /\ op[o].step = "granted" /\ UNCHANGED <<issued, used, lost, taken>>
    BY <1>3 DEF Enter, oauth
  <2>1. CASE /\ Returns(o, "failed", NoCredentials) \/ Returns(o, "unchanged", file)
             /\ UNCHANGED file
    <3>1. op'[o].step = "releasing" /\ \A x \in Ops : x # o => op'[x] = op[x]
      BY <2>1, ReturnsEffect
    <3> QED BY <2>0, <2>1, <3>1, QuietByOne DEF Pending
  <2>2. CASE /\ op' = [op EXCEPT ![o] = Running(@, file)] /\ UNCHANGED file
             /\ ExpiresSoon(op[o].provider, file[op[o].provider])
    <3>1. op'[o] = Running(op[o], file) /\ \A x \in Ops : x # o => op'[x] = op[x]
      BY <2>2 DEF TypeInv
    <3>2. /\ op'[o].data = file /\ op'[o].provider = op[o].provider
          /\ op'[o].answer = op[o].answer
      BY <1>0, <3>1, SetRunning, SMTT(60)
    <3>3. file[op[o].provider] # 0
      BY <2>2 DEF ExpiresSoon
    <3> QED BY <2>0, <2>2, <3>1, <3>2, <3>3, QuietByOne DEF Pending
  <2> QED BY <1>3, <2>1, <2>2 DEF Enter, Stores
<1>4. CASE RefreshFails(o)
  BY <1>4, ReturnsEffect, QuietByOne DEF RefreshFails, Pending
<1>5. CASE Commit(o)
  <2>1. /\ Returns(o, "failed", NoCredentials) /\ lost'
        /\ UNCHANGED <<file, issued, used, taken>>
    BY <1>5 DEF Commit, Stores
  <2>2. op'[o].step = "releasing" /\ \A x \in Ops : x # o => op'[x] = op[x]
    BY <2>1, ReturnsEffect
  <2> QED BY <2>1, <2>2, QuietByOne DEF Pending
<1>6. CASE Release(o)
  BY <1>6, SetStep, QuietByOne DEF Release, Pending, oauth
<1>7. CASE UpdateLock(o)
  <2>1. UNCHANGED <<file, issued, used, lost, taken>>
    BY <1>7 DEF UpdateLock, oauth
  <2>2. CASE op' = op
    BY <2>1, <2>2 DEF Quiet, Pending
  <2>3. CASE op' = [op EXCEPT ![o].compromised = TRUE]
    BY <2>1, <2>3, SetCompromised, QuietByOne, SMTT(60) DEF Pending, Same
  <2> QED BY <1>7, <2>2, <2>3 DEF UpdateLock
<1> QED BY <1>1, <1>2, <1>3, <1>4, <1>5, <1>6, <1>7 DEF Step

\* The synchronous reload, crashes and time are quiet: what a crash loses is counted as lost.
LEMMA QuietProcess ==
    ASSUME OpsAssumption, TypeInv, (\E q \in Procs : ReloadSync(q) \/ Crash(q)) \/ Tick \/ Expire
    PROVE  Quiet
<1>1. CASE (\E q \in Procs : ReloadSync(q)) \/ Tick \/ Expire
  <2>1. UNCHANGED <<file, op, issued, used, lost>>
    BY <1>1 DEF ReloadSync, Tick, Expire, oauth
  <2>2. taken => taken'
    BY <1>1 DEF ReloadSync, Tick, Expire
  <2> QED BY <2>1, <2>2 DEF Quiet, Pending
<1>2. ASSUME NEW q \in Procs, Crash(q)  PROVE Quiet
  <2>1. \A x \in Ops : (ProcessOf[x] = q /\ op'[x].step = "none") \/ (ProcessOf[x] # q /\ op'[x] = op[x])
    BY <1>2, CrashEffect, NoOpFields
  <2>2. /\ UNCHANGED <<file, issued, used, taken>> /\ (lost => lost')
        /\ \A x \in Ops : ProcessOf[x] = q /\ op[x].step = "running" /\ op[x].answer # 0 => lost'
    BY <1>2 DEF Crash
  <2> QED BY <2>1, <2>2 DEF Quiet, Pending
<1> QED BY <1>1, <1>2

\* A login brings a credential nobody else has.
LEMMA LoginTokens ==
    ASSUME OpsAssumption, TypeInv, TokenInv, UsedInv, NEW t \in Tasks, NEW p \in Providers, Login(t, p)
    PROVE  TokenInv' /\ UsedInv'
<1>0. /\ t \in Ops /\ issued \in Nat /\ issued' = issued + 1
      /\ UNCHANGED <<file, used, lost, taken>> /\ op[t].step = "none"
  BY DEF Login, Ready, Ops, TokenInv
<1>1. /\ op'[t].step = "acquiring" /\ op'[t].answer = issued + 1
      /\ \A x \in Ops : x # t => op'[x] = op[x]
  <2> DEFINE n == issued + 1
  <2>1. n \in Nat /\ op' = [op EXCEPT ![t] = Begin("login", p, n)]
    BY <1>0, SMTT(60) DEF Login
  <2> HIDE DEF n
  <2>2. /\ op'[t].step = "acquiring" /\ op'[t].answer = n
        /\ \A x \in Ops : x # t => op'[x] = op[x]
    BY <1>0, <2>1, BeginEffect
  <2> QED BY <2>2 DEF n
<1>2. ASSUME ~taken
      PROVE  /\ used \subseteq 1 .. issued' /\ issued + 1 \notin used
             /\ \A r \in Providers : file[r] <= issued' /\ file[r] # issued + 1
             /\ \A x \in Ops : Pending(x) => op[x].answer <= issued' /\ op[x].answer # issued + 1
  <2>1. \A r \in Providers : file[r] \in Nat
    BY DEF TypeInv, Data
  <2>2. \A x \in Ops : op[x].answer \in Nat
    BY DEF TypeInv, OpState
  <2> QED BY <1>0, <1>2, <2>1, <2>2, SMTT(60) DEF TokenInv
<1>3. \A x \in Ops : x # t => (Pending(x)' <=> Pending(x))
  BY <1>1 DEF Pending
<1>4. ASSUME ~taken, NEW x \in Ops, Pending(x)'
      PROVE  /\ op'[x].answer <= issued' /\ op'[x].answer \notin used
             /\ \A r \in Providers : file[r] # op'[x].answer
             /\ \A y \in Ops : Pending(y)' /\ op'[y].answer = op'[x].answer => y = x
  <2>1. CASE x = t
    BY <1>0, <1>1, <1>2, <1>3, <1>4, <2>1, SMTT(60)
  <2>2. CASE x # t
    BY <1>0, <1>1, <1>2, <1>3, <1>4, <2>2, SMTT(60) DEF TokenInv
  <2> QED BY <2>1, <2>2
<1>5. TokenInv'
  BY <1>0, <1>1, <1>2, <1>4, SMTT(60) DEF TokenInv
<1>6. UsedInv'
  BY <1>0, <1>1, SMTT(60) DEF UsedInv
<1> QED BY <1>5, <1>6

\* The provider uses up the stored credential and issues a new one.
LEMMA ServedTokens ==
    ASSUME OpsAssumption, TypeInv, LockInv, TokenInv, UsedInv, NEW o \in Ops, RefreshServed(o)
    PROVE  TokenInv' /\ UsedInv'
<1> DEFINE p == op[o].provider
<1> DEFINE c == file[p]
<1>0. /\ issued \in Nat /\ issued' = issued + 1 /\ UNCHANGED <<file, lost, taken>>
      /\ op[o].step = "running" /\ op[o].answer = 0 /\ p \in Providers
      /\ used' = used \cup {op[o].data[p]}
  BY DEF RefreshServed, TokenInv, TypeInv
<1>1. /\ op'[o].step = "running" /\ op'[o].answer = issued + 1 /\ op'[o].provider = p
      /\ op'[o].data = op[o].data
      /\ \A x \in Ops : x # o => op'[x] = op[x]
  <2> DEFINE n == issued + 1
  <2>1. n \in Nat /\ op' = [op EXCEPT ![o].answer = n]
    BY <1>0, SMTT(60) DEF RefreshServed
  <2> HIDE DEF n
  <2>2. /\ op'[o].step = op[o].step /\ op'[o].answer = n /\ op'[o].provider = op[o].provider
        /\ op'[o].data = op[o].data
        /\ \A x \in Ops : x # o => op'[x] = op[x]
    BY <2>1, SetAnswer
  <2> QED BY <1>0, <2>2 DEF n
<1>2. ASSUME ~taken
      PROVE  /\ used' = used \cup {c} /\ c # 0 /\ c \in Nat
             /\ used' \subseteq 1 .. issued' /\ issued + 1 \notin used'
             /\ \A r \in Providers : file[r] <= issued' /\ file[r] # issued + 1
             /\ \A x \in Ops : Pending(x) => op[x].answer <= issued' /\ op[x].answer # issued + 1
                                             /\ op[x].answer \notin used'
  <2>1. /\ \A r \in Providers : file[r] \in Nat /\ file[r] <= issued
        /\ used \subseteq 1 .. issued
    BY <1>2 DEF TypeInv, Data, TokenInv
  <2>2. \A x \in Ops : op[x].answer \in Nat
    BY DEF TypeInv, OpState
  <2>3. used' = used \cup {c} /\ c # 0
    BY <1>0, <1>2 DEF LockInv, TokenInv
  <2>4. c \in Nat /\ c <= issued
    BY <1>0, <2>1
  <2>5. used' \subseteq 1 .. issued' /\ issued + 1 \notin used'
    <3> HIDE DEF c
    <3>1. c \in 1 .. issued
      BY <1>0, <2>3, <2>4, SMTT(60)
    <3>2. used' \subseteq 1 .. issued
      BY <2>1, <2>3, <3>1
    <3>3. \A n \in 1 .. issued : n \in 1 .. issued' /\ n # issued + 1
      BY <1>0, SMTT(60)
    <3> QED BY <3>2, <3>3
  <2>6. \A x \in Ops : Pending(x) => op[x].answer <= issued /\ op[x].answer \notin used'
    BY <1>0, <1>2, <2>3 DEF TokenInv
  <2> QED BY <1>0, <2>1, <2>2, <2>3, <2>4, <2>5, <2>6, SMTT(60)
<1> HIDE DEF c
<1>3. \A x \in Ops : x # o => (Pending(x)' <=> Pending(x))
  BY <1>1 DEF Pending
<1>4. ASSUME ~taken, NEW x \in Ops, Pending(x)'
      PROVE  /\ op'[x].answer <= issued' /\ op'[x].answer \notin used'
             /\ \A r \in Providers : file[r] # op'[x].answer
             /\ \A y \in Ops : Pending(y)' /\ op'[y].answer = op'[x].answer => y = x
  <2>1. CASE x = o
    BY <1>0, <1>1, <1>2, <1>3, <1>4, <2>1, SMTT(60)
  <2>2. CASE x # o
    BY <1>0, <1>1, <1>2, <1>3, <1>4, <2>2, SMTT(60) DEF TokenInv
  <2> QED BY <2>1, <2>2
<1>5. TokenInv'
  BY <1>0, <1>1, <1>2, <1>4, SMTT(60) DEF TokenInv
<1>6. ASSUME ~lost, ~taken, NEW r \in Providers, file[r] \in used'
      PROVE  \E x \in Ops : op'[x].step = "running" /\ op'[x].provider = r /\ op'[x].answer # 0
  <2>1. CASE file[r] = c
    <3>1. r = p
      BY <1>0, <1>2, <1>6, <2>1 DEF TokenInv, c
    <3> QED BY <1>0, <1>1, <3>1, SMTT(60)
  <2>2. CASE file[r] \in used
    BY <1>0, <1>1, <1>6, <2>2, SMTT(60) DEF UsedInv
  <2> QED BY <1>2, <1>6, <2>1, <2>2
<1>7. UsedInv'
  BY <1>0, <1>6 DEF UsedInv
<1> QED BY <1>5, <1>7

\* A write stores a credential that was pending, or none.
LEMMA WriteTokens ==
    ASSUME OpsAssumption, TypeInv, LockInv, TokenInv, UsedInv, NEW o \in Ops,
           op[o].step \in {"granted", "running"}, op[o].step = "running" => op[o].answer # 0,
           NEW f, ~taken => f = file, Writes(o, [f EXCEPT ![op[o].provider] = op[o].answer]),
           UNCHANGED <<issued, used, lost, taken>>
    PROVE  TokenInv' /\ UsedInv'
<1> DEFINE p == op[o].provider
<1> DEFINE c == op[o].answer
<1>0. p \in Providers /\ c \in Nat /\ issued \in Nat
  BY DEF TypeInv, OpState, TokenInv
<1>1. /\ op'[o].step = "releasing"
      /\ \A x \in Ops : x # o => /\ op'[x].step = op[x].step /\ op'[x].provider = op[x].provider
                                 /\ op'[x].answer = op[x].answer /\ op'[x].data = op[x].data
  <2> DEFINE d == [f EXCEPT ![op[o].provider] = op[o].answer]
  <2>1. Writes(o, d)
    OBVIOUS
  <2> HIDE DEF d
  <2> QED BY <2>1, WritesEffect, SMTT(60)
<1>2. ASSUME ~taken
      PROVE  /\ c <= issued /\ c \notin used
             /\ c # 0 => \A r \in Providers : file[r] # c
             /\ \A x \in Ops : x # o /\ Pending(x) => op[x].answer # c
  <2>1. CASE c = 0
    BY <1>0, <1>2, <2>1, SMTT(60) DEF TokenInv, Pending
  <2>2. CASE c # 0
    BY <1>2, <2>2 DEF TokenInv, Pending
  <2> QED BY <2>1, <2>2
<1>3. ASSUME ~taken
      PROVE  /\ file'[p] = c
             /\ \A r \in Providers : r # p => file'[r] = file[r]
  <2>1. file' = [file EXCEPT ![p] = c]
    BY <1>3 DEF Writes
  <2> QED BY <1>0, <2>1 DEF TypeInv, Data
<1>4. \A x \in Ops : Pending(x)' => Pending(x) /\ x # o /\ op'[x].answer = op[x].answer
  BY <1>1 DEF Pending
<1>5. ASSUME ~taken, NEW x \in Ops, op[x].step = "running", x # o  PROVE FALSE
  BY <1>5, HolderAlone DEF Holding
<1>6. TokenInv'
  <2> SUFFICES ASSUME ~taken  PROVE TokenInv'
    BY <1>0 DEF TokenInv
  <2>1. \A r \in Providers : file'[r] <= issued
    BY <1>2, <1>3 DEF TokenInv
  <2>2. \A r, q \in Providers : file'[r] = file'[q] => file'[r] = 0 \/ r = q
    <3>1. CASE c = 0
      BY <1>3, <3>1, SMTT(60) DEF TokenInv
    <3>2. CASE c # 0
      BY <1>2, <1>3, <3>2, SMTT(60) DEF TokenInv
    <3> QED BY <3>1, <3>2
  <2>3. ASSUME NEW x \in Ops, Pending(x)'
        PROVE  /\ op'[x].answer <= issued /\ op'[x].answer \notin used
               /\ \A r \in Providers : file'[r] # op'[x].answer
               /\ \A y \in Ops : Pending(y)' /\ op'[y].answer = op'[x].answer => y = x
    <3>1. Pending(x) /\ x # o /\ op'[x].answer = op[x].answer
      BY <1>4, <2>3
    <3>2. \A r \in Providers : file'[r] # op'[x].answer
      BY <1>2, <1>3, <3>1, SMTT(60) DEF TokenInv
    <3>3. \A y \in Ops : Pending(y)' /\ op'[y].answer = op'[x].answer => y = x
      BY <1>4, <3>1 DEF TokenInv
    <3> QED BY <3>1, <3>2, <3>3 DEF TokenInv
  <2>4. \A x \in Ops : op'[x].step # "running"
    BY <1>1, <1>5
  <2>5. used \subseteq 1 .. issued
    BY DEF TokenInv
  <2> QED BY <1>0, <2>1, <2>2, <2>3, <2>4, <2>5 DEF TokenInv
<1>7. UsedInv'
  <2> SUFFICES ASSUME ~lost, ~taken, NEW r \in Providers, file'[r] \in used  PROVE FALSE
    BY DEF UsedInv
  <2>1. r # p /\ file[r] \in used
    BY <1>2, <1>3
  <2>2. PICK x \in Ops : op[x].step = "running" /\ op[x].provider = r /\ op[x].answer # 0
    BY <2>1 DEF UsedInv
  <2> QED BY <1>5, <2>1, <2>2
<1> QED BY <1>6, <1>7

\* Every step keeps the invariants on credentials.
LEMMA TokenStep ==
    ASSUME OpsAssumption, TypeInv, ReadInv, LockInv, TokenInv, UsedInv, Next
    PROVE  TokenInv' /\ UsedInv'
<1>1. ASSUME NEW t \in Tasks, Request(t)  PROVE TokenInv' /\ UsedInv'
  BY <1>1, LoginTokens, QuietRequest, QuietTokens
<1>2. ASSUME NEW o \in Ops, Step(o)  PROVE TokenInv' /\ UsedInv'
  <2>1. CASE RefreshServed(o)
    BY <2>1, ServedTokens
  <2>2. CASE Enter(o) /\ Writes(o, [file EXCEPT ![op[o].provider] = op[o].answer])
    <3>1. op[o].step = "granted" /\ UNCHANGED <<issued, used, lost, taken>>
      BY <2>2 DEF Enter, oauth
    <3> QED BY <2>2, <3>1, WriteTokens
  <2>3. CASE Commit(o) /\ UNCHANGED lost /\ Writes(o, [op[o].data EXCEPT ![op[o].provider] = op[o].answer])
    <3>1. /\ op[o].step = "running" /\ op[o].answer # 0 /\ UNCHANGED <<issued, used, lost, taken>>
          /\ ~taken => op[o].data = file
      BY <2>3 DEF Commit, LockInv
    <3> QED BY <2>3, <3>1, WriteTokens
  <2>4. CASE ~RefreshServed(o) /\ ~Stores(o)
    BY <1>2, <2>4, QuietStep, QuietTokens
  <2> QED BY <2>1, <2>2, <2>3, <2>4 DEF Stores
<1>3. CASE (\E q \in Procs : ReloadSync(q) \/ Crash(q)) \/ Tick \/ Expire
  BY <1>3, QuietProcess, QuietTokens
<1> QED BY <1>1, <1>2, <1>3 DEF Next

-----------------------------------------------------------------------------
(* The theorems                                                            *)

CredentialsInv == TypeInv /\ CacheInv /\ ReadInv /\ LockInv /\ TokenInv /\ UsedInv

\* The invariant holds initially.
LEMMA InitInv ==
    ASSUME OpsAssumption, Init
    PROVE  CredentialsInv
<1>1. TypeInv
  BY NothingType, ReadStateTypes DEF Init, TypeInv, LockState, NotReading, NoOp, ReadState, Fresh
<1>2. CacheInv /\ ReadInv
  BY NoOpFields DEF Init, CacheInv, ReadInv, Fresh
<1>3. LockInv
  BY NoOpFields DEF Init, LockInv, Holding
<1>4. TokenInv /\ UsedInv
  BY NoOpFields, SMTT(60) DEF Init, TokenInv, UsedInv, Pending, NoCredentials
<1> QED BY <1>1, <1>2, <1>3, <1>4 DEF CredentialsInv

\* Every step keeps the invariant.
LEMMA StepInv ==
    ASSUME OpsAssumption, CredentialsInv, [Next]_vars
    PROVE  CredentialsInv'
<1>1. CASE Next
  <2>1. TypeInv'
    BY <1>1, RequestType, StepType, ProcessType DEF CredentialsInv, Next
  <2> QED BY <1>1, <2>1, CacheStep, ReadStep, LockStep, TokenStep DEF CredentialsInv
<1>2. CASE UNCHANGED vars
  <2>1. UNCHANGED <<file, lock, op, reading, readState, issued, used, lost, taken>>
    BY <1>2 DEF vars
  <2>2. TypeInv' /\ CacheInv' /\ ReadInv'
    BY <2>1 DEF CredentialsInv, TypeInv, CacheInv, ReadInv
  <2>3. LockInv' /\ TokenInv' /\ UsedInv'
    BY <2>1, SMTT(60) DEF CredentialsInv, LockInv, Holding, TokenInv, UsedInv, Pending
  <2> QED BY <2>2, <2>3 DEF CredentialsInv
<1> QED BY <1>1, <1>2

\* The inductive invariant.
LEMMA Invariant == Spec => []CredentialsInv
<1>1. Init => CredentialsInv
  BY OpsAssumption, InitInv
<1>2. CredentialsInv /\ [Next]_vars => CredentialsInv'
  BY OpsAssumption, StepInv
<1> QED BY <1>1, <1>2, PTL DEF Spec

\* A process serves from memory what the file says, whatever order its operations, its reloads and
\* the writes of other processes end in (readLatestData, updateReadState).
THEOREM CacheTheorem == Spec => []CacheIsCurrent
<1>1. CredentialsInv => CacheIsCurrent
  BY DEF CredentialsInv, CacheInv, CacheIsCurrent, Cached
<1> QED BY <1>1, Invariant, PTL

\* A reload that some reader waits for is never aborted by another one (reloadFromStorageAsync).
THEOREM ReadersTheorem == Spec => []ReadersKeepReload
<1>1. CredentialsInv => ReadersKeepReload
  BY OpsAssumption, ReadFacts DEF CredentialsInv, ReadInv, ReadersKeepReload
<1> QED BY <1>1, Invariant, PTL

\* As long as no process takes a lock over from one that still runs, withLockAsync runs one
\* callback at a time, in all processes together.
THEOREM ExclusionTheorem == Spec => [](~taken => MutualExclusion)
<1>1. CredentialsInv => (~taken => MutualExclusion)
  BY HolderAlone DEF CredentialsInv, MutualExclusion, Holding
<1> QED BY <1>1, Invariant, PTL

\* A refresh writes over the contents it read before it waited for the provider.
THEOREM UpdateTheorem == Spec => NoLostUpdate
<1>1. CredentialsInv /\ [Next]_vars =>
        [\A o \in Ops : ~taken /\ op[o].step = "running" /\ op'[o].step = "releasing"
                        /\ op'[o].result = "written" => op[o].data = file]_vars
  BY DEF CredentialsInv, LockInv
<1> QED BY <1>1, Invariant, PTL DEF Spec, NoLostUpdate

\* No credential is sent for refresh twice, unless what replaced it got lost or a lock was taken
\* over (resolveStoredOAuth, resolveRefreshCredential).
THEOREM RefreshTheorem == Spec => []OneRefreshPerToken
<1>1. ASSUME CredentialsInv  PROVE OneRefreshPerToken
  <2> SUFFICES ASSUME NEW o \in Ops, op[o].step = "running", op[o].answer = 0,
                      op[o].data[op[o].provider] \in used, ~lost, ~taken
               PROVE  FALSE
    BY DEF OneRefreshPerToken
  <2>1. op[o].provider \in Providers /\ op[o].data = file
    BY <1>1 DEF CredentialsInv, TypeInv, LockInv
  <2>2. PICK x \in Ops : op[x].step = "running" /\ op[x].answer # 0
    BY <1>1, <2>1 DEF CredentialsInv, UsedInv
  <2>3. x = o
    BY <1>1, <2>2, HolderAlone DEF CredentialsInv, Holding
  <2> QED BY <2>2, <2>3
<1> QED BY <1>1, Invariant, PTL
=============================================================================
