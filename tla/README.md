# Verification of Pi / Motto

TLA+ specifications of the agent runtime, the session storage, the session server
and client, the coding agent's sessions and its credentials file in this
repository, TLC models that check them on small instances, and TLAPS proofs of the
results that hold for every instance.

## The system and its parts

Pi is a coding agent: a loop that streams answers of a language model, runs the
tools they ask for and keeps the conversation as a tree of entries in a session.

| part | code | here |
|---|---|---|
| agent run loop: turns, queues, tool batches | `packages/agent/src/agent.ts`, `agent-loop.ts` | `AgentLoop`, `AgentLoopProofs`, `AgentLoopHistory` |
| SQLite writer leases, repository lifecycle | `packages/session-backends/sqlite-node/src/sqlite/repo.ts`, `storage/writer-leases.ts` | `SqliteLease`, `MCSqliteLease`, `SqliteLeaseProofs` |
| JSONL session file | `packages/agent/src/harness/session/jsonl/` | `JsonlStorage`, `DurableLog`, `JsonlProofs` |
| session state and memory backend | `packages/agent/src/harness/session/state.ts`, `memory.ts` | `SessionState` |
| SQLite session tables, branch cache, fork | `sqlite/repo.ts`, `branch-cache.ts`, `storage/` | `SqliteTree` |
| the two backends under the same calls | `harness/session/types.ts` (`SessionStorage`, `SessionRepo`) | `SessionBackends` |
| session server | `packages/server/src/server.ts`, `sessions.ts`, `connection.ts` | `LiveSessions`, `LiveSessionsProofs` |
| session client | `packages/client/src/` | `PiClient` |
| coding agent's sessions and compaction | `packages/coding-agent/src/core/agent-session.ts`, `compaction/`, `session-manager.ts` | `Compaction`, `CodingSession`, `CodingSessionProofs` |
| credentials file, OAuth refresh, login and logout | `packages/coding-agent/src/core/auth-storage.ts`, `ai/src/auth/resolve.ts`, `ai/src/models.ts` | `Credentials`, `MCCredentials`, `CredentialsProofs` |
| protocol, transports; harness reducer and tools; provider streams; settings; computer use | `packages/protocol`, `agent/src/harness`, `ai`, `motto` | not modelled |
| resources, packages, CLI modes, terminal UI, telemetry, display extensions, evaluations | `packages/coding-agent`, `tui`, `telemetry`, `motto`, `evals` | not modelled |

How they interact: the application prompts an `Agent`; each run appends the
messages it ends to the session through a `SessionStorage`.  A storage is the
memory, the JSONL or the SQLite one; all three promise the same session (lanes
that point into a tree of entries, records, facts, a numbered log).  A JSONL
session is one append-only file of one process.  A SQLite database is shared by
processes, and a lease per session decides which of them may write.  A server
opens sessions for clients over connections that come and go; a client shares one
connection among leases on its sessions.  The coding agent wraps an `Agent` in an
`AgentSession` that retries, compacts and continues its runs.  Its requests are
authorized from one credentials file that all its processes share.

`PROJECT.json` lists all components with what is left out of each, the map from
every definition to the lines it models, and the hazards of the code with the
properties that would catch them going wrong.
## AgentLoop: one run of the agent

`AgentLoop.tla` models `packages/agent/src/agent.ts` (class `Agent`, its message
queues and `processEvents`) together with `packages/agent/src/agent-loop.ts`
(`runAgentLoop`, `runLoop`, `streamAssistantResponse` and the tool executors).

*State.* The variables keep the names of the code: `transcript` is
`_state.messages`, `streaming` whether `_state.streamingMessage` is set,
`steeringQueue`/`followUpQueue` the two `PendingMessageQueue`s, `context` and
`newMessages` the copies `runLoop` keeps, `batch`/`finalizedCalls`/`toolResults`
the tool batch of the turn, `tool` how far each call got.  `pc` names the await
the run is at.

*Atomicity.* JavaScript runs to completion between awaits, so every action is
the code between two awaits.  Every `emit` is awaited (`processEvents` awaits the
listeners one by one), hence every event is an action of its own, and between
any two of them the API (`Steer`, `FollowUp`, `Abort`, the clear methods) and the
tools of a parallel batch may take steps.

*Failures.* `Await` gives each awaited listener and hook the choice to throw, up
to `MaxThrows` times; the run then continues in `handleRunFailure`
(`FailMessageStart` .. `FailAgentEnd`) and ends in `FinishRun`.  A throw inside
`handleRunFailure` goes straight to `finishRun`.  Tools never fail the run
(`executePreparedToolCall` turns their exceptions into results), but a listener
of one of their update events can: such a call is "poisoned" and later rejects.

*Data.* A message is a role, an identity, the kind of its origin or stop reason,
and the tool calls it asks for.  Texts, models, usage and timestamps are left
out.  `prepareNextTurn` either keeps the context or, with `HookReplaces`, replaces
it by another one (an empty one stands for all).

*What is checked and proved.* No message handed over is lost or reordered (`NoMessageLost`,
`QueuedInOrder`); the copy of the history the provider sees is the transcript the
user sees (`ContextIsTranscript`), and `agent_end` reports exactly what the run
added, or on the failure path the last message of it (`AgentEndReportsRun`); tool results follow the calls of the message before them
in source order (`ResultsFollowTheirCalls`) and none is missing when the next
turn is prepared (`EveryCallAnswered`); unless something threw, nothing follows
`agent_end` (`AgentEndIsLast`); every run settles (`RunSettles`).  All but
`RunSettles` are also proved for all bounds and modes, and so are the types, that
turns are bracketed on the failure path too (`TurnsAreBracketed`) and that an agent
outside a run is clean (`IdleIsClean`).

*The argument.* None of these properties is inductive.  `AgentLoopProofs` and
`AgentLoopHistory` prove them from one invariant, each conjunct of which says what the
loop has done so far, by the await it stands at.

- `TypeInv`: the types, and that the indices of the loop stay inside the lists they walk.
- `BatchInv`: the results (in a parallel batch: the collected calls) are the first
  `index` calls of the batch, in their order.
- `BlockInv`: counting back from the end of the transcript by the results so far, one
  finds the assistant message whose calls are the batch.
- `WaitingInv`, `KindInv`, `OrderInv`: prompts and polled messages wait only until they
  are announced; transcript, waiting messages and queues hold their messages in the
  order they were created, and one after the other.
- `HistoryInv` compares transcript, `context` and `newMessages`: while prompts are being
  announced the context is ahead of the transcript, during a tool batch it is behind by
  the results of the turn, during a response it has the partial message in addition.
- `FailureInv`: a run starts at the end of the transcript and only adds to it; once the
  failure path has emitted its message, that message is the last one.
- `FreshInv`, `QuietInv`: calls are numbered as they are issued, and as long as nothing
  threw, a tool runs only while the loop waits for it; hence no tool event follows
  `agent_end`.

For each conjunct a lemma (`...Moves`) first says which actions can disturb it.

*Bounds.* Run `agent_runs`: three messages in all (a prompt and two of one queue,
the least that can be reordered), no tool calls, two throws.  Run `agent_tools`:
one message, up to two tool calls in one batch (one rejects while the other runs),
one throw, both execution modes, a hook that may replace the context.

*Fairness* (`RunSettles`).  Weak fairness of the run's own step - the event loop
runs a continuation that is ready - and of every tool's settling and of the task
around it.  The provider's stream is part of the run's step: it is assumed to end
or fail.  Nothing is assumed of callers.

*Where it stops holding.* When a listener of one call's events throws,
`Promise.all` rejects at once, the failure path emits `agent_end`, and the other
tools' events follow it, although `agent.ts:540` says no further loop events are
emitted; hence the hypothesis of `AgentEndIsLast`.  The `agent_end` of the failure path
carries the failure message alone (`agent.ts:526`), although
`coding-agent/docs/rpc.md:872` says the event "Contains all messages generated during
this run."; messages the run added before it failed are in no `agent_end`.

## SqliteLease: who may write a session

`SqliteLease.tla` models one session id in one database used by several
repositories (processes): the row of `writer_leases`, `create`, `open`, `delete`,
`repairBranchCache` and `close` of `SqliteSessionRepository`, the serial queue of
each storage with its writes, heartbeats and release, the heartbeat timer,
crashes, and transactions that fail (`Busy`).

*State.* `lease` is the row, with the time it has `left`; `session` the incarnation
of the session (delete and re-create make a new one under the same id), `storage[o]`
the `SqliteSessionStorage` of acquisition `o` (owner ids are fresh UUIDs, so owners
are numbered by acquisition), `job[r]` and `closer[r]` what runs on the queue of a
repository and its `close`, `writes` the committed writes in order.

*Time.* `Tick` passes one unit: it shortens the lease and ages the timers.  With
`Timely`, a tick may not pass while a heartbeat is more than `MaxDelay` overdue;
without it a process may be suspended for ever.

*What is checked, and proved* for every number of repositories and every bound in
`SqliteLeaseProofs`, where nothing else is said:

- `FencedWrites`: committed writes are ordered by acquisition - once a new owner
  has written, an older one never does.
- `NoForeignSession`: a storage opened before a delete never writes into the
  session re-created under the id, although the fence restarts at 1.
- `LiveLeaseIsStable`: a valid lease ends only by its holder's step or by time.
- `HeartbeatKeepsLease` (proved only): with heartbeats at most `MaxDelay` late, no failing
  transactions and `HB + MaxDelay < TTL`, no open storage loses its lease.
- `StaleOwnerLearns`, `JobsFinish` (TLC only): an owner that lost its lease finds
  out without writing; close and delete finish, whatever is queued on the storages.

*The argument.* `FencedWrites` is not inductive: it needs to know who can renew.
`LeaseInv` says that the owner in the row is nobody or the latest acquisition, and
that an active storage with the row's owner id also has its fence and was opened
on the current incarnation; `WritesInv` that no write is newer than the latest
acquisition.  A renewal that succeeds inside a write's transaction is then the
latest owner's, in the session it opened.  `KeptInv` adds, for the heartbeat
result, that the time left on a held lease exceeds what the timer and the allowed
delay still need.  Each is proved action by action, over frame lemmas for the
record updates.

*Bounds.* `lease_fencing`: two repositories, two acquisitions, two incarnations, two
writes, delete and repair as the jobs - a takeover with the old owner still at
work, and a delete and a re-creation under it.  The theorems have no such bound.
`lease_live`: two acquisitions, close (it waits for all storages of its repository) and
delete (it holds the repository's queue while it waits for one, `repo.ts:689`); repair
waits through the same function and is left to `lease_fencing`.  No write commits in
`lease_live`: a queued write is rejected or finds the lease lost.  Repositories are interchangeable, so the
safety run uses symmetry; the liveness run does not.

*Fairness.* Weak fairness of the queues (a queued task whose turn it is runs), of
due timers and of time, in processes that have not crashed; nothing is assumed of
callers.

## JsonlStorage: a session file that survives crashes

`JsonlStorage.tla` models the file of a JSONL session at the level of the pieces
an `appendFile` may leave behind: `create`, the serial append queue
(`StartAppend`, `WriteSome`, `WriteRest`, `AppendReturns`, `AppendFails`), `load` with
its three outcomes (intact, missing newline, torn tail repaired through a
temporary file and a rename), `fork`'s load of its source, `delete`, and a crash
between any two of them.  A file is a sequence of lines of pieces: a head, a tail
or the whole text of a mutation, so that two appends glued to one line are told
apart from one.  What a mutation means is left to `SessionState`; here only its
sequence number and id matter, since `load` checks those.

`DurableLog.tla` is what the file promises: a log that grows by one item, is at
most one item ahead of its callers, and that crashes and repairs leave alone.
`JsonlStorage` implements it (`ImplementsLog`) with the replayed file as the log.
`AckedSurvive` states durability, and that a load never throws on a file the code
wrote.

*Modes.* `Chunked`: a reader may see an append half done.  `PartialFailure`: an
append may fail after some of its bytes landed.  `ForkWhileOpen`: fork may load the
file of a session that is open.  `ConcurrentLoads`: two loads may overlap.  The
passing run `jsonl_recovery` has forks beside a live session, but none of the other
three.  Each of those is a way the promise breaks, which TLC shows when the
constant is set to `TRUE`:

- `PartialFailure`: the next append shares the broken line, is acknowledged,
  and is dropped by the next load.
- `Chunked`: fork takes a half-written append for a torn tail and renames
  the prefix over an append acknowledged meanwhile.
- `ConcurrentLoads`: two repairs stage through one temporary file, against the
  comment of `publishFileAtomically` (`storage.ts:30`), and the file no longer loads.

*What is proved* (`JsonlProofs`).  `AckedSurviveTheorem` and `ImplementsLogTheorem`, for
any number of appends, crashes, repairs and forks, under `Supported`: none of the
three ways above can happen.  (With `ForkWhileOpen` off, `Chunked` is allowed: it is the
reader beside an open storage that takes half an append for a torn tail.)
`AckedSurvive` is not inductive: it says nothing of the line an append is writing, of
a repair between its read and its rename, or of what an open storage believes the
file to be.  `JsonlInv` adds these.  `FileInv`: a file is whole lines numbered without
gaps, and then at most one line that is cut off or lacks its newline.  `AppendInv`: what
the append in progress has written so far is the end of the file.  `LiveInv`: while a
storage is open it has applied what was acknowledged, and its file is whole and ends
in a newline, but for the append in progress.  `LoadInv`: one load runs at a time;
what it read is still in the file, or is intact, and the temporary file holds the
repaired text before the rename.  The
lemmas on the operators say what the text that landed decodes to (`HeadLands`,
`JsonLands`, `TailLands`, `NewlineLands`) and that a repair replays the same log
(`RepairKeepsLog`).  Each action has one lemma, which shows that the invariant is kept
and that the step is one of `DurableLog` or a stutter.

*Bounds.* Three ids (two acknowledged appends and one torn), one fork.

## SessionState, SqliteTree, SessionBackends: one session, two backends

`SessionState.tla` is the session object of the memory and JSONL backends:
numbered mutations, their validation, the queries, and fork as a list of
mutations replayed into a fresh object.  `SqliteTree.tla` is the same contract over
tables: the writes as transactions, the branch cache (`branch_entries` and
`branch_tips`, joined in `branches`) with its extension, copying and repair, the
branch queries in terms of the cache, the paged log over four tables, and fork
with its separate reads.

`SessionBackends.tla` gives both the same calls, one after the other, and compares
them: `RefusalsAgree` (a call is refused by both or by none), `ContentsAgree`,
`QueriesAgree` (every branch query with bounds, cursor, filter, order and limit
answers as a walk over the parent links does, and a reader that pages through the
log sees every number once).  `CacheIsFresh` says that the cache always
is what a repair would build.  While SQLite's fork reads, another process may
write, repair or delete: `ForkIsSound` says the fork is a session all the same -
it is, because a tip read after an append does not chain to the entries read
before it, and building the cache then throws.

*Differences that are not errors here.* After a branch fork the memory backend has
logged the lane and the SQLite backend has not, so their sequence numbers differ;
answers are compared by ids and order.  A tree fork copies labels unfiltered, so a
label set on an entry appended while fork reads has no entry in the fork.  A delete
between fork's reads leaves a fork without lanes or without a cache; `ForkIsSound`
excludes it, and the hazard list records it.

*Bounds.* Three entries or records, two lanes, one text, sequence numbers up to 5,
one fork with one write beside it: enough for a branch that leaves another in its
middle, for a lane moved off its branch, for an operation opened and closed, and
for a fork of each scope raced by each write.  Ids are taken in order, as UUIDv7
sort.  Properties that cost most are evaluated only while no fork is under way;
a fork in progress changes no table.  The system may stop (bounds, a deleted
session), so deadlock is not checked.
## LiveSessions: runtimes, connections and close

`LiveSessions.tla` models `PiServer` (`packages/server/src/server.ts`) and
`LiveSessionManager` (`sessions.ts`) for one durable session that several
connections attach to.  A number in `Lives` is one `LiveSession` object with the
runtime the service opened for it; `liveSession` and `opening` are the entries of
the maps `liveSessions` and `openingSessions`; `conn` holds the stage of each
connection, `task` the requests that are between two awaits.

*Atomicity.* One action per stretch of code between two awaits.  An attach is
`RequestAttach` (the synchronous part of `acquire`), then `OpeningSettled` or
`DisposingSettled` when the promise it waits for settles; opening a runtime is
`Create`, `RuntimeAcquired`, `FirstSnapshot` and their failures; disposal is
`MaybeDispose` inside the actions that call it and `RuntimeDisposed`.  Between any
two of them connections close, runtimes report events and errors, and `close()`
advances.

*What is checked.* `RuntimeExclusive`: the service is never asked for the session
before `dispose()` of its last runtime has settled.  `OperationKeepsRuntime`: until
`close()`, a runtime is open while an operation on it is in flight, and the count
of operations is right.  `AttachedControlsRuntime`: as long as no transport has
closed, what a connection is attached to is live and knows it.  Liveness:
`UnusedIsDisposed`, `RequestsAnswered`, `CloseCompletes` (`close()` settles, with
`dispose()` of every runtime the service opened settled before).

*Failing disposal.* `runtime.dispose()` resolves or rejects (`RuntimeDisposed`).  Either
way the manager forgets the runtime; a request that waited for a rejected disposal
fails.  When `close()` waits for it, `close()` rejects: the connections are not cleared
(`server.ts:340`) and `started` stays set (`server.ts:166`), the outcome `"failed"` of
`CloseDone`.  A listener whose `close()` rejects only makes the promise reject
(`"rejected"`).  With several sessions `Promise.all` would not wait for the other
disposals after the first rejection; the model has one session.

*What is proved.* The three safety properties, for any number of connections,
requests and openings (`LiveSessionsProofs`), from the two
assumptions of `LiveSessions`: finitely many requests are in progress, and the number
of openings is a natural.  `LiveInv` is the inductive invariant.
`PlaceInv` says where an object that holds a runtime can be: in `openingSessions`, in
`liveSessions`, or waited for by `close()`, and in one of them at a time; that gives
`RuntimeExclusive`.  It is kept because whoever waited for a disposal goes on before
anything else runs and finds nobody holding a runtime (`WaitInv`), and because no
connection is ready any more when `close()` empties the map (`ConnInv`).
`OperationInv` counts the operations, which keeps `maybeDispose` away.  `AttachInv`
adds to `AttachedControlsRuntime` that the callers of an opening which has just
succeeded find it in the map and usable.  Most actions change an object at most by
starting its disposal; `Tame` is that class, and one lemma per conjunct covers all of
it.

*Bounds.* `live_sessions`: two connections, two overlapping requests, two openings
(the second one beside the disposal of the first).  `live_progress`: one opening.
Deadlock is not checked: a server nobody talks to stops.

*Fairness.* Promises of the service settle, timers fire, continuations run, and
transports report their close.  Nothing is assumed of peers, of runtimes becoming
idle or of the application.

*Where it stops holding.* Without its hypothesis `AttachedControlsRuntime` fails:
when the connection that asked for the opening closes before the opening ends,
its `attach()` starts the disposal, and a second connection that shared the
opening is then attached to the object being disposed (`sessions.ts:300` looks at
the connection and not at the live object).

## PiClient: leases on a session

`PiClient.tla` models `PiClient` (`packages/client/src/client.ts`) with its
`Connection` and `ClientState`: shared and exclusive leases on one session, the
attach and detach requests behind them, failed cleanups and their reconciliation,
and the snapshots that decide whether a lease is active.  The server is reduced
to what `sessions.ts` does for this connection: it answers commands in any order,
a command may fail after it took effect, and a session opened again starts with a
lower revision.

*Atomicity.* A promise is the number of the request it settles with.  The messages of
one chunk are handled in one go (`chunk` counts those still to come); the
continuations of what they settled run next, in any order; the socket is read again
when all have run (`Drained`).  The application calls the client at any point, as a
listener or another continuation may: `Acquire`, `Release`, `Command`, `Connect`,
`Dispose` and a disconnection (`Lost`) also come between an answer and the
continuation that waits for it.

*What is checked.* `ReservationsHold`: the counters are those of the leases that
exist, and an exclusive lease is alone, through releases, failures and
disconnections.  `NothingLeaked` and `ActiveIsAttached` relate the client to the
server once nothing is in flight: no attachment without a lease, no active lease
without an attachment.  `LeaseCallsSettle`: every acquire, detach and dispose
settles.  Nothing is proved about this module.

*Bounds.* Two users, two connections, four requests, revisions 0 and 1, three
messages in transit.  The three invariants were also checked with six requests and three
connections (12 million states).  *Fairness.* Continuations run, messages in transit arrive,
the server answers what it takes.

*Where it stops holding.*

- `ReservationsHold` excepts one order of events (`overtaken`).  The answer to an
  attach has been handled; before `acquireSession` goes on, the connection is lost (a
  listener called at `client.ts:317` disconnects, or the next message of the chunk is
  a protocol error).  The loss sets the count to 0 and begins a new generation;
  `#createSessionLease` then reads that new generation (`client.ts:210`), so its lease
  is not invalidated and is active again after the next attach.  It is not counted: an
  exclusive lease can be acquired beside it, and releasing it detaches the other one.
  The exception ends with the next loss that finds leases counted, which invalidates
  them all.
- `NothingLeaked` and `ActiveIsAttached` except a command that took effect and was
  answered with an error, which the client cannot know, until the next command takes
  effect (`lateFailure`).
- An acquired lease need not be active: the answer to an operation of a released lease
  may arrive after the next acquire forgot the old snapshot; its higher revision then
  makes `state.ts:108` drop the snapshot of the attach.  It takes five requests on one
  connection.

## Compaction, CodingSession: runs, retries and compaction of the coding agent

`Compaction.tla` holds the pure part of `core/compaction/compaction.ts` and
`session-manager.ts` as operators: which entries form the context
(`ContextEntries`), where a compaction may cut (`IsCutPoint`), where the token
budget puts the cut (`CutIndex`, `FirstKept`), where the turn that is cut began
(`TurnStart`), where the previous compaction's kept part began (`BoundaryStart`),
what is handed to the summarizer (`History`, `TurnPrefix`), and what the summary is
made from (`SummaryCovers`, the `compact` function).  An entry is its id, its kind,
the way its response ended, whether it is large, and for a compaction the first
entry it keeps and the ids its summary `covers`.

`CodingSession.tla` is `AgentSession` (`core/agent-session.ts`) around the agent:
`prompt` with its checks, the run, `message_end` with its persistence, retries with
backoff, overflow and threshold compaction, continuation, settling, `abort`,
manual `compact`, queues and the mirrors the interface shows, shell results held
back during a run, metadata entries.  The agent is reduced to what the session
sees of it; `AgentLoop` has the rest.

*What is checked.* `TranscriptIsSession`: the messages in memory and those a
restart would rebuild are the same but for failed responses.
`ToolResultsFollowCalls`: nothing comes between a call and its result, neither a
shell result nor a cut.  `SummaryHasNoGap`: what the context and the current
summary leave of the session has no gap, and it begins with the session or with a turn
that one compaction kept from its start and the next one split (see below).  `CompactsAndRetriesOnce`: a
context that cannot be made to fit is not compacted for ever.  `IdleIsClean`: no
retry count, held-back shell result or stale mirror outlives a run.
`WaitersReturn`: whoever waits for idleness is told.

*What is proved* for every session and budget, in `CodingSessionProofs`: a compaction starts its kept part at a cut point, never at a
tool result (`KeptStartsAtCutPoint`); when the compaction
before left no gap, neither does the next (`CompactLeavesNoGap`); and `SummaryHasNoGap`
is an invariant of `CodingSession` (`CompactionLeavesNoGap`).  `SummaryHasNoGap` alone
is not inductive, because a compaction is prepared in one step and recorded in a
later one, with entries appended in between.  `IInv` adds that a preparation in
progress is complete for the path as it is now (`Cuts`), that at most one of the
three kinds of compaction is in progress and none runs beside a run
(`OneAtATime`), and the types.  Completeness survives appending, so the actions
fall into a few groups (nothing moved, an entry appended, shell results flushed,
prepared, recorded, given up), each with one lemma.

*Bounds.* Two prompts and three events in all - other calls, and responses that
are not a plain small answer; one retry; a budget of one message is kept.  That is
enough for a retry followed by an overflow, a compaction beside a shell result,
and a second compaction over the first.  `prompt()` and `compact()` are called one
at a time.

*Fairness.* Every await is on something that ends: a request, a tool, a handler, a
timer, a summary.  `FairSpec` states weak fairness of the session's own steps with
their enabling condition (`Busy`) written out.

*Where it stops holding.* A summary may lose what the previous one held.  When a
compaction splits the first turn that the previous one had kept, no messages precede
the turn; `compact` then puts "No prior history." in place of the history summary and
summarizes the turn prefix alone (`compaction.ts:845-866`), without the previous
summary.  `docs/compaction.md:43` says the summary is generated "passing the previous
summary as iterative context when present", and line 106 gives the history summary of
a split turn "Previous context (if any)".  The shortest case: messages 1 to 4; a
compaction keeps from 3 on and covers 1 and 2; a large answer 6; the next compaction
keeps 6 and covers 3 and 4, and nothing is left of 1 and 2.

*Finding* (`coding_continue`).  A request fails and is retried; the failed response
leaves the state but stays in the session.  The retry overflows; the compaction
rebuilds the state from the session, both failed responses come back, and only the
last one is removed again.  `agent.continue()` then refuses the transcript and
`prompt()` rejects, although the comment at `agent-session.ts:2191` says the state
was made fit to continue.

## Credentials: auth.json shared by processes

`Credentials.tla` models `FileAuthStorageBackend` and `AuthStorage`
(`coding-agent/src/core/auth-storage.ts`) with what `Models` does through them:
`getAuth` of an OAuth credential that expires soon (`ai/src/auth/resolve.ts`),
`login` and `logout` (`ai/src/models.ts`).

*State.* `file` is the contents of `auth.json`, one number per provider (0: none);
`lock` the directory proper-lockfile creates, with its owner and its age; `op[o]` one
call of `withLockAsync` - a task's `modify` or `delete`, or the reload that the reads
of a process share; `reading[t]` the reload a task waits for; `readState[q]` a
process's cache, `current` when its revision is the file's.  `used`, `lost` and
`taken` remember what the properties speak of: credentials whose refresh was served,
whether one that was issued got lost, whether a lock was taken from a process that
still runs.

The file is there from the start, so that `ensureFileExists` has nothing to do.

*Atomicity.* One action per stretch between two awaits: `Acquire`, `Enter` (checks,
read, callback up to its first await), `RefreshServed`, `Commit` (checks, merge and
write), `Release`, `Settle` (the caller's `updateReadState`, and the readers of a
reload going on).  The constructor's `reload()` has no await and is one action
(`ReloadSync`).  The lock's timer, time, expiry, aborted signals and crashes come
between any two.

*What is checked, and proved* for any number of processes, tasks and providers:

- `NoLostUpdate`: a refresh waits for the provider while it holds the lock, and still
  writes over the contents it read.
- `OneRefreshPerToken`: a credential is sent for refresh a second time only if what
  replaced it got lost (an abort, a crash or a failure after the provider answered).
- `CacheIsCurrent`: what a process serves without reading is what the file says,
  although caches are updated after the lock was released.
- `ReadersKeepReload`: a reader that gives up aborts a reload only if it was the last.

*The argument.* `LockInv`: until `taken`, whoever is between `Acquire` and `Release`
owns the directory, and a refresh in progress has `data = file`.  `CacheInv` extends
`CacheIsCurrent` to the operations that read a revision and have not stored it yet.
`ReadInv`: the reload that new readers would join is in progress and not aborted, and
every reader waits for that one.  `TokenInv`: credentials are unique, and pending ones
are neither stored nor used.  `UsedInv`: a stored credential that was used is one
whose replacement is on its way under the lock, which with `LockInv` gives
`OneRefreshPerToken`.

*Bounds.* Two tasks and one reload in one process, beside a process that starts,
reads and dies; one provider, two credentials, one logout, one fault.  The thresholds
keep their order: the default staleness of `lockSync` (ten seconds) below the update
interval of `lock` (half of thirty) below its staleness.

*Where it stops holding.* `NoLostUpdate`, `OneRefreshPerToken` and mutual exclusion
are stated until a lock is taken over, and that takes no crash: `lockSync(path,
{ realpath: false })` (`auth-storage.ts:75`) uses the default staleness of ten seconds,
while a lock taken with `lock` is touched only every fifteen.  A process that starts
during a refresh that takes longer finds the lock stale, removes it, and a second
callback runs beside the first; TLC refutes `MutualExclusion` this way.  Its comment
(`ai/src/auth/types.ts:82`) says "Mutual exclusion per provider id, cross-process too
where the backing store supports it (e.g. a file lock)."


## Runs

| run | shows |
|---|---|
| `agent_runs` | queues and history of runs under throws and aborts |
| `agent_tools` | tool batches in both modes, what `agent_end` reports and ends, and that runs settle |
| `lease_fencing` | stale owners cannot write, valid leases are stable |
| `lease_live` | stale owners learn, close and delete finish |
| `jsonl_recovery` | durability through crashes and repairs; implements `DurableLog` |
| `session_backends` | memory and SQLite agree, the cache is fresh, forks are sound |
| `live_sessions` | one runtime at a time, attached connections control it, operations keep it |
| `live_progress` | unused runtimes are disposed, requests answered, close settles |
| `client_leases` | counts, exclusiveness, agreement with the server, calls settle |
| `coding_session` | transcript and session agree, compaction leaves no gap, recovery ends |
| `credentials` | one refresh per credential, no lost update, caches current, shared reloads survive |
| `coding_continue` | violation: a retried error and an overflow make `continue()` refuse |

Every property of a passing run has a mutant (`Mut...`): a plausible bug in one
definition under which TLC finds that property violated.

## What is proved, and what is only checked

`AgentLoopProofs`, `AgentLoopHistory`: types and every safety property of the agent
loop, from the invariant described above.
`SqliteLeaseProofs`: its type invariant and the four results above.
`JsonlProofs`: durability, and the refinement of `DurableLog`.
`LiveSessionsProofs`: the three safety properties of the session server.
`CodingSessionProofs`: what a compaction keeps, summarizes and covers.  `CredentialsProofs`: the four properties of the `credentials` run, and
mutual exclusion until a lock is taken over.  The assumptions are the `ASSUME`s of
the component modules: bounds are naturals, modes are among their values,
`0 < HB < TTL` as `repo.ts` validates, every operation on credentials belongs to
one process, and the requests in progress are finitely many.  Two results have
hypotheses of their own.  `HeartbeatsSuffice`: timely heartbeats, no failing
transactions, `HB + MaxDelay < TTL`.  `JsonlProofs`: `Supported`, as explained there.

Only model-checked: liveness, which needs fairness and `ENABLED`; the remaining
safety properties of `CodingSession`; the session client; the agreement of the backends,
whose tree walks are recursive functions over data.

## Not modelled

Payload texts, tokens, costs and timestamps; schema validation and codecs;
provider adapters and generated model catalogues; rendering, layout and key
handling; package installation and resource discovery; telemetry.  They change
none of the state the properties are about, or are direct I/O.

The operations of `AgentHarness` are not implemented in this repository (they throw
`HarnessNotImplemented`), so nothing outside tests writes the lane records that
`reducer.ts` folds; the log it would read is the one of `SessionState`.

Seen while modelling, and covered by no property:

- `prompt()` checks `isStreaming` before awaits (`agent-session.ts:1169`); two calls
  may both pass.  `CodingSession` calls it one at a time, as the interactive mode does.
- Messages drained from a queue and not yet injected (`agent-loop.ts:184`) are lost
  when a listener throws; `NoMessageLost` says nothing of runs where one did.
- `auth.json` is rewritten in place (`auth-storage.ts:187`); a process that dies inside
  the write leaves part of it.  `ensureFileExists` (61-66) creates it outside the lock:
  of two processes that start before it exists, one may write `{}` over what the other
  has stored since.
- The per-file queue of the file tools resolves its key when a mutation is registered
  (`file-mutation-queue.ts:33`); a mutation ahead of it that creates the file or its
  link may change what the path resolves to.
- Deleting a JSONL session (`jsonl/repo.ts:139`) does not look for a storage that is
  open on it.
