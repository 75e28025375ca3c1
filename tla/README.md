# RelationshipOS in TLA+

RelationshipOS (`src/src/relationship_os`, about 100 000 lines of Python) is an event-sourced
runtime of a companion chat. What it knows is folded from the events of streams in an event store.
Most of the code computes (analyzers, decision tables, prompts, reports) and keeps nothing; what is
hard is what the *writers* of a stream do to each other - user turns, background jobs, the
dispatcher of proactive follow-ups, in several processes, across awaits, conflicts and crashes -
and what a long chain of hand-written decisions makes of a line of follow-ups. The models are about
these two. Paths below are relative to `src/src/relationship_os/`.

## 1. Inventory

| component | state it keeps | operations | what makes it correct | modelled by |
|---|---|---|---|---|
| Event store (`domain/event_store.py`, `infrastructure/event_store/*`) | the table of events, `UNIQUE (stream_id, version)` | `append` with or without an expected version, `read_stream`, `read_all` | a stream is a log without gaps, an append is atomic, an expected version is honoured, versions are in the order of the stamps | EventLog, EventStore |
| Background jobs (`application/job_service.py`, `job_executor.py`) | job records (a fold), active tasks, heartbeats, poller | create, retry, claim, renew the lease, run, recover, poll, shutdown | one worker executes a job, it completes once, is tried within its budget, and is not forgotten when a process dies | JobLifecycle, JobExecution |
| Session turns (`application/runtime_service.py`, `application/runtime/*`) | one lock per session and process | `create_session`, `process_turn` | a session starts once; no message of a user is lost without a conflict | SessionTurns |
| Proactive follow-ups (`application/proactive_followup_dispatcher.py`, `proactive_dispatch_handler.py`) | sessions being dispatched, the poller | list what is due, dispatch, record an outcome | the user gets a stage once and in order, only when it is wanted; an outcome is recorded once and is true | SessionTurns, FollowupLine |
| Follow-up schedule (`proactive_followup_service/followup_builder.py`) | none (pure, over events) | due times, guardrail, gate, controllers, the walk over expired stages, lifecycle overrides | touches go down the cadence with their space, an ended line stays ended, a line that nobody serves ends | FollowupLine |
| Decisions of a dispatch (`analyzers/proactive/state.py`, `lifecycle.py`, `lifecycle_machine.py`) | none | fourteen decisions before the dispatch, 52 phases after it | one posture goes through all of them, two sets of tables agree, the listing understands their words | LineDecisions, LifecyclePhases, LifecycleChain, LifecycleBuilders |
| Stream service (`application/stream_service.py`) | cache of projections and saved snapshots | `project_stream`, append and publish | a projection is the fold of a prefix of its stream, nothing applied twice, and has what was there when it was asked for | StreamFeed |
| Event feed (`application/runtime_events.py`, `api/routes/ws.py`) | bounded queues | subscribe, publish, shutdown | the console ends with the latest projection, unless its sender fails or a slow backlog comes last, without a hole, and senders end | StreamFeed |
| Users, profiles, self state (`application/user_service.py`, `runtime/user_profile_turn_updater.py`, `runtime/self_state_writer.py`) | user streams, vectors of the profiles | create, update, link, restore, mix in, persist | a user is created once, sessions are linked to their own user, no turn is lost from a profile | UserStream |
| Memory sync (`application/runtime/memory_scope_syncer.py`) | checkpoints, a background task and a pending request per session | sync now, queue, coalesce | a throttle: how fresh an index is | - |
| Entity, actions (`entity_service.py`, `action_service.py`) | entity streams | read, compute, append without a version | how much of a nudge is kept | - |
| Middleware (`api/middleware.py`) | buckets of the rate limiter | one request | at most the limit in a window | - |
| Analyzers, memory ranking, LLM, projectors, evaluation, console | none of their own | pure computations and pages | values | - |

How they interact. A request or a poll runs in the event loop of one process; between two `await`s
it is atomic. Everything shared by processes goes through the event store: a writer reads a stream,
works (seconds, when the LLM is called), and appends either with the version it has read or with
none. A job claims a record with an expected version and then appends STARTED, COMPLETED and FAILED
without one; a turn and a follow-up append their whole batch with the version they loaded, so any
writer that comes between refuses them; a user's stream takes everything but the creation without a
version. Within one process there are a lock per session for turns (not for dispatches), a set of
sessions being dispatched, a table of active job tasks, the cache of projections, the queues of the
event broker and the vectors of the profiles; they are gone after a crash. `append_events` of the
stream service appends and then publishes to the broker, whose subscribers project the stream again.
What is hard, with the line where it bites, is the list `hazards` of `PROJECT.json`.

## 2. Modules

```
EventLog <--implements-- EventStore        JobLifecycle <--implements-- JobExecution
                             |                                               |
                      EventStoreProofs                               JobExecutionProofs
                                                                             |
                                                                     JobLifecycleProofs

   SessionTurns             StreamFeed             UserStream
        |                       |                      |
SessionTurnsProofs      StreamFeedProofs       UserStreamProofs

                            LifecyclePhases
                                   |
                            LifecycleChain
                             /          \
                  LineDecisions        LifecycleBuilders
                        |    \          /    |
                        |    FollowupLine ---|------- MCFollowupLine
                        |          |         |
                     LifecycleProofs (of the two above)
                                   |
                          FollowupLineProofs (also of FollowupLine)

   (an edge down, or to the right: EXTENDS)
```

MCEventStore, MCJobExecution, MCSessionTurns, MCUserStream and MCFollowupLine instantiate the models
for TLC (symmetry, constraints, the cadence). Operators whose comment says *Mutant*, or that are
named for a slip (`ClaimWinBlind`, `LoadedNever`, ...), are not part of any specification: they are
plausible bugs of the definition that follows them, kept to show that a property would notice.

**EventLog** is what `EventStore.append` promises: a log per stream, an append in one step, refused
when its expected version is not the length. `InMemoryEventStore` does just that under its lock.

**EventStore** is the PostgreSQL implementation as the transaction it is. `ReadVersion` and
`RefuseVersion` are the select of `max(version)` and its comparison, `Insert` waits for a
transaction that holds one of its keys, `InsertConflict` is the IntegrityError, `Commit` and `Leave`
end it. The table is a function from versions to rows, so that a gap could exist. Rows are seen
once committed (READ COMMITTED); stamps come from one clock that does not go back.

**JobLifecycle** is the status machine of a job record: created, claimed (again, when a lease has
run out), started with one attempt counted, ended, retried within the budget.

**JobExecution** is `job_service.py` and `job_executor.py` over the store. `rec` is the fold of a
job's events; `Released`, `Claimed`, `Renewed`, `Started` and `Finished` are the branches of
`_apply_job_event`. `call` is a `recover_jobs` or an API request of a process and goes through
`ListJobs, Schedule, ClaimRead, ClaimWin | ClaimLose, ClaimReread, Launch, EndLoop`; `run` is a
`_run_job` task (`RunLoad, RunStart, RunComplete | RunRaise, RunFail, RunExit`) and `beat` its
heartbeat (`BeatRead, BeatWin | BeatLose`). `Boot` to `BootRefused` are the start of a process with
the retry of failed jobs, `Crash` a crash or a shutdown (neither appends anything), and
`CallFault`, `RunFault`, `BeatFault` a store call that raises. Two abstractions carry the model:
an append with an expected version succeeds exactly while nothing was appended since the read, so
the sets `freshCalls` and `freshBeats` of readers that are still up to date replace version
numbers (`OtherAppend` is any other writer of the session); and a lease is the number of ticks it
has left. `age` is the time between `utc_now()` of `claim_job` and the read it is compared with.

**SessionTurns** is one session stream and everybody who writes it. The log has one entry per
append (the batch of a turn, of a follow-up sent or put off, an outcome, an archiving job). A turn
is `TurnLoad` (lock, read, version), possibly the outcome of an earlier follow-up, `TurnAppend` or
`TurnRefused`; a dispatch cycle is `List` or `ListNone`, `Begin` or `BeginSkipped`, `Load`, possibly
an outcome, `StageRefused`, `Finalize` or `FinalizeConflict`. `OutcomeRead`, `OutcomeAppend` and
`OutcomeConflict` are `record_dispatch_outcome`, which both call. An exception leaves a cycle by
`CycleRaises`: it ends the poll loop, the start of the process, or the request. What router,
analyzers and the decision chain conclude is a choice here: a turn brings no directive, one that
holds or one that is ready; a dispatch is sent or put off. Time is two flags: a stage of the current
directive is due, and two days have passed since the last follow-up.

**FollowupLine** takes up what SessionTurns leaves to choice: one session, a clock, the schedule and
the decisions. `Turn` replaces the directive; `ListDue` is the poll's listing and takes an item that
is due; `DispatchPending` dispatches it at some later moment, and either finds it already sent
(`Refused`) or takes the whole decision chain and records what it leaves behind: the touch, the
word of the dispatch gate, the delays of the two controllers, the posture of the lifecycle. The next
listing reads all of it: `BaseDueAt`, `CooledAt`, `GuardedAt`, `ControlledAt` and `DueAt` are the
steps of the schedule in the order of `followup_builder.py`, `GivenUp`, `Successor` and `Entries`
the walk over stages whose time is over, `Reading` and `Makes` the override by the recorded
lifecycle (`ReadOn` is one table of it). What gate and controllers say, which weighs dozens of moods, is a choice among the words
they can say (`GateDecisions`, `LineStates`, `DispatchesOf`).

**LineDecisions** has one operator per builder of the decision chain between controllers and the
outcome (`StageTransition` to `LifecycleResolution`), each a function of a dispatch and of the
decisions before it. **LifecyclePhases** has the order of the 52 phases that follow, what each
decides in its five cases, and the tables by which the listing reads them; **LifecycleChain** walks
down these phases as `lifecycle_machine.py` does, **LifecycleBuilders** as the 52 builders of
`lifecycle.py` do, which the tests call and the handler does not. At its end stand what is said of
two chains (`AgreesOn`, `KeepsAlong`, `IsUnderstood`), of which FollowupLine makes its invariants. An
operator for an `if`/`elif` chain of the code is an IF chain wherever two of its conditions can hold
at once; a CASE is used where they exclude each other.

**StreamFeed** is one process whose console connections watch one stream. `AppendEvent` and
`Publish` are the two halves of `append_events`; `Put` is a bounded queue that loses its oldest
batch; a task's `project_stream` goes through loading, reading, writing the cache, saving and
pushing, each the end of an await, while other tasks do the same; `Connect`, `Subscribe`,
`SendBacklog`, `Forward` and `Disconnect` are the websocket; `ShutDown` and `Restart` the process. A
snapshot is saved without an expected version: `ReadSnapshotVersion` is the `max(version)` of the
store, `SaveSnapshot` the insert, which succeeds as long as no other save has come since (`fresh`),
one of the connections or of somebody else (`OtherSave`). A save that came second raises out of
`project_stream`. Nobody catches it: a sender ends and leaves its connection open (`SenderRefused`),
a receiver takes its connection with it (`ReceiverRefused`). With the in-memory store no save is
refused, which is the case where every task stays fresh.

**UserStream** is the streams of the users of one process. A request is `CreateUser`, `UpdateUser`,
or `CreateSession, StartSession, LinkSession`; a turn is `TakeTurn`, which mixes its message into
the vector that the process has or goes on to `ReadIndex | IndexFails` and `Restore`, and at its end
`Reflect` (the self state) or `EndTurn`. Each ends in an append: `Begin` and `Insert`, `Refused` or
`AppendFails`. A vector is the set of the turns mixed into it, whatever their weights.

## 3. Runs

| run | what it checks | instance |
|---|---|---|
| `jobs_leases` | `TypeOK`, `ExecutorHoldsJob`, `CompletedOnce`, `HolderIffLeased`, `RetryBudget`, `ClaimTakesFreeJob`, `EveryJobEnds` (liveness) | two processes, one job, one crash; 635 564 states |
| `jobs_settle` | `ImplementsLifecycle` (refinement), `EveryJobSettles` (liveness) | one process with one request next to its poller, one raising call, two crashes; 25 952 states |
| `jobs_heartbeat` | `SlowJobKeepsLease` is **violated** | one process, one job |
| `jobs_requeue` | `RequeuedOnlyWhenAllowed` is **violated** | one process, two requests |
| `store_race` | `TypeOK`, `NoVersionGap`, `VersionOrderIsTimeOrder`, `AppendsFollowExpected`, `ImplementsLog` (refinement) | three clients, two streams, batches of one or two; 138 724 states |
| `sessions` | `TypeOK`, `StartedOnce`, `FollowupIsWanted`, `OneOutcomeEach`, `StagesAdvance` | two processes, each with a request, a poller and a manual dispatch, one crash; 1 337 767 states |
| `sessions_refused` | `RefusedOnlyWhenOvertaken` is **violated** | one process, one request, its poller |
| `sessions_outcome` | `OutcomeIsTrue` is **violated** | the same |
| `line` | `TypeOK`, `TouchesInOrder`, `SpaceIsKept`, `RetiredStaysRetired`, `LinesEnd` (liveness); `BuildersAgree`, `PostureKept`, `ListingUnderstands` of the phases | two turns, three stages, 21 units of time; 345 817 states |
| `line_final` | `FinalTouchIsSent` is **violated** | the same |
| `feed` | `TypeOK`, `ProjectionIsPrefix`, `ReturnedIsCurrent`, `FeedIsCurrent`, `NoHole`, `SenderGoesOn`, `SenderEnds` (liveness) | one connection with a queue of two, two projecting tasks, three events, a save of somebody else, one restart; 1 725 347 states |
| `users` | `TypeOK`, `CreatedFirst`, `LinkedIsStarted`, `AnsweredUserIsKnown`, `ProfilesGrow` | two users, two sessions, two requests, three turns, one raising call, one crash; 3 624 418 states |

The bounds. *Jobs*: two processes are the least that can take a job from each other, and two
requests the least that can both pass the check of a retry; a tick is the only unit of time, so
`TTL = 1` with `MaxLag = 1` already lets a lease run out between steps and a clock be read
before it; `MaxAttempts = 2` is the default of the settings. `Tokens` holds more tokens than can be
referred to at once. Attempts are counted up to one beyond the budget, completions up to two.
*Store*: three clients let one insert wait for another while a third has read before either; batches
of two distinguish a batch from a row. *Sessions*: new turns, cycles and jobs start only below
`MaxLog` entries (three, and five where a violation is shown), and what is in progress then goes on
beyond it; at most three tasks are busy at a time (`FewBusy`), which is one more than any of the races
named by the hazards needs. With two stages and `MaxDispatch = 2` the last stage closes the line and
the dispatches are used up. *Line*: the cadence of the code has three stages and five kinds of
spacing; the constants are small but keep the relations that matter (the second stage's own space is
longer than its interval, the first stage alone stays overdue for a while before it is given up).
After `LastMove = 10` only the clock moves, and 21 units are past the end of every line that can be
left by then, so that `LinesEnd` speaks of lines and not of the bound. *Feed*: a queue of two can
lose a batch, keep one and take the sentinel; the receiver and the sender of one connection are the
two tasks that race on the cache and on the saved snapshot, and two connections share nothing else.
`MinDelta = 2` has projections that are saved and others that are not, and a save is refused after one
of the other task or of `OtherSave`. The console asks once,
which is enough for its answer to meet the forwarding; the theorems hold for any number of
questions. *Users*: two users are the least for a restore to empty somebody else's vector, two sessions for two turns of one user, two requests for two
creations; `FewTurns` stops at three turns in all, enough for a profile to be persisted, lost with
the process, restored and persisted again. Workers, clients, processes, requests, users and sessions
are interchangeable, and symmetry is used in runs without liveness only.

Deadlock. It is checked in the runs on jobs (`Tick` goes on for ever, so what is shown is that no
state blocks time for good). The runs on the store, sessions, the line, the feed and users stop when
the bounded work is done and switch the check off.

## 4. Fairness

- `JobExecution`'s `FairSpec`: weak fairness of every task of a process (an event loop runs what is
  ready), of a boot (a supervisor starts a process that is down) and of time, and strong fairness of
  `ClaimWin`: a claim that is tried again every half second is not beaten by another writer of the
  session every time. Requests, other writers, errors and crashes are not fair.
  `EveryJobSettles` has one process because two can take a job from each other for ever, each
  appending STARTED just after the other's last event; `EveryJobEnds` holds even so, without raising
  calls: one ends the poll loop for good (`job_executor.py:224`).
- `FollowupLine`'s `FairSpec`: time passes. No poll, turn or dispatch is fair: that a line ends must
  not depend on anybody serving it.
- `StreamFeed`'s `FairSpec`: the event loop runs the sender of each connection (its `queue.get` and
  its projections, refused or not). Appends, publications, the console, its receiver and the shutdown
  are not fair.
- The store, sessions and users state no liveness: whether an append is retried is up to clients.

## 5. Assumptions

- *Prompt*. With `Prompt = TRUE` a tick passes only while no store call is in progress, that is,
  store calls are short against the lease (milliseconds against `job_claim_ttl_seconds`, 5 s). The
  lifecycle refinement (with its proof) and liveness need it; the other proofs do without, so that
  the safety of jobs holds at any relative speed.
- One clock: stamps of the store do not go back. With skewed clocks of several hosts
  `VersionOrderIsTimeOrder` is false, and so would be what folds `read_all`.
- `SessionTurns` compares positions in the log where the code compares `occurred_at`, which
  `VersionOrderIsTimeOrder` justifies within a stream.
- In `SessionTurns` a directive that is ready never triggers at once
  (`analyzers/proactive/directive.py` asks for at least 600 s), so a new directive makes `due`
  false. `TwoDaysPass` only while nothing is in progress: no request takes two days.
- The two concurrent reads of a follow-up listing (`asyncio.gather` of the projection and of the
  events) are one step, and the plans of all directives have the same number of stages.
- `FollowupLine` has one session whose listing, dispatch and turn are each one step; what can happen
  between the reads and the append of one dispatch is the subject of `SessionTurns`.
- `UserStream` reads an index that shows everything appended before, as `ReturnedIsCurrent` of
  `StreamFeed` has it, and clients do not write `profile_ema_128` into the metadata themselves.
- A claim token (a uuid4) is one that nothing refers to.

## 6. What the code does otherwise

Five runs show a disagreement; `findings` of `PROJECT.json` quotes what each contradicts.

1. `SlowJobKeepsLease`: the heartbeat's append expects a version, meets the STARTED event of its own
   run, and `_heartbeat_loop` returns on the first `False`. A healthy run longer than the lease is
   taken over and the job runs twice.
2. `RequeuedOnlyWhenAllowed`: the check of `_requeue_job` and its append are not atomic. The second of
   two retries requeues a job that is running.
3. `RefusedOnlyWhenOvertaken`: the first turn after an answered follow-up appends the outcome to the
   session and then fails on the version it took before; the message and the reply are lost.
4. `OutcomeIsTrue`: "ignored" is recorded of a follow-up the user has just answered, and "responded"
   of one that was sent in between.
5. `FinalTouchIsSent`: the dispatch of `final_soft_close` decides to retire the line before anything
   is sent, and the retirement then keeps the touch from being sent.

Some properties name a condition, kept by a history variable, without which they fail; each
condition is a weakness of the code rather than of the model. `lapsed` and `reopened` mark jobs hit by
a takeover of an expired lease or by an unchecked requeue, and the safety properties of jobs speak of
the others (`Undisturbed`): these are the two ways, and by the theorems the only two, to lose a
claim. `dropped` marks connections whose full queue lost a batch. `FeedIsCurrent` has two exceptions,
and no document of the repository says what should happen in them. After a refused save
(`stream_service.py:344`, `postgres.py:76`) the sender is dead: `_forward_runtime_updates` catches a
disconnect and a cancellation only (`ws.py:324`), nobody looks at the task before the connection ends,
and the console, which still has its pings answered, gets nothing more. And the two tasks of a
connection do not wait for each other: a projection that was read for the backlog may be pushed after
the sender's newer one and stays on the console until the next event (`Overtaken`). TLC finds both
within the bounds of `feed` when the exception is left out, the first also without `OtherSave`, from
the two tasks of one connection. `shaken` marks users of whom two
turns were mixed in at a time, whose index could not be read when a turn needed it, or whose link the
store failed: two overlapping turns append in either order, so that the profile without the later
turn may come last and is what a restart restores; a failed read starts a profile from nothing, and
it overwrites the one that is persisted; a failed link is only logged.

## 7. What is proved

For every value of the constants, from `JobAssumption`, `StoreAssumption`, `SessionAssumption`,
`FeedAssumption`, `UserAssumption`, `LabelAssumption`, `TablesAssumption`, `CadenceAssumption` and
`LineAssumption`: every invariant and every action property of the passing runs, and both
refinements. Each proof has one inductive invariant `IInv`, which says what every task knows of the
state it has read; TLC checked each of them as an invariant of a run before it was proved.

- `EventStoreProofs`: `StreamsHaveNoGap`, `VersionsFollowTime`, `ExpectedVersionIsHonoured`,
  `StoreTypeCorrectness`, and `TransactionsImplementLog`, the refinement: every step of the
  transactions is a step of `EventLog` or a stutter, for any clients and streams. `IInv` says that
  the table is a sequence of rows, that the keys of an inserted transaction are its next versions and
  no other transaction has inserted in that stream, and that what a stamped transaction builds on is
  committed and stamped earlier. The last part is needed because a stamp is taken long before its row
  is visible. For the refinement, the rows that a commit makes visible are shown to be the batch of
  the request, put at the end of what was visible before.
- `JobExecutionProofs`: `TypeCorrectness`, `OnlyLeasedJobsAreHeld`, `ExecutorsHoldTheirJobs`,
  `AttemptsAreBounded`, `JobsCompleteOnce`, `ClaimsTakeFreeJobs`. None of the properties is
  inductive alone. `IInv` adds what the tasks know: a claimer whose version still fits saw a job that
  can still be claimed (`FreshClaimsOK`, since time only makes leases expire), a heartbeat whose
  version still fits beats for the holder (`FreshBeatsOK`), a run has the token it was launched with
  (`TasksOK`), and whoever waits for a run has an attempt left (`AttemptLeft`). A step changes the
  record of one job at most, so the proof keeps one predicate per job (`JobOK`) and a lemma per kind
  of step (of a call, a run, a heartbeat, an append, a dying process), and then one lemma per action.
- `SessionTurnsProofs`: `SessionTypeCorrectness`, `SessionsStartOnce`, `StagesOnlyAdvance`,
  `FollowupsAreWanted`, `OutcomesAreSingle`, for any number of processes, requests, stages and
  crashes. An append says nothing of what its writer had read but its length, so `IInv` adds what a
  task knows of the prefix it has read (`TaskOK`): the follow-up it records an outcome of had none,
  and what it dispatches was wanted. `FactsKept` shows that this stays true while others append, and
  `LogAppended` that an entry which lands right after such a prefix keeps the log in order; then
  there is one lemma per group of actions.
- `StreamFeedProofs`: `FeedTypeCorrectness`, `ProjectionsArePrefixes`, `ProjectionsAreCurrent`,
  `FeedsAreCurrent`, `FeedsHaveNoHole`, `SendersGoOn`, for any number of connections, events and
  restarts and any size of queue. That a quiet console is current is not inductive: `WillBeCurrent`
  says that as long as it is not, and its sender has not ended, there is still something that will
  bring it up to date (an event to be published, a batch in its queue, a projection under way), and
  `WillBeWhole` says of every event on which of these ways it still comes, or that it has come. What
  is on the console is what was pushed last, by either task. A sender may push an older projection
  over a newer answer of the receiver; `SenderCatchesUp` says that then a batch is still to come. The
  reverse order, which nothing makes good, is the exception `Overtaken`.
- `UserStreamProofs`: `UserTypeCorrectness`, `UsersAreCreatedFirst`, `SessionsLinkOnce`,
  `AnsweredUsersAreKnown`, `ProfilesOnlyGrow`, for any number of users, sessions, requests, turns,
  faults and crashes. `CallsOK` says which batches a caller can be about to insert and that nobody
  relies on more events than there are: a batch that creates a user relies on none, and a refusal
  shows that there are some. `RightsOK` says that the right to link a session is one request's, who
  has not used it. `MixOK` says of a user that is not shaken that one turn at a time mixes, and that
  the vector of the process, the snapshot a turn has read and the profile it is about to insert each
  have every turn that is persisted.
- `JobLifecycleProofs`: `OneProcessImplementsLifecycle`, the refinement that run `jobs_settle` checks,
  for any number of jobs, tokens, attempts, faults and crashes, under `OneProcess`: one process, one
  request at a time, and `Prompt`. What `run_job` appends has no expected version, so each event must
  be shown to follow from what was read before an await. `IInv` does not say so, as it knows only of
  jobs that are `Undisturbed`, and a crash lets leases lapse in one process too. `AloneInv` adds that a
  claim is new while its run has not started (`NewClaim`), that nobody claims what the process itself
  executes over a lease that has run out (`CallFits`: the poller passes over its own tasks), and that
  what a run has read of its record is still so (`RunFits`). There is one lemma per action, which ends
  in a step of `JobLifecycle` or a stutter. None of the three conditions can be dropped: with
  each of them left out in turn, TLC finds a run whose COMPLETED lands on a job that was claimed anew
  meanwhile (a second process, or a call older than its lease) or a job requeued while it runs (a
  second request, the finding of `jobs_requeue`).
- `LifecycleProofs`: `PosturesGoDown`, for any stage labels: of every posture a dispatch can resolve,
  the builders and the machine agree in all 52 phases, it is kept along them, and the listing reads
  it in each. The tables are hand-written, and equal only up to the words of their phases, so the proof
  has three layers. `BuildersFollowTheTable` and `TheListingFollowsTheTable` show that every row is
  an instance of one pattern, in the noun and verb of its phase and of the one before; the first four
  phases, whose builders are written out, have a lemma each. `DecisionAfter` and `BuilderAfter` show
  of one phase that machine and builder make the same of a decision in one of the five cases
  (`CaseAfter`). The chains are recursive functions:
  `ChainByPhase` shows that they are what their recursion says, `EachPhaseDecides` takes the case
  of the resolution to every phase. Both go by `PhaseInduction`, which is proved from the least
  element of a set of numbers (`WFMin`), since an induction theorem with an operator as its parameter
  is not available.
- `FollowupLineProofs`: `LineTypeCorrectness`, `TouchesGoDownTheCadence`, `TouchesKeepTheirSpace`,
  `RetirementIsFinal`, `BuildersAlwaysAgree`, `PostureIsAlwaysKept`, `ListingAlwaysUnderstands`, for
  any cadence, spacing, delays and numbers of turns. That touches stay within the plan is not
  inductive, since the dispatch does not look at the plan again. `PendingFits` says what is still
  true of an item between its listing and its dispatch, turns or not: the line has a touch left and
  is not retired, and if no turn came since then the item has its space. It rests on `DueItemsFit`:
  whatever walk over given-up stages (`Entries`, by the same induction) and whatever delays, an item
  that is due is past the guardrail of its stage (`DueKeepsSpace`). That retirement is final comes
  from the phases too: an ended posture is ended in the last of them, whose table the listing reads
  first; it ends the item whatever the stage, and no later table takes that back (`RetiredIsRead`).

The attempt to prove the last two changed the model in two places. `StageOf` (the stage that a phase
speaks of) and `OnExpired` were CASEs whose conditions overlap, of which TLC takes the first and the
prover any: they are now IF chains in the order of the code. And the chains, which were RECURSIVE
helpers, are recursive functions now, with the same values.

Only model-checked is liveness under fairness, with all that rests on ENABLED, which the prover cannot
do: `EveryJobEnds`, `EveryJobSettles`, `LinesEnd`, `SenderEnds`. The five properties of section 6 are
false.

## 8. What is not modelled, and why

- *What feeds the decision chain*: the plans of a turn, directive, aggregate governance, refresh,
  replan, feedback, the reasons of gate and controllers. They are some six thousand lines of
  thresholds over analysed moods; what they can say is a choice in `FollowupLine`, so that its
  properties hold whatever they say.
- *Memory sync*: a throttle of a best-effort index; a sync too many or too few changes no event.
- *Entity and actions*: floating-point drives and moods, whose lost updates no property tells apart.
- *Rate limiter*: one synchronous function of the clock.
- *Analyzers, prompts, LLM calls, text extraction, memory ranking*: numbers and texts no property
  tells apart. *Evaluation, audit, scenario reports, console pages*, which are a third of the code
  with their tables of summaries: read-only computations over recorded events. *Projectors*: folds,
  modelled by what their readers take from them. This is most of the lines of the repository, and
  the reason why the models cover a small share of them.
- *In the modelled parts*: benchmark probe sessions, which write no outcome and no directive; the
  `as_of` of a manual dispatch; a session that its first turn starts, which is linked to no user;
  `replay_stream` and `rebuild_projection`, which fold a stream once and keep nothing; the limit of
  connections; `POST /streams/{id}/events`, by which an operator may append anything. In `StreamFeed` a
  save is the only call of the store that raises: a read that fails has the effect of a refused save,
  but there is no race in it. Other callers of `project_stream` in the process write the same cache;
  to the connection they are one more task, of which the theorems allow any number.
- *Beyond the bounds of the runs, but in the theorems*: a lease that runs out within a store call
  (`Prompt` is `TRUE` in every configuration of the jobs, and `TypeCorrectness` to `ClaimsTakeFreeJobs`
  do not assume it), and outcomes recorded by a turn (in the bounds of `sessions` only dispatches
  record any; `OutcomesAreSingle` is about both).

`components` of `PROJECT.json` has the full list with reasons; `hazards` lists what can go wrong, at
its line, with the properties about it, and says of four why no property covers them: the poll loops
that end with an exception (the models have the step, and no document says what should happen), the
entity's lost updates, and the buffered touch that is never due.
