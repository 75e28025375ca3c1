---------------------------- MODULE JobExecution ----------------------------
(***************************************************************************)
(* Background jobs of RelationshipOS: application/job_service.py (the      *)
(* job record folded from the events of a session stream, its leases and   *)
(* claims) and application/job_executor.py (the recovery loop, the claim   *)
(* and launch of a job, its run and its heartbeat) over the event store,   *)
(* with several executor processes on one database.                        *)
(*                                                                         *)
(* Every await that reads or writes the store is a step of its own; what   *)
(* happens between two awaits is atomic, as it is in one event loop.       *)
(*                                                                         *)
(*  - A record is the fold of its job's events, so an append is the        *)
(*    application of its events to the record.                             *)
(*  - An append with expected_version succeeds exactly when nothing was    *)
(*    appended to the session since the version was read: freshCalls and   *)
(*    freshBeats hold the readers of which that is still so.  EventStore   *)
(*    shows that the store behaves like this.                              *)
(*  - Time is relative: a lease is the number of ticks until it expires,   *)
(*    down to NoLease, which also stands for a missing expiry.             *)
(*  - A claim token (a uuid4) is the least token nothing refers to.        *)
(***************************************************************************)
EXTENDS Integers, FiniteSets

CONSTANTS
  Workers,      \* executor processes (one JobExecutor each)
  Jobs,         \* jobs of one session stream
  Handlers,     \* API requests a process serves at a time
  Poller,       \* the slot of recover_jobs, at startup and in the poll loop
  Tokens,       \* claim tokens
  None,         \* no owner, no token, no job
  MaxAttempts,  \* max_attempts of every job
  TTL,          \* lease length in ticks (job_claim_ttl_seconds)
  MaxLag,       \* bound: ticks between claim_job's utc_now() and its read
  MaxFaults,    \* bound: store calls that raise
  MaxCrashes,   \* bound: crashes and shutdowns of a process
  Prompt        \* TRUE: a tick is longer than any chain of store calls

ASSUME JobAssumption ==
  /\ None \notin Workers /\ None \notin Jobs /\ None \notin Tokens
  /\ Poller \notin Handlers
  /\ Tokens \subseteq Nat
  /\ MaxAttempts \in Nat \ {0} /\ TTL \in Nat \ {0}
  /\ MaxLag \in Nat /\ MaxFaults \in Nat /\ MaxCrashes \in Nat
  /\ Prompt \in BOOLEAN

VARIABLES
  rec,          \* job -> its JobRecord
  phase,        \* worker -> life of the process
  call,         \* worker -> slot -> the schedule_job / retry_job in progress
  run,          \* worker -> job -> its _run_job task (_active_tasks)
  beat,         \* worker -> job -> its _heartbeat_loop task
  freshCalls,   \* claims whose expected_version is still the stream's
  freshBeats,   \* heartbeats whose expected_version is still the stream's
  faults,       \* store calls that have raised
  crashes,      \* processes that have crashed
  lapsed,       \* history: jobs claimed over a lease that had expired
  reopened,     \* history: jobs requeued while no retry was allowed
  completions   \* history: job -> COMPLETED events, up to 2

store == <<rec, freshCalls, freshBeats>>
tasks == <<run, beat>>
history == <<lapsed, reopened, completions>>
budget == <<faults, crashes>>
vars == <<rec, phase, call, run, beat, freshCalls, freshBeats, faults,
          crashes, lapsed, reopened, completions>>

-----------------------------------------------------------------------------
(* Records, tasks and their initial values. *)

Callers == Handlers \cup {Poller}
NoLease == -MaxLag
Lease == NoLease .. TTL
AttemptCap == MaxAttempts + 1
Attempts == 0 .. AttemptCap

Leased == {"claimed", "running"}
RecoverableQueued == {"queued"}                                          \* mutant
Recoverable == {"queued"} \cup Leased
Status == {"none", "queued", "claimed", "running", "completed", "failed"}

Record == [status: Status, attempt: Attempts, owner: Workers \cup {None},
           token: Tokens \cup {None}, lease: Lease]
CallPc == {"idle", "bootretry", "requeue", "loop", "read", "append",
           "reread", "launch", "asleep", "list", "dead"}
Call == [pc: CallPc, todo: SUBSET Jobs, job: Jobs \cup {None},
         age: 0 .. MaxLag, token: Tokens \cup {None}]
RunPc == {"idle", "load", "start", "work", "fail", "exit"}
Run == [pc: RunPc, token: Tokens \cup {None}, attempt: Attempts, lease: Lease]
BeatPc == {"off", "read", "append", "sleep"}

NoRecord == [status |-> "none", attempt |-> 0, owner |-> None,
             token |-> None, lease |-> NoLease]
IdleCall == [pc |-> "idle", todo |-> {}, job |-> None, age |-> 0,
             token |-> None]
IdleRun == [pc |-> "idle", token |-> None, attempt |-> 0, lease |-> NoLease]

(* lease_is_expired and can_be_claimed of a utc_now() taken age ticks ago. *)
LeaseIsExpired(r, age) == r.status \in Leased /\ r.lease + age <= 0
CanBeClaimed(r, age) == r.status = "queued" \/ LeaseIsExpired(r, age)
CanRetryOnceMore(r) == r.status = "failed" /\ r.attempt <= MaxAttempts    \* mutant
CanRetrySettled(r) ==                                                    \* mutant
  r.status \in {"failed", "completed"} /\ r.attempt < MaxAttempts
CanRetry(r) == r.status = "failed" /\ r.attempt < MaxAttempts

(* The events a job's record is folded from. *)
Released(r, status) ==
  [r EXCEPT !.status = status, !.owner = None, !.token = None,
            !.lease = NoLease]
Claimed(r, w, t) ==
  [r EXCEPT !.status = "claimed", !.owner = w, !.token = t, !.lease = TTL]
Renewed(r, w, t) == [r EXCEPT !.owner = w, !.token = t, !.lease = TTL]
Started(r, w, task) ==
  [r EXCEPT !.status = "running", !.attempt = task.attempt, !.owner = w,
            !.token = task.token, !.lease = task.lease]
Finished(r, status, task) ==
  [Released(r, status) EXCEPT !.attempt = task.attempt]

NextAttempt(n) == IF n < AttemptCap THEN n + 1 ELSE n
TickDownUnbounded(l) == l - 1                                            \* mutant
TickDown(l) == IF l > NoLease THEN l - 1 ELSE NoLease

(* An append to the session makes every version read before it stale. *)
AppendTo(j, r) ==
  /\ rec' = [rec EXCEPT ![j] = r]
  /\ freshCalls' = {}
  /\ freshBeats' = {}

UsedTokens ==
  {rec[j].token : j \in Jobs}
    \cup {call[w][k].token : w \in Workers, k \in Callers}
    \cup {run[w][j].token : w \in Workers, j \in Jobs}
FreshToken ==
  {t \in Tokens \ UsedTokens : \A u \in Tokens \ UsedTokens : t <= u}

Active(w, j) == run[w][j].pc # "idle"
Holds(w, j) == rec[j].owner = w /\ rec[j].token = run[w][j].token

(* The loop over jobs goes on with the next one. *)
NextJob(c) == [c EXCEPT !.pc = "loop", !.job = None, !.age = 0, !.token = None]
SetCall(w, k, c) == call' = [call EXCEPT ![w][k] = c]
SetRun(w, j, task) == run' = [run EXCEPT ![w][j] = task]
SetBeat(w, j, pc) == beat' = [beat EXCEPT ![w][j] = pc]

-----------------------------------------------------------------------------
(* Creating and retrying jobs. *)

Init ==
  /\ rec = [j \in Jobs |-> NoRecord]
  /\ phase = [w \in Workers |-> "down"]
  /\ call = [w \in Workers |-> [k \in Callers |-> IdleCall]]
  /\ run = [w \in Workers |-> [j \in Jobs |-> IdleRun]]
  /\ beat = [w \in Workers |-> [j \in Jobs |-> "off"]]
  /\ freshCalls = {} /\ freshBeats = {}
  /\ faults = 0 /\ crashes = 0
  /\ lapsed = {} /\ reopened = {}
  /\ completions = [j \in Jobs |-> 0]

(* create_offline_consolidation_job, called outside the request flow. *)
CreateJob(j) ==
  /\ rec[j].status = "none"
  /\ AppendTo(j, Released(rec[j], "queued"))
  /\ UNCHANGED <<phase, call, tasks, budget, history>>

(* POST /jobs/offline-consolidation: create the job, then schedule it. *)
ApiCreate(w, k, j) ==
  /\ phase[w] = "up" /\ call[w][k].pc = "idle"
  /\ rec[j].status = "none"
  /\ AppendTo(j, Released(rec[j], "queued"))
  /\ SetCall(w, k, [IdleCall EXCEPT !.pc = "loop", !.todo = {j}])
  /\ UNCHANGED <<phase, tasks, budget, history>>

(* POST /jobs/{id}/retry: _requeue_job reads the record and checks it ... *)
ApiRetry(w, k, j) ==
  /\ phase[w] = "up" /\ call[w][k].pc = "idle"
  /\ CanRetry(rec[j])
  /\ SetCall(w, k, [IdleCall EXCEPT !.pc = "requeue", !.todo = {j}, !.job = j])
  /\ UNCHANGED <<store, phase, tasks, budget, history>>

(* ... and appends REQUEUED without an expected version. *)
Requeue(w, k) ==
  LET c == call[w][k] IN
  /\ c.pc = "requeue"
  /\ AppendTo(c.job, Released(rec[c.job], "queued"))
  /\ reopened' = IF CanRetry(rec[c.job])
                 THEN reopened ELSE reopened \cup {c.job}
  /\ SetCall(w, k, IF k = Poller THEN [c EXCEPT !.pc = "bootretry", !.job = None]
                                 ELSE NextJob(c))
  /\ UNCHANGED <<phase, tasks, budget, lapsed, completions>>

-----------------------------------------------------------------------------
(* The life of a process and its recovery loop. *)

(* What a process loses when it dies, or when its start fails. *)
Die(w) ==
  /\ phase' = [phase EXCEPT ![w] = "down"]
  /\ call' = [call EXCEPT ![w] = [k \in Callers |-> IdleCall]]
  /\ run' = [run EXCEPT ![w] = [j \in Jobs |-> IdleRun]]
  /\ beat' = [beat EXCEPT ![w] = [j \in Jobs |-> "off"]]
  /\ freshCalls' = freshCalls \ ({w} \X Callers)
  /\ freshBeats' = freshBeats \ ({w} \X Jobs)

(* The lifespan starts: recover_jobs(startup) lists the failed jobs. *)
Boot(w) ==
  /\ phase[w] = "down"
  /\ phase' = [phase EXCEPT ![w] = "boot"]
  /\ SetCall(w, Poller, [IdleCall EXCEPT !.pc = "bootretry",
                                         !.todo = {j \in Jobs : CanRetry(rec[j])}])
  /\ UNCHANGED <<store, tasks, budget, history>>

(* retry_job_for_recovery reads the record of a listed job again. *)
BootRetry(w, j) ==
  LET c == call[w][Poller] IN
  /\ c.pc = "bootretry" /\ j \in c.todo
  /\ CanRetry(rec[j])
  /\ SetCall(w, Poller, [c EXCEPT !.pc = "requeue", !.job = j, !.todo = @ \ {j}])
  /\ UNCHANGED <<store, phase, tasks, budget, history>>

(* JobRetryNotAllowedError: nothing catches it and the start fails. *)
BootRefused(w, j) ==
  /\ call[w][Poller].pc = "bootretry" /\ j \in call[w][Poller].todo
  /\ ~CanRetry(rec[j])
  /\ Die(w)
  /\ UNCHANGED <<rec, budget, history>>

(* recover_jobs lists the queued, claimed and running jobs: at startup when *)
(* no retry is left, and after each sleep of _poll_loop.                    *)
ListJobs(w) ==
  LET c == call[w][Poller] IN
  /\ \/ c.pc = "bootretry" /\ c.todo = {}
     \/ c.pc \in IF Prompt THEN {"list"} ELSE {"list", "asleep"}
  /\ SetCall(w, Poller, [c EXCEPT !.pc = "loop",
                           !.todo = {j \in Jobs : rec[j].status \in Recoverable}])
  /\ UNCHANGED <<store, phase, tasks, budget, history>>

(* schedule_job, first lock: a job with an active task is passed over.     *)
(* claim_job takes utc_now() here; its first read only filters what the    *)
(* second checks again.                                                    *)
Schedule(w, k, j) ==
  LET c == call[w][k] IN
  /\ c.pc = "loop" /\ j \in c.todo
  /\ SetCall(w, k, IF Active(w, j) THEN [c EXCEPT !.todo = @ \ {j}]
                   ELSE [c EXCEPT !.pc = "read", !.job = j, !.todo = @ \ {j}])
  /\ UNCHANGED <<store, phase, tasks, budget, history>>

EndLoop(w, k) ==
  /\ call[w][k].pc = "loop" /\ call[w][k].todo = {}
  /\ IF k = Poller
     THEN SetCall(w, k, [IdleCall EXCEPT !.pc = "asleep"]) /\ phase' = [phase EXCEPT ![w] = "up"]
     ELSE SetCall(w, k, IdleCall) /\ UNCHANGED phase
  /\ UNCHANGED <<store, tasks, budget, history>>

-----------------------------------------------------------------------------
(* claim_job, and the launch of the task. *)

(* The record and the version it was read at. *)
ClaimRead(w, k) ==
  LET c == call[w][k] IN
  /\ c.pc = "read"
  /\ IF CanBeClaimed(rec[c.job], c.age)
     THEN /\ SetCall(w, k, [c EXCEPT !.pc = "append", !.age = 0])
          /\ freshCalls' = freshCalls \cup {<<w, k>>}
     ELSE SetCall(w, k, NextJob(c)) /\ UNCHANGED freshCalls
  /\ UNCHANGED <<rec, freshBeats, phase, tasks, budget, history>>

(* Mutant: the claim names no expected version. *)
ClaimWinBlind(w, k) ==
  LET c == call[w][k] IN
  /\ c.pc = "append"
  /\ \E t \in FreshToken : AppendTo(c.job, Claimed(rec[c.job], w, t))
  /\ lapsed' = IF LeaseIsExpired(rec[c.job], 0)
               THEN lapsed \cup {c.job} ELSE lapsed
  /\ SetCall(w, k, [c EXCEPT !.pc = "reread"])
  /\ UNCHANGED <<phase, tasks, budget, reopened, completions>>

(* [LEASE_EXPIRED,] CLAIMED at the expected version. *)
ClaimWin(w, k) ==
  LET c == call[w][k] IN
  /\ c.pc = "append" /\ <<w, k>> \in freshCalls
  /\ \E t \in FreshToken : AppendTo(c.job, Claimed(rec[c.job], w, t))
  /\ lapsed' = IF LeaseIsExpired(rec[c.job], 0)
               THEN lapsed \cup {c.job} ELSE lapsed
  /\ SetCall(w, k, [c EXCEPT !.pc = "reread"])
  /\ UNCHANGED <<phase, tasks, budget, reopened, completions>>

(* OptimisticConcurrencyError: claim_job returns None. *)
ClaimLose(w, k) ==
  /\ call[w][k].pc = "append" /\ <<w, k>> \notin freshCalls
  /\ SetCall(w, k, NextJob(call[w][k]))
  /\ UNCHANGED <<store, phase, tasks, budget, history>>

(* claim_job returns get_job(): whatever token the record has by now. *)
ClaimReread(w, k) ==
  LET c == call[w][k] IN
  /\ c.pc = "reread"
  /\ SetCall(w, k, IF rec[c.job].token = None THEN NextJob(c)
                   ELSE [c EXCEPT !.pc = "launch", !.token = rec[c.job].token])
  /\ UNCHANGED <<store, phase, tasks, budget, history>>

(* schedule_job, second lock: the claim is left alone when another call of *)
(* this process has launched the job meanwhile.                            *)
Launch(w, k) ==
  LET c == call[w][k] IN
  /\ c.pc = "launch"
  /\ IF Active(w, c.job)
     THEN UNCHANGED tasks
     ELSE /\ SetRun(w, c.job, [IdleRun EXCEPT !.pc = "load", !.token = c.token])
          /\ SetBeat(w, c.job, "read")
  /\ SetCall(w, k, NextJob(c))
  /\ UNCHANGED <<store, phase, budget, history>>

-----------------------------------------------------------------------------
(* run_job. *)

(* The record is read and checked once ... *)
RunLoad(w, j) ==
  LET task == run[w][j] IN
  /\ task.pc = "load"
  /\ SetRun(w, j, IF rec[j].status \in {"queued", "claimed"} /\ Holds(w, j)
                  THEN [task EXCEPT !.pc = "start", !.lease = rec[j].lease,
                                    !.attempt = NextAttempt(rec[j].attempt)]
                  ELSE [task EXCEPT !.pc = "exit"])
  /\ UNCHANGED <<store, phase, call, beat, budget, history>>

(* ... and STARTED is appended without an expected version: it carries the *)
(* owner, token and lease of the record that was read.                     *)
RunStart(w, j) ==
  /\ run[w][j].pc = "start"
  /\ AppendTo(j, Started(rec[j], w, run[w][j]))
  /\ SetRun(w, j, [run[w][j] EXCEPT !.pc = "work", !.lease = NoLease])
  /\ UNCHANGED <<phase, call, beat, budget, history>>

(* The consolidation succeeds; its events and COMPLETED are one append. *)
RunComplete(w, j) ==
  /\ run[w][j].pc = "work"
  /\ AppendTo(j, Finished(rec[j], "completed", run[w][j]))
  /\ completions' = [completions EXCEPT ![j] = IF @ < 2 THEN @ + 1 ELSE @]
  /\ SetRun(w, j, [run[w][j] EXCEPT !.pc = "exit"])
  /\ UNCHANGED <<phase, call, beat, budget, lapsed, reopened>>

(* The consolidation, or the append of its events, raises. *)
RunRaise(w, j) ==
  /\ run[w][j].pc = "work"
  /\ SetRun(w, j, [run[w][j] EXCEPT !.pc = "fail"])
  /\ UNCHANGED <<store, phase, call, beat, budget, history>>

RunFail(w, j) ==
  /\ run[w][j].pc = "fail"
  /\ AppendTo(j, Finished(rec[j], "failed", run[w][j]))
  /\ SetRun(w, j, [run[w][j] EXCEPT !.pc = "exit"])
  /\ UNCHANGED <<phase, call, beat, budget, history>>

(* The finally of _run_job: cancel the heartbeat, forget the task. *)
RunExit(w, j) ==
  /\ run[w][j].pc = "exit"
  /\ SetRun(w, j, IdleRun)
  /\ SetBeat(w, j, "off")
  /\ freshBeats' = freshBeats \ {<<w, j>>}
  /\ UNCHANGED <<rec, freshCalls, phase, call, budget, history>>

-----------------------------------------------------------------------------
(* renew_job_lease in _heartbeat_loop, which returns for good on the first *)
(* False.                                                                  *)

BeatRead(w, j) ==
  /\ beat[w][j] \in IF Prompt THEN {"read"} ELSE {"read", "sleep"}
  /\ IF rec[j].status \in Leased /\ Holds(w, j)
     THEN SetBeat(w, j, "append") /\ freshBeats' = freshBeats \cup {<<w, j>>}
     ELSE SetBeat(w, j, "off") /\ UNCHANGED freshBeats
  /\ UNCHANGED <<rec, freshCalls, phase, call, run, budget, history>>

(* Mutant: the heartbeat names no expected version. *)
BeatWinBlind(w, j) ==
  /\ beat[w][j] = "append"
  /\ AppendTo(j, Renewed(rec[j], w, run[w][j].token))
  /\ SetBeat(w, j, "sleep")
  /\ UNCHANGED <<phase, call, run, budget, history>>

BeatWin(w, j) ==
  /\ beat[w][j] = "append" /\ <<w, j>> \in freshBeats
  /\ AppendTo(j, Renewed(rec[j], w, run[w][j].token))
  /\ SetBeat(w, j, "sleep")
  /\ UNCHANGED <<phase, call, run, budget, history>>

BeatLose(w, j) ==
  /\ beat[w][j] = "append" /\ <<w, j>> \notin freshBeats
  /\ SetBeat(w, j, "off")
  /\ UNCHANGED <<store, phase, call, run, budget, history>>

-----------------------------------------------------------------------------
(* The environment: other writers, time, store errors and crashes. *)

(* A turn, the follow-up dispatcher or another job appends to the session. *)
OtherAppend ==
  /\ freshCalls' = {} /\ freshBeats' = {}
  /\ UNCHANGED <<rec, phase, call, tasks, budget, history>>

(* With Prompt, time passes while no store call is in progress, and the    *)
(* sleeps of pollers and heartbeats end with the tick: both intervals are  *)
(* shorter than the lease.                                                 *)
Quiet ==
  \A w \in Workers :
    /\ \A k \in Callers : call[w][k].pc \in {"idle", "asleep", "dead"}
    /\ \A j \in Jobs : /\ run[w][j].pc \in {"idle", "work"}
                       /\ beat[w][j] \in {"off", "sleep"}

Tick ==
  /\ Prompt => Quiet
  /\ \A w \in Workers, k \in Callers :
       call[w][k].pc = "read" => call[w][k].age < MaxLag
  /\ rec' = [j \in Jobs |-> [rec[j] EXCEPT !.lease = TickDown(@)]]
  /\ call' = [w \in Workers |-> [k \in Callers |->
                CASE call[w][k].pc = "read" -> [call[w][k] EXCEPT !.age = @ + 1]
                  [] call[w][k].pc = "asleep" /\ Prompt -> [call[w][k] EXCEPT !.pc = "list"]
                  [] OTHER -> call[w][k]]]
  /\ run' = [w \in Workers |-> [j \in Jobs |->
                [run[w][j] EXCEPT !.lease = TickDown(@)]]]
  /\ beat' = [w \in Workers |-> [j \in Jobs |->
                IF Prompt /\ beat[w][j] = "sleep" THEN "read" ELSE beat[w][j]]]
  /\ UNCHANGED <<freshCalls, freshBeats, phase, budget, history>>

(* A store call raises: a database error, or the unique (stream_id,        *)
(* version) index refusing an append that named no expected version.  The  *)
(* poll loop catches nothing but its cancellation.                         *)
CallFault(w, k) ==
  /\ faults < MaxFaults /\ faults' = faults + 1
  /\ \/ call[w][k].pc \in {"bootretry", "requeue", "list", "read", "append", "reread"}
     \/ call[w][k].pc = "asleep" /\ ~Prompt
     \/ call[w][k].pc = "loop" /\ call[w][k].todo # {}
  /\ IF k = Poller /\ phase[w] = "boot"
     THEN Die(w)
     ELSE /\ SetCall(w, k, [IdleCall EXCEPT !.pc = IF k = Poller THEN "dead" ELSE "idle"])
          /\ freshCalls' = freshCalls \ {<<w, k>>}
          /\ UNCHANGED <<freshBeats, phase, tasks>>
  /\ UNCHANGED <<rec, crashes, history>>

(* _run_job logs what run_job raises; nothing is appended. *)
RunFault(w, j) ==
  /\ faults < MaxFaults /\ faults' = faults + 1
  /\ run[w][j].pc \in {"load", "start", "fail"}
  /\ SetRun(w, j, [run[w][j] EXCEPT !.pc = "exit", !.lease = NoLease])
  /\ UNCHANGED <<store, phase, call, beat, crashes, history>>

BeatFault(w, j) ==
  /\ faults < MaxFaults /\ faults' = faults + 1
  /\ beat[w][j] \in {"read", "append"}
  /\ SetBeat(w, j, "off")
  /\ freshBeats' = freshBeats \ {<<w, j>>}
  /\ UNCHANGED <<rec, freshCalls, phase, call, run, crashes, history>>

(* A crash, or shutdown(): its cancellation appends nothing either. *)
Crash(w) ==
  /\ crashes < MaxCrashes /\ crashes' = crashes + 1
  /\ phase[w] # "down"
  /\ Die(w)
  /\ UNCHANGED <<rec, faults, history>>

-----------------------------------------------------------------------------
CallStep(w, k) ==
  \/ Requeue(w, k) \/ EndLoop(w, k) \/ ClaimRead(w, k) \/ ClaimWin(w, k)
  \/ ClaimLose(w, k) \/ ClaimReread(w, k) \/ Launch(w, k)
  \/ \E j \in Jobs : Schedule(w, k, j)
BootStep(w) ==
  \/ Boot(w) \/ ListJobs(w)
  \/ \E j \in Jobs : BootRetry(w, j) \/ BootRefused(w, j)
RunStep(w, j) ==
  \/ RunLoad(w, j) \/ RunStart(w, j) \/ RunComplete(w, j)
  \/ RunRaise(w, j) \/ RunFail(w, j) \/ RunExit(w, j)
BeatStep(w, j) ==
  BeatRead(w, j) \/ BeatWin(w, j) \/ BeatLose(w, j)
Request(w, k, j) == ApiCreate(w, k, j) \/ ApiRetry(w, k, j)
Failure(w) ==
  \/ Crash(w)
  \/ \E k \in Callers : CallFault(w, k)
  \/ \E j \in Jobs : RunFault(w, j) \/ BeatFault(w, j)

Next ==
  \/ \E j \in Jobs : CreateJob(j)
  \/ \E w \in Workers :
       \/ \E k \in Handlers, j \in Jobs : Request(w, k, j)
       \/ \E k \in Callers : CallStep(w, k)
       \/ \E j \in Jobs : RunStep(w, j) \/ BeatStep(w, j)
       \/ BootStep(w)
       \/ Failure(w)
  \/ OtherAppend
  \/ Tick

Spec == Init /\ [][Next]_vars

(* The event loop runs every task that is ready, a process that is down is *)
(* started again, time passes, and a claim that is tried again and again   *)
(* does not meet another writer every time; requests, other writers,       *)
(* errors and crashes need not happen.                                     *)
Fairness ==
  /\ \A w \in Workers :
       /\ WF_vars(BootStep(w))
       /\ \A k \in Callers : WF_vars(CallStep(w, k)) /\ SF_vars(ClaimWin(w, k))
       /\ \A j \in Jobs : WF_vars(RunStep(w, j)) /\ WF_vars(BeatStep(w, j))
  /\ WF_vars(Tick)
FairSpec == Spec /\ Fairness

-----------------------------------------------------------------------------
TypeOK ==
  /\ rec \in [Jobs -> Record]
  /\ phase \in [Workers -> {"down", "boot", "up"}]
  /\ call \in [Workers -> [Callers -> Call]]
  /\ run \in [Workers -> [Jobs -> Run]]
  /\ beat \in [Workers -> [Jobs -> BeatPc]]
  /\ freshCalls \subseteq Workers \X Callers
  /\ freshBeats \subseteq Workers \X Jobs
  /\ faults \in 0 .. MaxFaults /\ crashes \in 0 .. MaxCrashes
  /\ lapsed \subseteq Jobs /\ reopened \subseteq Jobs
  /\ completions \in [Jobs -> 0 .. 2]

-----------------------------------------------------------------------------
(* Properties. *)

(* A worker is between the check of its claim and the last event of its run. *)
Executing(w, j) == run[w][j].pc \in {"start", "work", "fail"}

(* No claim went over an expired lease and no requeue hit a job that must  *)
(* not be retried: the two ways, and the only two, to lose a claim.        *)
Undisturbed(j) == j \notin lapsed \cup reopened

Settled(j) == rec[j].status \in {"completed", "failed"}

(* A claimed or running job names its holder, and any other job names none *)
(* and has no lease: no late heartbeat gives a settled or requeued job     *)
(* back to a worker (HEARTBEAT sets owner, token and lease, not status).   *)
HolderIffLeased ==
  \A j \in Jobs :
    IF rec[j].status \in Leased
    THEN rec[j].owner # None /\ rec[j].token # None
    ELSE rec[j].owner = None /\ rec[j].token = None /\ rec[j].lease = NoLease

(* The job's record is in the hands of every worker that executes it, so   *)
(* one worker at most does: run_job checks the claim once, at its start,   *)
(* and appends the rest without an expected version.                       *)
ExecutorHoldsJob ==
  \A j \in Jobs, w \in Workers :
    Undisturbed(j) /\ Executing(w, j) =>
      /\ Holds(w, j)
      /\ rec[j].status = IF run[w][j].pc = "start" THEN "claimed" ELSE "running"

(* A job is not attempted more often than max_attempts, although neither   *)
(* claim_job nor run_job looks at the limit: _requeue_job alone does.      *)
RetryBudget ==
  \A j \in Jobs : Undisturbed(j) => rec[j].attempt <= MaxAttempts

(* A job completes once and stays completed: a session gets one snapshot   *)
(* of a job.                                                               *)
CompletedOnce ==
  \A j \in Jobs : Undisturbed(j) =>
    completions[j] = IF rec[j].status = "completed" THEN 1 ELSE 0

(* When CLAIMED lands the job is queued or its lease has expired, although *)
(* that was checked on a record read earlier.                              *)
ClaimsFreeJob ==
  \A j \in Jobs :
    rec'[j].status = "claimed" /\ rec'[j].token # rec[j].token =>
      rec[j].status = "queued" \/ LeaseIsExpired(rec[j], 0)
ClaimTakesFreeJob == [][ClaimsFreeJob]_vars

(* What the executors know of the record, for every job: the inductive     *)
(* invariant behind the four safety properties above.                      *)

(* A process that is down runs nothing, the steps of a call that work on   *)
(* one job know it, and a launched task has a token while it is registered. *)
TasksOK ==
  /\ \A w \in Workers : phase[w] = "down" => \A k \in Callers : call[w][k].pc = "idle"
  /\ \A w \in Workers, k \in Callers :
       /\ call[w][k].pc \in {"requeue", "read", "append", "reread", "launch"} =>
            call[w][k].job \in Jobs
       /\ call[w][k].pc = "launch" => call[w][k].token # None
  /\ \A w \in Workers, j \in Jobs :
       IF run[w][j].pc = "idle" THEN beat[w][j] = "off" ELSE run[w][j].token # None

(* What a call has read of the record still holds while nothing was        *)
(* appended; time only makes a lease expire.                               *)
FreshClaimsOK ==
  \A w \in Workers, k \in Callers :
    <<w, k>> \in freshCalls =>
      call[w][k].pc = "append" /\ CanBeClaimed(rec[call[w][k].job], 0)

FreshBeatsOK ==
  \A w \in Workers, j \in Jobs :
    <<w, j>> \in freshBeats =>
      beat[w][j] = "append" /\ rec[j].status \in Leased /\ Holds(w, j)

(* A job that waits for a run has an attempt left, and a run has counted   *)
(* its own.                                                                *)
AttemptLeft ==
  \A j \in Jobs : Undisturbed(j) =>
    /\ rec[j].status \in {"none", "queued", "claimed"} => rec[j].attempt < MaxAttempts
    /\ \A w \in Workers : Executing(w, j) => run[w][j].attempt <= MaxAttempts

IInv ==
  /\ TypeOK /\ TasksOK /\ FreshClaimsOK /\ FreshBeatsOK
  /\ HolderIffLeased /\ ExecutorHoldsJob /\ CompletedOnce
  /\ AttemptLeft /\ RetryBudget

(* Every job that is created ends up completed or failed, whatever process *)
(* crashed holding it, when no store call raises: its lease runs out and   *)
(* some poller claims it again.                                            *)
EveryJobEnds ==
  [](faults = 0) => \A j \in Jobs : rec[j].status # "none" ~> Settled(j)

(* With one process it even remains so.  Two processes can take the job    *)
(* from each other for ever, each appending its STARTED just after the     *)
(* other's last event.                                                     *)
EveryJobSettles ==
  [](faults = 0) => \A j \in Jobs : rec[j].status # "none" ~> [](Settled(j))

(* The heartbeat keeps a slow job alive: while a worker executes a job it  *)
(* holds, the lease does not expire.                                       *)
SlowJobKeepsLease ==
  \A j \in Jobs, w \in Workers :
    run[w][j].pc = "work" /\ Holds(w, j) => ~LeaseIsExpired(rec[j], 0)

(* A job is requeued only while its status and its budget allow a retry. *)
RequeuedOnlyWhenAllowed == reopened = {}

(* One process with short store calls implements the promised lifecycle:   *)
(* a job starts only when claimed, ends only when running, is retried only *)
(* within its budget, and a completed job stays so - whatever requests,    *)
(* polls and heartbeats interleave and wherever the process crashes.       *)
Lifecycle == INSTANCE JobLifecycle WITH
  status <- [j \in Jobs |-> rec[j].status],
  attempt <- [j \in Jobs |-> rec[j].attempt]
ImplementsLifecycle == Lifecycle!Spec
=============================================================================
