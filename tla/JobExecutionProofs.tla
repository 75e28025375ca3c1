------------------------- MODULE JobExecutionProofs -------------------------
(***************************************************************************)
(* Theorems about JobExecution, for any processes, jobs, handlers, tokens, *)
(* lease lengths, attempt limits and numbers of faults and crashes, and    *)
(* for store calls of any length (Prompt may be FALSE).                    *)
(*                                                                         *)
(* One inductive invariant, IInv, carries all of them.  Its core is that   *)
(* a worker which executes an undisturbed job is its owner: then two       *)
(* workers never execute it at once, no run but the owner's changes the    *)
(* record, and the counts of attempts and completions follow.  What keeps  *)
(* it inductive is that a claim or a heartbeat whose expected version is   *)
(* still the stream's was checked on the record as it is now.              *)
(***************************************************************************)
EXTENDS JobExecution, TLAPS

-----------------------------------------------------------------------------
(* Records, and the steps that set one entry. *)

LEMMA ConstantsOK ==
  /\ Poller \in Callers /\ Handlers \subseteq Callers
  /\ NoLease \in Int /\ NoLease <= 0 /\ NoLease \in Lease /\ TTL \in Lease
  /\ NoRecord \in Record /\ IdleCall \in Call /\ IdleRun \in Run
<1> USE JobAssumption
<1>1. NoLease \in Int /\ NoLease <= 0 /\ NoLease \in Lease /\ TTL \in Lease
  BY DEF NoLease, Lease
<1>2. 0 \in Attempts
  BY DEF Attempts, AttemptCap
<1>3. NoRecord \in Record
  BY <1>1, <1>2 DEF NoRecord, Record, Status
<1>4. IdleCall \in Call
  BY DEF IdleCall, Call, CallPc
<1>5. IdleRun \in Run
  BY <1>1, <1>2 DEF IdleRun, Run, RunPc
<1> QED
  BY <1>1, <1>3, <1>4, <1>5 DEF Callers

LEMMA EventsKeepRecords ==
  ASSUME NEW r \in Record, NEW w \in Workers, NEW t \in Tokens,
         NEW task \in Run, NEW status \in Status
  PROVE  /\ Released(r, status) \in Record
         /\ Claimed(r, w, t) \in Record
         /\ Renewed(r, w, task.token) \in Record
         /\ Started(r, w, task) \in Record
         /\ Finished(r, status, task) \in Record
         /\ [r EXCEPT !.lease = TickDown(@)] \in Record
<1>1. Released(r, status) \in Record
  BY ConstantsOK DEF Released, Record
<1>2. Claimed(r, w, t) \in Record
  BY ConstantsOK DEF Claimed, Record, Status
<1>3. Renewed(r, w, task.token) \in Record
  BY ConstantsOK DEF Renewed, Record, Run
<1>4. Started(r, w, task) \in Record
  BY DEF Started, Record, Run, Status
<1>5. Finished(r, status, task) \in Record
  BY <1>1 DEF Finished, Record, Run
<1>6. \A l \in Lease : TickDown(l) \in Lease
  BY ConstantsOK, JobAssumption DEF TickDown, Lease
<1>7. [r EXCEPT !.lease = TickDown(@)] \in Record
  BY <1>6 DEF Record
<1> QED
  BY <1>1, <1>2, <1>3, <1>4, <1>5, <1>7

(* What the steps that set one entry do to the others. *)
LEMMA SetCallEffect ==
  ASSUME TypeOK, NEW w \in Workers, NEW k \in Callers, NEW c \in Call,
         SetCall(w, k, c)
  PROVE  /\ call' \in [Workers -> [Callers -> Call]]
         /\ call'[w][k] = c
         /\ \A v \in Workers, h \in Callers :
              v # w \/ h # k => call'[v][h] = call[v][h]
<1>1. call \in [Workers -> [Callers -> Call]]
  BY DEF TypeOK
<1>2. call' = [call EXCEPT ![w][k] = c]
  BY DEF SetCall
<1> QED
  BY <1>1, <1>2

LEMMA SetRunEffect ==
  ASSUME TypeOK, NEW w \in Workers, NEW j \in Jobs, NEW task \in Run,
         SetRun(w, j, task)
  PROVE  /\ run' \in [Workers -> [Jobs -> Run]]
         /\ run'[w][j] = task
         /\ \A v \in Workers, i \in Jobs :
              v # w \/ i # j => run'[v][i] = run[v][i]
<1>1. run \in [Workers -> [Jobs -> Run]]
  BY DEF TypeOK
<1>2. run' = [run EXCEPT ![w][j] = task]
  BY DEF SetRun
<1> QED
  BY <1>1, <1>2

LEMMA SetBeatEffect ==
  ASSUME TypeOK, NEW w \in Workers, NEW j \in Jobs, NEW pc \in BeatPc,
         SetBeat(w, j, pc)
  PROVE  /\ beat' \in [Workers -> [Jobs -> BeatPc]]
         /\ beat'[w][j] = pc
         /\ \A v \in Workers, i \in Jobs :
              v # w \/ i # j => beat'[v][i] = beat[v][i]
<1>1. beat \in [Workers -> [Jobs -> BeatPc]]
  BY DEF TypeOK
<1>2. beat' = [beat EXCEPT ![w][j] = pc]
  BY DEF SetBeat
<1> QED
  BY <1>1, <1>2

LEMMA AppendEffect ==
  ASSUME TypeOK, NEW j \in Jobs, NEW r \in Record, AppendTo(j, r)
  PROVE  /\ rec' \in [Jobs -> Record]
         /\ rec'[j] = r
         /\ \A i \in Jobs : i # j => rec'[i] = rec[i]
         /\ freshCalls' = {} /\ freshBeats' = {}
<1>1. rec \in [Jobs -> Record]
  BY DEF TypeOK
<1>2. rec' = [rec EXCEPT ![j] = r]
  BY DEF AppendTo
<1> QED
  BY <1>1, <1>2 DEF AppendTo

(* The part of the invariant that is about one job, and its frame. *)
JobOK(j) ==
  /\ IF rec[j].status \in Leased
     THEN rec[j].owner # None /\ rec[j].token # None
     ELSE rec[j].owner = None /\ rec[j].token = None /\ rec[j].lease = NoLease
  /\ Undisturbed(j) =>
       /\ \A w \in Workers : Executing(w, j) =>
            /\ Holds(w, j)
            /\ rec[j].status = IF run[w][j].pc = "start" THEN "claimed" ELSE "running"
            /\ run[w][j].attempt <= MaxAttempts
       /\ completions[j] = IF rec[j].status = "completed" THEN 1 ELSE 0
       /\ rec[j].status \in {"none", "queued", "claimed"} => rec[j].attempt < MaxAttempts
       /\ rec[j].attempt <= MaxAttempts

LEMMA InvariantByJob ==
  /\ IInv <=> /\ TypeOK /\ TasksOK /\ FreshClaimsOK /\ FreshBeatsOK
              /\ \A j \in Jobs : JobOK(j)
  /\ IInv' <=> /\ TypeOK' /\ TasksOK' /\ FreshClaimsOK' /\ FreshBeatsOK'
               /\ \A j \in Jobs : JobOK(j)'
<1>1. HolderIffLeased /\ ExecutorHoldsJob /\ CompletedOnce /\ AttemptLeft /\ RetryBudget
        <=> \A j \in Jobs : JobOK(j)
  BY DEF JobOK, HolderIffLeased, ExecutorHoldsJob, CompletedOnce, AttemptLeft, RetryBudget
<1>2. (HolderIffLeased /\ ExecutorHoldsJob /\ CompletedOnce /\ AttemptLeft /\ RetryBudget)'
        <=> \A j \in Jobs : JobOK(j)'
  BY DEF JobOK, HolderIffLeased, ExecutorHoldsJob, CompletedOnce, AttemptLeft, RetryBudget
<1> QED
  BY <1>1, <1>2 DEF IInv

LEMMA JobKept ==
  ASSUME NEW j \in Jobs, JobOK(j), rec'[j] = rec[j],
         \A w \in Workers : run'[w][j] = run[w][j],
         lapsed \subseteq lapsed', reopened \subseteq reopened',
         completions'[j] = completions[j]
  PROVE  JobOK(j)'
BY DEF JobOK, Undisturbed, Executing, Holds

(* A step that moves one call on, reading only. *)
LEMMA CallOnlyStep ==
  ASSUME IInv, NEW w \in Workers, NEW k \in Callers, NEW c \in Call,
         SetCall(w, k, c),
         call[w][k].pc # "append" \/ <<w, k>> \notin freshCalls',
         c.pc \in {"requeue", "read", "append", "reread", "launch"} =>
           c.job \in Jobs,
         c.pc = "launch" => c.token # None,
         phase'[w] # "down", \A v \in Workers : v # w => phase'[v] = phase[v],
         UNCHANGED <<rec, run, beat, freshBeats, history>>,
         freshCalls' \subseteq freshCalls,
         phase' \in [Workers -> {"down", "boot", "up"}],
         faults' \in 0 .. MaxFaults, crashes' \in 0 .. MaxCrashes
  PROVE  IInv'
<1>1. /\ call' \in [Workers -> [Callers -> Call]]
      /\ call'[w][k] = c
      /\ \A v \in Workers, h \in Callers :
           v # w \/ h # k => call'[v][h] = call[v][h]
  BY SetCallEffect DEF IInv
<1>2. TypeOK'
  BY <1>1 DEF IInv, TypeOK, history
<1>3. TasksOK'
  <2>1. \A v \in Workers : phase'[v] = "down" => \A h \in Callers : call'[v][h].pc = "idle"
    BY <1>1 DEF IInv, TasksOK
  <2>2. \A v \in Workers, h \in Callers :
          /\ call'[v][h].pc \in {"requeue", "read", "append", "reread", "launch"} =>
               call'[v][h].job \in Jobs
          /\ call'[v][h].pc = "launch" => call'[v][h].token # None
    BY <1>1 DEF IInv, TasksOK
  <2>3. run' = run /\ beat' = beat
    OBVIOUS
  <2> QED
    BY <2>1, <2>2, <2>3 DEF IInv, TasksOK
<1>4. FreshClaimsOK'
  <2> SUFFICES ASSUME NEW v \in Workers, NEW h \in Callers,
                      <<v, h>> \in freshCalls'
               PROVE  /\ call'[v][h].pc = "append"
                      /\ CanBeClaimed(rec'[call'[v][h].job], 0)
    BY DEF FreshClaimsOK, CanBeClaimed, LeaseIsExpired
  <2>1. call[v][h].pc = "append" /\ CanBeClaimed(rec[call[v][h].job], 0)
    BY DEF IInv, FreshClaimsOK
  <2>2. v # w \/ h # k
    BY <2>1
  <2> QED
    BY <1>1, <2>1, <2>2
<1>5. FreshBeatsOK'
  BY DEF IInv, FreshBeatsOK, Holds
<1>6. \A j \in Jobs : JobOK(j)'
  BY JobKept, InvariantByJob DEF history
<1> QED
  BY <1>2, <1>3, <1>4, <1>5, <1>6, InvariantByJob

(* A step that moves one run on, reading only. *)
LEMMA RunOnlyStep ==
  ASSUME IInv, NEW w \in Workers, NEW j \in Jobs, NEW task \in Run,
         SetRun(w, j, task),
         run[w][j].pc # "idle", task.pc # "idle", task.token = run[w][j].token,
         Undisturbed(j) /\ task.pc \in {"start", "work", "fail"} =>
           /\ Holds(w, j)
           /\ rec[j].status = IF task.pc = "start" THEN "claimed" ELSE "running"
           /\ task.attempt <= MaxAttempts,
         UNCHANGED <<store, phase, call, beat, crashes, history>>,
         faults' \in 0 .. MaxFaults
  PROVE  IInv'
<1>1. /\ run' \in [Workers -> [Jobs -> Run]]
      /\ run'[w][j] = task
      /\ \A v \in Workers, i \in Jobs :
           v # w \/ i # j => run'[v][i] = run[v][i]
  BY SetRunEffect DEF IInv
<1>2. TypeOK'
  BY <1>1 DEF IInv, TypeOK, store, history
<1>3. TasksOK'
  BY <1>1 DEF IInv, TasksOK
<1>4. FreshClaimsOK'
  BY DEF IInv, FreshClaimsOK, store, CanBeClaimed, LeaseIsExpired
<1>5. FreshBeatsOK'
  <2>1. \A v \in Workers, i \in Jobs : run'[v][i].token = run[v][i].token
    BY <1>1
  <2> QED
    BY <2>1 DEF IInv, FreshBeatsOK, Holds, store
<1>6. \A i \in Jobs : i # j => JobOK(i)'
  BY <1>1, JobKept, InvariantByJob DEF history, store
<1>7. JobOK(j)'
  <2>1. JobOK(j)
    BY InvariantByJob
  <2>2. rec' = rec /\ UNCHANGED history
    BY DEF store
  <2>3. ASSUME NEW v \in Workers, Undisturbed(j), Executing(v, j)'
        PROVE  /\ Holds(v, j)'
               /\ rec'[j].status = IF run'[v][j].pc = "start" THEN "claimed" ELSE "running"
               /\ run'[v][j].attempt <= MaxAttempts
    <3>1. CASE v = w
      BY <1>1, <2>2, <2>3, <3>1 DEF Executing, Holds
    <3>2. CASE v # w
      BY <1>1, <2>1, <2>2, <2>3, <3>2 DEF JobOK, Executing, Holds
    <3> QED
      BY <3>1, <3>2
  <2> QED
    BY <2>1, <2>2, <2>3 DEF JobOK, Undisturbed, history
<1> QED
  BY <1>2, <1>3, <1>4, <1>5, <1>6, <1>7, InvariantByJob

(* A step of a heartbeat that appends nothing. *)
LEMMA BeatOnlyStep ==
  ASSUME IInv, NEW w \in Workers, NEW j \in Jobs, NEW pc \in BeatPc,
         SetBeat(w, j, pc), run[w][j].pc # "idle" \/ pc = "off",
         freshBeats' \subseteq freshBeats \cup {<<w, j>>},
         <<w, j>> \in freshBeats' =>
           pc = "append" /\ rec[j].status \in Leased /\ Holds(w, j),
         UNCHANGED <<rec, freshCalls, phase, call, run, crashes, history>>,
         faults' \in 0 .. MaxFaults
  PROVE  IInv'
<1>1. /\ beat' \in [Workers -> [Jobs -> BeatPc]]
      /\ beat'[w][j] = pc
      /\ \A v \in Workers, i \in Jobs :
           v # w \/ i # j => beat'[v][i] = beat[v][i]
  BY SetBeatEffect DEF IInv
<1>2. TypeOK'
  BY <1>1 DEF IInv, TypeOK, history
<1>3. TasksOK'
  BY <1>1 DEF IInv, TasksOK
<1>4. FreshClaimsOK'
  BY DEF IInv, FreshClaimsOK, CanBeClaimed, LeaseIsExpired
<1>5. FreshBeatsOK'
  BY <1>1 DEF IInv, FreshBeatsOK, Holds
<1>6. \A i \in Jobs : JobOK(i)'
  BY JobKept, InvariantByJob DEF history
<1> QED
  BY <1>2, <1>3, <1>4, <1>5, <1>6, InvariantByJob

(* A process loses its tasks. *)
LEMMA DieStep ==
  ASSUME IInv, NEW w \in Workers, Die(w), UNCHANGED <<rec, history>>,
         faults' \in 0 .. MaxFaults, crashes' \in 0 .. MaxCrashes
  PROVE  IInv'
<1>1. /\ \A k \in Callers : call'[w][k] = IdleCall
      /\ \A j \in Jobs : run'[w][j] = IdleRun /\ beat'[w][j] = "off"
      /\ \A v \in Workers : v # w =>
           call'[v] = call[v] /\ run'[v] = run[v] /\ beat'[v] = beat[v]
  BY DEF Die, IInv, TypeOK
<1>2. /\ freshCalls' \subseteq freshCalls /\ freshBeats' \subseteq freshBeats
      /\ \A k \in Callers : <<w, k>> \notin freshCalls'
      /\ \A j \in Jobs : <<w, j>> \notin freshBeats'
  BY DEF Die
<1>3. TypeOK'
  BY <1>2, ConstantsOK DEF Die, IInv, TypeOK, history, BeatPc
<1>4. TasksOK'
  <2>1. \A v \in Workers : v # w => phase'[v] = phase[v]
    BY DEF Die, IInv, TypeOK
  <2> QED
    BY <1>1, <2>1 DEF IInv, TasksOK, IdleCall, IdleRun
<1>5. FreshClaimsOK'
  BY <1>1, <1>2 DEF IInv, FreshClaimsOK, CanBeClaimed, LeaseIsExpired
<1>6. FreshBeatsOK'
  BY <1>1, <1>2 DEF IInv, FreshBeatsOK, Holds
<1>7. ASSUME NEW j \in Jobs PROVE JobOK(j)'
  <2>1. JobOK(j) /\ UNCHANGED <<lapsed, reopened, completions>>
    BY InvariantByJob DEF history
  <2>2. ~Executing(w, j)'
    BY <1>1 DEF Executing, IdleRun
  <2> QED
    BY <1>1, <2>1, <2>2 DEF JobOK, Undisturbed, Executing, Holds
<1> QED
  BY <1>3, <1>4, <1>5, <1>6, <1>7, InvariantByJob

(* An append: what was read before is stale, and other jobs keep theirs. *)
LEMMA AppendStep ==
  ASSUME IInv, NEW j \in Jobs, NEW r \in Record, AppendTo(j, r),
         TypeOK', TasksOK', JobOK(j)',
         \A i \in Jobs : i # j =>
           /\ \A w \in Workers : run'[w][i] = run[w][i]
           /\ completions'[i] = completions[i],
         lapsed \subseteq lapsed', reopened \subseteq reopened'
  PROVE  IInv'
<1>1. /\ \A i \in Jobs : i # j => rec'[i] = rec[i]
      /\ freshCalls' = {} /\ freshBeats' = {}
  BY AppendEffect DEF IInv
<1>2. FreshClaimsOK' /\ FreshBeatsOK'
  BY <1>1 DEF FreshClaimsOK, FreshBeatsOK
<1>3. \A i \in Jobs : i # j => JobOK(i)'
  BY <1>1, JobKept, InvariantByJob
<1> QED
  BY <1>2, <1>3, InvariantByJob

LEMMA LoopSteps ==
  ASSUME IInv, NEW w \in Workers, NEW k \in Callers
  PROVE  /\ call[w][k] \in Call
         /\ run[w] \in [Jobs -> Run] /\ beat[w] \in [Jobs -> BeatPc]
         /\ \A j \in Jobs : rec[j] \in Record /\ run[w][j] \in Run
         /\ NextJob(call[w][k]) \in Call /\ NextJob(call[w][k]).pc = "loop"
         /\ call[w][k].pc # "idle" => phase[w] # "down"
<1>1. call[w][k] \in Call
  BY DEF IInv, TypeOK
<1>2. 0 \in 0 .. MaxLag
  BY JobAssumption
<1>3. \A c \in Call : NextJob(c) \in Call /\ NextJob(c).pc = "loop"
  BY <1>2 DEF NextJob, Call, CallPc
<1> QED
  BY <1>1, <1>3 DEF IInv, TypeOK, TasksOK

-----------------------------------------------------------------------------
(* The steps that create and requeue jobs. *)

LEMMA QueuedJob ==
  ASSUME IInv, NEW j \in Jobs, rec[j].status = "none",
         AppendTo(j, Released(rec[j], "queued")), UNCHANGED <<run, history>>
  PROVE  JobOK(j)' /\ Released(rec[j], "queued") \in Record
<1> DEFINE r == Released(rec[j], "queued")
<1>1. rec[j] \in Record
  BY DEF IInv, TypeOK
<1>2. /\ r \in Record /\ r.status = "queued" /\ r.owner = None
      /\ r.token = None /\ r.lease = NoLease /\ r.attempt = rec[j].attempt
  BY <1>1, ConstantsOK DEF Released, Record, Status
<1>3. rec'[j] = r
  BY <1>2, AppendEffect DEF IInv
<1>4. JobOK(j)
  BY InvariantByJob
<1>5. Undisturbed(j) => \A w \in Workers : ~Executing(w, j)
  BY <1>4 DEF JobOK
<1>6. JobOK(j)'
  BY <1>2, <1>3, <1>4, <1>5 DEF JobOK, Executing, Undisturbed, Leased, history
<1> QED
  BY <1>2, <1>6

LEMMA CreateJobStep ==
  ASSUME IInv, NEW j \in Jobs, CreateJob(j)
  PROVE  IInv'
<1>1. JobOK(j)' /\ Released(rec[j], "queued") \in Record
  BY QueuedJob DEF CreateJob, tasks
<1>2. TypeOK'
  BY <1>1, AppendEffect DEF CreateJob, IInv, TypeOK, tasks, budget, history
<1>3. TasksOK'
  BY DEF CreateJob, IInv, TasksOK, tasks
<1>4. AppendTo(j, Released(rec[j], "queued"))
      /\ UNCHANGED <<run, lapsed, reopened, completions>>
  BY DEF CreateJob, tasks, history
<1> QED
  BY <1>1, <1>2, <1>3, <1>4, AppendStep

LEMMA ApiCreateStep ==
  ASSUME IInv, NEW w \in Workers, NEW k \in Handlers, NEW j \in Jobs,
         ApiCreate(w, k, j)
  PROVE  IInv'
<1> DEFINE c == [IdleCall EXCEPT !.pc = "loop", !.todo = {j}]
<1>1. k \in Callers
  BY ConstantsOK
<1>2. JobOK(j)' /\ Released(rec[j], "queued") \in Record
  BY QueuedJob DEF ApiCreate, tasks
<1>3. c \in Call /\ c.pc = "loop"
  BY ConstantsOK DEF IdleCall, Call, CallPc
<1>4. SetCall(w, k, c)
  BY DEF ApiCreate
<1> HIDE DEF c
<1>5. /\ call' \in [Workers -> [Callers -> Call]]
      /\ call'[w][k] = c
      /\ \A v \in Workers, h \in Callers :
           v # w \/ h # k => call'[v][h] = call[v][h]
  BY <1>1, <1>3, <1>4, SetCallEffect DEF IInv
<1>6. TypeOK'
  BY <1>2, <1>5, AppendEffect DEF ApiCreate, IInv, TypeOK, tasks, budget, history
<1>7. TasksOK'
  BY <1>3, <1>5 DEF ApiCreate, IInv, TasksOK, tasks
<1>8. AppendTo(j, Released(rec[j], "queued"))
      /\ UNCHANGED <<run, lapsed, reopened, completions>>
  BY DEF ApiCreate, tasks, history
<1> QED
  BY <1>2, <1>6, <1>7, <1>8, AppendStep

LEMMA ApiRetryStep ==
  ASSUME IInv, NEW w \in Workers, NEW k \in Handlers, NEW j \in Jobs,
         ApiRetry(w, k, j)
  PROVE  IInv'
<1> DEFINE c == [IdleCall EXCEPT !.pc = "requeue", !.todo = {j}, !.job = j]
<1>1. k \in Callers
  BY ConstantsOK
<1>2. c \in Call /\ c.pc = "requeue" /\ c.job = j
  BY ConstantsOK DEF IdleCall, Call, CallPc
<1>3. SetCall(w, k, c) /\ call[w][k].pc # "append" /\ phase[w] = "up"
      /\ phase' = phase
  BY DEF ApiRetry
<1>4. /\ phase' \in [Workers -> {"down", "boot", "up"}]
      /\ faults' \in 0 .. MaxFaults /\ crashes' \in 0 .. MaxCrashes
  BY DEF ApiRetry, budget, IInv, TypeOK
<1> QED
  BY <1>1, <1>2, <1>3, <1>4, CallOnlyStep DEF ApiRetry, store, tasks

LEMMA RequeueStep ==
  ASSUME IInv, NEW w \in Workers, NEW k \in Callers, Requeue(w, k)
  PROVE  IInv'
<1> DEFINE c == call[w][k]
<1> PICK j \in Jobs : j = c.job
  BY DEF Requeue, IInv, TasksOK
<1> DEFINE r == Released(rec[j], "queued")
           d == IF k = Poller THEN [c EXCEPT !.pc = "bootretry", !.job = None]
                              ELSE NextJob(c)
<1>1. rec[j] \in Record /\ c \in Call
  BY LoopSteps
<1>2. /\ r \in Record /\ r.status = "queued" /\ r.owner = None
      /\ r.token = None /\ r.lease = NoLease /\ r.attempt = rec[j].attempt
  BY <1>1, ConstantsOK DEF Released, Record, Status
<1>3. d \in Call /\ d.pc \in {"bootretry", "loop"}
  BY <1>1, LoopSteps DEF Call, CallPc
<1>4. AppendTo(j, r) /\ SetCall(w, k, d)
  BY DEF Requeue
<1> HIDE DEF r, d
<1>5. /\ call' \in [Workers -> [Callers -> Call]]
      /\ call'[w][k] = d
      /\ \A v \in Workers, h \in Callers :
           v # w \/ h # k => call'[v][h] = call[v][h]
  BY <1>3, <1>4, SetCallEffect DEF IInv
<1>6. /\ rec' \in [Jobs -> Record] /\ rec'[j] = r
      /\ freshCalls' = {} /\ freshBeats' = {}
  BY <1>1, <1>2, <1>4, AppendEffect DEF IInv
<1>7. TypeOK'
  BY <1>1, <1>5, <1>6 DEF Requeue, IInv, TypeOK, tasks, budget
<1>8. TasksOK'
  BY <1>3, <1>5 DEF Requeue, IInv, TasksOK, tasks
<1>9. /\ UNCHANGED <<run, completions, lapsed>> /\ reopened \subseteq reopened'
      /\ CanRetry(rec[j]) \/ j \in reopened'
      /\ CanRetry(rec[j]) => reopened' = reopened
  BY DEF Requeue, tasks
<1>10. JobOK(j)'
  <2>1. JobOK(j)
    BY <1>1, InvariantByJob
  <2>2. CASE CanRetry(rec[j])
    <3>1. rec[j].status = "failed" /\ rec[j].attempt < MaxAttempts
      BY <2>2 DEF CanRetry
    <3>2. Undisturbed(j) => \A v \in Workers : ~Executing(v, j)
      BY <2>1, <3>1 DEF JobOK
    <3>3. Undisturbed(j)' => Undisturbed(j)
      BY <1>9 DEF Undisturbed
    <3> QED
      BY <1>2, <1>6, <1>9, <2>1, <3>1, <3>2, <3>3 DEF JobOK, Executing, Leased
  <2>3. CASE ~CanRetry(rec[j])
    <3>1. ~Undisturbed(j)'
      BY <1>9, <2>3 DEF Undisturbed
    <3> QED
      BY <1>2, <1>6, <3>1 DEF JobOK, Leased
  <2> QED
    BY <2>2, <2>3
<1> QED
  BY <1>1, <1>2, <1>4, <1>7, <1>8, <1>9, <1>10, AppendStep

-----------------------------------------------------------------------------
(* The life of a process and its loop over jobs. *)

LEMMA BootSteps ==
  ASSUME IInv, NEW w \in Workers, BootStep(w)
  PROVE  IInv'
<1> DEFINE c == call[w][Poller]
<1>1. /\ Poller \in Callers /\ c \in Call /\ IdleCall \in Call
      /\ phase \in [Workers -> {"down", "boot", "up"}]
      /\ faults \in 0 .. MaxFaults /\ crashes \in 0 .. MaxCrashes
      /\ c.pc # "idle" => phase[w] # "down"
  BY ConstantsOK, LoopSteps DEF IInv, TypeOK
<1>2. CASE Boot(w)
  <2> DEFINE d == [IdleCall EXCEPT !.pc = "bootretry",
                                   !.todo = {j \in Jobs : CanRetry(rec[j])}]
  <2>1. d \in Call /\ d.pc = "bootretry"
    BY <1>1 DEF Call, CallPc
  <2>2. SetCall(w, Poller, d) /\ UNCHANGED <<store, tasks, budget, history>>
    BY <1>2 DEF Boot
  <2>3. phase' \in [Workers -> {"down", "boot", "up"}]
    BY <1>1, <1>2 DEF Boot
  <2>4. /\ c.pc = "idle" /\ phase'[w] = "boot"
        /\ \A v \in Workers : v # w => phase'[v] = phase[v]
    BY <1>1, <1>2 DEF Boot, IInv, TasksOK
  <2> QED
    BY <1>1, <2>1, <2>2, <2>3, <2>4, CallOnlyStep DEF store, tasks, budget
<1>3. ASSUME NEW j \in Jobs, BootRetry(w, j) PROVE IInv'
  <2> DEFINE d == [c EXCEPT !.pc = "requeue", !.job = j, !.todo = @ \ {j}]
  <2>1. d \in Call /\ d.pc = "requeue" /\ d.job = j
    BY <1>1 DEF Call, CallPc
  <2>2. /\ SetCall(w, Poller, d) /\ c.pc \notin {"append", "idle"}
        /\ UNCHANGED <<store, phase, tasks, budget, history>>
    BY <1>3 DEF BootRetry
  <2> QED
    BY <1>1, <2>1, <2>2, CallOnlyStep DEF store, tasks, budget
<1>4. ASSUME NEW j \in Jobs, BootRefused(w, j) PROVE IInv'
  BY <1>1, <1>4, DieStep DEF BootRefused, budget
<1>5. CASE ListJobs(w)
  <2> DEFINE d == [c EXCEPT !.pc = "loop",
                     !.todo = {j \in Jobs : rec[j].status \in Recoverable}]
  <2>1. d \in Call /\ d.pc = "loop"
    BY <1>1 DEF Call, CallPc
  <2>2. /\ SetCall(w, Poller, d) /\ c.pc \notin {"append", "idle"}
        /\ UNCHANGED <<store, phase, tasks, budget, history>>
    BY <1>5 DEF ListJobs
  <2> QED
    BY <1>1, <2>1, <2>2, CallOnlyStep DEF store, tasks, budget
<1> QED
  BY <1>2, <1>3, <1>4, <1>5 DEF BootStep

LEMMA ReadingSteps ==
  ASSUME IInv, NEW w \in Workers, NEW k \in Callers,
         \/ \E j \in Jobs : Schedule(w, k, j)
         \/ EndLoop(w, k) \/ ClaimLose(w, k) \/ ClaimReread(w, k)
  PROVE  IInv'
<1> DEFINE c == call[w][k]
<1>1. /\ c \in Call /\ IdleCall \in Call
      /\ phase \in [Workers -> {"down", "boot", "up"}]
      /\ faults \in 0 .. MaxFaults /\ crashes \in 0 .. MaxCrashes
      /\ NextJob(c) \in Call /\ NextJob(c).pc = "loop"
      /\ c.pc # "idle" => phase[w] # "down"
  BY ConstantsOK, LoopSteps DEF IInv, TypeOK
<1>2. ASSUME NEW j \in Jobs, Schedule(w, k, j) PROVE IInv'
  <2> DEFINE d == IF Active(w, j) THEN [c EXCEPT !.todo = @ \ {j}]
                  ELSE [c EXCEPT !.pc = "read", !.job = j, !.todo = @ \ {j}]
  <2>1. SetCall(w, k, d) /\ c.pc = "loop" /\ phase[w] # "down"
        /\ UNCHANGED <<store, phase, tasks, budget, history>>
    BY <1>1, <1>2 DEF Schedule
  <2>2. d \in Call /\ (d.pc = "loop" \/ (d.pc = "read" /\ d.job = j))
    <3>1. CASE Active(w, j)
      BY <1>1, <2>1, <3>1 DEF Call
    <3>2. CASE ~Active(w, j)
      BY <1>1, <3>2 DEF Call, CallPc
    <3> QED
      BY <3>1, <3>2
  <2> HIDE DEF d
  <2> QED
    BY <1>1, <2>1, <2>2, CallOnlyStep DEF store, tasks, budget
<1>3. CASE EndLoop(w, k)
  <2> DEFINE d == IF k = Poller THEN [IdleCall EXCEPT !.pc = "asleep"] ELSE IdleCall
  <2>1. SetCall(w, k, d) /\ c.pc = "loop" /\ UNCHANGED <<store, tasks, budget, history>>
    BY <1>3 DEF EndLoop
  <2>2. d \in Call /\ d.pc \in {"asleep", "idle"}
    BY <1>1 DEF IdleCall, Call, CallPc
  <2>3. /\ phase' \in [Workers -> {"down", "boot", "up"}] /\ phase'[w] # "down"
        /\ \A v \in Workers : v # w => phase'[v] = phase[v]
    BY <1>1, <1>3, <2>1 DEF EndLoop
  <2> HIDE DEF d
  <2> QED
    BY <1>1, <2>1, <2>2, <2>3, CallOnlyStep DEF store, tasks, budget
<1>4. CASE ClaimLose(w, k)
  <2>1. /\ SetCall(w, k, NextJob(c)) /\ <<w, k>> \notin freshCalls /\ phase[w] # "down"
        /\ UNCHANGED <<store, phase, tasks, budget, history>>
    BY <1>1, <1>4 DEF ClaimLose
  <2> QED
    BY <1>1, <2>1, CallOnlyStep DEF store, tasks, budget
<1>5. CASE ClaimReread(w, k)
  <2> PICK j \in Jobs : j = c.job
    BY <1>5 DEF ClaimReread, IInv, TasksOK
  <2> DEFINE d == IF rec[j].token = None THEN NextJob(c)
                  ELSE [c EXCEPT !.pc = "launch", !.token = rec[j].token]
  <2>1. /\ SetCall(w, k, d) /\ c.pc = "reread" /\ phase[w] # "down"
        /\ UNCHANGED <<store, phase, tasks, budget, history>>
    BY <1>1, <1>5 DEF ClaimReread
  <2>2. rec[j].token \in Tokens \cup {None}
    BY DEF IInv, TypeOK, Record
  <2>3. /\ d \in Call
        /\ d.pc = "loop" \/ (d.pc = "launch" /\ d.token # None /\ d.job = j)
    <3>1. CASE rec[j].token = None
      BY <1>1, <3>1
    <3>2. CASE rec[j].token # None
      <4>1. /\ d = [c EXCEPT !.pc = "launch", !.token = rec[j].token]
            /\ c \in [pc: CallPc, todo: SUBSET Jobs, job: Jobs \cup {None},
                       age: 0 .. MaxLag, token: Tokens \cup {None}]
        BY <1>1, <3>2 DEF Call
      <4>2. d.pc = "launch" /\ d.token = rec[j].token /\ d.job = c.job
        BY <4>1
      <4>3. d \in Call
        BY <2>2, <4>1 DEF Call, CallPc
      <4> QED
        BY <3>2, <4>2, <4>3
    <3> QED
      BY <3>1, <3>2
  <2> HIDE DEF d
  <2> QED
    BY <1>1, <2>1, <2>3, CallOnlyStep DEF store, tasks, budget
<1> QED
  BY <1>2, <1>3, <1>4, <1>5

-----------------------------------------------------------------------------
(* The claim and the launch. *)

LEMMA ClaimReadStep ==
  ASSUME IInv, NEW w \in Workers, NEW k \in Callers, ClaimRead(w, k)
  PROVE  IInv'
<1> DEFINE c == call[w][k]
<1> PICK j \in Jobs : j = c.job
  BY DEF ClaimRead, IInv, TasksOK
<1>1. /\ c \in Call /\ c.pc = "read" /\ phase[w] # "down"
      /\ phase \in [Workers -> {"down", "boot", "up"}]
      /\ faults \in 0 .. MaxFaults /\ crashes \in 0 .. MaxCrashes
      /\ NextJob(c) \in Call /\ NextJob(c).pc = "loop"
      /\ rec[j] \in Record
  BY LoopSteps DEF IInv, TypeOK, ClaimRead
<1>2. CASE ~CanBeClaimed(rec[j], c.age)
  <2>1. SetCall(w, k, NextJob(c)) /\ UNCHANGED freshCalls
    BY <1>2 DEF ClaimRead
  <2>2. UNCHANGED <<rec, freshBeats, phase, tasks, budget, history>>
    BY DEF ClaimRead
  <2> QED
    BY <1>1, <2>1, <2>2, CallOnlyStep DEF tasks, budget
<1>3. CASE CanBeClaimed(rec[j], c.age)
  <2> DEFINE d == [c EXCEPT !.pc = "append", !.age = 0]
  <2>1. d \in Call /\ d.pc = "append" /\ d.job = j
    <3>1. 0 \in 0 .. MaxLag
      BY JobAssumption
    <3> QED
      BY <1>1, <3>1 DEF Call, CallPc
  <2>2. /\ SetCall(w, k, d) /\ freshCalls' = freshCalls \cup {<<w, k>>}
        /\ UNCHANGED <<rec, freshBeats, phase, tasks, budget, history>>
    BY <1>3 DEF ClaimRead
  <2> HIDE DEF d
  <2>3. /\ call' \in [Workers -> [Callers -> Call]]
        /\ call'[w][k] = d
        /\ \A v \in Workers, h \in Callers :
             v # w \/ h # k => call'[v][h] = call[v][h]
    BY <2>1, <2>2, SetCallEffect DEF IInv
  <2>4. TypeOK'
    BY <2>2, <2>3 DEF IInv, TypeOK, tasks, budget, history
  <2>5. TasksOK'
    <3>1. \A v \in Workers : phase'[v] = "down" => \A h \in Callers : call'[v][h].pc = "idle"
      BY <1>1, <2>2, <2>3 DEF IInv, TasksOK
    <3>2. \A v \in Workers, h \in Callers :
            /\ call'[v][h].pc \in {"requeue", "read", "append", "reread", "launch"} =>
                 call'[v][h].job \in Jobs
            /\ call'[v][h].pc = "launch" => call'[v][h].token # None
      BY <2>1, <2>3 DEF IInv, TasksOK
    <3> QED
      BY <2>2, <3>1, <3>2 DEF IInv, TasksOK, tasks
  <2>6. CanBeClaimed(rec[j], 0)
    <3>1. c.age \in Nat /\ rec[j].lease \in Int
      BY <1>1, ConstantsOK, JobAssumption DEF Call, Record, Lease
    <3> QED
      BY <1>3, <3>1 DEF CanBeClaimed, LeaseIsExpired
  <2>7. FreshClaimsOK'
    <3> SUFFICES ASSUME NEW v \in Workers, NEW h \in Callers,
                        <<v, h>> \in freshCalls'
                 PROVE  /\ call'[v][h].pc = "append"
                        /\ CanBeClaimed(rec'[call'[v][h].job], 0)
      BY DEF FreshClaimsOK, CanBeClaimed, LeaseIsExpired
    <3>1. CASE v = w /\ h = k
      BY <2>1, <2>2, <2>3, <2>6, <3>1
    <3>2. CASE v # w \/ h # k
      BY <2>2, <2>3, <3>2 DEF IInv, FreshClaimsOK
    <3> QED
      BY <3>1, <3>2
  <2>8. FreshBeatsOK'
    BY <2>2 DEF IInv, FreshBeatsOK, Holds, tasks
  <2>9. \A i \in Jobs : JobOK(i)'
    BY <2>2, JobKept, InvariantByJob DEF tasks, history
  <2> QED
    BY <2>4, <2>5, <2>7, <2>8, <2>9, InvariantByJob
<1> QED
  BY <1>2, <1>3

LEMMA ClaimWinStep ==
  ASSUME IInv, NEW w \in Workers, NEW k \in Callers, ClaimWin(w, k)
  PROVE  IInv'
<1> DEFINE c == call[w][k]
<1> PICK j \in Jobs : j = c.job
  BY DEF ClaimWin, IInv, TasksOK
<1> PICK t \in Tokens : AppendTo(j, Claimed(rec[j], w, t))
  BY DEF ClaimWin, FreshToken
<1> DEFINE r == Claimed(rec[j], w, t)
           d == [c EXCEPT !.pc = "reread"]
<1>1. /\ c \in Call /\ c.pc = "append" /\ phase[w] # "down"
      /\ rec[j] \in Record
  BY LoopSteps DEF ClaimWin
<1>2. /\ r \in Record /\ r.status = "claimed" /\ r.owner = w
      /\ r.token = t /\ r.attempt = rec[j].attempt
  BY <1>1, ConstantsOK DEF Claimed, Record, Status
<1>3. d \in Call /\ d.pc = "reread" /\ d.job = j
  BY <1>1 DEF Call, CallPc
<1>4. AppendTo(j, r) /\ SetCall(w, k, d)
  BY DEF ClaimWin
<1> HIDE DEF r, d
<1>5. /\ call' \in [Workers -> [Callers -> Call]]
      /\ call'[w][k] = d
      /\ \A v \in Workers, h \in Callers :
           v # w \/ h # k => call'[v][h] = call[v][h]
  BY <1>3, <1>4, SetCallEffect DEF IInv
<1>6. /\ rec' \in [Jobs -> Record] /\ rec'[j] = r
      /\ freshCalls' = {} /\ freshBeats' = {}
  BY <1>2, <1>4, AppendEffect DEF IInv
<1>7. /\ UNCHANGED <<phase, run, beat, faults, crashes, reopened, completions>>
      /\ lapsed \subseteq lapsed' /\ lapsed' \subseteq Jobs
      /\ rec[j].status \in Leased => j \in lapsed'
      /\ rec[j].status \in {"queued"} \cup Leased
  <2>1. CanBeClaimed(rec[j], 0)
    BY DEF ClaimWin, IInv, FreshClaimsOK
  <2>2. /\ rec[j].status \in {"queued"} \cup Leased
        /\ rec[j].status \in Leased => LeaseIsExpired(rec[j], 0)
    BY <2>1 DEF CanBeClaimed, LeaseIsExpired, Leased
  <2>3. lapsed' = IF LeaseIsExpired(rec[j], 0) THEN lapsed \cup {j} ELSE lapsed
    BY DEF ClaimWin
  <2>4. /\ UNCHANGED <<phase, run, beat, faults, crashes, reopened, completions>>
        /\ lapsed \subseteq Jobs
    BY DEF ClaimWin, tasks, budget, IInv, TypeOK
  <2> QED
    BY <2>2, <2>3, <2>4
<1>8. TypeOK'
  BY <1>5, <1>6, <1>7 DEF IInv, TypeOK
<1>9. TasksOK'
  BY <1>1, <1>3, <1>5, <1>7 DEF IInv, TasksOK
<1>10. JobOK(j)'
  <2>1. JobOK(j) /\ w # None /\ t # None
    BY InvariantByJob, JobAssumption
  <2>2. CASE rec[j].status = "queued"
    <3>1. Undisturbed(j) => \A v \in Workers : ~Executing(v, j)
      BY <2>1, <2>2 DEF JobOK
    <3>2. Undisturbed(j)' => Undisturbed(j)
      BY <1>7 DEF Undisturbed
    <3> QED
      BY <1>2, <1>6, <1>7, <2>1, <2>2, <3>1, <3>2 DEF JobOK, Executing, Leased
  <2>3. CASE rec[j].status \in Leased
    <3>1. ~Undisturbed(j)'
      BY <1>7, <2>3 DEF Undisturbed
    <3> QED
      BY <1>2, <1>6, <2>1, <3>1 DEF JobOK, Leased
  <2> QED
    BY <1>7, <2>2, <2>3
<1> QED
  BY <1>2, <1>4, <1>7, <1>8, <1>9, <1>10, AppendStep

LEMMA LaunchStep ==
  ASSUME IInv, NEW w \in Workers, NEW k \in Callers, Launch(w, k)
  PROVE  IInv'
<1> DEFINE c == call[w][k]
<1> PICK j \in Jobs : j = c.job
  BY DEF Launch, IInv, TasksOK
<1>1. /\ c \in Call /\ c.pc = "launch" /\ c.token # None /\ phase[w] # "down"
      /\ phase \in [Workers -> {"down", "boot", "up"}]
      /\ faults \in 0 .. MaxFaults /\ crashes \in 0 .. MaxCrashes
      /\ NextJob(c) \in Call /\ NextJob(c).pc = "loop"
  BY LoopSteps DEF IInv, TypeOK, TasksOK, Launch
<1>2. /\ SetCall(w, k, NextJob(c))
      /\ UNCHANGED <<store, phase, budget, history>>
  BY DEF Launch
<1>3. CASE Active(w, j)
  <2>1. UNCHANGED tasks
    BY <1>3 DEF Launch
  <2> QED
    BY <1>1, <1>2, <2>1, CallOnlyStep DEF store, tasks, budget
<1>4. CASE ~Active(w, j)
  <2> DEFINE task == [IdleRun EXCEPT !.pc = "load", !.token = c.token]
  <2>1. task \in Run /\ task.pc = "load" /\ task.token # None
    BY <1>1, ConstantsOK DEF IdleRun, Call, Run, RunPc
  <2>2. SetRun(w, j, task) /\ SetBeat(w, j, "read") /\ "read" \in BeatPc
    BY <1>4 DEF Launch, BeatPc
  <2> HIDE DEF task
  <2>3. /\ call' \in [Workers -> [Callers -> Call]]
        /\ call'[w][k] = NextJob(c)
        /\ \A v \in Workers, h \in Callers :
             v # w \/ h # k => call'[v][h] = call[v][h]
    BY <1>1, <1>2, SetCallEffect DEF IInv
  <2>4. /\ run' \in [Workers -> [Jobs -> Run]]
        /\ run'[w][j] = task
        /\ \A v \in Workers, i \in Jobs :
             v # w \/ i # j => run'[v][i] = run[v][i]
    BY <2>1, <2>2, SetRunEffect DEF IInv
  <2>5. /\ beat' \in [Workers -> [Jobs -> BeatPc]]
        /\ beat'[w][j] = "read"
        /\ \A v \in Workers, i \in Jobs :
             v # w \/ i # j => beat'[v][i] = beat[v][i]
    BY <2>2, SetBeatEffect DEF IInv
  <2>6. TypeOK'
    BY <1>2, <2>3, <2>4, <2>5 DEF IInv, TypeOK, store, budget, history
  <2>7. TasksOK'
    <3>1. \A v \in Workers : phase'[v] = "down" => \A h \in Callers : call'[v][h].pc = "idle"
      BY <1>1, <1>2, <2>3 DEF IInv, TasksOK
    <3>2. \A v \in Workers, h \in Callers :
            /\ call'[v][h].pc \in {"requeue", "read", "append", "reread", "launch"} =>
                 call'[v][h].job \in Jobs
            /\ call'[v][h].pc = "launch" => call'[v][h].token # None
      BY <1>1, <2>3 DEF IInv, TasksOK
    <3>3. \A v \in Workers, i \in Jobs :
            IF run'[v][i].pc = "idle" THEN beat'[v][i] = "off" ELSE run'[v][i].token # None
      BY <2>1, <2>4, <2>5 DEF IInv, TasksOK
    <3> QED
      BY <3>1, <3>2, <3>3 DEF TasksOK
  <2>8. FreshClaimsOK'
    <3> SUFFICES ASSUME NEW v \in Workers, NEW h \in Callers,
                        <<v, h>> \in freshCalls'
                 PROVE  /\ call'[v][h].pc = "append"
                        /\ CanBeClaimed(rec'[call'[v][h].job], 0)
      BY DEF FreshClaimsOK, CanBeClaimed, LeaseIsExpired
    <3>1. call[v][h].pc = "append" /\ CanBeClaimed(rec[call[v][h].job], 0)
      BY <1>2 DEF IInv, FreshClaimsOK, store
    <3> QED
      BY <1>1, <1>2, <2>3, <3>1 DEF store
  <2>9. FreshBeatsOK'
    <3>1. beat[w][j] = "off"
      BY <1>4 DEF Active, IInv, TasksOK
    <3>2. <<w, j>> \notin freshBeats
      BY <3>1 DEF IInv, FreshBeatsOK
    <3>3. ASSUME NEW v \in Workers, NEW i \in Jobs, <<v, i>> \in freshBeats'
          PROVE  /\ beat'[v][i] = "append" /\ rec'[i].status \in Leased
                 /\ Holds(v, i)'
      <4>1. <<v, i>> \in freshBeats /\ rec' = rec
        BY <1>2, <3>3 DEF store
      <4>2. v # w \/ i # j
        BY <3>2, <4>1
      <4> QED
        BY <2>4, <2>5, <4>1, <4>2 DEF IInv, FreshBeatsOK, Holds
    <3> QED
      BY <3>3 DEF FreshBeatsOK
  <2>10. \A i \in Jobs : i # j => JobOK(i)'
    BY <1>2, <2>4, JobKept, InvariantByJob DEF store, history
  <2>11. JobOK(j)'
    <3>1. JobOK(j) /\ rec' = rec /\ UNCHANGED <<lapsed, reopened, completions>>
      BY <1>2, InvariantByJob DEF store, history
    <3>2. \A v \in Workers : Executing(v, j)' => v # w /\ Executing(v, j)
      BY <2>1, <2>4 DEF Executing
    <3> QED
      BY <2>4, <3>1, <3>2 DEF JobOK, Undisturbed, Executing, Holds
  <2> QED
    BY <2>6, <2>7, <2>8, <2>9, <2>10, <2>11, InvariantByJob
<1> QED
  BY <1>3, <1>4

LEMMA CallFaultStep ==
  ASSUME IInv, NEW w \in Workers, NEW k \in Callers, CallFault(w, k)
  PROVE  IInv'
<1>1. faults' \in 0 .. MaxFaults /\ crashes' \in 0 .. MaxCrashes
  BY JobAssumption DEF CallFault, IInv, TypeOK
<1>2. CASE k = Poller /\ phase[w] = "boot"
  <2>1. Die(w) /\ UNCHANGED <<rec, history>>
    BY <1>2 DEF CallFault
  <2> QED
    BY <1>1, <2>1, DieStep
<1>3. CASE ~(k = Poller /\ phase[w] = "boot")
  <2> DEFINE d == [IdleCall EXCEPT !.pc = IF k = Poller THEN "dead" ELSE "idle"]
  <2>1. d \in Call /\ d.pc \in {"dead", "idle"}
    BY ConstantsOK DEF IdleCall, Call, CallPc
  <2>2. /\ SetCall(w, k, d) /\ freshCalls' = freshCalls \ {<<w, k>>}
        /\ UNCHANGED <<rec, freshBeats, phase, tasks, history>>
    BY <1>3 DEF CallFault
  <2>3. call[w][k].pc # "idle"
    BY DEF CallFault
  <2> HIDE DEF d
  <2>4. phase'[w] # "down" /\ phase' \in [Workers -> {"down", "boot", "up"}]
    BY <2>2, <2>3, LoopSteps DEF IInv, TypeOK
  <2>5. <<w, k>> \notin freshCalls' /\ freshCalls' \subseteq freshCalls
    BY <2>2
  <2> QED
    BY <1>1, <2>1, <2>2, <2>4, <2>5, CallOnlyStep DEF tasks
<1> QED
  BY <1>2, <1>3

-----------------------------------------------------------------------------
(* The run. *)

LEMMA RunReadingSteps ==
  ASSUME IInv, NEW w \in Workers, NEW j \in Jobs,
         RunLoad(w, j) \/ RunRaise(w, j) \/ RunFault(w, j)
  PROVE  IInv'
<1> DEFINE task == run[w][j]
<1>1. /\ task \in Run /\ rec[j] \in Record /\ faults \in 0 .. MaxFaults
      /\ JobOK(j) /\ NoLease \in Lease
  BY ConstantsOK, InvariantByJob DEF IInv, TypeOK
<1>2. CASE RunLoad(w, j)
  <2>1. UNCHANGED <<store, phase, call, beat, budget, history>> /\ task.pc = "load"
    BY <1>2 DEF RunLoad
  <2>2. CASE rec[j].status \in {"queued", "claimed"} /\ Holds(w, j)
    <3> DEFINE d == [task EXCEPT !.pc = "start", !.lease = rec[j].lease,
                                 !.attempt = NextAttempt(rec[j].attempt)]
    <3>1. SetRun(w, j, d)
      BY <1>2, <2>2 DEF RunLoad
    <3>2. NextAttempt(rec[j].attempt) \in Attempts
      BY <1>1, JobAssumption DEF NextAttempt, Attempts, AttemptCap, Record
    <3>3. /\ d \in Run /\ d.pc = "start" /\ d.token = task.token
          /\ d.attempt = NextAttempt(rec[j].attempt)
      BY <1>1, <3>2 DEF Run, RunPc, Record
    <3>4. rec[j].status = "claimed"
      BY <1>1, <2>2, JobAssumption DEF JobOK, Holds, Leased
    <3>5. Undisturbed(j) => NextAttempt(rec[j].attempt) <= MaxAttempts
      <4>1. Undisturbed(j) => rec[j].attempt < MaxAttempts
        BY <1>1, <3>4 DEF JobOK
      <4>2. rec[j].attempt \in Nat
        BY <1>1, JobAssumption DEF Record, Attempts, AttemptCap
      <4> QED
        BY <4>1, <4>2, JobAssumption DEF NextAttempt, AttemptCap
    <3> HIDE DEF d
    <3> QED
      BY <1>1, <2>1, <2>2, <3>1, <3>3, <3>4, <3>5, RunOnlyStep DEF budget
  <2>3. CASE ~(rec[j].status \in {"queued", "claimed"} /\ Holds(w, j))
    <3> DEFINE d == [task EXCEPT !.pc = "exit"]
    <3>1. SetRun(w, j, d)
      BY <1>2, <2>3 DEF RunLoad
    <3>2. d \in Run /\ d.pc = "exit" /\ d.token = task.token
      BY <1>1 DEF Run, RunPc
    <3> HIDE DEF d
    <3> QED
      BY <1>1, <2>1, <3>1, <3>2, RunOnlyStep DEF budget
  <2> QED
    BY <2>2, <2>3
<1>3. CASE RunRaise(w, j)
  <2> DEFINE d == [task EXCEPT !.pc = "fail"]
  <2>1. /\ SetRun(w, j, d) /\ task.pc = "work"
        /\ UNCHANGED <<store, phase, call, beat, budget, history>>
    BY <1>3 DEF RunRaise
  <2>2. d \in Run /\ d.pc = "fail" /\ d.token = task.token /\ d.attempt = task.attempt
    BY <1>1 DEF Run, RunPc
  <2>3. Undisturbed(j) =>
          Holds(w, j) /\ rec[j].status = "running" /\ task.attempt <= MaxAttempts
    BY <1>1, <2>1 DEF JobOK, Executing
  <2> HIDE DEF d
  <2> QED
    BY <1>1, <2>1, <2>2, <2>3, RunOnlyStep DEF budget
<1>4. CASE RunFault(w, j)
  <2> DEFINE d == [task EXCEPT !.pc = "exit", !.lease = NoLease]
  <2>1. /\ SetRun(w, j, d) /\ task.pc # "idle" /\ faults' \in 0 .. MaxFaults
        /\ UNCHANGED <<store, phase, call, beat, crashes, history>>
    BY <1>1, <1>4, JobAssumption DEF RunFault
  <2>2. d \in Run /\ d.pc = "exit" /\ d.token = task.token
    BY <1>1 DEF Run, RunPc
  <2> HIDE DEF d
  <2> QED
    BY <1>1, <2>1, <2>2, RunOnlyStep
<1> QED
  BY <1>2, <1>3, <1>4

(* The appends of a run: while nothing disturbs the job, the one worker    *)
(* that executes it is its owner, so no other run sees its record change.  *)
LEMMA RunAppendStep ==
  ASSUME IInv, NEW w \in Workers, NEW j \in Jobs, NEW r \in Record, NEW d \in Run,
         Executing(w, j), AppendTo(j, r), SetRun(w, j, d),
         \/ /\ r.status = "running" /\ d.pc = "work" /\ d.attempt = run[w][j].attempt
            /\ r.owner = w /\ r.token = run[w][j].token
         \/ /\ r.status \in {"completed", "failed"} /\ d.pc = "exit"
            /\ r.owner = None /\ r.token = None /\ r.lease = NoLease,
         d.token = run[w][j].token, r.attempt = run[w][j].attempt,
         UNCHANGED <<phase, call, beat, budget, lapsed, reopened>>,
         completions' \in [Jobs -> 0 .. 2],
         \A i \in Jobs : i # j => completions'[i] = completions[i],
         Undisturbed(j) =>
           completions'[j] = IF r.status = "completed" THEN 1 ELSE 0
  PROVE  IInv'
<1>1. /\ run' \in [Workers -> [Jobs -> Run]]
      /\ run'[w][j] = d
      /\ \A v \in Workers, i \in Jobs :
           v # w \/ i # j => run'[v][i] = run[v][i]
  BY SetRunEffect DEF IInv
<1>2. /\ rec' \in [Jobs -> Record] /\ rec'[j] = r
      /\ freshCalls' = {} /\ freshBeats' = {}
  BY AppendEffect DEF IInv
<1>3. TypeOK'
  BY <1>1, <1>2 DEF IInv, TypeOK, budget
<1>4. run[w][j].pc # "idle" /\ run[w][j].token # None /\ d.pc # "idle"
  BY DEF Executing, IInv, TasksOK
<1>5. TasksOK'
  <2>1. \A v \in Workers, i \in Jobs :
          IF run'[v][i].pc = "idle" THEN beat'[v][i] = "off" ELSE run'[v][i].token # None
    BY <1>1, <1>4 DEF IInv, TasksOK
  <2>2. phase' = phase /\ call' = call
    OBVIOUS
  <2> QED
    BY <2>1, <2>2 DEF IInv, TasksOK
<1>6. JobOK(j)'
  <2>1. JobOK(j) /\ (Undisturbed(j)' <=> Undisturbed(j))
    BY InvariantByJob DEF Undisturbed
  <2>2. Undisturbed(j) => \A v \in Workers : Executing(v, j) => v = w
    BY <2>1 DEF JobOK, Holds
  <2>3. Undisturbed(j) => run[w][j].attempt <= MaxAttempts
    BY <2>1 DEF JobOK
  <2>4. CASE r.status = "running"
    <3>1. /\ d.pc = "work" /\ d.attempt = run[w][j].attempt
          /\ r.owner = w /\ r.token = run[w][j].token
      BY <2>4
    <3>2. w # None
      BY JobAssumption
    <3>3. Holds(w, j)'
      BY <1>1, <1>2, <3>1 DEF Holds
    <3>4. Undisturbed(j) => \A v \in Workers : Executing(v, j)' => v = w
      BY <1>1, <2>2 DEF Executing
    <3> QED
      BY <1>1, <1>2, <1>4, <2>1, <2>3, <2>4, <3>1, <3>2, <3>3, <3>4
         DEF JobOK, Leased
  <2>5. CASE r.status # "running"
    <3>1. /\ r.status \in {"completed", "failed"} /\ d.pc = "exit"
          /\ r.owner = None /\ r.token = None /\ r.lease = NoLease
      BY <2>5
    <3>2. Undisturbed(j) => \A v \in Workers : ~Executing(v, j)'
      BY <1>1, <2>2, <3>1 DEF Executing
    <3> QED
      BY <1>2, <2>1, <2>3, <3>1, <3>2 DEF JobOK, Leased
  <2> QED
    BY <2>4, <2>5
<1> QED
  BY <1>1, <1>3, <1>5, <1>6, AppendStep

LEMMA RunAppendingSteps ==
  ASSUME IInv, NEW w \in Workers, NEW j \in Jobs,
         RunStart(w, j) \/ RunComplete(w, j) \/ RunFail(w, j)
  PROVE  IInv'
<1> DEFINE task == run[w][j]
<1>1. /\ task \in Run /\ rec[j] \in Record /\ JobOK(j) /\ NoLease \in Lease
      /\ completions \in [Jobs -> 0 .. 2]
  BY ConstantsOK, InvariantByJob DEF IInv, TypeOK
<1>2. CASE RunStart(w, j)
  <2> DEFINE r == Started(rec[j], w, task)
             d == [task EXCEPT !.pc = "work", !.lease = NoLease]
  <2>1. /\ AppendTo(j, r) /\ SetRun(w, j, d) /\ task.pc = "start"
        /\ UNCHANGED <<phase, call, beat, budget, history>>
    BY <1>2 DEF RunStart
  <2>2. /\ r \in Record /\ r.status = "running" /\ r.owner = w
        /\ r.token = task.token /\ r.attempt = task.attempt
    BY <1>1 DEF Started, Record, Status, Run
  <2>3. d \in Run /\ d.pc = "work" /\ d.token = task.token /\ d.attempt = task.attempt
    BY <1>1 DEF Run, RunPc
  <2>4. Undisturbed(j) => completions[j] = 0
    BY <1>1, <2>1 DEF JobOK, Executing
  <2> HIDE DEF r, d
  <2> QED
    BY <1>1, <2>1, <2>2, <2>3, <2>4, RunAppendStep DEF Executing, history
<1>3. CASE RunComplete(w, j)
  <2> DEFINE r == Finished(rec[j], "completed", task)
             d == [task EXCEPT !.pc = "exit"]
  <2>1. /\ AppendTo(j, r) /\ SetRun(w, j, d) /\ task.pc = "work"
        /\ UNCHANGED <<phase, call, beat, budget, lapsed, reopened>>
    BY <1>3 DEF RunComplete
  <2>2. /\ r \in Record /\ r.status = "completed" /\ r.owner = None
        /\ r.token = None /\ r.lease = NoLease /\ r.attempt = task.attempt
    BY <1>1 DEF Finished, Released, Record, Status, Run
  <2>3. d \in Run /\ d.pc = "exit" /\ d.token = task.token
    BY <1>1 DEF Run, RunPc
  <2>4. Undisturbed(j) => completions[j] = 0
    BY <1>1, <2>1 DEF JobOK, Executing
  <2>5. completions' = [completions EXCEPT ![j] = IF @ < 2 THEN @ + 1 ELSE @]
    BY <1>3 DEF RunComplete
  <2>6. /\ completions' \in [Jobs -> 0 .. 2]
        /\ \A i \in Jobs : i # j => completions'[i] = completions[i]
        /\ Undisturbed(j) => completions'[j] = 1
    BY <1>1, <2>4, <2>5
  <2> HIDE DEF r, d
  <2> QED
    BY <1>1, <2>1, <2>2, <2>3, <2>6, RunAppendStep DEF Executing
<1>4. CASE RunFail(w, j)
  <2> DEFINE r == Finished(rec[j], "failed", task)
             d == [task EXCEPT !.pc = "exit"]
  <2>1. /\ AppendTo(j, r) /\ SetRun(w, j, d) /\ task.pc = "fail"
        /\ UNCHANGED <<phase, call, beat, budget, history>>
    BY <1>4 DEF RunFail
  <2>2. /\ r \in Record /\ r.status = "failed" /\ r.owner = None
        /\ r.token = None /\ r.lease = NoLease /\ r.attempt = task.attempt
    BY <1>1 DEF Finished, Released, Record, Status, Run
  <2>3. d \in Run /\ d.pc = "exit" /\ d.token = task.token
    BY <1>1 DEF Run, RunPc
  <2>4. Undisturbed(j) => completions[j] = 0
    BY <1>1, <2>1 DEF JobOK, Executing
  <2> HIDE DEF r, d
  <2> QED
    BY <1>1, <2>1, <2>2, <2>3, <2>4, RunAppendStep DEF Executing, history
<1> QED
  BY <1>2, <1>3, <1>4

LEMMA RunExitStep ==
  ASSUME IInv, NEW w \in Workers, NEW j \in Jobs, RunExit(w, j)
  PROVE  IInv'
<1>1. /\ SetRun(w, j, IdleRun) /\ SetBeat(w, j, "off")
      /\ freshBeats' = freshBeats \ {<<w, j>>}
      /\ UNCHANGED <<rec, freshCalls, phase, call, budget, history>>
  BY DEF RunExit
<1>2. /\ run' \in [Workers -> [Jobs -> Run]]
      /\ run'[w][j] = IdleRun
      /\ \A v \in Workers, i \in Jobs :
           v # w \/ i # j => run'[v][i] = run[v][i]
  BY <1>1, ConstantsOK, SetRunEffect DEF IInv
<1>3. /\ beat' \in [Workers -> [Jobs -> BeatPc]]
      /\ beat'[w][j] = "off"
      /\ \A v \in Workers, i \in Jobs :
           v # w \/ i # j => beat'[v][i] = beat[v][i]
  <2>1. "off" \in BeatPc
    BY DEF BeatPc
  <2> QED
    BY <1>1, <2>1, SetBeatEffect DEF IInv
<1>4. TypeOK'
  BY <1>1, <1>2, <1>3 DEF IInv, TypeOK, budget, history
<1>5. TasksOK'
  <2>1. \A v \in Workers, i \in Jobs :
          IF run'[v][i].pc = "idle" THEN beat'[v][i] = "off" ELSE run'[v][i].token # None
    BY <1>2, <1>3 DEF IInv, TasksOK, IdleRun
  <2> QED
    BY <1>1, <2>1 DEF IInv, TasksOK
<1>6. FreshClaimsOK'
  BY <1>1 DEF IInv, FreshClaimsOK, CanBeClaimed, LeaseIsExpired
<1>7. FreshBeatsOK'
  BY <1>1, <1>2, <1>3 DEF IInv, FreshBeatsOK, Holds
<1>8. \A i \in Jobs : i # j => JobOK(i)'
  BY <1>1, <1>2, JobKept, InvariantByJob DEF history
<1>9. JobOK(j)'
  <2>1. JobOK(j) /\ UNCHANGED <<lapsed, reopened, completions>>
    BY <1>1, InvariantByJob DEF history
  <2>2. \A v \in Workers : Executing(v, j)' => v # w /\ Executing(v, j)
    BY <1>2 DEF Executing, IdleRun
  <2> QED
    BY <1>1, <1>2, <2>1, <2>2 DEF JobOK, Undisturbed, Executing, Holds
<1> QED
  BY <1>4, <1>5, <1>6, <1>7, <1>8, <1>9, InvariantByJob

-----------------------------------------------------------------------------
(* The heartbeat. *)

LEMMA BeatReadingSteps ==
  ASSUME IInv, NEW w \in Workers, NEW j \in Jobs,
         BeatRead(w, j) \/ BeatLose(w, j) \/ BeatFault(w, j)
  PROVE  IInv'
<1>1. /\ "off" \in BeatPc /\ "append" \in BeatPc
      /\ faults \in 0 .. MaxFaults /\ crashes \in 0 .. MaxCrashes
      /\ <<w, j>> \in freshBeats => beat[w][j] = "append"
  BY DEF BeatPc, IInv, TypeOK, FreshBeatsOK
<1>2. CASE BeatRead(w, j)
  <2>1. /\ UNCHANGED <<rec, freshCalls, phase, call, run, budget, history>>
        /\ beat[w][j] \in {"read", "sleep"}
    BY <1>2 DEF BeatRead
  <2>2. run[w][j].pc # "idle"
    BY <2>1 DEF IInv, TasksOK
  <2>3. CASE rec[j].status \in Leased /\ Holds(w, j)
    <3>1. SetBeat(w, j, "append") /\ freshBeats' = freshBeats \cup {<<w, j>>}
      BY <1>2, <2>3 DEF BeatRead
    <3> QED
      BY <1>1, <2>1, <2>2, <2>3, <3>1, BeatOnlyStep DEF budget
  <2>4. CASE ~(rec[j].status \in Leased /\ Holds(w, j))
    <3>1. SetBeat(w, j, "off") /\ UNCHANGED freshBeats
      BY <1>2, <2>4 DEF BeatRead
    <3>2. <<w, j>> \notin freshBeats'
      BY <1>1, <2>1, <3>1
    <3> QED
      BY <1>1, <2>1, <3>1, <3>2, BeatOnlyStep DEF budget
  <2> QED
    BY <2>3, <2>4
<1>3. CASE BeatLose(w, j)
  <2>1. /\ SetBeat(w, j, "off") /\ <<w, j>> \notin freshBeats
        /\ UNCHANGED <<store, phase, call, run, budget, history>>
    BY <1>3 DEF BeatLose
  <2> QED
    BY <1>1, <2>1, BeatOnlyStep DEF store, budget
<1>4. CASE BeatFault(w, j)
  <2>1. /\ SetBeat(w, j, "off") /\ freshBeats' = freshBeats \ {<<w, j>>}
        /\ faults' \in 0 .. MaxFaults
        /\ UNCHANGED <<rec, freshCalls, phase, call, run, crashes, history>>
    BY <1>1, <1>4, JobAssumption DEF BeatFault
  <2>2. freshBeats' \subseteq freshBeats /\ <<w, j>> \notin freshBeats'
    BY <2>1
  <2> QED
    BY <1>1, <2>1, <2>2, BeatOnlyStep
<1> QED
  BY <1>2, <1>3, <1>4

LEMMA BeatWinStep ==
  ASSUME IInv, NEW w \in Workers, NEW j \in Jobs, BeatWin(w, j)
  PROVE  IInv'
<1> DEFINE r == Renewed(rec[j], w, run[w][j].token)
<1>1. /\ rec[j] \in Record /\ run[w][j] \in Run /\ JobOK(j)
      /\ rec[j].status \in Leased /\ Holds(w, j)
      /\ run[w][j].pc # "idle" /\ "sleep" \in BeatPc
  BY InvariantByJob DEF BeatWin, IInv, TypeOK, FreshBeatsOK, TasksOK, BeatPc
<1>2. /\ AppendTo(j, r) /\ SetBeat(w, j, "sleep")
      /\ UNCHANGED <<phase, call, run, budget, history>>
  BY DEF BeatWin
<1>3. /\ r \in Record /\ r.status = rec[j].status /\ r.owner = rec[j].owner
      /\ r.token = rec[j].token /\ r.attempt = rec[j].attempt
  BY <1>1, ConstantsOK DEF Renewed, Record, Run, Holds
<1> HIDE DEF r
<1>4. /\ rec' \in [Jobs -> Record] /\ rec'[j] = r
      /\ freshCalls' = {} /\ freshBeats' = {}
  BY <1>2, <1>3, AppendEffect DEF IInv
<1>5. /\ beat' \in [Workers -> [Jobs -> BeatPc]]
      /\ beat'[w][j] = "sleep"
      /\ \A v \in Workers, i \in Jobs :
           v # w \/ i # j => beat'[v][i] = beat[v][i]
  BY <1>1, <1>2, SetBeatEffect DEF IInv
<1>6. TypeOK'
  BY <1>2, <1>4, <1>5 DEF IInv, TypeOK, budget, history
<1>7. TasksOK'
  BY <1>1, <1>2, <1>5 DEF IInv, TasksOK
<1>8. JobOK(j)'
  BY <1>1, <1>2, <1>3, <1>4 DEF JobOK, Undisturbed, Executing, Holds, history
<1> QED
  BY <1>2, <1>3, <1>6, <1>7, <1>8, AppendStep DEF history

-----------------------------------------------------------------------------
(* Time and other writers. *)

LEMMA OtherAppendStep ==
  ASSUME IInv, OtherAppend
  PROVE  IInv'
<1>1. /\ freshCalls' = {} /\ freshBeats' = {}
      /\ UNCHANGED <<rec, phase, call, run, beat, faults, crashes, history>>
  BY DEF OtherAppend, tasks, budget
<1>2. TypeOK'
  BY <1>1 DEF IInv, TypeOK, history
<1>3. TasksOK'
  BY <1>1 DEF IInv, TasksOK
<1>4. FreshClaimsOK' /\ FreshBeatsOK'
  BY <1>1 DEF FreshClaimsOK, FreshBeatsOK
<1>5. \A j \in Jobs : JobOK(j)'
  BY <1>1, JobKept, InvariantByJob DEF history
<1> QED
  BY <1>2, <1>3, <1>4, <1>5, InvariantByJob

(* A tick shortens leases and nothing else a record says. *)
LEMMA TickStep ==
  ASSUME IInv, Tick
  PROVE  IInv'
<1>1. /\ rec' = [j \in Jobs |-> [rec[j] EXCEPT !.lease = TickDown(@)]]
      /\ run' = [w \in Workers |-> [j \in Jobs |->
                   [run[w][j] EXCEPT !.lease = TickDown(@)]]]
      /\ UNCHANGED <<freshCalls, freshBeats, phase, faults, crashes, history>>
  BY DEF Tick, budget
<1>2. \A l \in Lease : /\ TickDown(l) \in Lease /\ (l <= 0 => TickDown(l) <= 0)
                        /\ (l = NoLease => TickDown(l) = NoLease)
  BY ConstantsOK, JobAssumption DEF TickDown, Lease
<1>3. /\ rec' \in [Jobs -> Record]
      /\ \A j \in Jobs : /\ rec'[j].lease = TickDown(rec[j].lease)
                          /\ rec'[j].status = rec[j].status
                          /\ rec'[j].owner = rec[j].owner
                          /\ rec'[j].token = rec[j].token
                          /\ rec'[j].attempt = rec[j].attempt
                          /\ rec[j].lease \in Lease
  BY <1>1, <1>2 DEF IInv, TypeOK, Record
<1>4. /\ run' \in [Workers -> [Jobs -> Run]]
      /\ \A w \in Workers, j \in Jobs :
           /\ run'[w][j].pc = run[w][j].pc /\ run'[w][j].token = run[w][j].token
           /\ run'[w][j].attempt = run[w][j].attempt
  <2>1. ASSUME NEW w \in Workers, NEW j \in Jobs
        PROVE  /\ run'[w][j] \in Run
               /\ run'[w][j].pc = run[w][j].pc /\ run'[w][j].token = run[w][j].token
               /\ run'[w][j].attempt = run[w][j].attempt
    <3>1. run[w][j] \in Run
      BY DEF IInv, TypeOK
    <3>2. run'[w][j] = [run[w][j] EXCEPT !.lease = TickDown(@)]
      BY <1>1
    <3> QED
      BY <1>2, <3>1, <3>2 DEF Run
  <2> QED
    BY <1>1, <2>1
<1>5. /\ beat' \in [Workers -> [Jobs -> BeatPc]]
      /\ \A w \in Workers, j \in Jobs :
           /\ beat[w][j] = "off" => beat'[w][j] = "off"
           /\ beat[w][j] = "append" => beat'[w][j] = "append"
  BY DEF Tick, IInv, TypeOK, BeatPc
<1>6. ASSUME NEW w \in Workers, NEW k \in Callers
      PROVE  /\ call'[w][k] \in Call
             /\ call'[w][k].job = call[w][k].job /\ call'[w][k].token = call[w][k].token
             /\ \/ call'[w][k].pc = call[w][k].pc
                \/ call[w][k].pc = "asleep" /\ call'[w][k].pc = "list"
  <2> DEFINE c == call[w][k]
  <2>1. c \in Call
    BY DEF IInv, TypeOK
  <2>2. call'[w][k] = CASE c.pc = "read" -> [c EXCEPT !.age = @ + 1]
                        [] c.pc = "asleep" /\ Prompt -> [c EXCEPT !.pc = "list"]
                        [] OTHER -> c
    BY DEF Tick
  <2>3. CASE c.pc = "read"
    <3>1. c.age + 1 \in 0 .. MaxLag
      BY <2>1, <2>3, JobAssumption DEF Tick, Call
    <3>2. call'[w][k] = [c EXCEPT !.age = @ + 1]
      BY <2>2, <2>3
    <3> QED
      BY <2>1, <3>1, <3>2 DEF Call
  <2>4. CASE c.pc = "asleep" /\ Prompt
    <3>1. call'[w][k] = [c EXCEPT !.pc = "list"]
      BY <2>2, <2>4
    <3> QED
      BY <2>1, <2>4, <3>1 DEF Call, CallPc
  <2>5. CASE c.pc # "read" /\ ~(c.pc = "asleep" /\ Prompt)
    <3>1. call'[w][k] = c
      BY <2>2, <2>5
    <3> QED
      BY <2>1, <3>1
  <2> QED
    BY <2>3, <2>4, <2>5
<1>7. TypeOK'
  <2>1. call' \in [Workers -> [Callers -> Call]]
    BY <1>6 DEF Tick
  <2> QED
    BY <1>1, <1>3, <1>4, <1>5, <2>1 DEF IInv, TypeOK, history
<1>8. TasksOK'
  <2>1. \A w \in Workers : phase'[w] = "down" => \A k \in Callers : call'[w][k].pc = "idle"
    BY <1>1, <1>6 DEF IInv, TasksOK
  <2>2. \A w \in Workers, k \in Callers :
          /\ call'[w][k].pc \in {"requeue", "read", "append", "reread", "launch"} =>
               call'[w][k].job \in Jobs
          /\ call'[w][k].pc = "launch" => call'[w][k].token # None
    BY <1>6 DEF IInv, TasksOK
  <2>3. \A w \in Workers, j \in Jobs :
          IF run'[w][j].pc = "idle" THEN beat'[w][j] = "off" ELSE run'[w][j].token # None
    BY <1>4, <1>5 DEF IInv, TasksOK
  <2> QED
    BY <2>1, <2>2, <2>3 DEF TasksOK
<1>9. FreshClaimsOK'
  <2> SUFFICES ASSUME NEW w \in Workers, NEW k \in Callers, <<w, k>> \in freshCalls
               PROVE  /\ call'[w][k].pc = "append"
                      /\ CanBeClaimed(rec'[call'[w][k].job], 0)
    BY <1>1 DEF FreshClaimsOK, CanBeClaimed, LeaseIsExpired
  <2>1. call[w][k].pc = "append" /\ CanBeClaimed(rec[call[w][k].job], 0)
    BY DEF IInv, FreshClaimsOK
  <2> PICK j \in Jobs : j = call[w][k].job
    BY <2>1 DEF IInv, TasksOK
  <2>2. rec[j].lease \in Int /\ rec'[j].lease \in Int
    BY <1>3, ConstantsOK, JobAssumption DEF Record, Lease
  <2>3. CanBeClaimed(rec'[j], 0)
    BY <1>2, <1>3, <2>1, <2>2 DEF CanBeClaimed, LeaseIsExpired
  <2> QED
    BY <1>6, <2>1, <2>3
<1>10. FreshBeatsOK'
  <2> SUFFICES ASSUME NEW w \in Workers, NEW j \in Jobs, <<w, j>> \in freshBeats
               PROVE  beat'[w][j] = "append" /\ rec'[j].status \in Leased /\ Holds(w, j)'
    BY <1>1 DEF FreshBeatsOK
  <2>1. beat[w][j] = "append" /\ rec[j].status \in Leased /\ Holds(w, j)
    BY DEF IInv, FreshBeatsOK
  <2> QED
    BY <1>3, <1>4, <1>5, <2>1 DEF Holds
<1>11. ASSUME NEW j \in Jobs PROVE JobOK(j)'
  <2>1. JobOK(j) /\ UNCHANGED <<lapsed, reopened, completions>>
    BY <1>1, InvariantByJob DEF history
  <2>2. \A w \in Workers : Executing(w, j)' => Executing(w, j)
    BY <1>4 DEF Executing
  <2> QED
    BY <1>2, <1>3, <1>4, <2>1, <2>2 DEF JobOK, Undisturbed, Holds
<1> QED
  BY <1>7, <1>8, <1>9, <1>10, <1>11, InvariantByJob

-----------------------------------------------------------------------------
(* The invariant is inductive. *)

LEMMA InitIInv == Init => IInv
<1> SUFFICES ASSUME Init PROVE IInv
  OBVIOUS
<1>1. TypeOK
  BY ConstantsOK, JobAssumption DEF Init, TypeOK, BeatPc
<1>2. TasksOK
  BY DEF Init, TasksOK, IdleCall, IdleRun
<1>3. FreshClaimsOK /\ FreshBeatsOK
  BY DEF Init, FreshClaimsOK, FreshBeatsOK
<1>4. ASSUME NEW j \in Jobs PROVE JobOK(j)
  BY JobAssumption DEF Init, JobOK, NoRecord, IdleRun, Executing, Leased
<1> QED
  BY <1>1, <1>2, <1>3, <1>4, InvariantByJob

LEMMA NextIInv == IInv /\ [Next]_vars => IInv'
<1> SUFFICES ASSUME IInv, [Next]_vars PROVE IInv'
  OBVIOUS
<1>1. ASSUME NEW j \in Jobs, CreateJob(j) PROVE IInv'
  BY <1>1, CreateJobStep
<1>2. ASSUME NEW w \in Workers, NEW k \in Handlers, NEW j \in Jobs, Request(w, k, j)
      PROVE  IInv'
  BY <1>2, ApiCreateStep, ApiRetryStep DEF Request
<1>3. ASSUME NEW w \in Workers, NEW k \in Callers, CallStep(w, k) PROVE IInv'
  BY <1>3, RequeueStep, ReadingSteps, ClaimReadStep, ClaimWinStep, LaunchStep
     DEF CallStep
<1>4. ASSUME NEW w \in Workers, NEW j \in Jobs, RunStep(w, j) PROVE IInv'
  BY <1>4, RunReadingSteps, RunAppendingSteps, RunExitStep DEF RunStep
<1>5. ASSUME NEW w \in Workers, NEW j \in Jobs, BeatStep(w, j) PROVE IInv'
  BY <1>5, BeatReadingSteps, BeatWinStep DEF BeatStep
<1>6. ASSUME NEW w \in Workers, BootStep(w) PROVE IInv'
  BY <1>6, BootSteps
<1>7. ASSUME NEW w \in Workers, Failure(w) PROVE IInv'
  <2>1. CASE Crash(w)
    <3>1. /\ Die(w) /\ UNCHANGED <<rec, history>>
          /\ faults' \in 0 .. MaxFaults /\ crashes' \in 0 .. MaxCrashes
      BY <2>1, JobAssumption DEF Crash, IInv, TypeOK
    <3> QED
      BY <3>1, DieStep
  <2> QED
    BY <1>7, <2>1, CallFaultStep, RunReadingSteps, BeatReadingSteps DEF Failure
<1>8. CASE OtherAppend
  BY <1>8, OtherAppendStep
<1>9. CASE Tick
  BY <1>9, TickStep
<1>10. CASE UNCHANGED vars
  BY <1>10 DEF vars, IInv, TypeOK, TasksOK, FreshClaimsOK, FreshBeatsOK, CanBeClaimed,
     LeaseIsExpired, HolderIffLeased, ExecutorHoldsJob, CompletedOnce, AttemptLeft,
     RetryBudget, Holds, Executing, Undisturbed
<1> QED
  BY <1>1, <1>2, <1>3, <1>4, <1>5, <1>6, <1>7, <1>8, <1>9, <1>10 DEF Next

LEMMA Invariance == Spec => []IInv
<1>1. Init => IInv
  BY InitIInv
<1>2. IInv /\ [Next]_vars => IInv'
  BY NextIInv
<1> QED
  BY <1>1, <1>2, PTL DEF Spec

-----------------------------------------------------------------------------
(* The theorems. *)

(* Every record, task and counter keeps its type: attempts stay below      *)
(* their cap and leases within theirs.                                     *)
THEOREM TypeCorrectness == Spec => []TypeOK
<1>1. IInv => TypeOK
  BY DEF IInv
<1> QED
  BY <1>1, Invariance, PTL

(* A job that is not claimed or running has no holder: no HEARTBEAT lands  *)
(* on a job that was completed, failed or requeued.                        *)
THEOREM OnlyLeasedJobsAreHeld == Spec => []HolderIffLeased
<1>1. IInv => HolderIffLeased
  BY DEF IInv
<1> QED
  BY <1>1, Invariance, PTL

(* Whoever executes an undisturbed job holds it: run_job's one check of    *)
(* its claim is enough until a lease lapses or two retries collide.        *)
THEOREM ExecutorsHoldTheirJobs == Spec => []ExecutorHoldsJob
<1>1. IInv => ExecutorHoldsJob
  BY DEF IInv
<1> QED
  BY <1>1, Invariance, PTL

(* max_attempts, which only _requeue_job looks at, bounds the attempts of  *)
(* every undisturbed job.                                                  *)
THEOREM AttemptsAreBounded == Spec => []RetryBudget
<1>1. IInv => RetryBudget
  BY DEF IInv
<1> QED
  BY <1>1, Invariance, PTL

(* An undisturbed job has one COMPLETED event when it is completed, and    *)
(* none before.                                                            *)
THEOREM JobsCompleteOnce == Spec => []CompletedOnce
<1>1. IInv => CompletedOnce
  BY DEF IInv
<1> QED
  BY <1>1, Invariance, PTL

(* CLAIMED never lands on a job that is in the hands of another worker     *)
(* whose lease has not expired.                                            *)
THEOREM ClaimsTakeFreeJobs == Spec => ClaimTakesFreeJob
<1>1. IInv /\ [Next]_vars => [ClaimsFreeJob]_vars
  <2> SUFFICES ASSUME IInv, Next, NEW j \in Jobs,
                      rec'[j].status = "claimed", rec'[j].token # rec[j].token
               PROVE  rec[j].status = "queued" \/ LeaseIsExpired(rec[j], 0)
    BY DEF ClaimsFreeJob
  <2>1. rec[j] \in Record /\ rec \in [Jobs -> Record]
    BY DEF IInv, TypeOK
  <2>2. \A i \in Jobs : \A r : AppendTo(i, r) => r.status = "claimed"
    BY <2>1 DEF AppendTo
  <2>3. /\ \A r \in Record : Released(r, "queued").status # "claimed"
        /\ \A r \in Record, w \in Workers, task \in Run :
             /\ Started(r, w, task).status # "claimed"
             /\ Finished(r, "completed", task).status # "claimed"
             /\ Finished(r, "failed", task).status # "claimed"
    BY DEF Released, Started, Finished, Record
  <2>4. ~\E i \in Jobs, w \in Workers : BeatWin(w, i)
    <3> SUFFICES ASSUME NEW i \in Jobs, NEW w \in Workers, BeatWin(w, i) PROVE FALSE
      OBVIOUS
    <3>1. rec[i].token = run[w][i].token
      BY DEF BeatWin, IInv, FreshBeatsOK, Holds
    <3>2. rec' = [rec EXCEPT ![i] = Renewed(rec[i], w, run[w][i].token)]
      BY DEF BeatWin, AppendTo
    <3> QED
      BY <2>1, <3>1, <3>2 DEF Renewed, Record
  <2>5. ~Tick
    BY <2>1 DEF Tick, Record
  <2>6. rec' # rec
    OBVIOUS
  <2>7. PICK w \in Workers, k \in Callers : ClaimWin(w, k)
    <3>1. \A w \in Workers, i \in Jobs : run[w][i] \in Run
      BY DEF IInv, TypeOK
    <3>2. \A w \in Workers, i \in Jobs : ~RunStep(w, i) /\ ~BeatStep(w, i)
      BY <2>1, <2>2, <2>3, <2>4, <2>6, <3>1
         DEF RunStep, RunLoad, RunStart, RunComplete, RunRaise, RunFail, RunExit,
             BeatStep, BeatRead, BeatLose, store
    <3>3. ASSUME NEW w \in Workers, NEW k \in Callers, Requeue(w, k) PROVE FALSE
      <4> PICK i \in Jobs : i = call[w][k].job
        BY <3>3 DEF Requeue, IInv, TasksOK
      <4>1. rec[i] \in Record /\ AppendTo(i, Released(rec[i], "queued"))
        BY <2>1, <3>3 DEF Requeue
      <4> QED
        BY <2>2, <2>3, <4>1
    <3>4. \A w \in Workers : ~BootStep(w) /\ ~Failure(w)
      BY <2>6 DEF BootStep, Boot, BootRetry, BootRefused, ListJobs, Failure, Crash,
                  CallFault, RunFault, BeatFault, store
    <3>5. ASSUME NEW w \in Workers, NEW k \in Handlers, NEW i \in Jobs,
                 Request(w, k, i)
          PROVE  FALSE
      <4>1. AppendTo(i, Released(rec[i], "queued")) \/ rec' = rec
        BY <3>5 DEF Request, ApiCreate, ApiRetry, store
      <4>2. rec[i] \in Record
        BY <2>1
      <4> QED
        BY <2>2, <2>3, <2>6, <4>1, <4>2
    <3>6. ASSUME NEW i \in Jobs, CreateJob(i) PROVE FALSE
      <4>1. AppendTo(i, Released(rec[i], "queued")) /\ rec[i] \in Record
        BY <2>1, <3>6 DEF CreateJob
      <4> QED
        BY <2>2, <2>3, <4>1
    <3>7. \A w \in Workers, k \in Callers : CallStep(w, k) => ClaimWin(w, k)
      BY <2>6, <3>3
         DEF CallStep, Schedule, EndLoop, ClaimRead, ClaimLose, ClaimReread, Launch, store
    <3>8. ~OtherAppend
      BY <2>6 DEF OtherAppend
    <3>9. \E w \in Workers, k \in Callers : CallStep(w, k)
      BY <2>5, <3>2, <3>4, <3>5, <3>6, <3>8 DEF Next
    <3> QED
      BY <3>7, <3>9
  <2>8. CanBeClaimed(rec[call[w][k].job], 0)
    BY <2>7 DEF ClaimWin, IInv, FreshClaimsOK
  <2>9. call[w][k].job = j
    BY <2>1, <2>7 DEF ClaimWin, AppendTo
  <2> QED
    BY <2>8, <2>9 DEF CanBeClaimed
<1> QED
  BY <1>1, Invariance, PTL DEF Spec, ClaimTakesFreeJob
=============================================================================
