------------------------- MODULE JobLifecycleProofs -------------------------
(***************************************************************************)
(* JobExecution implements JobLifecycle, for any jobs, tokens, lease       *)
(* lengths, attempt limits and numbers of faults and crashes, as long as   *)
(* one process executes the jobs, store calls are short against the lease  *)
(* and one API request at a time is served.  Two processes take jobs from  *)
(* each other once a lease has lapsed, and of two requests that retry a    *)
(* job the second requeues what the first has started: none of the three   *)
(* conditions can be dropped.                                              *)
(*                                                                         *)
(* What the tasks know here is more than IInv says, which knows only of    *)
(* jobs that nothing has disturbed.  In one process a lapsed lease is that *)
(* of a task which has died, or the process would pass the job over; so    *)
(* what a run has read of its record stays true until its last event.      *)
(***************************************************************************)
EXTENDS JobExecutionProofs

OneProcess ==
  /\ Prompt
  /\ \A v, w \in Workers : v = w
  /\ \A h, k \in Handlers : h = k

-----------------------------------------------------------------------------
(* The invariant. *)

(* A claim is started, or given up, before time passes. *)
NewClaim(j) == rec[j].status = "claimed" => rec[j].lease = TTL

Claiming(w, k) == call[w][k].pc = "read" \/ <<w, k>> \in freshCalls

(* The handlers serve once the poller has gone through its first loop, who *)
(* alone retries jobs before.  What a call is about to requeue may be      *)
(* retried, and what it is about to claim is not executed over a lease     *)
(* that has expired.                                                       *)
CallFits(w, k) ==
  /\ call[w][k].age = 0
  /\ k = Poller /\ call[w][k].pc \in {"bootretry", "requeue"} => phase[w] = "boot"
  /\ k # Poller /\ call[w][k].pc # "idle" => phase[w] = "up"
  /\ call[w][k].pc = "requeue" => CanRetry(rec[call[w][k].job])
  /\ call[w][k].pc \in {"reread", "launch"} => NewClaim(call[w][k].job)
  /\ Claiming(w, k) /\ Executing(w, call[w][k].job) => rec[call[w][k].job].lease > 0

(* What a run has read of the record is still so. *)
RunFits(w, j) ==
  /\ run[w][j].pc \in {"load", "start"} => NewClaim(j)
  /\ run[w][j].pc = "start" =>
       /\ rec[j].status = "claimed" /\ run[w][j].lease = TTL
       /\ run[w][j].attempt = NextAttempt(rec[j].attempt)
  /\ run[w][j].pc \in {"work", "fail"} =>
       rec[j].status = "running" /\ run[w][j].attempt = rec[j].attempt

AloneInv ==
  \A w \in Workers : /\ \A k \in Callers : CallFits(w, k)
                     /\ \A j \in Jobs : RunFits(w, j)

(* Over a fresh claim or a retry nothing is executed. *)
LEMMA ExecutesLeased ==
  ASSUME AloneInv, NEW w \in Workers, NEW j \in Jobs, Executing(w, j)
  PROVE  rec[j].status \in Leased
<1>1. RunFits(w, j)
  BY DEF AloneInv
<1> QED
  BY <1>1 DEF RunFits, Executing, Leased

LEMMA NoneClaimsExecuted ==
  ASSUME IInv, AloneInv, NEW w \in Workers, NEW k \in Callers, <<w, k>> \in freshCalls
  PROVE  ~Executing(w, call[w][k].job)
<1> SUFFICES ASSUME Executing(w, call[w][k].job) PROVE FALSE
  OBVIOUS
<1> PICK j \in Jobs : j = call[w][k].job
  BY DEF IInv, FreshClaimsOK, TasksOK
<1>1. rec[j].status \in Leased
  BY ExecutesLeased
<1>2. CanBeClaimed(rec[j], 0)
  BY DEF IInv, FreshClaimsOK
<1>3. rec[j].lease > 0
  BY DEF AloneInv, CallFits, Claiming
<1>4. rec[j].lease \in Int
  BY ConstantsOK, JobAssumption DEF IInv, TypeOK, Record, Lease
<1>5. rec[j].lease + 0 <= 0
  BY <1>1, <1>2 DEF CanBeClaimed, LeaseIsExpired, Leased
<1> QED
  BY <1>3, <1>4, <1>5

(* Of two calls one at most is about to requeue. *)
LEMMA OneRequeues ==
  ASSUME OneProcess, AloneInv, NEW w \in Workers, NEW h \in Callers, NEW k \in Callers,
         call[w][h].pc = "requeue", call[w][k].pc = "requeue"
  PROVE  h = k
<1>1. CallFits(w, h) /\ CallFits(w, k)
  BY DEF AloneInv
<1>2. h = Poller <=> k = Poller
  BY <1>1 DEF CallFits
<1> QED
  BY <1>2 DEF OneProcess, Callers

-----------------------------------------------------------------------------
(* The kinds of steps. *)

(* A call goes on; others go on seeing what they saw. *)
LEMMA CallAlone ==
  ASSUME IInv, OneProcess, AloneInv, NEW w \in Workers, NEW k \in Callers, NEW c \in Call,
         SetCall(w, k, c), UNCHANGED <<rec, run>>,
         freshCalls' \subseteq freshCalls \cup {<<w, k>>},
         phase'[w] = phase[w] \/ (k = Poller /\ \A h \in Handlers : call[w][h].pc = "idle")
           \/ (k = Poller /\ phase'[w] = "up"),
         CallFits(w, k)'
  PROVE  AloneInv'
<1>1. /\ call'[w][k] = c
      /\ \A v \in Workers, h \in Callers :
           v # w \/ h # k => call'[v][h] = call[v][h]
  BY SetCallEffect DEF IInv
<1>2. ASSUME NEW h \in Callers, h # k PROVE CallFits(w, h)'
  <2>1. CallFits(w, h)
    BY DEF AloneInv
  <2>2. /\ call'[w][h] = call[w][h] /\ rec' = rec /\ run' = run
        /\ Claiming(w, h)' => Claiming(w, h)
    BY <1>1, <1>2 DEF Claiming
  <2>3. h # Poller /\ call[w][h].pc # "idle" => phase'[w] = "up"
    BY <2>1 DEF CallFits, Callers
  <2>4. h = Poller => phase'[w] = phase[w]
    BY <1>2
  <2> QED
    BY <2>1, <2>2, <2>3, <2>4 DEF CallFits, NewClaim, Executing
<1>3. ASSUME NEW j \in Jobs PROVE RunFits(w, j)'
  BY DEF AloneInv, RunFits, NewClaim
<1> QED
  BY <1>2, <1>3 DEF AloneInv, OneProcess

(* A run goes on, without an append. *)
LEMMA RunAlone ==
  ASSUME IInv, OneProcess, AloneInv, NEW w \in Workers, NEW j \in Jobs, NEW task \in Run,
         SetRun(w, j, task), UNCHANGED <<rec, call, freshCalls, phase>>,
         RunFits(w, j)',
         task.pc \in {"start", "work", "fail"} => Executing(w, j) \/ rec[j].lease > 0
  PROVE  AloneInv'
<1>1. /\ run'[w][j] = task
      /\ \A i \in Jobs : i # j => run'[w][i] = run[w][i]
  BY SetRunEffect DEF IInv
<1>2. ASSUME NEW i \in Jobs, i # j PROVE RunFits(w, i)'
  BY <1>1, <1>2 DEF AloneInv, RunFits, NewClaim
<1>3. ASSUME NEW k \in Callers PROVE CallFits(w, k)'
  <2>1. CallFits(w, k)
    BY DEF AloneInv
  <2>2. ASSUME Claiming(w, k), Executing(w, call[w][k].job)'
        PROVE  rec[call[w][k].job].lease > 0
    <3>1. call[w][k].job \in Jobs
      BY <2>2 DEF Claiming, IInv, FreshClaimsOK, TasksOK
    <3>2. CASE call[w][k].job = j
      BY <1>1, <2>1, <2>2, <3>2 DEF CallFits, Executing
    <3>3. CASE call[w][k].job # j
      BY <1>1, <2>1, <2>2, <3>1, <3>3 DEF CallFits, Executing
    <3> QED
      BY <3>2, <3>3
  <2> QED
    BY <2>1, <2>2 DEF CallFits, NewClaim, Claiming
<1> QED
  BY <1>2, <1>3 DEF AloneInv, OneProcess

(* An append to j, by a call or by the run of j. *)
LEMMA AppendAlone ==
  ASSUME IInv, OneProcess, AloneInv, NEW w \in Workers, NEW j \in Jobs, NEW r \in Record,
         AppendTo(j, r), UNCHANGED phase,
         \A i \in Jobs : i # j => run'[w][i] = run[w][i],
         RunFits(w, j)',
         \A k \in Callers :
           \/ CallFits(w, k)'
           \/ /\ call'[w][k] = call[w][k]
              /\ call[w][k].pc = "requeue" /\ call[w][k].job = j => CanRetry(r),
         r.status = "claimed" => r.lease = TTL,
         Executing(w, j)' => r.lease > 0
  PROVE  AloneInv'
<1>1. /\ rec'[j] = r
      /\ \A i \in Jobs : i # j => rec'[i] = rec[i]
      /\ freshCalls' = {}
  BY AppendEffect DEF IInv
<1>2. ASSUME NEW i \in Jobs, i # j PROVE RunFits(w, i)'
  BY <1>1, <1>2 DEF AloneInv, RunFits, NewClaim
<1>3. ASSUME NEW k \in Callers, call'[w][k] = call[w][k],
             call[w][k].pc = "requeue" /\ call[w][k].job = j => CanRetry(r)
      PROVE  CallFits(w, k)'
  <2>1. CallFits(w, k) /\ UNCHANGED <<phase, call[w][k]>>
    BY <1>3 DEF AloneInv
  <2>2. call[w][k].pc \in {"requeue", "read", "append", "reread", "launch"} =>
          call[w][k].job \in Jobs
    BY DEF IInv, TasksOK
  <2>3. call[w][k].pc = "requeue" => CanRetry(rec'[call[w][k].job])
    BY <1>1, <1>3, <2>1, <2>2 DEF CallFits
  <2>4. call[w][k].pc \in {"reread", "launch"} => NewClaim(call[w][k].job)'
    BY <1>1, <2>1, <2>2 DEF CallFits, NewClaim
  <2>5. ASSUME call[w][k].pc = "read", Executing(w, call[w][k].job)'
        PROVE  rec'[call[w][k].job].lease > 0
    <3>1. CASE call[w][k].job = j
      <4>1. Executing(w, j)'
        BY <2>1, <2>5, <3>1 DEF Executing
      <4> QED
        BY <1>1, <3>1, <4>1
    <3>2. CASE call[w][k].job # j
      BY <1>1, <2>1, <2>2, <2>5, <3>2 DEF CallFits, Executing, Claiming
    <3> QED
      BY <3>1, <3>2
  <2> QED
    BY <1>1, <2>1, <2>3, <2>4, <2>5 DEF CallFits, Claiming, CanRetry
<1>4. \A k \in Callers : CallFits(w, k)'
  BY <1>3
<1> QED
  BY <1>2, <1>4 DEF AloneInv, OneProcess

(* The process loses its tasks. *)
LEMMA DieAlone ==
  ASSUME IInv, OneProcess, AloneInv, NEW w \in Workers, Die(w)
  PROVE  AloneInv'
<1>1. /\ \A k \in Callers : call'[w][k] = IdleCall
      /\ \A j \in Jobs : run'[w][j] = IdleRun
      /\ \A k \in Callers : <<w, k>> \notin freshCalls'
  BY DEF Die, IInv, TypeOK
<1>2. ASSUME NEW k \in Callers PROVE CallFits(w, k)'
  BY <1>1 DEF CallFits, IdleCall, Claiming
<1>3. ASSUME NEW j \in Jobs PROVE RunFits(w, j)'
  BY <1>1 DEF RunFits, IdleRun
<1> QED
  BY <1>2, <1>3 DEF AloneInv, OneProcess

-----------------------------------------------------------------------------
(* What an append says of the job's status and attempt. *)

StatusOf == [j \in Jobs |-> rec[j].status]
AttemptOf == [j \in Jobs |-> rec[j].attempt]

LEMMA AppendMoves ==
  ASSUME IInv, NEW j \in Jobs, NEW r \in Record, AppendTo(j, r)
  PROVE  /\ StatusOf' = [StatusOf EXCEPT ![j] = r.status]
         /\ AttemptOf' = [AttemptOf EXCEPT ![j] = r.attempt]
         /\ r.status = rec[j].status => StatusOf' = StatusOf
         /\ r.attempt = rec[j].attempt => AttemptOf' = AttemptOf
<1>1. rec'[j] = r /\ \A i \in Jobs : i # j => rec'[i] = rec[i]
  BY AppendEffect DEF IInv
<1> QED
  BY <1>1 DEF StatusOf, AttemptOf

(* The steps of the lifecycle in terms of the records. *)
LEMMA LifecycleSteps ==
  ASSUME NEW j \in Jobs
  PROVE  /\ /\ rec[j].status = "none"
            /\ StatusOf' = [StatusOf EXCEPT ![j] = "queued"] /\ AttemptOf' = AttemptOf
            => Lifecycle!Create(j)
         /\ /\ rec[j].status \in {"queued", "claimed", "running"}
            /\ StatusOf' = [StatusOf EXCEPT ![j] = "claimed"] /\ AttemptOf' = AttemptOf
            => Lifecycle!Claim(j)
         /\ /\ rec[j].status = "claimed"
            /\ StatusOf' = [StatusOf EXCEPT ![j] = "running"]
            /\ AttemptOf' = [AttemptOf EXCEPT ![j] = NextAttempt(rec[j].attempt)]
            => Lifecycle!Start(j)
         /\ /\ rec[j].status = "running"
            /\ \E s \in {"completed", "failed"} : StatusOf' = [StatusOf EXCEPT ![j] = s]
            /\ AttemptOf' = AttemptOf
            => Lifecycle!Finish(j)
         /\ /\ rec[j].status = "failed" /\ rec[j].attempt < MaxAttempts
            /\ StatusOf' = [StatusOf EXCEPT ![j] = "queued"] /\ AttemptOf' = AttemptOf
            => Lifecycle!Retry(j)
<1>1. StatusOf[j] = rec[j].status /\ AttemptOf[j] = rec[j].attempt
  BY DEF StatusOf, AttemptOf
<1>2. [AttemptOf EXCEPT ![j] = NextAttempt(rec[j].attempt)] =
        [AttemptOf EXCEPT ![j] = IF @ < AttemptCap THEN @ + 1 ELSE @]
  BY <1>1 DEF NextAttempt
<1> QED
  BY <1>1, <1>2
     DEF StatusOf, AttemptOf, Lifecycle!Create, Lifecycle!Claim, Lifecycle!Start,
         Lifecycle!Finish, Lifecycle!Retry, Lifecycle!Becomes

(* Some job takes a step of the lifecycle, or none does. *)
Advances == Lifecycle!Next \/ UNCHANGED <<StatusOf, AttemptOf>>

LEMMA JobAdvances ==
  ASSUME NEW j \in Jobs,
         \/ Lifecycle!Create(j) \/ Lifecycle!Claim(j) \/ Lifecycle!Start(j)
         \/ Lifecycle!Finish(j) \/ Lifecycle!Retry(j)
  PROVE  Advances
BY DEF Advances, Lifecycle!Next

LEMMA Stays ==
  ASSUME UNCHANGED rec
  PROVE  Advances
BY DEF Advances, StatusOf, AttemptOf

-----------------------------------------------------------------------------
(* The steps that create and requeue jobs. *)

LEMMA CreatingAlone ==
  ASSUME IInv, OneProcess, AloneInv, NEW w \in Workers, NEW j \in Jobs,
         rec[j].status = "none", AppendTo(j, Released(rec[j], "queued")),
         UNCHANGED <<phase, run>>,
         \A k \in Callers : call'[w][k] = call[w][k] \/ CallFits(w, k)'
  PROVE  AloneInv' /\ Advances
<1> DEFINE r == Released(rec[j], "queued")
<1>1. rec[j] \in Record
  BY DEF IInv, TypeOK
<1>2. r \in Record /\ r.status = "queued" /\ r.attempt = rec[j].attempt
  BY <1>1, ConstantsOK DEF Released, Record, Status
<1>3. AppendTo(j, r)
  OBVIOUS
<1> HIDE DEF r
<1>4. ~Executing(w, j)
  BY ExecutesLeased DEF Leased
<1>5. ~Executing(w, j)' /\ RunFits(w, j)'
  <2>1. rec'[j].status = "queued"
    BY <1>2, <1>3, AppendEffect DEF IInv
  <2> QED
    BY <1>4, <2>1 DEF Executing, RunFits, NewClaim
<1>6. \A k \in Callers : ~(call[w][k].pc = "requeue" /\ call[w][k].job = j)
  BY DEF AloneInv, CallFits, CanRetry
<1>7. AloneInv'
  BY <1>2, <1>3, <1>5, <1>6, AppendAlone
<1>8. StatusOf' = [StatusOf EXCEPT ![j] = "queued"] /\ AttemptOf' = AttemptOf
  BY <1>2, <1>3, AppendMoves
<1>9. Lifecycle!Create(j)
  BY <1>8, LifecycleSteps
<1> QED
  BY <1>7, <1>9, JobAdvances

LEMMA CreateJobAlone ==
  ASSUME IInv, OneProcess, AloneInv, NEW w \in Workers, NEW j \in Jobs, CreateJob(j)
  PROVE  AloneInv' /\ Advances
BY CreatingAlone DEF CreateJob, tasks

LEMMA RequestAlone ==
  ASSUME IInv, OneProcess, AloneInv, NEW w \in Workers, NEW k \in Handlers, NEW j \in Jobs,
         Request(w, k, j)
  PROVE  AloneInv' /\ Advances
<1>1. k \in Callers /\ k # Poller /\ phase[w] = "up" /\ UNCHANGED <<phase, run>>
  BY JobAssumption DEF Callers, Request, ApiCreate, ApiRetry, tasks
<1>2. CASE ApiCreate(w, k, j)
  <2> DEFINE c == [IdleCall EXCEPT !.pc = "loop", !.todo = {j}]
  <2>1. c \in Call /\ c.pc = "loop" /\ c.age = 0
    BY ConstantsOK DEF IdleCall, Call, CallPc
  <2>2. /\ SetCall(w, k, c) /\ rec[j].status = "none"
        /\ AppendTo(j, Released(rec[j], "queued"))
    BY <1>2 DEF ApiCreate
  <2> HIDE DEF c
  <2>3. call'[w][k] = c /\ \A h \in Callers : h # k => call'[w][h] = call[w][h]
    BY <1>1, <2>1, <2>2, SetCallEffect DEF IInv
  <2>4. freshCalls' = {}
    BY <2>2 DEF AppendTo
  <2>5. CallFits(w, k)'
    BY <1>1, <2>1, <2>3, <2>4 DEF CallFits, Claiming
  <2> QED
    BY <1>1, <2>2, <2>3, <2>5, CreatingAlone
<1>3. CASE ApiRetry(w, k, j)
  <2> DEFINE c == [IdleCall EXCEPT !.pc = "requeue", !.todo = {j}, !.job = j]
  <2>1. c \in Call /\ c.pc = "requeue" /\ c.age = 0 /\ c.job = j
    BY ConstantsOK DEF IdleCall, Call, CallPc
  <2>2. /\ SetCall(w, k, c) /\ CanRetry(rec[j]) /\ call[w][k].pc = "idle"
        /\ UNCHANGED <<rec, freshCalls>>
    BY <1>3 DEF ApiRetry, store
  <2> HIDE DEF c
  <2>3. call'[w][k] = c
    BY <1>1, <2>1, <2>2, SetCallEffect DEF IInv
  <2>4. <<w, k>> \notin freshCalls'
    BY <1>1, <2>2 DEF IInv, FreshClaimsOK
  <2>5. CallFits(w, k)'
    BY <1>1, <2>1, <2>2, <2>3, <2>4 DEF CallFits, Claiming, CanRetry
  <2> QED
    BY <1>1, <2>1, <2>2, <2>5, CallAlone, Stays
<1> QED
  BY <1>2, <1>3 DEF Request

LEMMA RequeueAlone ==
  ASSUME IInv, OneProcess, AloneInv, NEW w \in Workers, NEW k \in Callers, Requeue(w, k)
  PROVE  AloneInv' /\ Advances
<1> DEFINE c == call[w][k]
<1> PICK j \in Jobs : j = c.job
  BY DEF Requeue, IInv, TasksOK
<1> DEFINE r == Released(rec[j], "queued")
           d == IF k = Poller THEN [c EXCEPT !.pc = "bootretry", !.job = None]
                              ELSE NextJob(c)
<1>1. /\ rec[j] \in Record /\ c \in Call /\ c.pc = "requeue"
      /\ CallFits(w, k) /\ CanRetry(rec[j])
  BY LoopSteps DEF Requeue, AloneInv, CallFits
<1>2. r \in Record /\ r.status = "queued" /\ r.attempt = rec[j].attempt
  BY <1>1, ConstantsOK DEF Released, Record, Status
<1>3. d \in Call /\ d.age = 0 /\ d.pc = IF k = Poller THEN "bootretry" ELSE "loop"
  <2>1. c.age = 0
    BY <1>1 DEF CallFits
  <2>2. CASE k = Poller
    BY <1>1, <2>1, <2>2 DEF Call, CallPc
  <2>3. CASE k # Poller
    BY <1>1, <2>3, LoopSteps DEF NextJob, Call
  <2> QED
    BY <2>2, <2>3
<1>4. AppendTo(j, r) /\ SetCall(w, k, d) /\ UNCHANGED <<phase, run>>
  BY DEF Requeue, tasks
<1> HIDE DEF r, d
<1>5. /\ call'[w][k] = d /\ \A h \in Callers : h # k => call'[w][h] = call[w][h]
      /\ rec'[j] = r /\ freshCalls' = {}
  BY <1>2, <1>3, <1>4, SetCallEffect, AppendEffect DEF IInv
<1>6. CallFits(w, k)'
  BY <1>1, <1>3, <1>4, <1>5 DEF CallFits, Claiming
<1>7. ~Executing(w, j)
  BY <1>1, ExecutesLeased DEF CanRetry, Leased
<1>8. ~Executing(w, j)' /\ RunFits(w, j)'
  BY <1>2, <1>4, <1>5, <1>7 DEF Executing, RunFits, NewClaim
<1>9. \A h \in Callers : h # k => call[w][h].pc # "requeue"
  BY <1>1, OneRequeues
<1>10. AloneInv'
  BY <1>2, <1>4, <1>5, <1>6, <1>8, <1>9, AppendAlone
<1>11. StatusOf' = [StatusOf EXCEPT ![j] = "queued"] /\ AttemptOf' = AttemptOf
  BY <1>2, <1>4, AppendMoves
<1>12. Lifecycle!Retry(j)
  BY <1>1, <1>11, LifecycleSteps DEF CanRetry
<1> QED
  BY <1>10, <1>12, JobAdvances

-----------------------------------------------------------------------------
(* The life of the process and its loops. *)

LEMMA BootAlone ==
  ASSUME IInv, OneProcess, AloneInv, NEW w \in Workers, BootStep(w)
  PROVE  AloneInv' /\ Advances
<1> DEFINE c == call[w][Poller]
<1>1. /\ Poller \in Callers /\ c \in Call /\ CallFits(w, Poller)
      /\ <<w, Poller>> \in freshCalls => c.pc = "append"
  BY ConstantsOK, LoopSteps DEF AloneInv, IInv, FreshClaimsOK
<1>2. CASE Boot(w)
  <2> DEFINE d == [IdleCall EXCEPT !.pc = "bootretry",
                                   !.todo = {j \in Jobs : CanRetry(rec[j])}]
  <2>1. d \in Call /\ d.pc = "bootretry" /\ d.age = 0
    BY ConstantsOK DEF IdleCall, Call, CallPc
  <2>2. /\ SetCall(w, Poller, d) /\ UNCHANGED <<rec, run, freshCalls>>
        /\ phase[w] = "down" /\ phase' = [phase EXCEPT ![w] = "boot"]
    BY <1>2 DEF Boot, store, tasks
  <2> HIDE DEF d
  <2>3. phase'[w] = "boot"
    BY <2>2 DEF IInv, TypeOK
  <2>4. /\ \A h \in Handlers : call[w][h].pc = "idle"
        /\ c.pc = "idle"
    BY <2>2, ConstantsOK DEF IInv, TasksOK, Callers
  <2>5. call'[w][Poller] = d
    BY <1>1, <2>1, <2>2, SetCallEffect DEF IInv
  <2>6. CallFits(w, Poller)'
    BY <1>1, <2>1, <2>2, <2>3, <2>4, <2>5 DEF CallFits, Claiming
  <2> QED
    BY <1>1, <2>1, <2>2, <2>4, <2>6, CallAlone, Stays
<1>3. ASSUME NEW j \in Jobs, BootRetry(w, j) PROVE AloneInv' /\ Advances
  <2> DEFINE d == [c EXCEPT !.pc = "requeue", !.job = j, !.todo = @ \ {j}]
  <2>1. d \in Call /\ d.pc = "requeue" /\ d.job = j /\ d.age = 0
    BY <1>1 DEF Call, CallPc, CallFits
  <2>2. /\ SetCall(w, Poller, d) /\ c.pc = "bootretry" /\ CanRetry(rec[j])
        /\ UNCHANGED <<rec, run, freshCalls, phase>>
    BY <1>3 DEF BootRetry, store, tasks
  <2> HIDE DEF d
  <2>3. call'[w][Poller] = d
    BY <1>1, <2>1, <2>2, SetCallEffect DEF IInv
  <2>4. CallFits(w, Poller)'
    BY <1>1, <2>1, <2>2, <2>3 DEF CallFits, Claiming, CanRetry
  <2> QED
    BY <1>1, <2>1, <2>2, <2>4, CallAlone, Stays
<1>4. ASSUME NEW j \in Jobs, BootRefused(w, j) PROVE AloneInv' /\ Advances
  BY <1>4, DieAlone, Stays DEF BootRefused
<1>5. CASE ListJobs(w)
  <2> DEFINE d == [c EXCEPT !.pc = "loop",
                     !.todo = {j \in Jobs : rec[j].status \in Recoverable}]
  <2>1. d \in Call /\ d.pc = "loop" /\ d.age = 0
    BY <1>1 DEF Call, CallPc, CallFits
  <2>2. /\ SetCall(w, Poller, d) /\ c.pc # "append"
        /\ UNCHANGED <<rec, run, freshCalls, phase>>
    BY <1>5 DEF ListJobs, store, tasks
  <2> HIDE DEF d
  <2>3. call'[w][Poller] = d
    BY <1>1, <2>1, <2>2, SetCallEffect DEF IInv
  <2>4. CallFits(w, Poller)'
    BY <1>1, <2>1, <2>2, <2>3 DEF CallFits, Claiming
  <2> QED
    BY <1>1, <2>1, <2>2, <2>4, CallAlone, Stays
<1> QED
  BY <1>2, <1>3, <1>4, <1>5 DEF BootStep

(* Schedule passes over what the process executes, so a call that is about *)
(* to read has nobody to go over.                                          *)
LEMMA ReadingAlone ==
  ASSUME IInv, OneProcess, AloneInv, NEW w \in Workers, NEW k \in Callers,
         \/ \E j \in Jobs : Schedule(w, k, j)
         \/ EndLoop(w, k) \/ ClaimLose(w, k) \/ ClaimReread(w, k)
  PROVE  AloneInv' /\ Advances
<1> DEFINE c == call[w][k]
<1>1. /\ c \in Call /\ CallFits(w, k)
      /\ NextJob(c) \in Call /\ NextJob(c).pc = "loop" /\ NextJob(c).age = 0
      /\ <<w, k>> \in freshCalls => c.pc = "append"
  <2>1. c \in Call /\ NextJob(c) \in Call /\ NextJob(c).pc = "loop"
    BY LoopSteps
  <2>2. NextJob(c).age = 0
    BY <2>1 DEF NextJob, Call
  <2> QED
    BY <2>1, <2>2 DEF AloneInv, IInv, FreshClaimsOK
<1>2. ASSUME NEW j \in Jobs, Schedule(w, k, j) PROVE AloneInv' /\ Advances
  <2> DEFINE d == IF Active(w, j) THEN [c EXCEPT !.todo = @ \ {j}]
                  ELSE [c EXCEPT !.pc = "read", !.job = j, !.todo = @ \ {j}]
  <2>1. /\ SetCall(w, k, d) /\ c.pc = "loop" /\ UNCHANGED <<rec, run, freshCalls, phase>>
    BY <1>2 DEF Schedule, store, tasks
  <2>2. /\ d \in Call /\ d.age = 0
        /\ d.pc = "loop" \/ (d.pc = "read" /\ d.job = j /\ ~Active(w, j))
    <3>1. c.age = 0
      BY <1>1 DEF CallFits
    <3>2. CASE Active(w, j)
      BY <1>1, <2>1, <3>1, <3>2 DEF Call
    <3>3. CASE ~Active(w, j)
      BY <1>1, <3>1, <3>3 DEF Call, CallPc
    <3> QED
      BY <3>2, <3>3
  <2> HIDE DEF d
  <2>3. call'[w][k] = d
    BY <2>1, <2>2, SetCallEffect DEF IInv
  <2>4. CallFits(w, k)'
    BY <1>1, <2>1, <2>2, <2>3 DEF CallFits, Claiming, Executing, Active
  <2> QED
    BY <2>1, <2>2, <2>4, CallAlone, Stays
<1>3. CASE EndLoop(w, k)
  <2> DEFINE d == IF k = Poller THEN [IdleCall EXCEPT !.pc = "asleep"] ELSE IdleCall
  <2>1. /\ SetCall(w, k, d) /\ c.pc = "loop" /\ UNCHANGED <<rec, run, freshCalls>>
        /\ phase' = IF k = Poller THEN [phase EXCEPT ![w] = "up"] ELSE phase
    BY <1>3 DEF EndLoop, store, tasks
  <2>2. d \in Call /\ d.pc = (IF k = Poller THEN "asleep" ELSE "idle") /\ d.age = 0
    BY ConstantsOK DEF IdleCall, Call, CallPc
  <2> HIDE DEF d
  <2>3. call'[w][k] = d
    BY <2>1, <2>2, SetCallEffect DEF IInv
  <2>4. IF k = Poller THEN phase'[w] = "up" ELSE phase'[w] = phase[w]
    BY <2>1 DEF IInv, TypeOK
  <2>5. CallFits(w, k)'
    BY <1>1, <2>1, <2>2, <2>3 DEF CallFits, Claiming
  <2> QED
    BY <2>1, <2>2, <2>4, <2>5, CallAlone, Stays
<1>4. CASE ClaimLose(w, k)
  <2>1. /\ SetCall(w, k, NextJob(c)) /\ <<w, k>> \notin freshCalls /\ c.pc = "append"
        /\ UNCHANGED <<rec, run, freshCalls, phase>>
    BY <1>4 DEF ClaimLose, store, tasks
  <2>2. call'[w][k] = NextJob(c)
    BY <1>1, <2>1, SetCallEffect DEF IInv
  <2>3. CallFits(w, k)'
    BY <1>1, <2>1, <2>2 DEF CallFits, Claiming
  <2> QED
    BY <1>1, <2>1, <2>3, CallAlone, Stays
<1>5. CASE ClaimReread(w, k)
  <2> PICK j \in Jobs : j = c.job
    BY <1>5 DEF ClaimReread, IInv, TasksOK
  <2> DEFINE d == IF rec[j].token = None THEN NextJob(c)
                  ELSE [c EXCEPT !.pc = "launch", !.token = rec[j].token]
  <2>1. /\ SetCall(w, k, d) /\ c.pc = "reread" /\ UNCHANGED <<rec, run, freshCalls, phase>>
    BY <1>5 DEF ClaimReread, store, tasks
  <2>2. /\ d \in Call /\ d.age = 0
        /\ d.pc = "loop" \/ (d.pc = "launch" /\ d.job = j)
    <3>1. rec[j].token \in Tokens \cup {None}
      BY DEF IInv, TypeOK, Record
    <3>2. c.age = 0
      BY <1>1 DEF CallFits
    <3>3. CASE rec[j].token = None
      BY <1>1, <3>3
    <3>4. CASE rec[j].token # None
      <4>1. /\ d = [c EXCEPT !.pc = "launch", !.token = rec[j].token]
            /\ c \in [pc: CallPc, todo: SUBSET Jobs, job: Jobs \cup {None},
                       age: 0 .. MaxLag, token: Tokens \cup {None}]
        BY <1>1, <3>4 DEF Call
      <4>2. d.pc = "launch" /\ d.job = c.job /\ d.age = c.age
        BY <4>1
      <4>3. d \in Call
        BY <3>1, <4>1 DEF Call, CallPc
      <4> QED
        BY <3>2, <4>2, <4>3
    <3> QED
      BY <3>3, <3>4
  <2> HIDE DEF d
  <2>3. call'[w][k] = d
    BY <2>1, <2>2, SetCallEffect DEF IInv
  <2>4. NewClaim(j)
    BY <1>1, <2>1 DEF CallFits
  <2>5. CallFits(w, k)'
    BY <1>1, <2>1, <2>2, <2>3, <2>4 DEF CallFits, Claiming, NewClaim
  <2> QED
    BY <2>1, <2>2, <2>5, CallAlone, Stays
<1> QED
  BY <1>2, <1>3, <1>4, <1>5

-----------------------------------------------------------------------------
(* The claim and the launch. *)

(* What can be claimed nobody executes: a run that is under way has the     *)
(* lease of its claim, which was renewed since the call looked for it.      *)
LEMMA ClaimReadAlone ==
  ASSUME IInv, OneProcess, AloneInv, NEW w \in Workers, NEW k \in Callers, ClaimRead(w, k)
  PROVE  AloneInv' /\ Advances
<1> DEFINE c == call[w][k]
<1> PICK j \in Jobs : j = c.job
  BY DEF ClaimRead, IInv, TasksOK
<1>1. /\ c \in Call /\ c.pc = "read" /\ c.age = 0 /\ CallFits(w, k)
      /\ NextJob(c) \in Call /\ NextJob(c).pc = "loop"
      /\ UNCHANGED <<rec, run, phase>>
  BY LoopSteps DEF ClaimRead, AloneInv, CallFits, tasks
<1>2. CASE ~CanBeClaimed(rec[j], c.age)
  <2>1. SetCall(w, k, NextJob(c)) /\ UNCHANGED freshCalls /\ <<w, k>> \notin freshCalls
    BY <1>1, <1>2 DEF ClaimRead, IInv, FreshClaimsOK
  <2>2. call'[w][k] = NextJob(c)
    BY <1>1, <2>1, SetCallEffect DEF IInv
  <2>3. NextJob(c).age = 0
    BY <1>1 DEF NextJob, Call
  <2>4. CallFits(w, k)'
    BY <1>1, <2>1, <2>2, <2>3 DEF CallFits, Claiming
  <2> QED
    BY <1>1, <2>1, <2>4, CallAlone, Stays
<1>3. CASE CanBeClaimed(rec[j], c.age)
  <2> DEFINE d == [c EXCEPT !.pc = "append", !.age = 0]
  <2>1. d \in Call /\ d.pc = "append" /\ d.job = j /\ d.age = 0
    BY <1>1 DEF Call, CallPc
  <2>2. SetCall(w, k, d) /\ freshCalls' = freshCalls \cup {<<w, k>>}
    BY <1>3 DEF ClaimRead
  <2> HIDE DEF d
  <2>3. call'[w][k] = d
    BY <2>1, <2>2, SetCallEffect DEF IInv
  <2>4. ~Executing(w, j)
    <3> SUFFICES ASSUME Executing(w, j) PROVE FALSE
      OBVIOUS
    <3>1. rec[j].status \in Leased /\ rec[j].lease > 0
      BY <1>1, ExecutesLeased DEF CallFits, Claiming
    <3>2. rec[j].lease \in Int
      BY ConstantsOK, JobAssumption DEF IInv, TypeOK, Record, Lease
    <3>3. rec[j].lease + 0 <= 0
      BY <1>1, <1>3, <3>1 DEF CanBeClaimed, LeaseIsExpired, Leased
    <3> QED
      BY <3>1, <3>2, <3>3
  <2>5. CallFits(w, k)'
    BY <1>1, <2>1, <2>3, <2>4 DEF CallFits, Claiming, Executing
  <2> QED
    BY <1>1, <2>1, <2>2, <2>5, CallAlone, Stays
<1> QED
  BY <1>2, <1>3

LEMMA ClaimWinAlone ==
  ASSUME IInv, OneProcess, AloneInv, NEW w \in Workers, NEW k \in Callers, ClaimWin(w, k)
  PROVE  AloneInv' /\ Advances
<1> DEFINE c == call[w][k]
<1> PICK j \in Jobs : j = c.job
  BY DEF ClaimWin, IInv, TasksOK
<1> PICK t \in Tokens : AppendTo(j, Claimed(rec[j], w, t))
  BY DEF ClaimWin, FreshToken
<1> DEFINE r == Claimed(rec[j], w, t)
           d == [c EXCEPT !.pc = "reread"]
<1>1. /\ c \in Call /\ c.pc = "append" /\ c.age = 0 /\ CallFits(w, k)
      /\ rec[j] \in Record /\ <<w, k>> \in freshCalls
  BY LoopSteps DEF ClaimWin, AloneInv, CallFits
<1>2. /\ r \in Record /\ r.status = "claimed" /\ r.lease = TTL
      /\ r.attempt = rec[j].attempt
  BY <1>1, ConstantsOK DEF Claimed, Record, Status
<1>3. d \in Call /\ d.pc = "reread" /\ d.job = j /\ d.age = 0
  BY <1>1 DEF Call, CallPc
<1>4. AppendTo(j, r) /\ SetCall(w, k, d) /\ UNCHANGED <<phase, run>>
  BY DEF ClaimWin, tasks
<1> HIDE DEF r, d
<1>5. /\ call'[w][k] = d /\ \A h \in Callers : h # k => call'[w][h] = call[w][h]
      /\ rec'[j] = r /\ freshCalls' = {}
  BY <1>2, <1>3, <1>4, SetCallEffect, AppendEffect DEF IInv
<1>6. CallFits(w, k)'
  BY <1>1, <1>2, <1>3, <1>4, <1>5 DEF CallFits, Claiming, NewClaim
<1>7. /\ rec[j].status \in {"queued", "claimed", "running"}
      /\ ~Executing(w, j)
  BY <1>1, NoneClaimsExecuted DEF IInv, FreshClaimsOK, CanBeClaimed, LeaseIsExpired, Leased
<1>8. ~Executing(w, j)' /\ RunFits(w, j)'
  BY <1>2, <1>4, <1>5, <1>7 DEF Executing, RunFits, NewClaim
<1>9. \A h \in Callers : ~(call[w][h].pc = "requeue" /\ call[w][h].job = j)
  BY <1>7 DEF AloneInv, CallFits, CanRetry
<1>10. AloneInv'
  BY <1>2, <1>4, <1>5, <1>6, <1>8, <1>9, AppendAlone
<1>11. StatusOf' = [StatusOf EXCEPT ![j] = "claimed"] /\ AttemptOf' = AttemptOf
  BY <1>2, <1>4, AppendMoves
<1>12. Lifecycle!Claim(j)
  BY <1>7, <1>11, LifecycleSteps
<1> QED
  BY <1>10, <1>12, JobAdvances

LEMMA LaunchAlone ==
  ASSUME IInv, OneProcess, AloneInv, NEW w \in Workers, NEW k \in Callers, Launch(w, k)
  PROVE  AloneInv' /\ Advances
<1> DEFINE c == call[w][k]
<1> PICK j \in Jobs : j = c.job
  BY DEF Launch, IInv, TasksOK
<1>1. /\ c \in Call /\ c.pc = "launch" /\ c.age = 0 /\ CallFits(w, k) /\ NewClaim(j)
      /\ NextJob(c) \in Call /\ NextJob(c).pc = "loop" /\ NextJob(c).age = 0
      /\ <<w, k>> \notin freshCalls
  <2>1. c \in Call /\ c.pc = "launch" /\ NextJob(c) \in Call /\ NextJob(c).pc = "loop"
    BY LoopSteps DEF Launch
  <2>2. NextJob(c).age = 0
    BY <2>1 DEF NextJob, Call
  <2> QED
    BY <2>1, <2>2 DEF AloneInv, CallFits, IInv, FreshClaimsOK
<1>2. SetCall(w, k, NextJob(c)) /\ UNCHANGED <<rec, freshCalls, phase>>
  BY DEF Launch, store
<1>3. /\ call'[w][k] = NextJob(c)
      /\ \A h \in Callers : h # k => call'[w][h] = call[w][h]
  BY <1>1, <1>2, SetCallEffect DEF IInv
<1>4. CallFits(w, k)'
  BY <1>1, <1>2, <1>3 DEF CallFits, Claiming
<1>5. CASE Active(w, j)
  <2>1. UNCHANGED run
    BY <1>5 DEF Launch, tasks
  <2> QED
    BY <1>1, <1>2, <1>4, <2>1, CallAlone, Stays
<1>6. CASE ~Active(w, j)
  <2> DEFINE task == [IdleRun EXCEPT !.pc = "load", !.token = c.token]
  <2>1. task \in Run /\ task.pc = "load"
    BY <1>1, ConstantsOK DEF IdleRun, Call, Run, RunPc
  <2>2. SetRun(w, j, task)
    BY <1>6 DEF Launch
  <2> HIDE DEF task
  <2>3. /\ run'[w][j] = task
        /\ \A i \in Jobs : i # j => run'[w][i] = run[w][i]
    BY <2>1, <2>2, SetRunEffect DEF IInv
  <2>4. ASSUME NEW i \in Jobs PROVE RunFits(w, i)'
    <3>1. CASE i = j
      BY <1>1, <1>2, <2>1, <2>3, <3>1 DEF RunFits, NewClaim
    <3>2. CASE i # j
      BY <1>2, <2>3, <3>2 DEF AloneInv, RunFits, NewClaim
    <3> QED
      BY <3>1, <3>2
  <2>5. ASSUME NEW h \in Callers, h # k PROVE CallFits(w, h)'
    <3>1. CallFits(w, h) /\ call'[w][h] = call[w][h]
      BY <1>3, <2>5 DEF AloneInv
    <3>2. Claiming(w, h) => call[w][h].job \in Jobs
      BY DEF Claiming, IInv, FreshClaimsOK, TasksOK
    <3>3. \A i \in Jobs : Executing(w, i)' => Executing(w, i)
      BY <2>1, <2>3 DEF Executing
    <3>4. Claiming(w, h) /\ Executing(w, call[w][h].job)' => Executing(w, call[w][h].job)
      BY <3>1, <3>2, <3>3 DEF Executing
    <3> QED
      BY <1>2, <3>1, <3>4 DEF CallFits, Claiming, NewClaim
  <2>6. AloneInv'
    BY <1>4, <2>4, <2>5 DEF AloneInv, OneProcess
  <2> QED
    BY <1>2, <2>6, Stays
<1> QED
  BY <1>5, <1>6

-----------------------------------------------------------------------------
(* The run and the heartbeat. *)

LEMMA RunReadingAlone ==
  ASSUME IInv, OneProcess, AloneInv, NEW w \in Workers, NEW j \in Jobs,
         RunLoad(w, j) \/ RunRaise(w, j) \/ RunFault(w, j)
  PROVE  AloneInv' /\ Advances
<1> DEFINE task == run[w][j]
<1>1. /\ task \in Run /\ rec[j] \in Record /\ JobOK(j) /\ RunFits(w, j) /\ NoLease \in Lease
  BY ConstantsOK, InvariantByJob DEF IInv, TypeOK, AloneInv
<1>2. UNCHANGED <<rec, call, freshCalls, phase>>
  BY DEF RunLoad, RunRaise, RunFault, store
<1>3. CASE RunLoad(w, j) /\ rec[j].status \in {"queued", "claimed"} /\ Holds(w, j)
  <2> DEFINE d == [task EXCEPT !.pc = "start", !.lease = rec[j].lease,
                               !.attempt = NextAttempt(rec[j].attempt)]
  <2>1. SetRun(w, j, d) /\ task.pc = "load"
    BY <1>3 DEF RunLoad
  <2>2. NextAttempt(rec[j].attempt) \in Attempts
    BY <1>1, JobAssumption DEF NextAttempt, Attempts, AttemptCap, Record
  <2>3. /\ d \in Run /\ d.pc = "start" /\ d.lease = rec[j].lease
        /\ d.attempt = NextAttempt(rec[j].attempt)
    BY <1>1, <2>2 DEF Run, RunPc, Record
  <2> HIDE DEF d
  <2>4. rec[j].status = "claimed"
    BY <1>1, <1>3, JobAssumption DEF JobOK, Holds, Leased
  <2>5. rec[j].lease = TTL
    BY <1>1, <2>1, <2>4 DEF RunFits, NewClaim
  <2>6. run'[w][j] = d
    BY <2>1, <2>3, SetRunEffect DEF IInv
  <2>7. RunFits(w, j)'
    BY <1>2, <2>3, <2>4, <2>5, <2>6 DEF RunFits, NewClaim, NextAttempt, AttemptCap
  <2>8. rec[j].lease > 0
    BY <2>5, JobAssumption
  <2> QED
    BY <1>2, <2>1, <2>3, <2>7, <2>8, RunAlone, Stays
<1>4. CASE RunLoad(w, j) /\ ~(rec[j].status \in {"queued", "claimed"} /\ Holds(w, j))
  <2> DEFINE d == [task EXCEPT !.pc = "exit"]
  <2>1. SetRun(w, j, d) /\ d \in Run /\ d.pc = "exit"
    BY <1>1, <1>4 DEF RunLoad, Run, RunPc
  <2> HIDE DEF d
  <2>2. RunFits(w, j)'
    BY <2>1, SetRunEffect DEF IInv, RunFits
  <2> QED
    BY <1>2, <2>1, <2>2, RunAlone, Stays
<1>5. CASE RunRaise(w, j)
  <2> DEFINE d == [task EXCEPT !.pc = "fail"]
  <2>1. SetRun(w, j, d) /\ d \in Run /\ d.pc = "fail" /\ d.attempt = task.attempt
        /\ task.pc = "work"
    BY <1>1, <1>5 DEF RunRaise, Run, RunPc
  <2> HIDE DEF d
  <2>2. run'[w][j] = d
    BY <2>1, SetRunEffect DEF IInv
  <2>3. RunFits(w, j)'
    BY <1>1, <1>2, <2>1, <2>2 DEF RunFits
  <2>4. Executing(w, j)
    BY <2>1 DEF Executing
  <2> QED
    BY <1>2, <2>1, <2>3, <2>4, RunAlone, Stays
<1>6. CASE RunFault(w, j)
  <2> DEFINE d == [task EXCEPT !.pc = "exit", !.lease = NoLease]
  <2>1. SetRun(w, j, d) /\ d \in Run /\ d.pc = "exit"
    BY <1>1, <1>6 DEF RunFault, Run, RunPc
  <2> HIDE DEF d
  <2>2. RunFits(w, j)'
    BY <2>1, SetRunEffect DEF IInv, RunFits
  <2> QED
    BY <1>2, <2>1, <2>2, RunAlone, Stays
<1> QED
  BY <1>3, <1>4, <1>5, <1>6

LEMMA RunExitAlone ==
  ASSUME IInv, OneProcess, AloneInv, NEW w \in Workers, NEW j \in Jobs, RunExit(w, j)
  PROVE  AloneInv' /\ Advances
<1>1. SetRun(w, j, IdleRun) /\ UNCHANGED <<rec, call, freshCalls, phase>>
  BY DEF RunExit
<1>2. IdleRun \in Run /\ IdleRun.pc = "idle"
  BY ConstantsOK DEF IdleRun
<1>3. RunFits(w, j)'
  BY <1>1, <1>2, SetRunEffect DEF IInv, RunFits
<1> QED
  BY <1>1, <1>2, <1>3, RunAlone, Stays

(* A started job has the lease of its claim, which nothing renewed. *)
LEMMA RunStartAlone ==
  ASSUME IInv, OneProcess, AloneInv, NEW w \in Workers, NEW j \in Jobs, RunStart(w, j)
  PROVE  AloneInv' /\ Advances
<1> DEFINE task == run[w][j]
           r == Started(rec[j], w, task)
           d == [task EXCEPT !.pc = "work", !.lease = NoLease]
<1>1. /\ task \in Run /\ rec[j] \in Record /\ NoLease \in Lease /\ task.pc = "start"
      /\ rec[j].status = "claimed" /\ task.lease = TTL
      /\ task.attempt = NextAttempt(rec[j].attempt)
  BY ConstantsOK DEF IInv, TypeOK, RunStart, AloneInv, RunFits
<1>2. /\ r \in Record /\ r.status = "running" /\ r.lease = TTL
      /\ r.attempt = NextAttempt(rec[j].attempt)
  BY <1>1 DEF Started, Record, Status, Run
<1>3. d \in Run /\ d.pc = "work" /\ d.attempt = NextAttempt(rec[j].attempt)
  BY <1>1 DEF Run, RunPc
<1>4. AppendTo(j, r) /\ SetRun(w, j, d) /\ UNCHANGED <<phase, call>>
  BY DEF RunStart
<1> HIDE DEF r, d
<1>5. /\ run'[w][j] = d /\ \A i \in Jobs : i # j => run'[w][i] = run[w][i]
      /\ rec'[j] = r
  BY <1>2, <1>3, <1>4, SetRunEffect, AppendEffect DEF IInv
<1>6. RunFits(w, j)'
  BY <1>2, <1>3, <1>5 DEF RunFits
<1>7. \A k \in Callers : ~(call[w][k].pc = "requeue" /\ call[w][k].job = j)
  BY <1>1 DEF AloneInv, CallFits, CanRetry
<1>8. r.lease > 0
  BY <1>2, JobAssumption
<1>9. AloneInv'
  BY <1>2, <1>4, <1>5, <1>6, <1>7, <1>8, AppendAlone
<1>10. /\ StatusOf' = [StatusOf EXCEPT ![j] = "running"]
       /\ AttemptOf' = [AttemptOf EXCEPT ![j] = NextAttempt(rec[j].attempt)]
  BY <1>2, <1>4, AppendMoves
<1>11. Lifecycle!Start(j)
  BY <1>1, <1>10, LifecycleSteps
<1> QED
  BY <1>9, <1>11, JobAdvances

LEMMA RunEndAlone ==
  ASSUME IInv, OneProcess, AloneInv, NEW w \in Workers, NEW j \in Jobs,
         RunComplete(w, j) \/ RunFail(w, j)
  PROVE  AloneInv' /\ Advances
<1> DEFINE task == run[w][j]
           d == [task EXCEPT !.pc = "exit"]
<1>1. /\ task \in Run /\ rec[j] \in Record /\ task.pc \in {"work", "fail"}
      /\ rec[j].status = "running" /\ task.attempt = rec[j].attempt
  BY DEF IInv, TypeOK, RunComplete, RunFail, AloneInv, RunFits
<1> PICK s \in {"completed", "failed"} : AppendTo(j, Finished(rec[j], s, task))
  BY DEF RunComplete, RunFail
<1> DEFINE r == Finished(rec[j], s, task)
<1>2. r \in Record /\ r.status = s /\ r.attempt = rec[j].attempt
  BY <1>1, ConstantsOK DEF Finished, Released, Record, Status, Run
<1>3. d \in Run /\ d.pc = "exit"
  BY <1>1 DEF Run, RunPc
<1>4. AppendTo(j, r) /\ SetRun(w, j, d) /\ UNCHANGED <<phase, call>>
  BY DEF RunComplete, RunFail
<1> HIDE DEF r, d
<1>5. /\ run'[w][j] = d /\ \A i \in Jobs : i # j => run'[w][i] = run[w][i]
      /\ rec'[j] = r
  BY <1>2, <1>3, <1>4, SetRunEffect, AppendEffect DEF IInv
<1>6. RunFits(w, j)' /\ ~Executing(w, j)'
  BY <1>3, <1>5 DEF RunFits, Executing
<1>7. \A k \in Callers : ~(call[w][k].pc = "requeue" /\ call[w][k].job = j)
  BY <1>1 DEF AloneInv, CallFits, CanRetry
<1>8. AloneInv'
  BY <1>2, <1>4, <1>5, <1>6, <1>7, AppendAlone
<1>9. StatusOf' = [StatusOf EXCEPT ![j] = s] /\ AttemptOf' = AttemptOf
  BY <1>2, <1>4, AppendMoves
<1>10. Lifecycle!Finish(j)
  BY <1>1, <1>9, LifecycleSteps
<1> QED
  BY <1>8, <1>10, JobAdvances

(* A heartbeat renews the lease of the job its run holds. *)
LEMMA BeatWinAlone ==
  ASSUME IInv, OneProcess, AloneInv, NEW w \in Workers, NEW j \in Jobs, BeatWin(w, j)
  PROVE  AloneInv' /\ Advances
<1> DEFINE r == Renewed(rec[j], w, run[w][j].token)
<1>1. /\ rec[j] \in Record /\ run[w][j] \in Run /\ RunFits(w, j)
      /\ rec[j].status \in Leased
  BY DEF BeatWin, IInv, TypeOK, FreshBeatsOK, AloneInv
<1>2. AppendTo(j, r) /\ UNCHANGED <<phase, call, run>>
  BY DEF BeatWin
<1>3. /\ r \in Record /\ r.status = rec[j].status /\ r.attempt = rec[j].attempt
      /\ r.lease = TTL
  BY <1>1, ConstantsOK DEF Renewed, Record, Run
<1> HIDE DEF r
<1>4. rec'[j] = r
  BY <1>2, <1>3, AppendEffect DEF IInv
<1>5. RunFits(w, j)'
  BY <1>1, <1>2, <1>3, <1>4 DEF RunFits, NewClaim, NextAttempt
<1>6. \A k \in Callers : ~(call[w][k].pc = "requeue" /\ call[w][k].job = j)
  BY <1>1 DEF AloneInv, CallFits, CanRetry, Leased
<1>7. r.lease > 0
  BY <1>3, JobAssumption
<1>8. AloneInv'
  BY <1>2, <1>3, <1>5, <1>6, <1>7, AppendAlone
<1>9. StatusOf' = StatusOf /\ AttemptOf' = AttemptOf
  BY <1>2, <1>3, AppendMoves
<1> QED
  BY <1>8, <1>9 DEF Advances

-----------------------------------------------------------------------------
(* Steps that neither move a call or a run nor append for a job. *)

LEMMA OthersAlone ==
  ASSUME OneProcess, AloneInv, UNCHANGED <<rec, phase, call, run>>,
         freshCalls' \subseteq freshCalls
  PROVE  AloneInv' /\ Advances
<1>1. ASSUME NEW w \in Workers, NEW k \in Callers PROVE CallFits(w, k)'
  <2>1. CallFits(w, k) /\ (Claiming(w, k)' => Claiming(w, k))
    BY DEF AloneInv, Claiming
  <2> QED
    BY <2>1 DEF CallFits, NewClaim, Executing
<1>2. ASSUME NEW w \in Workers, NEW j \in Jobs PROVE RunFits(w, j)'
  BY DEF AloneInv, RunFits, NewClaim
<1> QED
  BY <1>1, <1>2, Stays DEF AloneInv

LEMMA BeatReadingAlone ==
  ASSUME OneProcess, AloneInv, NEW w \in Workers, NEW j \in Jobs,
         BeatRead(w, j) \/ BeatLose(w, j) \/ BeatFault(w, j)
  PROVE  AloneInv' /\ Advances
<1>1. UNCHANGED <<rec, phase, call, run, freshCalls>>
  BY DEF BeatRead, BeatLose, BeatFault, store
<1> QED
  BY <1>1, OthersAlone

(* Time passes while nobody claims, starts or ends anything. *)
LEMMA TickAlone ==
  ASSUME IInv, OneProcess, AloneInv, Tick
  PROVE  AloneInv' /\ Advances
<1>1. /\ Quiet
      /\ rec' = [j \in Jobs |-> [rec[j] EXCEPT !.lease = TickDown(@)]]
      /\ run' = [w \in Workers |-> [j \in Jobs |->
                   [run[w][j] EXCEPT !.lease = TickDown(@)]]]
      /\ UNCHANGED <<freshCalls, phase>>
  BY DEF Tick, OneProcess
<1>2. \A j \in Jobs : rec'[j].status = rec[j].status /\ rec'[j].attempt = rec[j].attempt
  BY <1>1 DEF IInv, TypeOK, Record
<1>3. ASSUME NEW w \in Workers, NEW j \in Jobs
      PROVE  run'[w][j].pc = run[w][j].pc /\ run'[w][j].attempt = run[w][j].attempt
  <2>1. run[w][j] \in Run /\ run'[w][j] = [run[w][j] EXCEPT !.lease = TickDown(@)]
    BY <1>1 DEF IInv, TypeOK
  <2> QED
    BY <2>1 DEF Run
<1>4. ASSUME NEW w \in Workers, NEW j \in Jobs PROVE RunFits(w, j)'
  <2>1. run[w][j].pc \in {"idle", "work"}
    BY <1>1 DEF Quiet
  <2> QED
    BY <1>2, <1>3, <2>1 DEF AloneInv, RunFits
<1>5. ASSUME NEW w \in Workers, NEW k \in Callers PROVE CallFits(w, k)'
  <2> DEFINE c == call[w][k]
  <2>1. c \in Call /\ CallFits(w, k) /\ c.pc \in {"idle", "asleep", "dead"}
        /\ <<w, k>> \notin freshCalls
    BY <1>1 DEF IInv, TypeOK, AloneInv, Quiet, FreshClaimsOK
  <2>2. call'[w][k] = CASE c.pc = "read" -> [c EXCEPT !.age = @ + 1]
                        [] c.pc = "asleep" /\ Prompt -> [c EXCEPT !.pc = "list"]
                        [] OTHER -> c
    BY DEF Tick
  <2>3. CASE c.pc = "asleep"
    <3>1. call'[w][k] = [c EXCEPT !.pc = "list"]
      BY <2>2, <2>3 DEF OneProcess
    <3>2. call'[w][k].pc = "list" /\ call'[w][k].age = c.age
      BY <2>1, <3>1 DEF Call
    <3> QED
      BY <1>1, <2>1, <2>3, <3>2 DEF CallFits, Claiming
  <2>4. CASE c.pc # "asleep"
    <3>1. call'[w][k] = c
      BY <2>1, <2>2, <2>4
    <3> QED
      BY <1>1, <2>1, <3>1 DEF CallFits, Claiming
  <2> QED
    BY <2>3, <2>4
<1>6. UNCHANGED <<StatusOf, AttemptOf>>
  BY <1>2 DEF StatusOf, AttemptOf
<1> QED
  BY <1>4, <1>5, <1>6 DEF AloneInv, Advances

LEMMA CallFaultAlone ==
  ASSUME IInv, OneProcess, AloneInv, NEW w \in Workers, NEW k \in Callers, CallFault(w, k)
  PROVE  AloneInv' /\ Advances
<1>1. CASE k = Poller /\ phase[w] = "boot"
  BY <1>1, DieAlone, Stays DEF CallFault
<1>2. CASE ~(k = Poller /\ phase[w] = "boot")
  <2> DEFINE d == [IdleCall EXCEPT !.pc = IF k = Poller THEN "dead" ELSE "idle"]
  <2>1. d \in Call /\ d.pc = (IF k = Poller THEN "dead" ELSE "idle") /\ d.age = 0
    BY ConstantsOK DEF IdleCall, Call, CallPc
  <2>2. /\ SetCall(w, k, d) /\ freshCalls' = freshCalls \ {<<w, k>>}
        /\ UNCHANGED <<rec, phase, run>>
    BY <1>2 DEF CallFault, tasks
  <2> HIDE DEF d
  <2>3. call'[w][k] = d
    BY <2>1, <2>2, SetCallEffect DEF IInv
  <2>4. CallFits(w, k)'
    BY <2>1, <2>2, <2>3 DEF CallFits, Claiming
  <2> QED
    BY <2>1, <2>2, <2>4, CallAlone, Stays
<1> QED
  BY <1>1, <1>2

-----------------------------------------------------------------------------
(* The refinement. *)

LEMMA InitAlone == Init => AloneInv /\ Lifecycle!Init
<1> SUFFICES ASSUME Init PROVE AloneInv /\ Lifecycle!Init
  OBVIOUS
<1>1. AloneInv
  BY DEF Init, AloneInv, CallFits, RunFits, Claiming, IdleCall, IdleRun
<1>2. Lifecycle!Init
  BY DEF Init, Lifecycle!Init, NoRecord
<1> QED
  BY <1>1, <1>2

LEMMA NextAlone ==
  ASSUME OneProcess
  PROVE  IInv /\ AloneInv /\ [Next]_vars => AloneInv' /\ Advances
<1> SUFFICES ASSUME IInv, AloneInv, [Next]_vars PROVE AloneInv' /\ Advances
  OBVIOUS
<1>1. ASSUME NEW j \in Jobs, CreateJob(j), Workers # {} PROVE AloneInv' /\ Advances
  BY <1>1, CreateJobAlone
<1>2. ASSUME NEW w \in Workers, NEW k \in Handlers, NEW j \in Jobs, Request(w, k, j)
      PROVE  AloneInv' /\ Advances
  BY <1>2, RequestAlone
<1>3. ASSUME NEW w \in Workers, NEW k \in Callers, CallStep(w, k)
      PROVE  AloneInv' /\ Advances
  BY <1>3, RequeueAlone, ReadingAlone, ClaimReadAlone, ClaimWinAlone, LaunchAlone
     DEF CallStep
<1>4. ASSUME NEW w \in Workers, NEW j \in Jobs, RunStep(w, j) \/ BeatStep(w, j)
      PROVE  AloneInv' /\ Advances
  BY <1>4, RunReadingAlone, RunExitAlone, RunStartAlone, RunEndAlone, BeatReadingAlone,
     BeatWinAlone DEF RunStep, BeatStep
<1>5. ASSUME NEW w \in Workers, BootStep(w) PROVE AloneInv' /\ Advances
  BY <1>5, BootAlone
<1>6. ASSUME NEW w \in Workers, Failure(w) PROVE AloneInv' /\ Advances
  <2>1. Crash(w) => AloneInv' /\ Advances
    BY DieAlone, Stays DEF Crash
  <2> QED
    BY <1>6, <2>1, CallFaultAlone, RunReadingAlone, BeatReadingAlone DEF Failure
<1>7. CASE OtherAppend
  BY <1>7, OthersAlone DEF OtherAppend, tasks
<1>8. CASE Tick
  BY <1>8, TickAlone
<1>9. CASE UNCHANGED vars
  BY <1>9, OthersAlone DEF vars
<1>10. ASSUME NEW j \in Jobs, CreateJob(j), Workers = {} PROVE AloneInv' /\ Advances
  <2>1. rec[j].status = "none" /\ AppendTo(j, Released(rec[j], "queued")) /\ rec[j] \in Record
    BY <1>10 DEF CreateJob, IInv, TypeOK
  <2> DEFINE r == Released(rec[j], "queued")
  <2>2. r \in Record /\ r.status = "queued" /\ r.attempt = rec[j].attempt
    BY <2>1, ConstantsOK DEF Released, Record, Status
  <2> HIDE DEF r
  <2>3. StatusOf' = [StatusOf EXCEPT ![j] = "queued"] /\ AttemptOf' = AttemptOf
    BY <2>1, <2>2, AppendMoves DEF r
  <2>4. Lifecycle!Create(j)
    BY <2>1, <2>3, LifecycleSteps
  <2> QED
    BY <1>10, <2>4, JobAdvances DEF AloneInv
<1> QED
  BY <1>1, <1>2, <1>3, <1>4, <1>5, <1>6, <1>7, <1>8, <1>9, <1>10 DEF Next

(* The jobs of one process go through the lifecycle that the job API        *)
(* promises, with any number of crashes and failing store calls: what       *)
(* run_job appends without an expected version always follows its claim.    *)
THEOREM OneProcessImplementsLifecycle ==
  ASSUME OneProcess
  PROVE  Spec => ImplementsLifecycle
<1>1. Init => AloneInv /\ Lifecycle!Init
  BY InitAlone
<1>2. IInv /\ AloneInv /\ [Next]_vars => AloneInv' /\ Advances
  BY NextAlone
<1>3. Advances => [Lifecycle!Next]_(Lifecycle!vars)
  BY DEF Advances, StatusOf, AttemptOf, Lifecycle!vars
<1> QED
  BY <1>1, <1>2, <1>3, Invariance, PTL DEF Spec, ImplementsLifecycle, Lifecycle!Spec
=============================================================================
