------------------------------ MODULE StreamFeed ------------------------------
(***************************************************************************)
(* How one stream is read and watched within a process: the stream         *)
(* service's projections with their cache and their saved snapshots        *)
(* (application/stream_service.py), the runtime event broker               *)
(* (application/runtime_events.py) and the websocket connections that      *)
(* push traces and projections to the console (api/routes/ws.py).          *)
(*                                                                         *)
(* The stream holds events 1 .. log.  A projection is the sequence of the  *)
(* events that were applied, whatever the projector makes of them.  Every  *)
(* await is the end of a step.                                             *)
(***************************************************************************)
EXTENDS Integers, Sequences, FiniteSets

CONSTANTS
  Connections,  \* websocket connections
  Nothing,      \* no snapshot
  Shutdown,     \* the sentinel of the broker's shutdown
  QueueSize,    \* max_queue_size of a subscription
  MinDelta,     \* projection_snapshot_min_delta
  MaxEvents,    \* bound: events of the stream
  MaxAsks,      \* bound: subscribe messages of a connection
  MaxRestarts,  \* bound: restarts of the process
  MaxOthers     \* bound: snapshots saved by others

ASSUME FeedAssumption ==
  /\ {QueueSize, MinDelta} \subseteq Nat \ {0}
  /\ {MaxEvents, MaxAsks, MaxRestarts, MaxOthers} \subseteq Nat
  /\ Shutdown \notin Nat

VARIABLES
  log,          \* the stream: its last version
  unpublished,  \* events appended and not yet published
  saved,        \* the last snapshot of the internal stream of snapshots
  fresh,        \* the tasks that save, and whose version of it is still the last
  cache,        \* _projection_snapshots
  call,         \* the project_stream of every task
  open,         \* the connections the broker knows
  queue,        \* their queues
  asks,         \* subscribe messages taken: a connection is active after one
  wanted,       \* whether one of them asked for the backlog
  seen,         \* the events traced to the console
  pushed,       \* the last version pushed, by task
  shown,        \* the last version pushed by either: the one on the console
  dropped,      \* whether a full queue has lost a batch
  stopped,      \* whether the broker is shut down
  restarts,     \* restarts so far
  others        \* snapshots saved by others so far
snapshots == <<saved, fresh>>
feed == <<open, queue, asks, wanted, seen, pushed, shown, dropped>>
bounds == <<stopped, restarts, others>>
vars == <<log, unpublished, snapshots, cache, call, feed, bounds>>

-----------------------------------------------------------------------------
Sender(c) == <<c, "sender">>
Receiver(c) == <<c, "receiver">>
Tasks == Connections \X {"sender", "receiver"}

Events(a, b) == [i \in 1 .. (b - a + 1) |-> a + i - 1]  \* events a .. b
Snapshot == [version: 0 .. MaxEvents, state: Seq(1 .. MaxEvents)]

At(phase, base, got, since) ==
  [at |-> phase, base |-> base, got |-> got, since |-> since]
Idle == At("idle", Nothing, Nothing, 0)

(* A task that has returned, raised or was never started: a connection      *)
(* lives as long as its receiver.                                           *)
Ended == At("ended", Nothing, Nothing, 0)
Finished(phase) == phase.at \in {"idle", "ended"}

Init ==
  /\ log = 0 /\ unpublished = {} /\ saved = Nothing /\ fresh = {} /\ cache = Nothing
  /\ call = [t \in Tasks |-> Ended]
  /\ open = {}
  /\ queue = [c \in Connections |-> <<>>]
  /\ asks = [c \in Connections |-> 0]
  /\ wanted = [c \in Connections |-> FALSE]
  /\ seen = [c \in Connections |-> {}]
  /\ pushed = [t \in Tasks |-> 0] /\ shown = [c \in Connections |-> 0]
  /\ dropped = [c \in Connections |-> FALSE]
  /\ stopped = FALSE /\ restarts = 0 /\ others = 0

-----------------------------------------------------------------------------
(* append_events: append, then publish. *)
AppendEvent ==
  /\ log < MaxEvents
  /\ log' = log + 1
  /\ unpublished' = unpublished \cup {log + 1}
  /\ UNCHANGED <<snapshots, cache, call, feed, bounds>>

(* Mutant: a full queue refuses the sentinel as well. *)
PutOrGiveUp(q, batch) == IF Len(q) < QueueSize THEN Append(q, batch) ELSE q

(* Mutant: a full queue is not noticed. *)
PutOver(q, batch) == Append(q, batch)

(* put_nowait; a full queue loses its oldest batch. *)
Put(q, batch) == Append(IF Len(q) < QueueSize THEN q ELSE Tail(q), batch)

(* RuntimeEventBroker.publish. *)
Publish(v) ==
  /\ v \in unpublished
  /\ unpublished' = unpublished \ {v}
  /\ queue' = [c \in Connections |-> IF c \in open THEN Put(queue[c], v) ELSE queue[c]]
  /\ dropped' = [c \in Connections |->
                   dropped[c] \/ (c \in open /\ Len(queue[c]) = QueueSize)]
  /\ UNCHANGED <<log, snapshots, cache, call, open, asks, wanted, seen, pushed, shown, bounds>>

(* RuntimeEventBroker.shutdown. *)
ShutDown ==
  /\ ~stopped
  /\ stopped' = TRUE
  /\ open' = {}
  /\ queue' = [c \in Connections |->
                 IF c \in open THEN Put(queue[c], Shutdown) ELSE queue[c]]
  /\ UNCHANGED <<log, unpublished, snapshots, cache, call, asks, wanted, seen,
                 pushed, shown, dropped, restarts, others>>

-----------------------------------------------------------------------------
(* project_stream, one step to each await. *)
Begun == At(IF cache = Nothing THEN "loading" ELSE "reading", cache, Nothing, log)

(* _load_projection_snapshot: the last one saved, into the cache. *)
LoadSnapshot(t) ==
  /\ call[t].at = "loading"
  /\ call' = [call EXCEPT ![t] = [@ EXCEPT !.at = "reading", !.base = saved]]
  /\ cache' = IF saved = Nothing THEN cache ELSE saved
  /\ UNCHANGED <<log, unpublished, snapshots, feed, bounds>>

(* Mutant: what was applied since the snapshot is applied once more. *)
ReadAgain(base) ==
  [version |-> log, state |-> (IF base = Nothing THEN <<>> ELSE base.state) \o Events(1, log)]

(* Mutant: a cached projection is taken for current. *)
ReadCached(base) ==
  IF base = Nothing THEN [version |-> log, state |-> Events(1, log)] ELSE base

(* The events after the snapshot, applied to it. *)
ReadOn(base) ==
  [version |-> log,
   state |-> IF base = Nothing THEN Events(1, log)
             ELSE base.state \o Events(base.version + 1, log)]

(* Nothing is written when there was nothing to apply. *)
ReadEvents(t) ==
  LET base == call[t].base
      current == base # Nothing /\ base.version = log IN
  /\ call[t].at = "reading"
  /\ call' = [call EXCEPT ![t] =
                [@ EXCEPT !.at = IF current THEN "pushing" ELSE "writing",
                          !.got = IF current THEN base ELSE ReadOn(base)]]
  /\ UNCHANGED <<log, unpublished, snapshots, cache, feed, bounds>>

WriteCache(t) ==
  LET got == call[t].got
      applied == got.version - (IF call[t].base = Nothing THEN 0 ELSE call[t].base.version) IN
  /\ call[t].at = "writing"
  /\ cache' = got
  /\ call' = [call EXCEPT ![t].at =
                IF got.version > 0 /\ applied >= MinDelta THEN "saving" ELSE "pushing"]
  /\ UNCHANGED <<log, unpublished, snapshots, feed, bounds>>

(* _save_projection_snapshot: an append that expects no version, so that     *)
(* the store reads the last one itself, and inserts after it.                *)
ReadSnapshotVersion(t) ==
  /\ call[t].at = "saving"
  /\ fresh' = fresh \cup {t}
  /\ call' = [call EXCEPT ![t].at = "inserting"]
  /\ UNCHANGED <<log, unpublished, saved, cache, feed, bounds>>

SaveSnapshot(t) ==
  /\ call[t].at = "inserting" /\ t \in fresh
  /\ saved' = call[t].got /\ fresh' = {}
  /\ call' = [call EXCEPT ![t].at = "pushing"]
  /\ UNCHANGED <<log, unpublished, cache, feed, bounds>>

(* project_stream of a request or of another process saves as well, what it  *)
(* read a while ago.                                                         *)
OtherSave ==
  /\ others < MaxOthers
  /\ others' = others + 1
  /\ \E v \in MinDelta .. log : saved' = [version |-> v, state |-> Events(1, v)]
  /\ fresh' = {}
  /\ UNCHANGED <<log, unpublished, cache, call, feed, stopped, restarts>>

(* Nobody catches the error of a save that came second: a sender ends of it  *)
(* and leaves its connection open.  For a receiver see ReceiverRefused.      *)
SenderRefused(c) ==
  /\ call[Sender(c)].at = "inserting" /\ Sender(c) \notin fresh
  /\ call' = [call EXCEPT ![Sender(c)] = Ended]
  /\ UNCHANGED <<log, unpublished, snapshots, cache, feed, bounds>>

(* The projection is returned and sent to the console. *)
Push(t) ==
  /\ call[t].at = "pushing"
  /\ pushed' = [pushed EXCEPT ![t] = call[t].got.version]
  /\ shown' = [shown EXCEPT ![t[1]] = call[t].got.version]
  /\ call' = [call EXCEPT ![t] = Idle]
  /\ UNCHANGED <<log, unpublished, snapshots, cache, open, queue, asks, wanted,
                 seen, dropped, bounds>>

Project(t) ==
  \/ LoadSnapshot(t) \/ ReadEvents(t) \/ WriteCache(t)
  \/ ReadSnapshotVersion(t) \/ SaveSnapshot(t) \/ Push(t)

-----------------------------------------------------------------------------
(* runtime_websocket: a connection subscribes to the broker, greets and     *)
(* starts its sender.                                                       *)
Connect(c) ==
  /\ call[Receiver(c)] = Ended /\ ~stopped
  /\ open' = open \cup {c}
  /\ queue' = [queue EXCEPT ![c] = <<>>]
  /\ call' = [call EXCEPT ![Sender(c)] = Idle, ![Receiver(c)] = Idle]
  /\ UNCHANGED <<log, unpublished, snapshots, cache, asks, wanted, seen, pushed,
                 shown, dropped, bounds>>

(* A subscribe message; the backlog is sent by the task that took it. *)
Subscribe(c, backlog) ==
  /\ call[Receiver(c)] = Idle /\ asks[c] < MaxAsks
  /\ asks' = [asks EXCEPT ![c] = @ + 1]
  /\ wanted' = [wanted EXCEPT ![c] = @ \/ backlog]
  /\ call' = IF backlog
             THEN [call EXCEPT ![Receiver(c)] = At("backlog", Nothing, Nothing, 0)]
             ELSE call
  /\ UNCHANGED <<log, unpublished, snapshots, cache, open, queue, seen, pushed,
                 shown, dropped, bounds>>

(* _send_backlog_snapshot: the trace so far, then the projection. *)
SendBacklog(c) ==
  /\ call[Receiver(c)].at = "backlog"
  /\ seen' = [seen EXCEPT ![c] = @ \cup 1 .. log]
  /\ call' = [call EXCEPT ![Receiver(c)] = Begun]
  /\ UNCHANGED <<log, unpublished, snapshots, cache, open, queue, asks, wanted,
                 pushed, shown, dropped, bounds>>

(* Mutant: the subscription is active once the backlog was sent. *)
ListensLate(c) == asks[c] > 0 /\ call[Receiver(c)] = Idle

Listens(c) == asks[c] > 0

(* _forward_runtime_updates: a batch is traced and the stream projected;    *)
(* before the first subscribe message it is thrown away.                    *)
Forward(c) ==
  LET batch == Head(queue[c]) IN
  /\ call[Sender(c)] = Idle /\ queue[c] # <<>>
  /\ queue' = [queue EXCEPT ![c] = Tail(@)]
  /\ call' = IF batch = Shutdown THEN [call EXCEPT ![Sender(c)] = Ended]
             ELSE IF Listens(c) THEN [call EXCEPT ![Sender(c)] = Begun] ELSE call
  /\ seen' = IF batch # Shutdown /\ Listens(c)
             THEN [seen EXCEPT ![c] = @ \cup {batch}] ELSE seen
  /\ UNCHANGED <<log, unpublished, snapshots, cache, open, asks, wanted, pushed,
                 shown, dropped, bounds>>

(* Connections are closed: their tasks are cancelled wherever they are,     *)
(* their queues are given up.                                               *)
TasksOf(cs) == cs \X {"sender", "receiver"}
Disconnected(cs) ==
  /\ open' = open \ cs
  /\ queue' = [c \in Connections |-> IF c \in cs THEN <<>> ELSE queue[c]]
  /\ asks' = [c \in Connections |-> IF c \in cs THEN 0 ELSE asks[c]]
  /\ wanted' = [c \in Connections |-> c \notin cs /\ wanted[c]]
  /\ seen' = [c \in Connections |-> IF c \in cs THEN {} ELSE seen[c]]
  /\ dropped' = [c \in Connections |-> c \notin cs /\ dropped[c]]
  /\ shown' = [c \in Connections |-> IF c \in cs THEN 0 ELSE shown[c]]
  /\ pushed' = [t \in Tasks |-> IF t \in TasksOf(cs) THEN 0 ELSE pushed[t]]
  /\ call' = [t \in Tasks |-> IF t \in TasksOf(cs) THEN Ended ELSE call[t]]
  /\ fresh' = fresh \ TasksOf(cs)

(* By either side. *)
Disconnect(c) ==
  /\ call[Receiver(c)] # Ended
  /\ Disconnected({c})
  /\ UNCHANGED <<log, unpublished, saved, cache, bounds>>

(* A receiver whose save came second raises, and that closes the connection. *)
ReceiverRefused(c) ==
  /\ call[Receiver(c)].at = "inserting" /\ Receiver(c) \notin fresh
  /\ Disconnected({c})
  /\ UNCHANGED <<log, unpublished, saved, cache, bounds>>

(* The process dies and comes back: the store is what is left. *)
Restart ==
  /\ restarts < MaxRestarts
  /\ restarts' = restarts + 1
  /\ unpublished' = {} /\ cache' = Nothing
  /\ Disconnected(Connections)
  /\ stopped' = FALSE
  /\ UNCHANGED <<log, saved, others>>

Next ==
  \/ AppendEvent \/ OtherSave \/ ShutDown \/ Restart
  \/ \E v \in unpublished : Publish(v)
  \/ \E t \in Tasks : Project(t)
  \/ \E c \in Connections :
       \/ Connect(c) \/ SendBacklog(c) \/ Forward(c) \/ SenderRefused(c)
       \/ Disconnect(c) \/ ReceiverRefused(c)
       \/ \E backlog \in BOOLEAN : Subscribe(c, backlog)
Spec == Init /\ [][Next]_vars

(* The event loop runs every task that has something to do. *)
Fairness ==
  \A c \in Connections :
    WF_vars(Forward(c)) /\ WF_vars(Project(Sender(c)) \/ SenderRefused(c))
FairSpec == Spec /\ Fairness

-----------------------------------------------------------------------------
Calls ==
  [at: {"idle", "ended", "backlog", "loading", "reading", "writing", "saving",
        "inserting", "pushing"},
   base: Snapshot \cup {Nothing}, got: Snapshot \cup {Nothing}, since: 0 .. MaxEvents]
TypeOK ==
  /\ log \in 0 .. MaxEvents /\ unpublished \subseteq 1 .. log
  /\ {saved, cache} \subseteq Snapshot \cup {Nothing} /\ fresh \subseteq Tasks
  /\ call \in [Tasks -> Calls]
  /\ open \subseteq Connections
  /\ queue \in [Connections -> Seq((1 .. log) \cup {Shutdown})]
  /\ \A c \in Connections : Len(queue[c]) <= QueueSize
  /\ seen \in [Connections -> SUBSET (1 .. log)]
  /\ asks \in [Connections -> 0 .. MaxAsks]
  /\ wanted \in [Connections -> BOOLEAN] /\ dropped \in [Connections -> BOOLEAN]
  /\ pushed \in [Tasks -> 0 .. MaxEvents] /\ shown \in [Connections -> 0 .. MaxEvents]
  /\ stopped \in BOOLEAN /\ restarts \in 0 .. MaxRestarts /\ others \in 0 .. MaxOthers

(* Every projection, cached, saved or on its way, is the fold of a prefix   *)
(* of the stream, each event applied once and in order, whichever of the    *)
(* tasks wrote last and whichever snapshot it started from.                 *)
IsPrefix(p) == p # Nothing => p.version <= log /\ p.state = Events(1, p.version)
ProjectionIsPrefix ==
  /\ IsPrefix(cache) /\ IsPrefix(saved)
  /\ \A t \in Tasks : IsPrefix(call[t].base) /\ IsPrefix(call[t].got)

(* What project_stream returns has every event that was in the stream when  *)
(* it was called, though a slower task may have put an older projection     *)
(* into the cache or saved an older snapshot in the meantime.               *)
ReturnedIsCurrent ==
  \A t \in Tasks : call[t].at = "pushing" => call[t].got.version >= call[t].since

(* Nothing is left to do for the connection. *)
Quiet(c) ==
  /\ c \in open /\ unpublished = {} /\ queue[c] = <<>>
  /\ Finished(call[Sender(c)]) /\ Finished(call[Receiver(c)])

(* Once quiet, a console that was shown anything is left with the latest     *)
(* projection on it, also when its queue has lost batches, they were         *)
(* published out of order or either task was overtaken by the other.  The    *)
(* code has two exceptions, both weaknesses: the sender has ended of a       *)
(* refused save while its connection stays open; or the answer to a backlog  *)
(* request went out after a newer projection of the sender, and stays.       *)
Overtaken(c) ==
  wanted[c] /\ pushed[Sender(c)] = log /\ shown[c] = pushed[Receiver(c)]
FeedIsCurrent ==
  \A c \in Connections :
    Quiet(c) /\ call[Sender(c)] = Idle /\ (wanted[c] \/ seen[c] # {}) =>
      shown[c] = log \/ Overtaken(c)

(* Backlog and feed leave no hole between them: unless a queue has lost a   *)
(* batch, a quiet console that asked for the backlog was traced every       *)
(* event.                                                                   *)
NoHole ==
  \A c \in Connections :
    Quiet(c) /\ wanted[c] /\ ~dropped[c] => seen[c] = 1 .. log

(* The sender of a connection never pushes an older projection after a      *)
(* newer one.                                                               *)
SenderGoesOn ==
  [][\A c \in Connections :
       c \in open /\ c \in open' => pushed[Sender(c)] <= pushed'[Sender(c)]]_vars

(* When the broker is shut down every sender comes to its end, also one     *)
(* with a full queue, unless the process dies before.                       *)
SenderEnds ==
  \A c \in Connections :
    stopped /\ queue[c] # <<>> ~> call[Sender(c)] = Ended \/ ~stopped
=============================================================================
