--------------------------- MODULE StreamFeedProofs ---------------------------
(***************************************************************************)
(* Theorems about StreamFeed, for any connections, queue sizes, snapshot   *)
(* intervals and streams: every projection is the fold of a prefix, what   *)
(* is returned is current, a sender never goes back, and a quiet console   *)
(* is left with the latest projection, with two named exceptions, and,     *)
(* unless its queue lost something, with every event.                      *)
(***************************************************************************)
EXTENDS StreamFeed, SequenceTheorems, TLAPS

-----------------------------------------------------------------------------
(* The inductive invariant.  TypeOK and ProjectionIsPrefix hold on their   *)
(* own; a call in progress pushes something no older than what was pushed  *)
(* before it; a connection has nothing before its first subscribe message  *)
(* and no sentinel while it is open; the console shows what one of the two *)
(* tasks pushed last.                                                      *)
Written == {"writing", "saving", "inserting", "pushing"}
Projecting == {"loading", "reading"} \cup Written
CallOK(t) ==
  /\ call[t].since <= log /\ pushed[t] <= log
  /\ call[t].at \in Projecting => pushed[t] <= call[t].since
  /\ call[t].at \in Written =>
       call[t].got \in Snapshot /\ call[t].got.version \in call[t].since .. log
CallsOK == \A t \in Tasks : CallOK(t)

InQueue(q, e) == \E i \in 1 .. Len(q) : q[i] = e
ConnectionOK(c) ==
  /\ call[Receiver(c)].at = "ended" => asks[c] = 0
  /\ asks[c] = 0 => ~wanted[c] /\ seen[c] = {}
  /\ ~wanted[c] => call[Receiver(c)].at \in {"idle", "ended"}
  /\ c \in open => ~stopped /\ ~InQueue(queue[c], Shutdown)
  /\ shown[c] \in {pushed[Sender(c)], pushed[Receiver(c)]}
ConnectionsOK == \A c \in Connections : ConnectionOK(c)

(* The latest projection is on the console, or was until the answer to a   *)
(* backlog request came, or something is left that will push it, unless    *)
(* the sender has ended.  A sender that is late has more to come.          *)
Latest(c) == shown[c] = log \/ Overtaken(c)
Pushes(t) == call[t].at \in Projecting /\ call[t].since = log
Comes(c) == unpublished # {} \/ queue[c] # <<>>
WillBeCurrent(c) ==
  c \in open /\ call[Sender(c)].at # "ended" /\ (wanted[c] \/ seen[c] # {}) =>
    \/ Latest(c) \/ Pushes(Sender(c)) \/ Pushes(Receiver(c)) \/ Comes(c)
    \/ call[Receiver(c)].at = "backlog"
SenderCatchesUp(c) ==
  c \in open /\ call[Sender(c)].at \in Projecting =>
    call[Sender(c)].since = log \/ Comes(c)

(* Every event was traced, or it is on its way.                            *)
Arrives(c, e) == e \in seen[c] \/ e \in unpublished \/ InQueue(queue[c], e)
WillBeWhole(c) ==
  c \in open /\ wanted[c] /\ ~dropped[c] =>
    call[Receiver(c)].at = "backlog" \/ \A e \in 1 .. log : Arrives(c, e)
NothingMissed ==
  \A c \in Connections : WillBeCurrent(c) /\ SenderCatchesUp(c) /\ WillBeWhole(c)

IInv == TypeOK /\ ProjectionIsPrefix /\ CallsOK /\ ConnectionsOK /\ NothingMissed

-----------------------------------------------------------------------------
(* The tasks. *)

(* A connection has two tasks, and no task belongs to two connections. *)
LEMMA TaskNames ==
  ASSUME NEW c \in Connections, NEW d \in Connections
  PROVE  /\ Sender(c) \in Tasks /\ Receiver(c) \in Tasks
         /\ Sender(c) # Receiver(d)
         /\ Sender(c) = Sender(d) => c = d
         /\ Receiver(c) = Receiver(d) => c = d
BY DEF Sender, Receiver, Tasks

(* Every task is one of the two of its connection. *)
LEMMA TaskOfConnection ==
  ASSUME NEW t \in Tasks
  PROVE  t[1] \in Connections /\ t \in {Sender(t[1]), Receiver(t[1])}
BY DEF Sender, Receiver, Tasks

(* The tasks of some connections. *)
LEMMA TasksOfConnections ==
  ASSUME NEW c \in Connections, NEW cs
  PROVE  /\ Sender(c) \in TasksOf(cs) <=> c \in cs
         /\ Receiver(c) \in TasksOf(cs) <=> c \in cs
BY DEF Sender, Receiver, TasksOf

-----------------------------------------------------------------------------
(* Sequences of events and queues. *)

(* Events(a, b) is a sequence of b - a + 1 events. *)
LEMMA EventsAreASeq ==
  ASSUME NEW n \in Nat, NEW b \in 0 .. n, NEW a \in 1 .. b + 1
  PROVE  /\ Events(a, b) \in Seq(1 .. n)
         /\ Len(Events(a, b)) = b - a + 1
         /\ \A i \in 1 .. b - a + 1 : Events(a, b)[i] = a + i - 1
<1>1. b - a + 1 \in Nat
  OBVIOUS
<1>2. \A i \in 1 .. b - a + 1 : a + i - 1 \in 1 .. n
  OBVIOUS
<1>3. Events(a, b) \in [1 .. b - a + 1 -> 1 .. n]
  BY <1>2 DEF Events
<1>4. Events(a, b) \in Seq(1 .. n)
  BY <1>1, <1>3, SeqDef
<1>5. Len(Events(a, b)) = b - a + 1
  BY <1>1, <1>3, <1>4, LenProperties
<1> QED
  BY <1>4, <1>5 DEF Events

(* A projection of the first v events goes on with the events after v. *)
LEMMA EventsJoin ==
  ASSUME NEW n \in Nat, NEW v \in 0 .. n
  PROVE  Events(1, v) \o Events(v + 1, n) = Events(1, n)
<1>1. PICK s \in Seq(1 .. n) :
        /\ s = Events(1, v) /\ Len(s) = v
        /\ \A i \in 1 .. v : s[i] = i
  <2>1. 1 \in 1 .. v + 1 /\ v \in 0 .. n /\ v - (1) + 1 = v
    OBVIOUS
  <2>2. /\ Events(1, v) \in Seq(1 .. n) /\ Len(Events(1, v)) = v
        /\ \A i \in 1 .. v : Events(1, v)[i] = 1 + i - 1
    BY <2>1, EventsAreASeq, Zenon
  <2>3. \A i \in 1 .. v : 1 + i - 1 = i
    OBVIOUS
  <2> QED
    BY <2>2, <2>3
<1>2. PICK t \in Seq(1 .. n) :
        /\ t = Events(v + 1, n) /\ Len(t) = n - v
        /\ \A i \in 1 .. n - v : t[i] = v + i
  <2>1. v + 1 \in 1 .. n + 1 /\ n \in 0 .. n /\ n - (v + 1) + 1 = n - v
    OBVIOUS
  <2>2. /\ Events(v + 1, n) \in Seq(1 .. n) /\ Len(Events(v + 1, n)) = n - v
        /\ \A i \in 1 .. n - v : Events(v + 1, n)[i] = v + 1 + i - 1
    BY <2>1, EventsAreASeq, Zenon
  <2>3. \A i \in 1 .. n - v : v + 1 + i - 1 = v + i
    OBVIOUS
  <2> QED
    BY <2>2, <2>3
<1>3. PICK w \in Seq(1 .. n) :
        /\ w = Events(1, n) /\ Len(w) = n
        /\ \A i \in 1 .. n : w[i] = i
  <2>1. 1 \in 1 .. n + 1 /\ n \in 0 .. n /\ n - (1) + 1 = n
    OBVIOUS
  <2>2. /\ Events(1, n) \in Seq(1 .. n) /\ Len(Events(1, n)) = n
        /\ \A i \in 1 .. n : Events(1, n)[i] = 1 + i - 1
    BY <2>1, EventsAreASeq, Zenon
  <2>3. \A i \in 1 .. n : 1 + i - 1 = i
    OBVIOUS
  <2> QED
    BY <2>2, <2>3
<1>4. PICK u \in Seq(1 .. n) :
        /\ u = s \o t /\ Len(u) = n
        /\ \A i \in 1 .. n : u[i] = IF i <= v THEN s[i] ELSE t[i - v]
  <2>1. Len(s) = v /\ Len(t) = n - v /\ v + (n - v) = n
    BY <1>1, <1>2
  <2>2. /\ s \o t \in Seq(1 .. n)
        /\ Len(s \o t) = Len(s) + Len(t)
        /\ \A i \in 1 .. Len(s) + Len(t) :
             (s \o t)[i] = IF i <= Len(s) THEN s[i] ELSE t[i - Len(s)]
    BY ConcatProperties, Zenon
  <2> QED
    BY <2>1, <2>2
<1>5. \A i \in 1 .. n : u[i] = w[i]
  <2> SUFFICES ASSUME NEW i \in 1 .. n PROVE u[i] = w[i]
    OBVIOUS
  <2>1. CASE i <= v
    BY <2>1, <1>1, <1>3, <1>4
  <2>2. CASE i > v
    <3>1. i - v \in 1 .. n - v
      BY <2>2
    <3> QED
      BY <2>2, <3>1, <1>2, <1>3, <1>4
  <2> QED
    BY <2>1, <2>2
<1>6. u = w
  BY <1>3, <1>4, <1>5, SeqEqual
<1> QED
  BY <1>1, <1>2, <1>3, <1>4, <1>6

(* A batch that is put into a queue is in it, and nothing else is new;     *)
(* what was there is lost only when the queue is full.                     *)
LEMMA PutIntoQueue ==
  ASSUME NEW S, NEW q \in Seq(S), Len(q) <= QueueSize, NEW e \in S
  PROVE  /\ Put(q, e) \in Seq(S) /\ Put(q, e) # <<>>
         /\ Len(Put(q, e)) <= QueueSize
         /\ InQueue(Put(q, e), e)
         /\ \A x : InQueue(Put(q, e), x) => InQueue(q, x) \/ x = e
         /\ Len(q) # QueueSize => \A x : InQueue(q, x) => InQueue(Put(q, e), x)
<1>1. QueueSize \in Nat \ {0} /\ Len(q) \in Nat
  BY FeedAssumption, LenProperties
<1>2. PICK r \in Seq(S) :
        /\ r = (IF Len(q) < QueueSize THEN q ELSE Tail(q))
        /\ Len(r) \in Nat /\ Len(r) < QueueSize
        /\ \A i \in 1 .. Len(r) : InQueue(q, r[i])
        /\ Len(q) # QueueSize => r = q
  <2>1. CASE Len(q) < QueueSize
    BY <2>1, <1>1 DEF InQueue
  <2>2. CASE ~(Len(q) < QueueSize)
    <3>1. q # <<>> /\ Len(q) = QueueSize
      BY <2>2, <1>1, EmptySeq
    <3>2. PICK r \in Seq(S) :
            /\ r = Tail(q) /\ Len(r) = Len(q) - 1
            /\ \A i \in 1 .. Len(r) : r[i] = q[i + 1]
      BY <3>1, HeadTailProperties
    <3>3. \A i \in 1 .. Len(r) : i + 1 \in 1 .. Len(q)
      BY <3>2, <1>1
    <3> QED
      BY <2>2, <3>1, <3>2, <3>3, <1>1 DEF InQueue
  <2> QED
    BY <2>1, <2>2
<1>3. PICK p \in Seq(S) :
        /\ p = Append(r, e) /\ Len(p) = Len(r) + 1
        /\ p[Len(r) + 1] = e
        /\ \A i \in 1 .. Len(r) : p[i] = r[i]
  <2>1. /\ Append(r, e) \in Seq(S) /\ Len(Append(r, e)) = Len(r) + 1
        /\ Append(r, e)[Len(r) + 1] = e
        /\ \A i \in 1 .. Len(r) : Append(r, e)[i] = r[i]
    BY AppendProperties
  <2> QED
    BY <2>1
<1>4. Put(q, e) = p
  BY <1>2, <1>3 DEF Put
<1>5. p # <<>> /\ Len(p) <= QueueSize
  BY <1>1, <1>2, <1>3, EmptySeq
<1>6. InQueue(p, e)
  BY <1>2, <1>3 DEF InQueue
<1>7. ASSUME NEW x, InQueue(p, x)
      PROVE  InQueue(q, x) \/ x = e
  <2>1. PICK i \in 1 .. Len(p) : p[i] = x
    BY <1>7 DEF InQueue
  <2>2. CASE i = Len(r) + 1
    BY <2>1, <2>2, <1>3
  <2>3. CASE i # Len(r) + 1
    <3>1. i \in 1 .. Len(r)
      BY <2>1, <2>3, <1>2, <1>3
    <3> QED
      BY <2>1, <3>1, <1>2, <1>3
  <2> QED
    BY <2>2, <2>3
<1>8. ASSUME Len(q) # QueueSize, NEW x, InQueue(q, x)
      PROVE  InQueue(p, x)
  <2>1. PICK i \in 1 .. Len(r) : r[i] = x
    BY <1>8, <1>2 DEF InQueue
  <2>2. i \in 1 .. Len(p) /\ p[i] = x
    BY <2>1, <1>2, <1>3
  <2> QED
    BY <2>2 DEF InQueue
<1> QED
  BY <1>4, <1>5, <1>6, <1>7, <1>8

(* What is taken from a queue is its head, and nothing else. *)
LEMMA TakeFromQueue ==
  ASSUME NEW S, NEW q \in Seq(S), q # <<>>
  PROVE  /\ Head(q) \in S /\ InQueue(q, Head(q))
         /\ Tail(q) \in Seq(S) /\ Len(Tail(q)) = Len(q) - 1
         /\ \A x : InQueue(Tail(q), x) => InQueue(q, x)
         /\ \A x : InQueue(q, x) => x = Head(q) \/ InQueue(Tail(q), x)
<1>1. Len(q) \in Nat \ {0}
  BY EmptySeq
<1>2. PICK r \in Seq(S) :
        /\ r = Tail(q) /\ Len(r) = Len(q) - 1
        /\ \A i \in 1 .. Len(r) : r[i] = q[i + 1]
  BY HeadTailProperties
<1>3. Head(q) \in S /\ Head(q) = q[1]
  BY HeadTailProperties
<1>4. InQueue(q, Head(q))
  BY <1>1, <1>3 DEF InQueue
<1>5. ASSUME NEW x, InQueue(r, x)
      PROVE  InQueue(q, x)
  <2>1. PICK i \in 1 .. Len(r) : r[i] = x
    BY <1>5 DEF InQueue
  <2>2. i + 1 \in 1 .. Len(q) /\ q[i + 1] = x
    BY <2>1, <1>1, <1>2
  <2> QED
    BY <2>2 DEF InQueue
<1>6. ASSUME NEW x, InQueue(q, x), x # Head(q)
      PROVE  InQueue(r, x)
  <2>1. PICK i \in 1 .. Len(q) : q[i] = x
    BY <1>6 DEF InQueue
  <2>2. i - 1 \in 1 .. Len(r)
    BY <2>1, <1>1, <1>2, <1>3, <1>6
  <2>3. r[i - 1] = x
    BY <2>1, <2>2, <1>2
  <2> QED
    BY <2>2, <2>3 DEF InQueue
<1> QED
  BY <1>2, <1>3, <1>4, <1>5, <1>6

-----------------------------------------------------------------------------
(* The invariant holds at first. *)
LEMMA InitIInv == Init => IInv
<1> SUFFICES ASSUME Init PROVE IInv
  OBVIOUS
<1> USE DEF Init
<1>1. TypeOK
  <2>1. {QueueSize, MaxEvents, MaxAsks, MaxRestarts, MaxOthers} \subseteq Nat
    BY FeedAssumption
  <2>2. Ended \in Calls
    BY <2>1 DEF Ended, At, Calls
  <2>3. <<>> \in Seq((1 .. log) \cup {Shutdown})
    BY EmptySeq
  <2>4. /\ call \in [Tasks -> Calls]
        /\ queue \in [Connections -> Seq((1 .. log) \cup {Shutdown})]
        /\ wanted \in [Connections -> BOOLEAN] /\ dropped \in [Connections -> BOOLEAN]
    BY <2>2, <2>3
  <2>5. /\ \A c \in Connections : Len(queue[c]) <= QueueSize
        /\ seen \in [Connections -> SUBSET (1 .. log)]
        /\ asks \in [Connections -> 0 .. MaxAsks] /\ pushed \in [Tasks -> 0 .. MaxEvents]
        /\ shown \in [Connections -> 0 .. MaxEvents]
    BY <2>1, EmptySeq
  <2>6. log \in 0 .. MaxEvents /\ restarts \in 0 .. MaxRestarts /\ others \in 0 .. MaxOthers
    BY <2>1
  <2>7. /\ unpublished \subseteq 1 .. log /\ stopped \in BOOLEAN /\ fresh \subseteq Tasks
        /\ {saved, cache} \subseteq Snapshot \cup {Nothing} /\ open \subseteq Connections
    OBVIOUS
  <2> QED
    BY <2>4, <2>5, <2>6, <2>7 DEF TypeOK
<1>2. ProjectionIsPrefix
  BY DEF ProjectionIsPrefix, IsPrefix, Ended, At
<1>3. CallsOK
  BY DEF CallsOK, CallOK, Ended, At, Projecting, Written
<1>4. ConnectionsOK
  BY TaskNames DEF ConnectionsOK, ConnectionOK, Ended, At
<1>5. NothingMissed
  BY DEF NothingMissed, WillBeCurrent, SenderCatchesUp, WillBeWhole
<1> QED
  BY <1>1, <1>2, <1>3, <1>4, <1>5 DEF IInv

-----------------------------------------------------------------------------
(* A stuttering step keeps the invariant. *)
LEMMA StutterIInv ==
  ASSUME IInv, UNCHANGED vars
  PROVE  IInv'
<1>1. TypeOK' /\ ProjectionIsPrefix'
  BY DEF IInv, vars, snapshots, feed, bounds, TypeOK, ProjectionIsPrefix, IsPrefix, Calls,
         Snapshot
<1>2. CallsOK' /\ ConnectionsOK'
  BY DEF IInv, vars, feed, bounds, CallsOK, CallOK, ConnectionsOK, ConnectionOK, Snapshot
<1>3. NothingMissed'
  BY DEF IInv, vars, feed, bounds, NothingMissed, WillBeCurrent, SenderCatchesUp, WillBeWhole,
         Latest, Overtaken, Pushes, Comes, Arrives
<1> QED
  BY <1>1, <1>2, <1>3 DEF IInv

-----------------------------------------------------------------------------
(* The steps of project_stream. *)

(* A call that goes on with its projection, and remembers the same start,  *)
(* disturbs nobody.                                                        *)
LEMMA CallGoesOn ==
  ASSUME IInv, UNCHANGED <<log, unpublished, feed, bounds>>,
         NEW t \in Tasks, NEW x \in Calls,
         call' = [call EXCEPT ![t] = x],
         call[t].at \in Projecting, x.at \in Projecting, x.since = call[t].since,
         x.at \in Written =>
           x.got \in Snapshot /\ x.got.version \in x.since .. log
  PROVE  CallsOK' /\ ConnectionsOK' /\ NothingMissed'
<1> USE DEF feed, bounds
<1>1. /\ call' \in [Tasks -> Calls] /\ call'[t] = x
      /\ \A u \in Tasks : u # t => call'[u] = call[u]
  BY DEF IInv, TypeOK
<1>2. CallsOK'
  <2>1. SUFFICES ASSUME NEW u \in Tasks PROVE CallOK(u)'
    BY DEF CallsOK
  <2>2. CallOK(u) /\ CallOK(t)
    BY DEF IInv, CallsOK
  <2>3. CASE u = t
    BY <1>1, <2>2, <2>3 DEF CallOK
  <2>4. CASE u # t
    BY <1>1, <2>2, <2>4 DEF CallOK
  <2> QED
    BY <2>3, <2>4
<1>3. ASSUME NEW u \in Tasks
      PROVE  /\ call'[u].at \in Projecting <=> call[u].at \in Projecting
             /\ call[u].at \notin Projecting => call'[u] = call[u]
             /\ call[u].at \in Projecting => call'[u].since = call[u].since
             /\ Pushes(u) => Pushes(u)'
             /\ \A phase \in {"idle", "ended", "backlog"} :
                  call'[u].at = phase <=> call[u].at = phase
  <2>1. \A phase \in {"idle", "ended", "backlog"} : phase \notin Projecting
    BY DEF Projecting, Written
  <2>2. CASE u = t
    BY <2>1, <2>2, <1>1 DEF Pushes
  <2>3. CASE u # t
    BY <2>3, <1>1 DEF Pushes
  <2> QED
    BY <2>2, <2>3
<1>4. ConnectionsOK'
  BY <1>3, TaskNames DEF IInv, ConnectionsOK, ConnectionOK
<1>5. NothingMissed'
  <2>1. SUFFICES ASSUME NEW c \in Connections
                 PROVE  (WillBeCurrent(c) /\ SenderCatchesUp(c) /\ WillBeWhole(c))'
    BY DEF NothingMissed
  <2>2. Sender(c) \in Tasks /\ Receiver(c) \in Tasks
    BY TaskNames
  <2>3. WillBeCurrent(c) /\ SenderCatchesUp(c) /\ WillBeWhole(c)
    BY DEF IInv, NothingMissed
  <2>4. WillBeCurrent(c)'
    BY <2>2, <2>3, <1>3 DEF WillBeCurrent, Latest, Overtaken, Comes
  <2>5. SenderCatchesUp(c)'
    BY <2>2, <2>3, <1>3 DEF SenderCatchesUp, Comes
  <2>6. WillBeWhole(c)'
    BY <2>2, <2>3, <1>3 DEF WillBeWhole, Arrives
  <2> QED
    BY <2>4, <2>5, <2>6
<1> QED
  BY <1>2, <1>4, <1>5

(* TypeOK and ProjectionIsPrefix after such a step, whatever it has done   *)
(* to the cache and the snapshots.                                         *)
LEMMA CallKeepsPrefix ==
  ASSUME IInv, UNCHANGED <<log, unpublished, feed, bounds>>,
         NEW t \in Tasks, NEW x \in Calls,
         call' = [call EXCEPT ![t] = x], IsPrefix(x.base), IsPrefix(x.got),
         {saved, cache}' \subseteq Snapshot \cup {Nothing},
         IsPrefix(cache'), IsPrefix(saved'), fresh' \subseteq Tasks
  PROVE  TypeOK' /\ ProjectionIsPrefix'
<1>1. /\ call' \in [Tasks -> Calls] /\ call'[t] = x
      /\ \A u \in Tasks : u # t => call'[u] = call[u]
  BY DEF IInv, TypeOK
<1>2. TypeOK'
  BY <1>1 DEF IInv, TypeOK, feed, bounds, Calls, Snapshot
<1>3. ProjectionIsPrefix'
  <2>1. \A p : IsPrefix(p) => IsPrefix(p)'
    BY DEF IsPrefix
  <2>2. \A u \in Tasks : IsPrefix(call'[u].base) /\ IsPrefix(call'[u].got)
    BY <1>1 DEF IInv, ProjectionIsPrefix
  <2> QED
    BY <2>1, <2>2 DEF ProjectionIsPrefix, IsPrefix
<1> QED
  BY <1>2, <1>3

(* What was read last is a projection of a prefix. *)
LEMMA ReadOnIsCurrent ==
  ASSUME TypeOK, NEW b \in Snapshot \cup {Nothing}, IsPrefix(b)
  PROVE  /\ ReadOn(b) \in Snapshot
         /\ ReadOn(b).version = log /\ ReadOn(b).state = Events(1, log)
<1>1. MaxEvents \in Nat /\ log \in 0 .. MaxEvents
  BY FeedAssumption DEF TypeOK
<1>2. Events(1, log) \in Seq(1 .. MaxEvents)
  <2>1. 1 \in 1 .. log + 1
    BY <1>1
  <2> QED
    BY <1>1, <2>1, EventsAreASeq
<1>3. ReadOn(b).state = Events(1, log)
  <2>1. CASE b = Nothing
    BY <2>1 DEF ReadOn
  <2>2. CASE b # Nothing
    <3>1. b.version \in 0 .. log /\ b.state = Events(1, b.version)
      BY <2>2, <1>1 DEF IsPrefix, Snapshot
    <3>2. log \in Nat
      BY <1>1
    <3>3. Events(1, b.version) \o Events(b.version + 1, log) = Events(1, log)
      BY <3>1, <3>2, EventsJoin
    <3> QED
      BY <2>2, <3>1, <3>3 DEF ReadOn
  <2> QED
    BY <2>1, <2>2
<1>4. ReadOn(b) = [version |-> log, state |-> Events(1, log)]
  BY <1>3 DEF ReadOn
<1> QED
  BY <1>1, <1>2, <1>4 DEF Snapshot

LEMMA LoadSnapshotKeepsIInv ==
  ASSUME IInv, NEW t \in Tasks, LoadSnapshot(t)
  PROVE  IInv'
<1>1. /\ call[t] \in Calls /\ saved \in Snapshot \cup {Nothing} /\ IsPrefix(saved)
      /\ cache \in Snapshot \cup {Nothing} /\ IsPrefix(cache) /\ IsPrefix(call[t].got)
      /\ fresh \subseteq Tasks
  BY DEF IInv, TypeOK, ProjectionIsPrefix
<1>2. PICK x \in Calls :
        /\ x = [call[t] EXCEPT !.at = "reading", !.base = saved]
        /\ x.at = "reading" /\ x.base = saved
        /\ x.got = call[t].got /\ x.since = call[t].since
  <2> DEFINE y == [call[t] EXCEPT !.at = "reading", !.base = saved]
  <2>1. y \in Calls
    BY <1>1 DEF Calls
  <2>2. y.at = "reading" /\ y.base = saved
    BY <1>1 DEF Calls
  <2>3. y.got = call[t].got /\ y.since = call[t].since
    BY <1>1 DEF Calls
  <2> HIDE DEF y
  <2> QED
    BY <2>1, <2>2, <2>3 DEF y
<1>3. /\ call[t].at = "loading" /\ call' = [call EXCEPT ![t] = x]
      /\ cache' \in {cache, saved}
      /\ UNCHANGED <<log, unpublished, saved, fresh, feed, bounds>>
  BY <1>2 DEF LoadSnapshot, snapshots
<1>4. CallsOK' /\ ConnectionsOK' /\ NothingMissed'
  BY <1>2, <1>3, CallGoesOn DEF Projecting, Written
<1>5. TypeOK' /\ ProjectionIsPrefix'
  BY <1>1, <1>2, <1>3, CallKeepsPrefix
<1> QED
  BY <1>4, <1>5 DEF IInv

LEMMA ReadEventsKeepsIInv ==
  ASSUME IInv, NEW t \in Tasks, ReadEvents(t)
  PROVE  IInv'
<1> DEFINE current == call[t].base # Nothing /\ call[t].base.version = log
<1>1. call[t] \in Calls /\ IsPrefix(call[t].base) /\ CallOK(t) /\ TypeOK
  BY DEF IInv, TypeOK, ProjectionIsPrefix, CallsOK
<1>2. PICK got \in Snapshot :
        /\ got = IF current THEN call[t].base ELSE ReadOn(call[t].base)
        /\ got.version = log /\ IsPrefix(got)
  <2>1. CASE current
    BY <2>1, <1>1 DEF Calls
  <2>2. CASE ~current
    <3>1. /\ ReadOn(call[t].base) \in Snapshot
          /\ ReadOn(call[t].base).version = log
          /\ ReadOn(call[t].base).state = Events(1, log)
      BY <1>1, ReadOnIsCurrent DEF Calls
    <3>2. IsPrefix(ReadOn(call[t].base))
      BY <3>1, <1>1 DEF IsPrefix, TypeOK
    <3> QED
      BY <2>2, <3>1, <3>2
  <2> QED
    BY <2>1, <2>2
<1>3. PICK x \in Calls :
        /\ x = [call[t] EXCEPT !.at = IF current THEN "pushing" ELSE "writing", !.got = got]
        /\ x.at \in {"pushing", "writing"} /\ x.got = got
        /\ x.base = call[t].base /\ x.since = call[t].since
  <2>1. PICK phase \in {"reading", "writing", "saving", "pushing"} :
          /\ phase = IF current THEN "pushing" ELSE "writing"
          /\ phase \in {"pushing", "writing"}
    OBVIOUS
  <2> DEFINE y == [call[t] EXCEPT !.at = phase, !.got = got]
  <2>2. y \in Calls
    BY <2>1, <1>1 DEF Calls
  <2>3. y.at = phase /\ y.got = got
    BY <2>1, <1>1 DEF Calls
  <2>4. y.base = call[t].base /\ y.since = call[t].since
    BY <2>1, <1>1 DEF Calls
  <2>5. y = [call[t] EXCEPT !.at = IF current THEN "pushing" ELSE "writing", !.got = got]
    BY <2>1
  <2> HIDE DEF y
  <2> QED
    BY <2>1, <2>2, <2>3, <2>4, <2>5
<1>4. /\ call[t].at = "reading" /\ call' = [call EXCEPT ![t] = x]
      /\ UNCHANGED <<log, unpublished, saved, fresh, cache, feed, bounds>>
  BY <1>2, <1>3 DEF ReadEvents, snapshots
<1>5. x.got.version \in x.since .. log
  BY <1>1, <1>2, <1>3 DEF CallOK, TypeOK, Calls
<1>6. CallsOK' /\ ConnectionsOK' /\ NothingMissed'
  BY <1>2, <1>3, <1>4, <1>5, CallGoesOn DEF Projecting, Written
<1>7. TypeOK' /\ ProjectionIsPrefix'
  <2>1. /\ {saved, cache}' \subseteq Snapshot \cup {Nothing} /\ fresh' \subseteq Tasks
        /\ IsPrefix(cache') /\ IsPrefix(saved')
    BY <1>4 DEF IInv, TypeOK, ProjectionIsPrefix
  <2> QED
    BY <2>1, <1>1, <1>2, <1>3, <1>4, CallKeepsPrefix
<1> QED
  BY <1>6, <1>7 DEF IInv

LEMMA WriteCacheKeepsIInv ==
  ASSUME IInv, NEW t \in Tasks, WriteCache(t)
  PROVE  IInv'
<1>1. /\ call[t] \in Calls /\ IsPrefix(call[t].base) /\ IsPrefix(call[t].got)
      /\ CallOK(t) /\ TypeOK /\ call[t].at = "writing"
  BY DEF IInv, TypeOK, ProjectionIsPrefix, CallsOK, WriteCache
<1>2. PICK phase \in {"saving", "pushing"} : call' = [call EXCEPT ![t].at = phase]
  BY DEF WriteCache
<1>3. PICK x \in Calls :
        /\ x = [call[t] EXCEPT !.at = phase]
        /\ x.at = phase /\ x.got = call[t].got
        /\ x.base = call[t].base /\ x.since = call[t].since
  <2> DEFINE y == [call[t] EXCEPT !.at = phase]
  <2>1. call[t] \in Calls /\ phase \in {"reading", "writing", "saving", "pushing"}
    BY <1>1
  <2>2. y \in Calls
    BY <2>1, <1>1 DEF Calls
  <2>3. y.at = phase /\ y.got = call[t].got
    BY <2>1, <1>1 DEF Calls
  <2>4. y.base = call[t].base /\ y.since = call[t].since
    BY <2>1, <1>1 DEF Calls
  <2> HIDE DEF y
  <2> QED
    BY <2>2, <2>3, <2>4 DEF y
<1>4. /\ call' = [call EXCEPT ![t] = x] /\ cache' = call[t].got
      /\ UNCHANGED <<log, unpublished, saved, fresh, feed, bounds>>
  BY <1>2, <1>3 DEF WriteCache, snapshots
<1>5. x.got \in Snapshot /\ x.got.version \in x.since .. log
  BY <1>1, <1>3 DEF CallOK, Written
<1>6. CallsOK' /\ ConnectionsOK' /\ NothingMissed'
  BY <1>1, <1>3, <1>4, <1>5, CallGoesOn DEF Projecting, Written
<1>7. TypeOK' /\ ProjectionIsPrefix'
  <2>1. saved' \in Snapshot \cup {Nothing} /\ IsPrefix(saved') /\ fresh' \subseteq Tasks
    BY <1>4 DEF IInv, TypeOK, ProjectionIsPrefix
  <2>2. cache' \in Snapshot \cup {Nothing} /\ IsPrefix(cache')
    BY <1>1, <1>3, <1>4, <1>5
  <2> QED
    BY <2>1, <2>2, <1>1, <1>3, <1>4, CallKeepsPrefix
<1> QED
  BY <1>6, <1>7 DEF IInv

(* A call that saves its projection goes from one phase to the next. *)
LEMMA SavingGoesOn ==
  ASSUME IInv, NEW t \in Tasks, NEW from \in {"saving", "inserting"},
         NEW phase \in {"inserting", "pushing"},
         call[t].at = from, call' = [call EXCEPT ![t].at = phase],
         saved' \in {saved, call[t].got}, fresh' \subseteq Tasks,
         UNCHANGED <<log, unpublished, cache, feed, bounds>>
  PROVE  IInv'
<1>1. /\ call[t] \in Calls /\ IsPrefix(call[t].base) /\ IsPrefix(call[t].got)
      /\ CallOK(t) /\ TypeOK
  BY DEF IInv, TypeOK, ProjectionIsPrefix, CallsOK
<1>2. PICK x \in Calls :
        /\ x = [call[t] EXCEPT !.at = phase]
        /\ x.at = phase /\ x.got = call[t].got
        /\ x.base = call[t].base /\ x.since = call[t].since
  <2> DEFINE y == [call[t] EXCEPT !.at = phase]
  <2>1. y \in Calls
    BY <1>1 DEF Calls
  <2>2. y.at = phase /\ y.got = call[t].got
    BY <1>1 DEF Calls
  <2>3. y.base = call[t].base /\ y.since = call[t].since
    BY <1>1 DEF Calls
  <2> HIDE DEF y
  <2> QED
    BY <2>1, <2>2, <2>3 DEF y
<1>3. call' = [call EXCEPT ![t] = x]
  BY <1>2
<1>4. x.got \in Snapshot /\ x.got.version \in x.since .. log
  BY <1>1, <1>2 DEF CallOK, Written
<1>5. CallsOK' /\ ConnectionsOK' /\ NothingMissed'
  BY <1>1, <1>2, <1>3, <1>4, CallGoesOn DEF Projecting, Written
<1>6. /\ {saved, cache}' \subseteq Snapshot \cup {Nothing}
      /\ IsPrefix(cache') /\ IsPrefix(saved')
  BY <1>1, <1>2, <1>4 DEF IInv, TypeOK, ProjectionIsPrefix
<1>7. TypeOK' /\ ProjectionIsPrefix'
  BY <1>1, <1>2, <1>3, <1>6, CallKeepsPrefix
<1> QED
  BY <1>5, <1>7 DEF IInv

LEMMA ReadSnapshotVersionKeepsIInv ==
  ASSUME IInv, NEW t \in Tasks, ReadSnapshotVersion(t)
  PROVE  IInv'
<1>1. fresh' \subseteq Tasks
  BY DEF ReadSnapshotVersion, IInv, TypeOK
<1> QED
  BY <1>1, SavingGoesOn DEF ReadSnapshotVersion

LEMMA SaveSnapshotKeepsIInv ==
  ASSUME IInv, NEW t \in Tasks, SaveSnapshot(t)
  PROVE  IInv'
BY SavingGoesOn DEF SaveSnapshot

(* What others save is the projection of a prefix, too. *)
LEMMA OtherSaveKeepsIInv ==
  ASSUME IInv, OtherSave
  PROVE  IInv'
<1>1. PICK v \in MinDelta .. log : saved' = [version |-> v, state |-> Events(1, v)]
  BY DEF OtherSave
<1>2. /\ fresh' = {} /\ others' \in 0 .. MaxOthers
      /\ UNCHANGED <<log, unpublished, cache, call, feed, stopped, restarts>>
  BY FeedAssumption DEF OtherSave, IInv, TypeOK
<1>3. v \in 0 .. MaxEvents /\ v <= log /\ MaxEvents \in Nat
  BY FeedAssumption DEF IInv, TypeOK
<1>4. Events(1, v) \in Seq(1 .. MaxEvents)
  <2>1. 1 \in 1 .. v + 1
    BY <1>3
  <2> QED
    BY <1>3, <2>1, EventsAreASeq
<1>5. saved' \in Snapshot /\ saved'.version = v /\ saved'.state = Events(1, v)
  BY <1>1, <1>3, <1>4 DEF Snapshot
<1>6. TypeOK'
  BY <1>2, <1>5 DEF IInv, TypeOK, feed, Calls, Snapshot
<1>7. ProjectionIsPrefix'
  BY <1>2, <1>3, <1>5 DEF IInv, ProjectionIsPrefix, IsPrefix
<1>8. CallsOK' /\ ConnectionsOK'
  BY <1>2 DEF IInv, CallsOK, CallOK, ConnectionsOK, ConnectionOK, feed, Snapshot
<1>9. NothingMissed'
  BY <1>2 DEF IInv, NothingMissed, WillBeCurrent, SenderCatchesUp, WillBeWhole, Latest,
              Overtaken, Pushes, Comes, Arrives, feed
<1> QED
  BY <1>6, <1>7, <1>8, <1>9 DEF IInv

(* The push shows a projection that is at least as new as the call.        *)
LEMMA PushKeepsIInv ==
  ASSUME IInv, NEW t \in Tasks, Push(t)
  PROVE  IInv'
<1>1. /\ call[t] \in Calls /\ CallOK(t) /\ TypeOK /\ call[t].at = "pushing"
      /\ Idle \in Calls /\ Idle.at = "idle"
  BY FeedAssumption DEF IInv, TypeOK, CallsOK, Push, Idle, At, Calls
<1>2. PICK v \in 0 .. MaxEvents :
        v = call[t].got.version /\ v \in call[t].since .. log /\ pushed[t] <= call[t].since
  BY <1>1 DEF CallOK, Projecting, Written, Snapshot
<1>3. PICK c \in Connections : c = t[1] /\ t \in {Sender(c), Receiver(c)}
  BY TaskOfConnection
<1>4. /\ call' = [call EXCEPT ![t] = Idle] /\ pushed' = [pushed EXCEPT ![t] = v]
      /\ shown' = [shown EXCEPT ![c] = v]
      /\ UNCHANGED <<log, unpublished, saved, fresh, cache, open, queue, asks, wanted,
                     seen, dropped, stopped, restarts, others>>
  BY <1>2, <1>3 DEF Push, bounds, snapshots
<1>5. /\ call' \in [Tasks -> Calls] /\ call'[t] = Idle
      /\ pushed' \in [Tasks -> 0 .. MaxEvents] /\ pushed'[t] = v
      /\ \A u \in Tasks : u # t => call'[u] = call[u] /\ pushed'[u] = pushed[u]
      /\ shown' \in [Connections -> 0 .. MaxEvents] /\ shown'[c] = v
      /\ \A d \in Connections : d # c => shown'[d] = shown[d]
  BY <1>1, <1>2, <1>4 DEF TypeOK
<1>6. TypeOK'
  BY <1>4, <1>5 DEF IInv, TypeOK, Calls, Snapshot
<1>7. ProjectionIsPrefix'
  <2>1. \A p : IsPrefix(p) => IsPrefix(p)'
    BY <1>4 DEF IsPrefix
  <2>2. \A u \in Tasks : IsPrefix(call'[u].base) /\ IsPrefix(call'[u].got)
    BY <1>5 DEF IInv, ProjectionIsPrefix, IsPrefix, Idle, At
  <2>3. IsPrefix(cache') /\ IsPrefix(saved')
    BY <1>4 DEF IInv, ProjectionIsPrefix
  <2> QED
    BY <2>1, <2>2, <2>3 DEF ProjectionIsPrefix, IsPrefix
<1>8. CallsOK'
  <2>1. SUFFICES ASSUME NEW u \in Tasks PROVE CallOK(u)'
    BY DEF CallsOK
  <2>2. CASE u = t
    BY <2>2, <1>1, <1>2, <1>4, <1>5 DEF CallOK, Idle, At, Projecting, Written, TypeOK
  <2>3. CASE u # t
    BY <2>3, <1>4, <1>5 DEF IInv, CallsOK, CallOK
  <2> QED
    BY <2>2, <2>3
<1>9. ASSUME NEW d \in Connections
      PROVE  (ConnectionOK(d) /\ WillBeCurrent(d) /\ SenderCatchesUp(d) /\ WillBeWhole(d))'
  <2>1. /\ Sender(d) \in Tasks /\ Receiver(d) \in Tasks /\ Sender(d) # Receiver(d)
        /\ Sender(c) \in Tasks /\ Receiver(c) \in Tasks
    BY TaskNames
  <2>2. /\ ConnectionOK(d) /\ WillBeCurrent(d) /\ SenderCatchesUp(d) /\ WillBeWhole(d)
    BY DEF IInv, ConnectionsOK, NothingMissed
  <2>3. CASE d # c
    <3>1. Sender(d) # t /\ Receiver(d) # t
      BY <2>3, <1>3, TaskNames
    <3>2. /\ call'[Sender(d)] = call[Sender(d)] /\ call'[Receiver(d)] = call[Receiver(d)]
          /\ pushed'[Sender(d)] = pushed[Sender(d)]
          /\ pushed'[Receiver(d)] = pushed[Receiver(d)] /\ shown'[d] = shown[d]
      BY <2>1, <2>3, <3>1, <1>5
    <3> QED
      BY <2>2, <3>2, <1>4
         DEF ConnectionOK, WillBeCurrent, SenderCatchesUp, WillBeWhole, Latest, Overtaken,
             Pushes, Comes, Arrives
  <2>4. CASE d = c /\ t = Sender(c)
    <3>1. /\ call'[Sender(c)] = Idle /\ call'[Receiver(c)] = call[Receiver(c)]
          /\ shown'[c] = v /\ pushed'[Sender(c)] = v
      BY <2>1, <2>4, <1>5
    <3>2. ConnectionOK(c)'
      BY <2>2, <2>4, <3>1, <1>4 DEF ConnectionOK
    <3>3. SenderCatchesUp(c)' /\ WillBeWhole(c)'
      BY <2>2, <2>4, <3>1, <1>1, <1>4
         DEF SenderCatchesUp, WillBeWhole, Arrives, Projecting, Written
    <3>4. WillBeCurrent(c)'
      <4>1. CASE v = log
        BY <3>1, <4>1, <1>4 DEF WillBeCurrent, Latest
      <4>2. CASE v # log
        <5>1. call[t].since # log /\ call[t].at \in Projecting
          BY <4>2, <1>1, <1>2 DEF TypeOK, Calls, Projecting, Written
        <5>2. c \in open => Comes(c)
          BY <2>2, <2>4, <5>1 DEF SenderCatchesUp
        <5> QED
          BY <5>2, <1>4 DEF WillBeCurrent, Comes
      <4> QED
        BY <4>1, <4>2
    <3> QED
      BY <2>4, <3>2, <3>3, <3>4
  <2>5. CASE d = c /\ t = Receiver(c)
    <3>1. /\ call'[Receiver(c)] = Idle /\ call'[Sender(c)] = call[Sender(c)]
          /\ shown'[c] = v /\ pushed'[Receiver(c)] = v
          /\ pushed'[Sender(c)] = pushed[Sender(c)]
      BY <2>1, <2>5, <1>5
    <3>2. wanted[c] /\ asks[c] # 0
      BY <2>2, <2>5, <1>1 DEF ConnectionOK
    <3>3. ConnectionOK(c)'
      BY <2>2, <2>5, <3>1, <3>2, <1>1, <1>4 DEF ConnectionOK
    <3>4. SenderCatchesUp(c)' /\ WillBeWhole(c)'
      BY <2>2, <2>5, <3>1, <1>1, <1>4 DEF SenderCatchesUp, WillBeWhole, Arrives, Comes
    <3>5. Latest(c) \/ Pushes(Receiver(c)) => Latest(c)'
      <4>1. CASE v = log
        BY <4>1, <3>1, <1>4 DEF Latest
      <4>2. CASE v # log
        <5>1. call[t].since # log /\ pushed[t] # log
          BY <4>2, <1>1, <1>2 DEF TypeOK, Calls
        <5>2. Latest(c) => pushed[Sender(c)] = log
          BY <5>1, <2>2, <2>5 DEF Latest, Overtaken, ConnectionOK
        <5> QED
          BY <5>1, <5>2, <2>5, <3>1, <3>2, <1>4 DEF Latest, Overtaken, Pushes
      <4> QED
        BY <4>1, <4>2
    <3>6. WillBeCurrent(c)'
      BY <2>2, <2>5, <3>1, <3>5, <1>1, <1>4 DEF WillBeCurrent, Pushes, Comes
    <3> QED
      BY <2>5, <3>3, <3>4, <3>6
  <2> QED
    BY <2>3, <2>4, <2>5, <1>3
<1> QED
  BY <1>6, <1>7, <1>8, <1>9 DEF IInv, ConnectionsOK, NothingMissed

(* A sender that has ended of a refused save has nothing to catch up with. *)
LEMMA SenderRefusedKeepsIInv ==
  ASSUME IInv, NEW c \in Connections, SenderRefused(c)
  PROVE  IInv'
<1>1. /\ TypeOK /\ Sender(c) \in Tasks /\ Ended \in Calls /\ Ended.at = "ended"
      /\ Ended.base = Nothing /\ Ended.got = Nothing /\ Ended.since = 0
  BY FeedAssumption, TaskNames DEF IInv, Ended, At, Calls
<1>2. /\ call' = [call EXCEPT ![Sender(c)] = Ended]
      /\ UNCHANGED <<log, unpublished, saved, fresh, cache, feed, bounds>>
  BY DEF SenderRefused, snapshots
<1>3. /\ call' \in [Tasks -> Calls] /\ call'[Sender(c)] = Ended
      /\ \A u \in Tasks : u # Sender(c) => call'[u] = call[u]
  BY <1>1, <1>2 DEF TypeOK
<1>4. TypeOK' /\ ProjectionIsPrefix'
  <2>1. IsPrefix(Nothing)
    BY DEF IsPrefix
  <2> QED
    BY <2>1, <1>1, <1>2, CallKeepsPrefix DEF IInv, ProjectionIsPrefix, TypeOK
<1>5. CallsOK'
  <2>1. SUFFICES ASSUME NEW u \in Tasks PROVE CallOK(u)'
    BY DEF CallsOK
  <2>2. CallOK(u) /\ log \in 0 .. MaxEvents
    BY DEF IInv, CallsOK, TypeOK
  <2>3. CASE u = Sender(c)
    BY <2>2, <2>3, <1>1, <1>2, <1>3 DEF CallOK, Projecting, Written, feed
  <2>4. CASE u # Sender(c)
    BY <2>2, <2>4, <1>2, <1>3 DEF CallOK, feed
  <2> QED
    BY <2>3, <2>4
<1>6. ASSUME NEW d \in Connections
      PROVE  (ConnectionOK(d) /\ WillBeCurrent(d) /\ SenderCatchesUp(d) /\ WillBeWhole(d))'
  <2>1. /\ ConnectionOK(d) /\ WillBeCurrent(d) /\ SenderCatchesUp(d) /\ WillBeWhole(d)
    BY DEF IInv, ConnectionsOK, NothingMissed
  <2>2. call'[Receiver(d)] = call[Receiver(d)]
    BY <1>3, TaskNames
  <2>3. ConnectionOK(d)' /\ WillBeWhole(d)'
    BY <2>1, <2>2, <1>2 DEF ConnectionOK, WillBeWhole, Arrives, feed, bounds
  <2>4. CASE d = c
    BY <2>3, <2>4, <1>1, <1>3 DEF WillBeCurrent, SenderCatchesUp, Projecting, Written
  <2>5. CASE d # c
    <3>1. call'[Sender(d)] = call[Sender(d)]
      BY <2>5, <1>3, TaskNames
    <3> QED
      BY <2>1, <2>2, <2>3, <3>1, <1>2
         DEF WillBeCurrent, SenderCatchesUp, Latest, Overtaken, Pushes, Comes, feed
  <2> QED
    BY <2>4, <2>5
<1> QED
  BY <1>4, <1>5, <1>6 DEF IInv, ConnectionsOK, NothingMissed

-----------------------------------------------------------------------------
(* Appending and publishing. *)

LEMMA AppendEventKeepsIInv ==
  ASSUME IInv, AppendEvent
  PROVE  IInv'
<1>1. PICK n \in 1 .. MaxEvents :
        /\ n = log + 1 /\ log' = n /\ unpublished' = unpublished \cup {n}
        /\ log \in 0 .. MaxEvents
  BY FeedAssumption DEF IInv, TypeOK, AppendEvent
<1>2. UNCHANGED <<saved, fresh, cache, call, open, queue, asks, wanted, seen, pushed,
                  shown, dropped, stopped, restarts, others>>
  BY DEF AppendEvent, feed, bounds, snapshots
<1>3. TypeOK'
  <2>1. SUBSET (1 .. log) \subseteq SUBSET (1 .. n)
    BY <1>1
  <2>2. seen \in [Connections -> SUBSET (1 .. n)]
    BY <2>1 DEF IInv, TypeOK
  <2>3. queue \in [Connections -> Seq((1 .. n) \cup {Shutdown})]
    <3>1. (1 .. log) \cup {Shutdown} \subseteq (1 .. n) \cup {Shutdown}
      BY <1>1
    <3>2. \A c \in Connections : queue[c] \in Seq((1 .. n) \cup {Shutdown})
      BY <3>1, SeqMonotonic DEF IInv, TypeOK
    <3> QED
      BY <3>2 DEF IInv, TypeOK
  <2>4. unpublished' \subseteq 1 .. n /\ n \in 0 .. MaxEvents
    BY <1>1 DEF IInv, TypeOK
  <2>5. \A c \in Connections : Len(queue'[c]) <= QueueSize
    BY <1>2 DEF IInv, TypeOK
  <2>6. /\ {saved, cache}' \subseteq Snapshot \cup {Nothing} /\ fresh' \subseteq Tasks
        /\ call' \in [Tasks -> Calls]
    BY <1>2 DEF IInv, TypeOK
  <2> QED
    BY <1>1, <1>2, <2>2, <2>3, <2>4, <2>5, <2>6 DEF IInv, TypeOK, Calls, Snapshot
<1>4. ProjectionIsPrefix'
  <2>1. ASSUME NEW p \in Snapshot \cup {Nothing}, IsPrefix(p)
        PROVE  IsPrefix(p)'
    BY <1>1, <2>1 DEF IsPrefix, Snapshot
  <2>2. \A t \in Tasks : call[t].base \in Snapshot \cup {Nothing}
                         /\ call[t].got \in Snapshot \cup {Nothing}
    BY DEF IInv, TypeOK, Calls
  <2>3. {saved, cache} \subseteq Snapshot \cup {Nothing}
    BY DEF IInv, TypeOK
  <2> QED
    BY <1>2, <2>1, <2>2, <2>3 DEF IInv, ProjectionIsPrefix, IsPrefix
<1>5. CallsOK'
  <2>1. SUFFICES ASSUME NEW t \in Tasks PROVE CallOK(t)'
    BY DEF CallsOK
  <2>2. CallOK(t) /\ call[t] \in Calls /\ pushed[t] \in 0 .. MaxEvents
    BY DEF IInv, CallsOK, TypeOK
  <2> QED
    BY <1>1, <1>2, <2>2 DEF CallOK, Calls
<1>6. ConnectionsOK'
  BY <1>2 DEF IInv, ConnectionsOK, ConnectionOK
<1>7. NothingMissed'
  <2>1. SUFFICES ASSUME NEW c \in Connections
                 PROVE  (WillBeCurrent(c) /\ SenderCatchesUp(c) /\ WillBeWhole(c))'
    BY DEF NothingMissed
  <2>2. WillBeCurrent(c)' /\ SenderCatchesUp(c)'
    BY <1>1 DEF WillBeCurrent, SenderCatchesUp, Comes
  <2>3. WillBeWhole(c)
    BY DEF IInv, NothingMissed
  <2>4. \A e \in 1 .. n : e \in 1 .. log \/ e = n
    BY <1>1
  <2>5. WillBeWhole(c)'
    BY <1>1, <1>2, <2>3, <2>4 DEF WillBeWhole, Arrives
  <2> QED
    BY <2>2, <2>5
<1> QED
  BY <1>3, <1>4, <1>5, <1>6, <1>7 DEF IInv

(* A batch put into the queues of some connections keeps them queues. *)
LEMMA QueuesAfterPut ==
  ASSUME TypeOK, NEW e \in (1 .. log) \cup {Shutdown},
         queue' = [c \in Connections |-> IF c \in open THEN Put(queue[c], e) ELSE queue[c]]
  PROVE  /\ queue' \in [Connections -> Seq((1 .. log) \cup {Shutdown})]
         /\ \A c \in Connections : Len(queue'[c]) <= QueueSize
<1> DEFINE S == (1 .. log) \cup {Shutdown}
<1>1. queue \in [Connections -> Seq(S)] /\ e \in S
  BY DEF TypeOK
<1> HIDE DEF S
<1>2. ASSUME NEW c \in Connections
      PROVE  queue'[c] \in Seq(S) /\ Len(queue'[c]) <= QueueSize
  <2>1. queue[c] \in Seq(S) /\ Len(queue[c]) <= QueueSize
    BY <1>1 DEF TypeOK
  <2>2. Put(queue[c], e) \in Seq(S) /\ Len(Put(queue[c], e)) <= QueueSize
    BY <2>1, <1>1, PutIntoQueue
  <2> QED
    BY <2>1, <2>2
<1>3. queue' \in [Connections -> Seq(S)]
  BY <1>2
<1> QED
  BY <1>2, <1>3 DEF S

LEMMA PublishKeepsIInv ==
  ASSUME IInv, NEW v \in unpublished, Publish(v)
  PROVE  IInv'
<1>1. /\ TypeOK /\ v \in 1 .. log /\ v \in (1 .. log) \cup {Shutdown} /\ v # Shutdown
      /\ unpublished' = unpublished \ {v}
      /\ queue' = [c \in Connections |-> IF c \in open THEN Put(queue[c], v) ELSE queue[c]]
      /\ dropped' = [c \in Connections |->
                       dropped[c] \/ (c \in open /\ Len(queue[c]) = QueueSize)]
  BY FeedAssumption DEF IInv, TypeOK, Publish
<1>2. UNCHANGED <<log, saved, fresh, cache, call, open, asks, wanted, seen, pushed,
                  shown, stopped, restarts, others>>
  BY DEF Publish, bounds, snapshots
<1>3. TypeOK'
  <2>1. /\ queue' \in [Connections -> Seq((1 .. log) \cup {Shutdown})]
        /\ \A c \in Connections : Len(queue'[c]) <= QueueSize
    BY <1>1, QueuesAfterPut
  <2>2. dropped' \in [Connections -> BOOLEAN]
    BY <1>1
  <2> QED
    BY <1>1, <1>2, <2>1, <2>2 DEF TypeOK, Calls, Snapshot
<1>4. ProjectionIsPrefix'
  BY <1>2 DEF IInv, ProjectionIsPrefix, IsPrefix
<1>5. CallsOK'
  BY <1>2 DEF IInv, CallsOK, CallOK
<1>6. ASSUME NEW c \in open
      PROVE  /\ c \in Connections /\ queue'[c] # <<>> /\ InQueue(queue'[c], v)
             /\ \A x : InQueue(queue'[c], x) => InQueue(queue[c], x) \/ x = v
             /\ ~dropped'[c] => /\ ~dropped[c]
                                /\ \A x : InQueue(queue[c], x) => InQueue(queue'[c], x)
  <2> DEFINE S == (1 .. log) \cup {Shutdown}
  <2>1. c \in Connections
    BY DEF IInv, TypeOK
  <2>2. queue[c] \in Seq(S) /\ Len(queue[c]) <= QueueSize /\ v \in S
    BY <2>1, <1>1 DEF TypeOK
  <2>3. queue'[c] = Put(queue[c], v)
    BY <1>1, <2>1
  <2>4. ~dropped'[c] => ~dropped[c] /\ Len(queue[c]) # QueueSize
    BY <1>1, <2>1
  <2> HIDE DEF S
  <2>5. /\ Put(queue[c], v) # <<>> /\ InQueue(Put(queue[c], v), v)
        /\ \A x : InQueue(Put(queue[c], v), x) => InQueue(queue[c], x) \/ x = v
        /\ Len(queue[c]) # QueueSize =>
             \A x : InQueue(queue[c], x) => InQueue(Put(queue[c], v), x)
    BY <2>2, PutIntoQueue
  <2> QED
    BY <2>1, <2>3, <2>4, <2>5
<1>7. ConnectionsOK'
  <2>1. SUFFICES ASSUME NEW c \in Connections PROVE ConnectionOK(c)'
    BY DEF ConnectionsOK
  <2>2. ConnectionOK(c)
    BY DEF IInv, ConnectionsOK
  <2> QED
    BY <1>1, <1>2, <1>6, <2>2 DEF ConnectionOK
<1>8. NothingMissed'
  <2>1. SUFFICES ASSUME NEW c \in Connections
                 PROVE  (WillBeCurrent(c) /\ SenderCatchesUp(c) /\ WillBeWhole(c))'
    BY DEF NothingMissed
  <2>2. WillBeCurrent(c)' /\ SenderCatchesUp(c)'
    BY <1>2, <1>6 DEF WillBeCurrent, SenderCatchesUp, Comes
  <2>3. WillBeWhole(c)
    BY DEF IInv, NothingMissed
  <2>4. ASSUME c \in open, ~dropped'[c], NEW e, Arrives(c, e)
        PROVE  Arrives(c, e)'
    BY <2>4, <1>1, <1>2, <1>6 DEF Arrives
  <2>5. WillBeWhole(c)'
    BY <1>2, <1>6, <2>3, <2>4 DEF WillBeWhole
  <2> QED
    BY <2>2, <2>5
<1> QED
  BY <1>3, <1>4, <1>5, <1>7, <1>8 DEF IInv

(* After the shutdown no connection is open. *)
LEMMA ShutDownKeepsIInv ==
  ASSUME IInv, ShutDown
  PROVE  IInv'
<1>1. /\ TypeOK /\ open' = {} /\ stopped' = TRUE
      /\ queue' = [c \in Connections |->
                     IF c \in open THEN Put(queue[c], Shutdown) ELSE queue[c]]
      /\ UNCHANGED <<log, unpublished, saved, fresh, cache, call, asks, wanted, seen,
                     pushed, shown, dropped, restarts, others>>
  BY DEF IInv, ShutDown, snapshots
<1>2. /\ queue' \in [Connections -> Seq((1 .. log) \cup {Shutdown})]
      /\ \A c \in Connections : Len(queue'[c]) <= QueueSize
  BY <1>1, QueuesAfterPut
<1>3. TypeOK'
  BY <1>1, <1>2 DEF TypeOK, Calls, Snapshot
<1>4. ProjectionIsPrefix'
  BY <1>1 DEF IInv, ProjectionIsPrefix, IsPrefix
<1>5. CallsOK'
  BY <1>1 DEF IInv, CallsOK, CallOK
<1>6. ConnectionsOK'
  BY <1>1 DEF IInv, ConnectionsOK, ConnectionOK
<1>7. NothingMissed'
  BY <1>1 DEF NothingMissed, WillBeCurrent, SenderCatchesUp, WillBeWhole
<1> QED
  BY <1>3, <1>4, <1>5, <1>6, <1>7 DEF IInv

-----------------------------------------------------------------------------
(* The connections. *)

(* A connection starts with nothing asked for. *)
LEMMA ConnectKeepsIInv ==
  ASSUME IInv, NEW c \in Connections, Connect(c)
  PROVE  IInv'
<1>1. /\ TypeOK /\ ~stopped /\ call[Receiver(c)].at = "ended"
      /\ open' = open \cup {c} /\ queue' = [queue EXCEPT ![c] = <<>>]
      /\ call' = [call EXCEPT ![Sender(c)] = Idle, ![Receiver(c)] = Idle]
      /\ UNCHANGED <<log, unpublished, saved, fresh, cache, asks, wanted, seen, pushed,
                     shown, dropped, stopped, restarts, others>>
  BY DEF IInv, Connect, bounds, snapshots, Ended, At
<1>2. /\ Sender(c) \in Tasks /\ Receiver(c) \in Tasks
      /\ Idle \in Calls /\ Idle.at = "idle" /\ Idle.since = 0
      /\ Idle.base = Nothing /\ Idle.got = Nothing
  BY FeedAssumption, TaskNames DEF Idle, At, Calls
<1>3. /\ call' \in [Tasks -> Calls] /\ call'[Sender(c)] = Idle /\ call'[Receiver(c)] = Idle
      /\ \A u \in Tasks : u \notin {Sender(c), Receiver(c)} => call'[u] = call[u]
      /\ \A u \in Tasks : call'[u] \in {Idle, call[u]}
  BY <1>1, <1>2 DEF TypeOK
<1> DEFINE S == (1 .. log) \cup {Shutdown}
<1>4. queue \in [Connections -> Seq(S)] /\ QueueSize \in Nat
  BY <1>1, FeedAssumption DEF TypeOK
<1> HIDE DEF S
<1>5. /\ queue' \in [Connections -> Seq(S)] /\ queue'[c] = <<>>
      /\ \A d \in Connections : d # c => queue'[d] = queue[d]
  BY <1>1, <1>4, EmptySeq
<1>6. TypeOK'
  <2>1. \A d \in Connections : Len(queue'[d]) <= QueueSize
    BY <1>1, <1>4, <1>5, EmptySeq DEF TypeOK
  <2> QED
    BY <1>1, <1>3, <1>5, <2>1 DEF TypeOK, Calls, Snapshot, S
<1>7. ProjectionIsPrefix'
  <2>1. \A p : IsPrefix(p) => IsPrefix(p)'
    BY <1>1 DEF IsPrefix
  <2>2. IsPrefix(Nothing)
    BY DEF IsPrefix
  <2>3. \A u \in Tasks : IsPrefix(call'[u].base) /\ IsPrefix(call'[u].got)
    BY <1>2, <1>3, <2>2 DEF IInv, ProjectionIsPrefix
  <2>4. IsPrefix(cache') /\ IsPrefix(saved')
    BY <1>1 DEF IInv, ProjectionIsPrefix
  <2> QED
    BY <2>1, <2>3, <2>4 DEF ProjectionIsPrefix, IsPrefix
<1>8. CallsOK'
  <2>1. SUFFICES ASSUME NEW u \in Tasks PROVE CallOK(u)'
    BY DEF CallsOK
  <2>2. CallOK(u) /\ log \in 0 .. MaxEvents
    BY DEF IInv, CallsOK, TypeOK
  <2>3. CASE call'[u] = Idle
    BY <2>2, <2>3, <1>1, <1>2 DEF CallOK, Projecting, Written
  <2>4. CASE call'[u] = call[u]
    BY <2>2, <2>4, <1>1 DEF CallOK
  <2> QED
    BY <2>3, <2>4, <1>3
<1>9. ASSUME NEW d \in Connections
      PROVE  (ConnectionOK(d) /\ WillBeCurrent(d) /\ SenderCatchesUp(d) /\ WillBeWhole(d))'
  <2>1. ConnectionOK(d) /\ WillBeCurrent(d) /\ SenderCatchesUp(d) /\ WillBeWhole(d)
    BY DEF IInv, ConnectionsOK, NothingMissed
  <2>2. CASE d = c
    <3>1. asks[c] = 0 /\ ~wanted[c] /\ seen[c] = {}
      BY <1>1, <2>1, <2>2 DEF ConnectionOK
    <3>2. ~InQueue(queue'[c], Shutdown)
      BY <1>5, EmptySeq DEF InQueue
    <3>3. ConnectionOK(c)'
      BY <2>1, <2>2, <3>1, <3>2, <1>1, <1>2, <1>3 DEF ConnectionOK
    <3>4. WillBeCurrent(c)' /\ SenderCatchesUp(c)' /\ WillBeWhole(c)'
      BY <3>1, <1>1, <1>2, <1>3
         DEF WillBeCurrent, SenderCatchesUp, WillBeWhole, Projecting, Written
    <3> QED
      BY <2>2, <3>3, <3>4
  <2>3. CASE d # c
    <3>1. /\ call'[Sender(d)] = call[Sender(d)] /\ call'[Receiver(d)] = call[Receiver(d)]
          /\ queue'[d] = queue[d] /\ (d \in open' <=> d \in open)
      BY <2>3, <1>1, <1>3, <1>5, TaskNames
    <3> QED
      BY <1>1, <2>1, <3>1
         DEF ConnectionOK, WillBeCurrent, SenderCatchesUp, WillBeWhole, Latest, Overtaken,
             Pushes, Comes, Arrives
  <2> QED
    BY <2>2, <2>3
<1> QED
  BY <1>6, <1>7, <1>8, <1>9 DEF IInv, ConnectionsOK, NothingMissed

(* What a task that is about to begin, or ends, does to the others. *)
LEMMA CallBegins ==
  ASSUME IInv, UNCHANGED <<log, saved, cache, pushed>>,
         NEW t \in Tasks, NEW x \in Calls,
         call' = [call EXCEPT ![t] = x], x.base \in {Nothing, cache}, x.got = Nothing,
         x.at \in {"idle", "ended", "backlog", "loading", "reading"}, x.since \in {0, log},
         x.at \in Projecting => x.since = log
  PROVE  /\ call' \in [Tasks -> Calls] /\ call'[t] = x
         /\ \A u \in Tasks : u # t => call'[u] = call[u]
         /\ ProjectionIsPrefix' /\ CallsOK'
<1>1. /\ call' \in [Tasks -> Calls] /\ call'[t] = x
      /\ \A u \in Tasks : u # t => call'[u] = call[u]
  BY DEF IInv, TypeOK
<1>2. ProjectionIsPrefix'
  <2>1. \A p : IsPrefix(p) => IsPrefix(p)'
    BY DEF IsPrefix
  <2>2. IsPrefix(Nothing)
    BY DEF IsPrefix
  <2>3. \A u \in Tasks : IsPrefix(call'[u].base) /\ IsPrefix(call'[u].got)
    BY <1>1, <2>2 DEF IInv, ProjectionIsPrefix
  <2>4. IsPrefix(cache') /\ IsPrefix(saved')
    BY DEF IInv, ProjectionIsPrefix
  <2> QED
    BY <2>1, <2>3, <2>4 DEF ProjectionIsPrefix, IsPrefix
<1>3. CallsOK'
  <2>1. SUFFICES ASSUME NEW u \in Tasks PROVE CallOK(u)'
    BY DEF CallsOK
  <2>2. CallOK(u) /\ log \in 0 .. MaxEvents
    BY DEF IInv, CallsOK, TypeOK
  <2>3. CASE u = t
    BY <1>1, <2>2, <2>3, FeedAssumption DEF CallOK, Written
  <2>4. CASE u # t
    BY <1>1, <2>2, <2>4 DEF CallOK
  <2> QED
    BY <2>3, <2>4
<1> QED
  BY <1>1, <1>2, <1>3

(* A projection that begins now will show the whole stream. *)
LEMMA BegunIsCurrent ==
  ASSUME TypeOK
  PROVE  /\ Begun \in Calls /\ Begun.at \in {"loading", "reading"}
         /\ Begun.base = cache /\ Begun.got = Nothing /\ Begun.since = log
BY DEF Begun, At, Calls, TypeOK

(* Whoever asks for the backlog is going to be sent it. *)
LEMMA SubscribeKeepsIInv ==
  ASSUME IInv, NEW c \in Connections, NEW backlog \in BOOLEAN, Subscribe(c, backlog)
  PROVE  IInv'
<1> DEFINE x == At("backlog", Nothing, Nothing, 0)
<1>1. /\ TypeOK /\ asks[c] < MaxAsks /\ call[Receiver(c)].at = "idle"
      /\ asks' = [asks EXCEPT ![c] = @ + 1] /\ wanted' = [wanted EXCEPT ![c] = @ \/ backlog]
      /\ UNCHANGED <<log, unpublished, saved, fresh, cache, open, queue, seen, pushed,
                     shown, dropped, stopped, restarts, others>>
  BY DEF IInv, Subscribe, Idle, At, bounds, snapshots
<1>2. /\ x \in Calls /\ x.at = "backlog" /\ x.base = Nothing /\ x.got = Nothing
      /\ x.since = 0 /\ MaxAsks \in Nat
  BY FeedAssumption DEF At, Calls
<1>3. backlog => call' = [call EXCEPT ![Receiver(c)] = x]
  BY DEF Subscribe
<1>4. ~backlog => call' = call
  BY DEF Subscribe
<1> HIDE DEF x
<1>5. /\ call' \in [Tasks -> Calls] /\ ProjectionIsPrefix' /\ CallsOK'
      /\ backlog => call'[Receiver(c)].at = "backlog"
      /\ \A u \in Tasks : u # Receiver(c) => call'[u] = call[u]
      /\ ~backlog => \A u \in Tasks : call'[u] = call[u]
  <2>1. CASE backlog
    BY <2>1, <1>1, <1>2, <1>3, CallBegins, TaskNames DEF Projecting, Written
  <2>2. CASE ~backlog
    BY <2>2, <1>1, <1>4 DEF IInv, TypeOK, ProjectionIsPrefix, IsPrefix, CallsOK, CallOK
  <2> QED
    BY <2>1, <2>2
<1>6. /\ asks' \in [Connections -> 0 .. MaxAsks] /\ asks'[c] # 0
      /\ \A d \in Connections : d # c => asks'[d] = asks[d]
  BY <1>1, <1>2 DEF TypeOK
<1>7. /\ wanted' \in [Connections -> BOOLEAN] /\ (wanted'[c] <=> wanted[c] \/ backlog)
      /\ \A d \in Connections : d # c => wanted'[d] = wanted[d]
  <2>1. wanted \in [Connections -> BOOLEAN]
    BY <1>1 DEF TypeOK
  <2> QED
    BY <2>1, <1>1, Zenon
<1>8. TypeOK'
  BY <1>1, <1>5, <1>6, <1>7 DEF TypeOK, Calls, Snapshot
<1>9. ASSUME NEW d \in Connections
      PROVE  (ConnectionOK(d) /\ WillBeCurrent(d) /\ SenderCatchesUp(d) /\ WillBeWhole(d))'
  <2>1. ConnectionOK(d) /\ WillBeCurrent(d) /\ SenderCatchesUp(d) /\ WillBeWhole(d)
    BY DEF IInv, ConnectionsOK, NothingMissed
  <2>2. /\ Sender(d) \in Tasks /\ Receiver(d) \in Tasks /\ Sender(d) # Receiver(c)
        /\ call'[Sender(d)] = call[Sender(d)]
    BY <1>5, TaskNames
  <2>3. SenderCatchesUp(d)'
    BY <2>1, <2>2, <1>1 DEF SenderCatchesUp, Comes
  <2>4. CASE d = c /\ backlog
    <3>1. /\ call'[Receiver(c)].at = "backlog" /\ wanted'[c] /\ asks'[c] # 0
      BY <2>4, <1>5, <1>6, <1>7
    <3> QED
      BY <2>1, <2>3, <2>4, <3>1, <1>1 DEF ConnectionOK, WillBeCurrent, WillBeWhole
  <2>5. CASE d # c \/ ~backlog
    <3>1. call'[Receiver(d)] = call[Receiver(d)] /\ (wanted'[d] <=> wanted[d])
      BY <2>2, <2>5, <1>5, <1>7, TaskNames
    <3>2. asks'[d] = asks[d] \/ (asks'[d] # 0 /\ call[Receiver(d)].at = "idle")
      BY <1>1, <1>6
    <3> QED
      BY <2>1, <2>2, <2>3, <3>1, <3>2, <1>1
         DEF ConnectionOK, WillBeCurrent, WillBeWhole, Latest, Overtaken, Pushes, Comes, Arrives
  <2> QED
    BY <2>4, <2>5
<1> QED
  BY <1>5, <1>8, <1>9 DEF IInv, ConnectionsOK, NothingMissed

(* After the backlog everything so far was traced. *)
LEMMA SendBacklogKeepsIInv ==
  ASSUME IInv, NEW c \in Connections, SendBacklog(c)
  PROVE  IInv'
<1>1. /\ TypeOK /\ call[Receiver(c)].at = "backlog"
      /\ seen' = [seen EXCEPT ![c] = @ \cup 1 .. log]
      /\ call' = [call EXCEPT ![Receiver(c)] = Begun]
      /\ UNCHANGED <<log, unpublished, saved, fresh, cache, open, queue, asks, wanted,
                     pushed, shown, dropped, stopped, restarts, others>>
  BY DEF IInv, SendBacklog, bounds, snapshots
<1>2. /\ Begun \in Calls /\ Begun.at \in {"loading", "reading"}
      /\ Begun.base = cache /\ Begun.got = Nothing /\ Begun.since = log
  BY <1>1, BegunIsCurrent
<1>3. /\ call' \in [Tasks -> Calls] /\ call'[Receiver(c)] = Begun
      /\ \A u \in Tasks : u # Receiver(c) => call'[u] = call[u]
      /\ ProjectionIsPrefix' /\ CallsOK'
  BY <1>1, <1>2, CallBegins, TaskNames DEF Projecting, Written
<1>4. /\ seen' \in [Connections -> SUBSET (1 .. log)] /\ seen'[c] = 1 .. log
      /\ \A d \in Connections : d # c => seen'[d] = seen[d]
  BY <1>1 DEF TypeOK
<1>5. TypeOK'
  BY <1>1, <1>3, <1>4 DEF TypeOK, Calls, Snapshot
<1>6. ASSUME NEW d \in Connections
      PROVE  (ConnectionOK(d) /\ WillBeCurrent(d) /\ SenderCatchesUp(d) /\ WillBeWhole(d))'
  <2>1. ConnectionOK(d) /\ WillBeCurrent(d) /\ SenderCatchesUp(d) /\ WillBeWhole(d)
    BY DEF IInv, ConnectionsOK, NothingMissed
  <2>2. /\ Sender(d) \in Tasks /\ Receiver(d) \in Tasks /\ Sender(d) # Receiver(c)
        /\ call'[Sender(d)] = call[Sender(d)]
    BY <1>3, TaskNames
  <2>3. SenderCatchesUp(d)'
    BY <2>1, <2>2, <1>1 DEF SenderCatchesUp, Comes
  <2>4. CASE d = c
    <3>1. wanted[c] /\ asks[c] # 0
      BY <2>1, <2>4, <1>1 DEF ConnectionOK
    <3>2. Pushes(Receiver(c))' /\ call'[Receiver(c)].at # "ended"
      BY <1>1, <1>2, <1>3 DEF Pushes, Projecting
    <3> QED
      BY <2>1, <2>3, <2>4, <3>1, <3>2, <1>1, <1>4
         DEF ConnectionOK, WillBeCurrent, WillBeWhole, Arrives
  <2>5. CASE d # c
    <3>1. call'[Receiver(d)] = call[Receiver(d)]
      BY <2>2, <2>5, <1>3, TaskNames
    <3> QED
      BY <2>1, <2>2, <2>3, <2>5, <3>1, <1>1, <1>4
         DEF ConnectionOK, WillBeCurrent, WillBeWhole, Latest, Overtaken, Pushes, Comes, Arrives
  <2> QED
    BY <2>4, <2>5
<1> QED
  BY <1>3, <1>5, <1>6 DEF IInv, ConnectionsOK, NothingMissed

(* What leaves the queue of a connection that listens was traced, and is   *)
(* going to be projected.                                                  *)
LEMMA ForwardKeepsIInv ==
  ASSUME IInv, NEW c \in Connections, Forward(c)
  PROVE  IInv'
<1> DEFINE S == (1 .. log) \cup {Shutdown}
           q == queue[c]
           batch == Head(queue[c])
           x == IF batch = Shutdown THEN Ended ELSE IF Listens(c) THEN Begun ELSE Idle
<1>1. /\ TypeOK /\ q \in Seq(S) /\ q # <<>> /\ Len(q) <= QueueSize
      /\ call[Sender(c)] = Idle
      /\ queue' = [queue EXCEPT ![c] = Tail(q)]
      /\ UNCHANGED <<log, unpublished, saved, fresh, cache, open, asks, wanted, pushed,
                     shown, dropped, stopped, restarts, others>>
  BY DEF IInv, TypeOK, Forward, bounds, snapshots
<1>2. /\ Sender(c) \in Tasks /\ Begun \in Calls
      /\ Begun.at \in {"loading", "reading"}
      /\ Begun.base = cache /\ Begun.got = Nothing /\ Begun.since = log
  BY <1>1, TaskNames, BegunIsCurrent
<1>3. call' = [call EXCEPT ![Sender(c)] = x]
  <2>1. call = [call EXCEPT ![Sender(c)] = Idle]
    BY <1>1, <1>2 DEF TypeOK
  <2> QED
    BY <2>1 DEF Forward
<1>4. /\ x \in Calls /\ x.base \in {Nothing, cache} /\ x.got = Nothing
      /\ x.at \in {"idle", "ended", "backlog", "loading", "reading"}
      /\ x.since \in {0, log} /\ (x.at \in Projecting => x.since = log)
  BY <1>2, FeedAssumption DEF Idle, Ended, At, Calls, Projecting, Written
<1>5. /\ batch \in S /\ InQueue(q, batch)
      /\ Tail(q) \in Seq(S) /\ Len(Tail(q)) = Len(q) - 1
      /\ \A y : InQueue(Tail(q), y) => InQueue(q, y)
      /\ \A y : InQueue(q, y) => y = batch \/ InQueue(Tail(q), y)
  <2> HIDE DEF S, q
  <2> QED
    BY <1>1, TakeFromQueue DEF q
<1>6. seen' = IF batch # Shutdown /\ Listens(c)
              THEN [seen EXCEPT ![c] = @ \cup {batch}] ELSE seen
  BY DEF Forward
<1>7. c \in open => batch # Shutdown
  BY <1>5 DEF IInv, ConnectionsOK, ConnectionOK
<1>8. batch # Shutdown /\ Listens(c) => x = Begun
  OBVIOUS
<1> HIDE DEF x, batch, S
<1>9. /\ call' \in [Tasks -> Calls] /\ call'[Sender(c)] = x
      /\ \A u \in Tasks : u # Sender(c) => call'[u] = call[u]
      /\ ProjectionIsPrefix' /\ CallsOK'
  BY <1>1, <1>2, <1>3, <1>4, CallBegins
<1>10. /\ queue' \in [Connections -> Seq(S)] /\ queue'[c] = Tail(q)
       /\ \A d \in Connections : d # c => queue'[d] = queue[d]
  BY <1>1, <1>5 DEF TypeOK, S
<1>11. /\ seen' \in [Connections -> SUBSET (1 .. log)]
       /\ seen[c] \subseteq seen'[c]
       /\ batch # Shutdown /\ Listens(c) => batch \in seen'[c]
       /\ ~Listens(c) => seen'[c] = seen[c]
       /\ \A d \in Connections : d # c => seen'[d] = seen[d]
  <2>1. seen \in [Connections -> SUBSET (1 .. log)]
    BY <1>1 DEF TypeOK
  <2>2. batch # Shutdown => batch \in 1 .. log
    BY <1>5 DEF S
  <2>3. CASE batch # Shutdown /\ Listens(c)
    BY <2>1, <2>2, <2>3, <1>6
  <2>4. CASE ~(batch # Shutdown /\ Listens(c))
    BY <2>1, <2>4, <1>6
  <2> QED
    BY <2>3, <2>4
<1>12. TypeOK'
  <2>1. \A d \in Connections : Len(queue'[d]) <= QueueSize
    <3>1. Len(q) - 1 <= QueueSize
      BY <1>1, FeedAssumption, LenProperties
    <3> QED
      BY <3>1, <1>1, <1>5, <1>10 DEF TypeOK
  <2> QED
    BY <2>1, <1>1, <1>9, <1>10, <1>11 DEF TypeOK, Calls, Snapshot, S
<1>13. ASSUME NEW d \in Connections
       PROVE  (ConnectionOK(d) /\ WillBeCurrent(d) /\ SenderCatchesUp(d) /\ WillBeWhole(d))'
  <2>1. ConnectionOK(d) /\ WillBeCurrent(d) /\ SenderCatchesUp(d) /\ WillBeWhole(d)
    BY DEF IInv, ConnectionsOK, NothingMissed
  <2>2. /\ Sender(d) \in Tasks /\ Receiver(d) \in Tasks /\ Receiver(d) # Sender(c)
        /\ call'[Receiver(d)] = call[Receiver(d)]
    BY <1>9, TaskNames
  <2>3. CASE d # c
    <3>1. call'[Sender(d)] = call[Sender(d)] /\ queue'[d] = queue[d] /\ seen'[d] = seen[d]
      BY <2>2, <2>3, <1>9, <1>10, <1>11, TaskNames
    <3> QED
      BY <2>1, <2>2, <3>1, <1>1
         DEF ConnectionOK, WillBeCurrent, SenderCatchesUp, WillBeWhole, Latest, Overtaken,
             Pushes, Comes, Arrives
  <2>4. CASE d = c /\ Listens(c)
    <3>1. asks[c] # 0
      BY <2>4, <1>1, FeedAssumption DEF Listens, TypeOK
    <3>2. c \in open => Pushes(Sender(c))'
      BY <2>4, <1>1, <1>2, <1>7, <1>8, <1>9 DEF Pushes, Projecting
    <3>3. WillBeCurrent(c)' /\ SenderCatchesUp(c)'
      BY <3>2, <1>1 DEF WillBeCurrent, SenderCatchesUp, Pushes
    <3>4. c \in open => \A e : Arrives(c, e) => Arrives(c, e)'
      BY <2>4, <1>1, <1>5, <1>7, <1>10, <1>11 DEF Arrives, q
    <3>5. WillBeWhole(c)'
      BY <2>1, <2>2, <2>4, <3>4, <1>1 DEF WillBeWhole
    <3>6. ConnectionOK(c)'
      BY <2>1, <2>2, <2>4, <3>1, <1>1, <1>5, <1>10 DEF ConnectionOK, q
    <3> QED
      BY <2>4, <3>3, <3>5, <3>6
  <2>5. CASE d = c /\ ~Listens(c)
    <3>1. asks[c] = 0
      BY <2>5, <1>1, FeedAssumption DEF Listens, TypeOK
    <3>2. ~wanted[c] /\ seen[c] = {} /\ seen'[c] = {}
      BY <2>1, <2>5, <3>1, <1>11 DEF ConnectionOK
    <3>3. x.at \notin Projecting
      BY <2>5 DEF x, Idle, Ended, At, Projecting, Written
    <3> QED
      BY <2>1, <2>2, <2>5, <3>1, <3>2, <3>3, <1>1, <1>5, <1>9, <1>10
         DEF ConnectionOK, WillBeCurrent, SenderCatchesUp, WillBeWhole, q
  <2> QED
    BY <2>3, <2>4, <2>5
<1> QED
  BY <1>9, <1>12, <1>13 DEF IInv, ConnectionsOK, NothingMissed

(* What is left of some connections after they are closed. *)
LEMMA ClosedKeepsIInv ==
  ASSUME IInv, NEW cs \in SUBSET Connections, Disconnected(cs),
         UNCHANGED <<log, saved, others>>, cache' \in {cache, Nothing},
         unpublished' = unpublished \/ (unpublished' = {} /\ cs = Connections),
         stopped' = stopped \/ (stopped' = FALSE /\ cs = Connections),
         restarts' \in 0 .. MaxRestarts
  PROVE  IInv'
<1> USE DEF Disconnected
<1>1. /\ TypeOK /\ Ended \in Calls /\ Ended.at = "ended" /\ Ended.since = 0
      /\ Ended.base = Nothing /\ Ended.got = Nothing
  BY FeedAssumption DEF IInv, Ended, At, Calls
<1> DEFINE S == (1 .. log) \cup {Shutdown}
<1>2. TypeOK'
  <2>1. queue \in [Connections -> Seq(S)] /\ QueueSize \in Nat
    BY <1>1, FeedAssumption DEF TypeOK
  <2>2. /\ queue' \in [Connections -> Seq(S)]
        /\ \A c \in Connections : Len(queue'[c]) <= QueueSize
    <3> HIDE DEF S
    <3> QED
      BY <2>1, <1>1, EmptySeq DEF TypeOK
  <2>3. call' \in [Tasks -> Calls]
    BY <1>1 DEF TypeOK
  <2>4. wanted' \in [Connections -> BOOLEAN] /\ dropped' \in [Connections -> BOOLEAN]
    OBVIOUS
  <2>5. /\ asks' \in [Connections -> 0 .. MaxAsks] /\ pushed' \in [Tasks -> 0 .. MaxEvents]
        /\ shown' \in [Connections -> 0 .. MaxEvents]
    BY <1>1, FeedAssumption DEF TypeOK
  <2>6. seen' \in [Connections -> SUBSET (1 .. log)] /\ open' \subseteq Connections
    BY <1>1 DEF TypeOK
  <2>7. unpublished' \subseteq 1 .. log /\ {saved, cache}' \subseteq Snapshot \cup {Nothing}
    BY <1>1 DEF TypeOK
  <2>8. stopped' \in BOOLEAN /\ fresh' \subseteq Tasks
    BY <1>1 DEF TypeOK
  <2> QED
    BY <2>2, <2>3, <2>4, <2>5, <2>6, <2>7, <2>8, <1>1 DEF TypeOK, Calls, Snapshot
<1>3. ProjectionIsPrefix'
  <2>1. \A p : IsPrefix(p) => IsPrefix(p)'
    BY DEF IsPrefix
  <2>2. IsPrefix(Nothing)
    BY DEF IsPrefix
  <2>3. \A t \in Tasks : IsPrefix(call'[t].base) /\ IsPrefix(call'[t].got)
    BY <1>1, <2>2 DEF IInv, ProjectionIsPrefix
  <2>4. IsPrefix(cache') /\ IsPrefix(saved')
    BY <2>2 DEF IInv, ProjectionIsPrefix
  <2> QED
    BY <2>1, <2>3, <2>4 DEF ProjectionIsPrefix, IsPrefix
<1>4. CallsOK'
  <2>1. SUFFICES ASSUME NEW t \in Tasks PROVE CallOK(t)'
    BY DEF CallsOK
  <2>2. CASE t \in TasksOf(cs)
    <3>1. call'[t] = Ended /\ pushed'[t] = 0 /\ log \in 0 .. MaxEvents
      BY <2>2, <1>1 DEF TypeOK
    <3> QED
      BY <3>1, <1>1, FeedAssumption DEF CallOK, Projecting, Written
  <2>3. CASE t \notin TasksOf(cs)
    <3>1. call'[t] = call[t] /\ pushed'[t] = pushed[t]
      BY <2>3
    <3> QED
      BY <3>1 DEF IInv, CallsOK, CallOK
  <2> QED
    BY <2>2, <2>3
<1>5. ASSUME NEW c \in Connections
      PROVE  (ConnectionOK(c) /\ WillBeCurrent(c) /\ SenderCatchesUp(c) /\ WillBeWhole(c))'
  <2>1. ConnectionOK(c) /\ WillBeCurrent(c) /\ SenderCatchesUp(c) /\ WillBeWhole(c)
    BY DEF IInv, ConnectionsOK, NothingMissed
  <2>2. Sender(c) \in Tasks /\ Receiver(c) \in Tasks
    BY TaskNames
  <2>3. CASE c \in cs
    <3>1. /\ c \notin open' /\ ~wanted'[c] /\ seen'[c] = {} /\ asks'[c] = 0
          /\ call'[Receiver(c)] = Ended /\ shown'[c] = 0 /\ pushed'[Sender(c)] = 0
      BY <2>2, <2>3, TasksOfConnections
    <3> QED
      BY <3>1, <1>1 DEF ConnectionOK, WillBeCurrent, SenderCatchesUp, WillBeWhole
  <2>4. CASE c \notin cs
    <3>1. /\ call'[Sender(c)] = call[Sender(c)] /\ call'[Receiver(c)] = call[Receiver(c)]
          /\ pushed'[Sender(c)] = pushed[Sender(c)]
          /\ pushed'[Receiver(c)] = pushed[Receiver(c)]
      BY <2>2, <2>4, TasksOfConnections
    <3>2. /\ queue'[c] = queue[c] /\ asks'[c] = asks[c] /\ seen'[c] = seen[c]
          /\ shown'[c] = shown[c] /\ stopped' = stopped /\ unpublished' = unpublished
          /\ c \in open' <=> c \in open
      BY <2>4
    <3>3. (wanted'[c] <=> wanted[c]) /\ (dropped'[c] <=> dropped[c])
      BY <2>4
    <3> QED
      BY <2>1, <3>1, <3>2, <3>3
         DEF ConnectionOK, WillBeCurrent, SenderCatchesUp, WillBeWhole, Latest, Overtaken,
             Pushes, Comes, Arrives
  <2> QED
    BY <2>3, <2>4
<1> QED
  BY <1>2, <1>3, <1>4, <1>5 DEF IInv, ConnectionsOK, NothingMissed

LEMMA DisconnectKeepsIInv ==
  ASSUME IInv, NEW c \in Connections, Disconnect(c) \/ ReceiverRefused(c)
  PROVE  IInv'
<1>1. /\ Disconnected({c}) /\ restarts \in 0 .. MaxRestarts
      /\ UNCHANGED <<log, unpublished, saved, cache, stopped, restarts, others>>
  BY DEF Disconnect, ReceiverRefused, bounds, IInv, TypeOK
<1> QED
  BY <1>1, ClosedKeepsIInv

LEMMA RestartKeepsIInv ==
  ASSUME IInv, Restart
  PROVE  IInv'
<1>1. restarts' \in 0 .. MaxRestarts
  BY FeedAssumption DEF Restart, IInv, TypeOK
<1> QED
  BY <1>1, ClosedKeepsIInv DEF Restart

-----------------------------------------------------------------------------
(* The invariant is inductive. *)
LEMMA NextIInv == IInv /\ [Next]_vars => IInv'
<1> SUFFICES ASSUME IInv, [Next]_vars PROVE IInv'
  OBVIOUS
<1>1. CASE UNCHANGED vars
  BY <1>1, StutterIInv
<1>2. CASE AppendEvent \/ OtherSave \/ ShutDown \/ Restart
  BY <1>2, AppendEventKeepsIInv, OtherSaveKeepsIInv, ShutDownKeepsIInv, RestartKeepsIInv
<1>3. ASSUME NEW v \in unpublished, Publish(v)
      PROVE  IInv'
  BY <1>3, PublishKeepsIInv
<1>4. ASSUME NEW t \in Tasks, Project(t)
      PROVE  IInv'
  BY <1>4, LoadSnapshotKeepsIInv, ReadEventsKeepsIInv, WriteCacheKeepsIInv,
     ReadSnapshotVersionKeepsIInv, SaveSnapshotKeepsIInv, PushKeepsIInv DEF Project
<1>5. ASSUME NEW c \in Connections,
             \/ Connect(c) \/ SendBacklog(c) \/ Forward(c) \/ SenderRefused(c)
             \/ Disconnect(c) \/ ReceiverRefused(c)
             \/ \E backlog \in BOOLEAN : Subscribe(c, backlog)
      PROVE  IInv'
  BY <1>5, ConnectKeepsIInv, SendBacklogKeepsIInv, ForwardKeepsIInv,
     SenderRefusedKeepsIInv, DisconnectKeepsIInv, SubscribeKeepsIInv
<1> QED
  BY <1>1, <1>2, <1>3, <1>4, <1>5 DEF Next

LEMMA Invariance == Spec => []IInv
BY InitIInv, NextIInv, PTL DEF Spec

-----------------------------------------------------------------------------
(* The state is well typed: queues keep within their size and hold events  *)
(* of the stream, whatever order they were published in.                   *)
THEOREM FeedTypeCorrectness == Spec => []TypeOK
<1>1. IInv => TypeOK
  BY DEF IInv
<1> QED
  BY <1>1, Invariance, PTL

(* Every projection that project_stream caches, saves or returns is the    *)
(* fold of a prefix of the stream.                                         *)
THEOREM ProjectionsArePrefixes == Spec => []ProjectionIsPrefix
<1>1. IInv => ProjectionIsPrefix
  BY DEF IInv
<1> QED
  BY <1>1, Invariance, PTL

(* project_stream never returns a projection older than its call, however  *)
(* stale the cache is that it started from.                                *)
THEOREM ProjectionsAreCurrent == Spec => []ReturnedIsCurrent
<1>1. IInv => ReturnedIsCurrent
  <2>1. SUFFICES ASSUME IInv, NEW t \in Tasks, call[t].at = "pushing"
                 PROVE  call[t].got.version >= call[t].since
    BY DEF ReturnedIsCurrent
  <2>2. call[t].got.version \in call[t].since .. log /\ call[t].since \in 0 .. MaxEvents
        /\ log \in 0 .. MaxEvents
    BY <2>1 DEF IInv, CallsOK, CallOK, TypeOK, Calls, Written
  <2> QED
    BY <2>2
<1> QED
  BY <1>1, Invariance, PTL

(* Once nothing is left to do, the latest projection is on the console,    *)
(* unless its sender has ended of a refused save, or the answer to a       *)
(* backlog request went out after the sender had pushed the latest.        *)
THEOREM FeedsAreCurrent == Spec => []FeedIsCurrent
<1>1. IInv => FeedIsCurrent
  <2>1. SUFFICES ASSUME IInv, NEW c \in Connections, Quiet(c), call[Sender(c)] = Idle,
                        wanted[c] \/ seen[c] # {}
                 PROVE  shown[c] = log \/ Overtaken(c)
    BY DEF FeedIsCurrent
  <2>2. WillBeCurrent(c) /\ c \in open /\ ~Comes(c)
    BY <2>1 DEF IInv, NothingMissed, Quiet, Comes
  <2>3. /\ call[Sender(c)].at = "idle" /\ call[Receiver(c)].at \in {"idle", "ended"}
    BY <2>1 DEF Quiet, Finished, Idle, At
  <2>4. ~Pushes(Sender(c)) /\ ~Pushes(Receiver(c))
    BY <2>3 DEF Pushes, Projecting, Written
  <2> QED
    BY <2>1, <2>2, <2>3, <2>4 DEF WillBeCurrent, Latest
<1> QED
  BY <1>1, Invariance, PTL

(* Backlog and feed leave no hole, unless a queue has lost a batch.        *)
THEOREM FeedsHaveNoHole == Spec => []NoHole
<1>1. IInv => NoHole
  <2>1. SUFFICES ASSUME IInv, NEW c \in Connections, Quiet(c), wanted[c], ~dropped[c]
                 PROVE  seen[c] = 1 .. log
    BY DEF NoHole
  <2>2. \A e : ~InQueue(<<>>, e)
    BY EmptySeq DEF InQueue
  <2>3. \A e \in 1 .. log : e \in seen[c]
    BY <2>1, <2>2 DEF IInv, NothingMissed, WillBeWhole, Arrives, Quiet, Finished
  <2>4. seen[c] \subseteq 1 .. log
    BY <2>1 DEF IInv, TypeOK
  <2> QED
    BY <2>3, <2>4
<1> QED
  BY <1>1, Invariance, PTL

(* The sender of a connection never pushes an older projection after a     *)
(* newer one.                                                              *)
THEOREM SendersGoOn == Spec => SenderGoesOn
<1> DEFINE Goes == \A c \in Connections :
                     c \in open /\ c \in open' => pushed[Sender(c)] <= pushed'[Sender(c)]
<1>1. IInv /\ [Next]_vars => [Goes]_vars
  <2>1. SUFFICES ASSUME IInv, Next, NEW c \in Connections, c \in open, c \in open'
                 PROVE  pushed[Sender(c)] <= pushed'[Sender(c)]
    BY DEF vars
  <2>2. Sender(c) \in Tasks /\ pushed \in [Tasks -> 0 .. MaxEvents]
    BY <2>1, TaskNames DEF IInv, TypeOK
  <2>3. CASE pushed' = pushed
    BY <2>2, <2>3
  <2>4. ASSUME NEW t \in Tasks, Push(t)
        PROVE  pushed[Sender(c)] <= pushed'[Sender(c)]
    <3>1. /\ call[t] \in Calls /\ call[t].got \in Snapshot
          /\ pushed[t] <= call[t].since /\ call[t].got.version \in call[t].since .. log
          /\ log \in 0 .. MaxEvents
        BY <2>1, <2>4 DEF Push, IInv, TypeOK, CallsOK, CallOK, Projecting, Written
    <3>2. pushed[t] <= call[t].got.version
      BY <2>2, <3>1 DEF Calls
    <3>3. pushed' = [pushed EXCEPT ![t] = call[t].got.version]
      BY <2>4 DEF Push
    <3> QED
      BY <2>2, <3>2, <3>3
  <2>5. ASSUME NEW d \in Connections, Disconnect(d) \/ ReceiverRefused(d)
        PROVE  pushed[Sender(c)] <= pushed'[Sender(c)]
    <3>1. c \notin {d}
      BY <2>1, <2>5 DEF Disconnect, ReceiverRefused, Disconnected
    <3>2. Sender(c) \notin TasksOf({d})
      BY <3>1, TasksOfConnections
    <3>3. pushed'[Sender(c)] = pushed[Sender(c)]
      BY <2>2, <2>5, <3>2 DEF Disconnect, ReceiverRefused, Disconnected
    <3> QED
      BY <2>2, <3>3
  <2>6. ~Restart
    BY <2>1 DEF Restart, Disconnected
  <2> QED
    BY <2>1, <2>3, <2>4, <2>5, <2>6
       DEF Next, AppendEvent, OtherSave, ShutDown, Publish, Project, LoadSnapshot, ReadEvents,
           WriteCache, ReadSnapshotVersion, SaveSnapshot, SenderRefused, Connect, SendBacklog,
           Forward, Subscribe, feed
<1>2. Spec => [][Goes]_vars
  BY <1>1, Invariance, PTL DEF Spec
<1> QED
  BY <1>2 DEF SenderGoesOn
=============================================================================
