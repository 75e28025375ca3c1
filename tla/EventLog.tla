------------------------------ MODULE EventLog ------------------------------
(***************************************************************************)
(* What an EventStore (domain/event_store.py) promises to its clients: a   *)
(* stream is a log, an append puts its whole batch at the end in one step, *)
(* and one that names an expected version does so only to a log of that    *)
(* length.  This is what InMemoryEventStore.append does under its lock;    *)
(* EventStore shows it of the transactions of PostgresEventStore.          *)
(***************************************************************************)
EXTENDS Naturals, Sequences

CONSTANTS
  Streams, Clients,
  MaxBatch,    \* bound: events of one append
  MaxAppends,  \* bound: appends of one client
  AnyVersion,         \* expected_version=None
  NoRequest

VARIABLES
  log,      \* stream -> the append each of its events came from
  request,  \* client -> the append it waits for
  asked     \* client -> its appends so far
vars == <<log, request, asked>>

Init ==
  /\ log = [s \in Streams |-> <<>>]
  /\ request = [c \in Clients |-> NoRequest]
  /\ asked = [c \in Clients |-> 0]

(* A client names no version or one it has read at some time. *)
Ask(c) ==
  /\ request[c] = NoRequest /\ asked[c] < MaxAppends
  /\ \E s \in Streams, n \in 1 .. MaxBatch :
       \E e \in {AnyVersion} \cup 0 .. Len(log[s]) :
         request' = [request EXCEPT ![c] = [stream |-> s, expected |-> e,
                                            size |-> n, done |-> FALSE]]
  /\ asked' = [asked EXCEPT ![c] = @ + 1]
  /\ UNCHANGED log

Waiting(c) == request[c] # NoRequest /\ ~request[c].done

Perform(c) ==
  /\ Waiting(c)
  /\ LET q == request[c] IN
       /\ q.expected \in {AnyVersion, Len(log[q.stream])}
       /\ log' = [log EXCEPT ![q.stream] =
                    @ \o [i \in 1 .. q.size |-> <<c, asked[c]>>]]
  /\ request' = [request EXCEPT ![c].done = TRUE]
  /\ UNCHANGED asked

(* OptimisticConcurrencyError. *)
Refuse(c) ==
  /\ Waiting(c)
  /\ request[c].expected # Len(log[request[c].stream])
  /\ request' = [request EXCEPT ![c] = NoRequest]
  /\ UNCHANGED <<log, asked>>

(* The append returns, or its caller is gone, before it or after it. *)
Leave(c) ==
  /\ request[c] # NoRequest
  /\ request' = [request EXCEPT ![c] = NoRequest]
  /\ UNCHANGED <<log, asked>>

Next == \E c \in Clients : Ask(c) \/ Perform(c) \/ Refuse(c) \/ Leave(c)
Spec == Init /\ [][Next]_vars
=============================================================================
