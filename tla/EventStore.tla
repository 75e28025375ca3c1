----------------------------- MODULE EventStore -----------------------------
(***************************************************************************)
(* infrastructure/event_store/postgres.py: the append of a batch as the    *)
(* transaction it is.  It reads max(version) of the stream, compares it    *)
(* with the expected version, stamps the events, inserts their rows under  *)
(* UNIQUE (stream_id, version) (infrastructure/db/tables.py) and commits.  *)
(* PostgreSQL runs it READ COMMITTED: rows of others are seen once         *)
(* committed, and an insert waits for the transaction that has inserted    *)
(* the same key.                                                           *)
(***************************************************************************)
EXTENDS Naturals, Sequences, FiniteSets

CONSTANTS
  Streams, Clients,
  MaxBatch,    \* bound: events of one append
  MaxAppends,  \* bound: appends of one client
  AnyVersion,         \* expected_version=None
  NoRequest    \* no append in progress (of the abstract log)

ASSUME StoreAssumption ==
  /\ MaxBatch \in Nat \ {0} /\ MaxAppends \in Nat
  /\ AnyVersion \notin Nat
  /\ NoRequest \notin [stream: Streams, expected: Nat \cup {AnyVersion},
                      size: 1 .. MaxBatch, done: BOOLEAN]

VARIABLES
  table,    \* event_records: stream -> version -> row, committed
  txn,      \* client -> its append
  asked,    \* client -> its appends so far
  clock     \* utc_now()
vars == <<table, txn, asked, clock>>

Row == [client: Clients, nr: 1 .. MaxAppends, stamp: Nat]
Pc == {"idle", "begin", "stamped", "inserted", "committed", "refused"}
Txn == [pc: Pc, stream: Streams, expected: Nat \cup {AnyVersion},
        size: 1 .. MaxBatch, base: Nat, stamp: Nat]

(* _read_current_version: max(version), 0 for a stream without rows. *)
CurrentVersion(s) ==
  IF DOMAIN table[s] = {} THEN 0
  ELSE CHOOSE v \in DOMAIN table[s] : \A u \in DOMAIN table[s] : u <= v

(* len(await read_stream(...)), which most callers take for the version. *)
LengthRead(s) == Cardinality(DOMAIN table[s])

KeysFromBase(t) == t.base .. (t.base + t.size - 1)                      \* mutant
Keys(t) == (t.base + 1) .. (t.base + t.size)
Goto(c, pc) == txn' = [txn EXCEPT ![c].pc = pc]
InProgress(c) == txn[c].pc \in {"begin", "stamped", "inserted", "committed"}

Init ==
  /\ table = [s \in Streams |-> [v \in {} |-> 0]]
  /\ txn \in [Clients -> {[pc |-> "idle", stream |-> s, expected |-> AnyVersion, size |-> 1,
                           base |-> 0, stamp |-> 0] : s \in Streams}]
  /\ asked = [c \in Clients |-> 0]
  /\ clock = 0

(* append(stream_id, expected_version, events) with at least one event. *)
Begin(c, s, n) ==
  /\ ~InProgress(c) /\ asked[c] < MaxAppends
  /\ \E e \in {AnyVersion} \cup 0 .. LengthRead(s) :
       txn' = [txn EXCEPT ![c] = [pc |-> "begin", stream |-> s, expected |-> e,
                                  size |-> n, base |-> 0, stamp |-> 0]]
  /\ asked' = [asked EXCEPT ![c] = @ + 1]
  /\ UNCHANGED <<table, clock>>

(* Mutant: the expected version is not compared. *)
ReadVersionUnchecked(c) ==
  /\ txn[c].pc = "begin"
  /\ clock' = clock + 1
  /\ txn' = [txn EXCEPT ![c] = [@ EXCEPT !.pc = "stamped", !.stamp = clock + 1,
                                          !.base = CurrentVersion(txn[c].stream)]]
  /\ UNCHANGED <<table, asked>>

(* The version is read and compared; StoredEvent.from_new_event stamps. *)
ReadVersion(c) ==
  LET current == CurrentVersion(txn[c].stream) IN
  /\ txn[c].pc = "begin"
  /\ txn[c].expected \in {AnyVersion, current}
  /\ clock' = clock + 1
  /\ txn' = [txn EXCEPT ![c] = [@ EXCEPT !.pc = "stamped", !.base = current,
                                          !.stamp = clock + 1]]
  /\ UNCHANGED <<table, asked>>

RefuseVersion(c) ==
  /\ txn[c].pc = "begin"
  /\ txn[c].expected \notin {AnyVersion, CurrentVersion(txn[c].stream)}
  /\ Goto(c, "refused")
  /\ UNCHANGED <<table, asked, clock>>

(* INSERT: waits while another transaction holds one of the keys. *)
Insert(c) ==
  /\ txn[c].pc = "stamped"
  /\ \A d \in Clients \ {c} :
       txn[d].pc = "inserted" /\ txn[d].stream = txn[c].stream =>
         Keys(txn[d]) \cap Keys(txn[c]) = {}
  /\ Keys(txn[c]) \cap DOMAIN table[txn[c].stream] = {}
  /\ Goto(c, "inserted")
  /\ UNCHANGED <<table, asked, clock>>

(* Mutant: the insert is tried again with the next versions. *)
InsertAgain(c) ==
  /\ txn[c].pc = "stamped"
  /\ Keys(txn[c]) \cap DOMAIN table[txn[c].stream] # {}
  /\ txn' = [txn EXCEPT ![c].base = CurrentVersion(txn[c].stream)]
  /\ UNCHANGED <<table, asked, clock>>

(* IntegrityError: a key is taken; raised as OptimisticConcurrencyError,   *)
(* also when no version was expected.                                      *)
InsertConflict(c) ==
  /\ txn[c].pc = "stamped"
  /\ Keys(txn[c]) \cap DOMAIN table[txn[c].stream] # {}
  /\ Goto(c, "refused")
  /\ UNCHANGED <<table, asked, clock>>

WithRows(rows, t, row) ==
  [v \in DOMAIN rows \cup Keys(t) |-> IF v \in Keys(t) THEN row ELSE rows[v]]

Commit(c) ==
  LET t == txn[c] IN
  /\ t.pc = "inserted"
  /\ table' = [table EXCEPT ![t.stream] =
       WithRows(@, t, [client |-> c, nr |-> asked[c], stamp |-> t.stamp])]
  /\ Goto(c, "committed")
  /\ UNCHANGED <<asked, clock>>

(* The stored events are returned, or the connection or the process is     *)
(* gone: what is not committed is rolled back.                             *)
Leave(c) ==
  /\ InProgress(c)
  /\ Goto(c, "idle")
  /\ UNCHANGED <<table, asked, clock>>

Next ==
  \E c \in Clients :
    \/ \E s \in Streams, n \in 1 .. MaxBatch : Begin(c, s, n)
    \/ ReadVersion(c) \/ RefuseVersion(c)
    \/ Insert(c) \/ InsertConflict(c) \/ Commit(c)
    \/ Leave(c)

Spec == Init /\ [][Next]_vars

-----------------------------------------------------------------------------
TypeOK ==
  /\ DOMAIN table = Streams
  /\ \A s \in Streams : /\ DOMAIN table[s] \subseteq Nat \ {0}
                        /\ \A v \in DOMAIN table[s] : table[s][v] \in Row
  /\ txn \in [Clients -> Txn]
  /\ asked \in [Clients -> 0 .. MaxAppends]
  /\ clock \in Nat

(* A stream's versions have no gap: the number of events a caller has read *)
(* is the version it must expect.                                          *)
NoVersionGap ==
  \A s \in Streams : DOMAIN table[s] = 1 .. LengthRead(s)

(* The inductive invariant behind the properties.  A stream is a sequence  *)
(* of rows; the keys of an inserted transaction are its next versions, and *)
(* no other transaction has inserted in that stream; whatever a stamped    *)
(* transaction builds on is there and carries older stamps.                *)
TableIsLog == table \in [Streams -> Seq(Row)]
ClientsOK ==
  /\ txn \in [Clients -> Txn]
  /\ asked \in [Clients -> 0 .. MaxAppends]
  /\ clock \in Nat
  /\ \A c \in Clients : InProgress(c) => asked[c] # 0
OpenTxn(c) == txn[c].pc \in {"stamped", "inserted"}
BaseIsCommitted ==
  \A c \in Clients : OpenTxn(c) =>
    /\ txn[c].base <= Len(table[txn[c].stream])
    /\ txn[c].expected \in {AnyVersion, txn[c].base}
InsertedIsNext ==
  \A c \in Clients : txn[c].pc = "inserted" =>
    /\ txn[c].base = Len(table[txn[c].stream])
    /\ \A d \in Clients \ {c} :
         txn[d].pc = "inserted" => txn[d].stream # txn[c].stream
StampsAreOrdered ==
  /\ \A s \in Streams : \A v \in 1 .. Len(table[s]) :
       /\ table[s][v].stamp <= clock
       /\ \A u \in 1 .. v : table[s][u].stamp <= table[s][v].stamp
  /\ \A c \in Clients : OpenTxn(c) =>
       /\ txn[c].stamp <= clock
       /\ \A v \in 1 .. txn[c].base : table[txn[c].stream][v].stamp <= txn[c].stamp
IInv == /\ TableIsLog /\ ClientsOK /\ BaseIsCommitted
        /\ InsertedIsNext /\ StampsAreOrdered

(* In a stream the order of versions is the order of the stamps, so that a *)
(* record folded from read_all (ordered by occurred_at) is the one folded  *)
(* from read_stream (ordered by version).                                  *)
VersionOrderIsTimeOrder ==
  \A s \in Streams : \A u, v \in DOMAIN table[s] :
    u < v => table[s][u].stamp <= table[s][v].stamp

(* Committed events stay as they are, and what is committed with an        *)
(* expected version directly follows that version.                         *)
KeepsRows(s) ==
  \A v \in DOMAIN table[s] : v \in DOMAIN table'[s] /\ table'[s][v] = table[s][v]
FollowsExpected(s, c) ==
  txn[c].pc = "inserted" /\ txn[c].stream = s /\ txn[c].expected # AnyVersion
    /\ txn'[c].pc = "committed" =>
  /\ LengthRead(s) = txn[c].expected
  /\ DOMAIN table'[s] = 1 .. txn[c].expected + txn[c].size
AppendsOnly ==
  \A s \in Streams : KeepsRows(s) /\ \A c \in Clients : FollowsExpected(s, c)
AppendsFollowExpected == [][AppendsOnly]_vars

(* The transactions implement the log. *)
LogOf(s) == [v \in DOMAIN table[s] |-> <<table[s][v].client, table[s][v].nr>>]
RequestOf(c) ==
  IF InProgress(c)
  THEN [stream |-> txn[c].stream, expected |-> txn[c].expected,
        size |-> txn[c].size, done |-> txn[c].pc = "committed"]
  ELSE NoRequest
Abstract == INSTANCE EventLog WITH
  log <- [s \in Streams |-> LogOf(s)], request <- [c \in Clients |-> RequestOf(c)]
ImplementsLog == Abstract!Spec
=============================================================================
