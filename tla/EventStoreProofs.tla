-------------------------- MODULE EventStoreProofs --------------------------
(***************************************************************************)
(* Theorems about EventStore, for any streams, clients and batch sizes:    *)
(* a stream never has a version gap, its versions are in the order of      *)
(* their stamps, committed events stay, an append with an expected version *)
(* lands on exactly that version, and the transactions implement the log   *)
(* that the port of the store promises.                                    *)
(***************************************************************************)
EXTENDS EventStore, FiniteSetTheorems, SequenceTheorems, TLAPS

-----------------------------------------------------------------------------
(* Operators. *)

(* max(version) and the number of events of a stream that is a log are its *)
(* length.                                                                 *)
LEMMA VersionIsLength ==
  ASSUME NEW s \in Streams, table[s] \in Seq(Row)
  PROVE  /\ Len(table[s]) \in Nat
         /\ DOMAIN table[s] = 1 .. Len(table[s])
         /\ CurrentVersion(s) = Len(table[s])
         /\ LengthRead(s) = Len(table[s])
<1> DEFINE n == Len(table[s])
<1>1. n \in Nat /\ DOMAIN table[s] = 1 .. n
  OBVIOUS
<1>2. LengthRead(s) = n
  BY <1>1, FS_Interval DEF LengthRead
<1>3. CurrentVersion(s) = n
  <2>1. CASE n = 0
    BY <1>1, <2>1 DEF CurrentVersion
  <2>2. CASE n # 0
    <3>1. n \in DOMAIN table[s] /\ \A u \in DOMAIN table[s] : u <= n
      BY <1>1, <2>2
    <3>2. \A v \in DOMAIN table[s] : (\A u \in DOMAIN table[s] : u <= v) => v = n
      BY <1>1, <3>1
    <3>3. DOMAIN table[s] # {}
      BY <3>1
    <3>4. CurrentVersion(s) = CHOOSE v \in DOMAIN table[s] : \A u \in DOMAIN table[s] : u <= v
      BY <3>3 DEF CurrentVersion
    <3> QED
      BY <3>1, <3>2, <3>4
  <2> QED
    BY <2>1, <2>2
<1> QED
  BY <1>1, <1>2, <1>3

LEMMA RowsOfLog ==
  ASSUME TableIsLog
  PROVE  \A s \in Streams : \A v \in 1 .. Len(table[s]) : table[s][v] \in Row
<1> SUFFICES ASSUME NEW s \in Streams, NEW v \in 1 .. Len(table[s])
             PROVE  table[s][v] \in Row
  OBVIOUS
<1>1. table[s] \in Seq(Row)
  BY DEF TableIsLog
<1> QED
  BY <1>1

(* Rows that follow the last version extend the log and keep what it has. *)
LEMMA RowsExtendLog ==
  ASSUME NEW rows \in Seq(Row), NEW t \in Txn, NEW row \in Row,
         t.base = Len(rows)
  PROVE  /\ WithRows(rows, t, row) \in Seq(Row)
         /\ Len(WithRows(rows, t, row)) = Len(rows) + t.size
         /\ \A v \in 1 .. Len(rows) : WithRows(rows, t, row)[v] = rows[v]
         /\ \A v \in (Len(rows) + 1) .. (Len(rows) + t.size) :
              WithRows(rows, t, row)[v] = row
<1> DEFINE n == Len(rows)
           m == n + t.size
           longer == WithRows(rows, t, row)
<1>1. /\ n \in Nat /\ DOMAIN rows = 1 .. n
      /\ \A v \in 1 .. n : rows[v] \in Row
  OBVIOUS
<1>2. t.size \in Nat /\ t.size >= 1
  BY DEF Txn
<1>3. Keys(t) = (n + 1) .. m
  BY DEF Keys
<1>4. DOMAIN rows \cup Keys(t) = 1 .. m
  BY <1>1, <1>2, <1>3
<1>5. longer = [v \in 1 .. m |-> IF v \in (n + 1) .. m THEN row ELSE rows[v]]
  BY <1>3, <1>4 DEF WithRows
<1>6. longer \in [1 .. m -> Row]
  BY <1>1, <1>2, <1>5
<1>7. longer \in Seq(Row) /\ Len(longer) = m
  BY <1>1, <1>2, <1>6
<1>8. /\ \A v \in 1 .. n : longer[v] = rows[v]
      /\ \A v \in (n + 1) .. m : longer[v] = row
  BY <1>1, <1>2, <1>5
<1> QED
  BY <1>7, <1>8

-----------------------------------------------------------------------------
(* The inductive invariant. *)

LEMMA InitIInv == Init => IInv
<1> SUFFICES ASSUME Init PROVE IInv
  OBVIOUS
<1>1. \A s \in Streams : table[s] = << >>
  BY DEF Init
<1>2. TableIsLog
  BY <1>1 DEF Init, TableIsLog
<1>3. \A c \in Clients : txn[c].pc = "idle"
  BY DEF Init
<1>4. ClientsOK
  <2>1. txn \in [Clients -> Txn]
    BY StoreAssumption DEF Init, Txn, Pc
  <2> QED
    BY <2>1, <1>3, StoreAssumption DEF Init, ClientsOK, InProgress
<1>5. BaseIsCommitted /\ InsertedIsNext
  BY <1>3 DEF BaseIsCommitted, InsertedIsNext, OpenTxn
<1>6. StampsAreOrdered
  BY <1>1, <1>3 DEF StampsAreOrdered, OpenTxn
<1> QED
  BY <1>2, <1>4, <1>5, <1>6 DEF IInv

(* Steps that change neither the table nor the clock, and that open no     *)
(* transaction, keep the invariant.                                        *)
LEMMA QuietStep ==
  ASSUME IInv, NEW c \in Clients, NEW t \in Txn,
         UNCHANGED <<table, clock>>,
         txn' = [txn EXCEPT ![c] = t],
         asked' \in [Clients -> 0 .. MaxAppends],
         \A d \in Clients : asked[d] # 0 => asked'[d] # 0,
         t.pc \in {"begin", "committed"} => asked'[c] # 0,
         t.pc \notin {"stamped", "inserted"}
  PROVE  IInv'
<1> USE DEF IInv
<1>1. TableIsLog'
  BY DEF TableIsLog
<1>2. /\ txn' \in [Clients -> Txn] /\ txn'[c] = t
      /\ \A d \in Clients \ {c} : txn'[d] = txn[d]
  BY DEF ClientsOK
<1>3. ClientsOK'
  BY <1>2 DEF ClientsOK, InProgress
<1>4. BaseIsCommitted' /\ InsertedIsNext'
  BY <1>2 DEF BaseIsCommitted, InsertedIsNext, OpenTxn
<1>5. StampsAreOrdered'
  BY <1>2 DEF StampsAreOrdered, OpenTxn
<1> QED
  BY <1>1, <1>3, <1>4, <1>5

LEMMA ReadVersionStep ==
  ASSUME IInv, NEW c \in Clients, ReadVersion(c)
  PROVE  IInv'
<1> USE DEF IInv
<1> DEFINE s == txn[c].stream
<1>1. s \in Streams /\ table[s] \in Seq(Row)
  BY DEF ClientsOK, Txn, TableIsLog
<1>2. CurrentVersion(s) = Len(table[s]) /\ Len(table[s]) \in Nat
  BY <1>1, VersionIsLength
<1>3. /\ UNCHANGED <<table, asked>>
      /\ clock \in Nat /\ clock' = clock + 1
      /\ txn[c].pc = "begin" /\ txn[c].expected \in {AnyVersion, Len(table[s])}
      /\ txn' = [txn EXCEPT ![c] = [@ EXCEPT !.pc = "stamped", !.base = Len(table[s]),
                                             !.stamp = clock + 1]]
  BY <1>2 DEF ReadVersion, ClientsOK
<1>4. /\ txn' \in [Clients -> Txn]
      /\ txn'[c].pc = "stamped" /\ txn'[c].base = Len(table[s])
      /\ txn'[c].stamp = clock + 1 /\ txn'[c].stream = s
      /\ txn'[c].expected = txn[c].expected
      /\ \A d \in Clients \ {c} : txn'[d] = txn[d]
  <2> DEFINE t == [txn[c] EXCEPT !.pc = "stamped", !.base = Len(table[s]),
                                 !.stamp = clock + 1]
  <2>1. t \in Txn
    <3>1. txn[c] \in Txn
      BY DEF ClientsOK
    <3>2. Len(table[s]) \in Nat /\ clock + 1 \in Nat
      BY <1>2, <1>3
    <3> QED
      BY <3>1, <3>2 DEF Txn, Pc
  <2>2. txn' = [txn EXCEPT ![c] = t]
    BY <1>3 DEF ClientsOK
  <2>3. /\ t.pc = "stamped" /\ t.base = Len(table[s]) /\ t.stamp = clock + 1
        /\ t.stream = s /\ t.expected = txn[c].expected
    BY DEF ClientsOK, Txn
  <2> HIDE DEF t
  <2> QED
    BY <2>1, <2>2, <2>3 DEF ClientsOK
<1>5. TableIsLog' /\ ClientsOK'
  BY <1>3, <1>4 DEF TableIsLog, ClientsOK, InProgress
<1>6. BaseIsCommitted'
  BY <1>2, <1>3, <1>4 DEF BaseIsCommitted, OpenTxn
<1>7. InsertedIsNext'
  BY <1>3, <1>4 DEF InsertedIsNext
<1>8. StampsAreOrdered'
  <2>1. \A q \in Streams : \A v \in 1 .. Len(table[q]) : table[q][v].stamp \in Nat
    BY RowsOfLog DEF Row
  <2>2. \A q \in Streams : \A v \in 1 .. Len(table[q]) : table[q][v].stamp <= clock'
    BY <1>3, <2>1 DEF StampsAreOrdered
  <2>3. \A v \in 1 .. Len(table[s]) : table[s][v].stamp <= clock + 1
    BY <1>1, <1>3, <2>2
  <2>4. \A d \in Clients \ {c} : OpenTxn(d) => txn[d].stamp <= clock'
    BY <1>3 DEF StampsAreOrdered, ClientsOK, Txn
  <2> QED
    BY <1>3, <1>4, <2>2, <2>3, <2>4 DEF StampsAreOrdered, OpenTxn, ClientsOK
<1> QED
  BY <1>5, <1>6, <1>7, <1>8

LEMMA InsertStep ==
  ASSUME IInv, NEW c \in Clients, Insert(c)
  PROVE  IInv'
<1> USE DEF IInv
<1> DEFINE s == txn[c].stream
           n == Len(table[s])
<1>1. /\ s \in Streams /\ table[s] \in Seq(Row) /\ n \in Nat
      /\ DOMAIN table[s] = 1 .. n
      /\ txn[c].size \in 1 .. MaxBatch /\ txn[c].base \in Nat
  BY VersionIsLength DEF ClientsOK, Txn, TableIsLog
<1>2. /\ UNCHANGED <<table, asked, clock>> /\ txn[c].pc = "stamped"
      /\ txn' = [txn EXCEPT ![c].pc = "inserted"]
  BY DEF Insert, Goto
<1>3. /\ txn' \in [Clients -> Txn] /\ txn'[c].pc = "inserted"
      /\ txn'[c].base = txn[c].base /\ txn'[c].stream = s
      /\ txn'[c].stamp = txn[c].stamp /\ txn'[c].expected = txn[c].expected
      /\ \A d \in Clients \ {c} : txn'[d] = txn[d]
  BY <1>2 DEF ClientsOK, Txn, Pc
<1>4. txn[c].base = n
  <2>1. txn[c].base + 1 \in Keys(txn[c])
    BY <1>1, StoreAssumption DEF Keys
  <2>2. txn[c].base + 1 \notin 1 .. n
    BY <1>1, <2>1 DEF Insert
  <2>3. txn[c].base <= n
    BY <1>2 DEF BaseIsCommitted, OpenTxn
  <2> QED
    BY <1>1, <2>2, <2>3
<1>5. \A d \in Clients \ {c} : txn[d].pc = "inserted" => txn[d].stream # s
  <2> SUFFICES ASSUME NEW d \in Clients \ {c}, txn[d].pc = "inserted",
                      txn[d].stream = s
               PROVE  FALSE
    OBVIOUS
  <2>1. txn[d].base = n
    BY DEF InsertedIsNext
  <2>2. txn[d].size \in 1 .. MaxBatch
    BY DEF ClientsOK, Txn
  <2>3. n + 1 \in Keys(txn[d]) /\ n + 1 \in Keys(txn[c])
    BY <1>1, <1>4, <2>1, <2>2, StoreAssumption DEF Keys
  <2> QED
    BY <2>3 DEF Insert
<1>6. TableIsLog' /\ ClientsOK'
  BY <1>2, <1>3 DEF TableIsLog, ClientsOK, InProgress
<1>7. BaseIsCommitted'
  BY <1>2, <1>3 DEF BaseIsCommitted, OpenTxn
<1>8. InsertedIsNext'
  BY <1>2, <1>3, <1>4, <1>5 DEF InsertedIsNext
<1>9. StampsAreOrdered'
  BY <1>2, <1>3 DEF StampsAreOrdered, OpenTxn
<1> QED
  BY <1>6, <1>7, <1>8, <1>9

LEMMA CommitStep ==
  ASSUME IInv, NEW c \in Clients, Commit(c)
  PROVE  /\ IInv'
         /\ LET s == txn[c].stream
                n == Len(table[s])
            IN  /\ txn[c].base = n
                /\ Len(table'[s]) = n + txn[c].size
                /\ \A v \in 1 .. n : table'[s][v] = table[s][v]
                /\ \A q \in Streams \ {s} : table'[q] = table[q]
<1> USE DEF IInv
<1> DEFINE t == txn[c]
           s == t.stream
           n == Len(table[s])
           row == [client |-> c, nr |-> asked[c], stamp |-> t.stamp]
<1>1. /\ t \in Txn /\ s \in Streams /\ table[s] \in Seq(Row) /\ n \in Nat
      /\ t.size \in 1 .. MaxBatch /\ t.stamp \in Nat /\ t.size \in Nat
      /\ clock \in Nat
  BY VersionIsLength DEF ClientsOK, Txn, TableIsLog
<1>2. /\ t.pc = "inserted" /\ UNCHANGED <<asked, clock>>
      /\ table' = [table EXCEPT ![s] = WithRows(@, t, row)]
      /\ txn' = [txn EXCEPT ![c].pc = "committed"]
  BY DEF Commit, Goto
<1>3. t.base = n
  BY <1>2 DEF InsertedIsNext
<1>4. row \in Row
  BY <1>1, <1>2 DEF Row, ClientsOK, InProgress
<1>5. /\ txn' \in [Clients -> Txn] /\ txn'[c].pc = "committed"
      /\ \A d \in Clients \ {c} : txn'[d] = txn[d]
  BY <1>2 DEF ClientsOK, Txn, Pc
<1>6. /\ table'[s] = WithRows(table[s], t, row)
      /\ \A q \in Streams \ {s} : table'[q] = table[q]
      /\ DOMAIN table' = Streams
  BY <1>1, <1>2 DEF TableIsLog
<1>7. /\ table'[s] \in Seq(Row)
      /\ Len(table'[s]) = n + t.size
      /\ \A v \in 1 .. n : table'[s][v] = table[s][v]
      /\ \A v \in (n + 1) .. (n + t.size) : table'[s][v] = row
  <2> HIDE DEF t, row
  <2>1. /\ WithRows(table[s], t, row) \in Seq(Row)
        /\ Len(WithRows(table[s], t, row)) = n + t.size
        /\ \A v \in 1 .. n : WithRows(table[s], t, row)[v] = table[s][v]
        /\ \A v \in (n + 1) .. (n + t.size) : WithRows(table[s], t, row)[v] = row
    BY <1>1, <1>3, <1>4, RowsExtendLog
  <2> QED
    BY <1>6, <2>1
<1>8. TableIsLog'
  BY <1>2, <1>6, <1>7 DEF TableIsLog
<1>9. ClientsOK'
  BY <1>2, <1>5 DEF ClientsOK, InProgress
<1>10. BaseIsCommitted'
  <2> SUFFICES ASSUME NEW d \in Clients, OpenTxn(d)'
               PROVE  /\ txn'[d].base <= Len(table'[txn'[d].stream])
                      /\ txn'[d].expected \in {AnyVersion, txn'[d].base}
    BY DEF BaseIsCommitted
  <2>1. d # c /\ txn'[d] = txn[d] /\ OpenTxn(d)
    BY <1>5 DEF OpenTxn
  <2>2. /\ txn[d].base \in Nat /\ txn[d].stream \in Streams
        /\ txn[d].base <= Len(table[txn[d].stream])
        /\ txn[d].expected \in {AnyVersion, txn[d].base}
    BY <2>1 DEF BaseIsCommitted, ClientsOK, Txn
  <2>3. CASE txn[d].stream = s
    BY <1>1, <1>7, <2>1, <2>2, <2>3
  <2>4. CASE txn[d].stream # s
    BY <1>6, <2>1, <2>2, <2>4
  <2> QED
    BY <2>3, <2>4
<1>11. InsertedIsNext'
  <2> SUFFICES ASSUME NEW d \in Clients, txn'[d].pc = "inserted"
               PROVE  /\ txn'[d].base = Len(table'[txn'[d].stream])
                      /\ \A e \in Clients \ {d} :
                           txn'[e].pc = "inserted" => txn'[e].stream # txn'[d].stream
    BY DEF InsertedIsNext
  <2>1. d # c /\ txn'[d] = txn[d] /\ txn[d].pc = "inserted"
    BY <1>5
  <2>2. txn[d].stream # s /\ txn[d].stream \in Streams
    BY <1>2, <2>1 DEF InsertedIsNext, ClientsOK, Txn
  <2>3. table'[txn[d].stream] = table[txn[d].stream]
    BY <1>6, <2>2
  <2> QED
    BY <1>5, <2>1, <2>3 DEF InsertedIsNext
<1>12. StampsAreOrdered'
  <2>1. t.stamp <= clock /\ \A v \in 1 .. n : table[s][v].stamp <= t.stamp
    BY <1>2, <1>3 DEF StampsAreOrdered, OpenTxn
  <2>2. \A v \in 1 .. (n + t.size) :
          /\ table'[s][v].stamp <= clock
          /\ \A u \in 1 .. v : table'[s][u].stamp <= table'[s][v].stamp
    <3> SUFFICES ASSUME NEW v \in 1 .. (n + t.size), NEW u \in 1 .. v
                 PROVE  /\ table'[s][v].stamp <= clock
                        /\ table'[s][u].stamp <= table'[s][v].stamp
      BY <1>1
    <3>1. CASE v \in 1 .. n
      <4>1. v \in 1 .. n /\ u \in 1 .. n /\ u \in 1 .. v
        BY <1>1, <3>1
      <4>2. table'[s][v] = table[s][v] /\ table'[s][u] = table[s][u]
        BY <1>7, <4>1
      <4>3. table[s][v].stamp <= clock /\ table[s][u].stamp <= table[s][v].stamp
        BY <1>1, <4>1 DEF StampsAreOrdered
      <4> QED
        BY <4>2, <4>3
    <3>2. CASE v \notin 1 .. n
      <4>1. table'[s][v] = row /\ row.stamp = t.stamp
        BY <1>1, <1>7, <3>2
      <4>2. u \in 1 .. n \/ table'[s][u] = row
        BY <1>1, <1>7
      <4>3. \A x \in 1 .. n : table'[s][x].stamp <= t.stamp
        BY <1>7, <2>1
      <4> QED
        BY <1>1, <2>1, <4>1, <4>2, <4>3
    <3> QED
      BY <3>1, <3>2
  <2>3. \A q \in Streams : \A v \in 1 .. Len(table'[q]) :
          /\ table'[q][v].stamp <= clock'
          /\ \A u \in 1 .. v : table'[q][u].stamp <= table'[q][v].stamp
    BY <1>1, <1>2, <1>6, <1>7, <2>2 DEF StampsAreOrdered
  <2>4. \A d \in Clients : OpenTxn(d)' =>
          /\ txn'[d].stamp <= clock'
          /\ \A v \in 1 .. txn'[d].base : table'[txn'[d].stream][v].stamp <= txn'[d].stamp
    <3> SUFFICES ASSUME NEW d \in Clients, OpenTxn(d)'
                 PROVE  /\ txn'[d].stamp <= clock'
                        /\ \A v \in 1 .. txn'[d].base :
                             table'[txn'[d].stream][v].stamp <= txn'[d].stamp
      OBVIOUS
    <3>1. d # c /\ txn'[d] = txn[d] /\ OpenTxn(d)
      BY <1>5 DEF OpenTxn
    <3>2. /\ txn[d].base \in Nat /\ txn[d].stream \in Streams
          /\ txn[d].base <= Len(table[txn[d].stream])
          /\ txn[d].stamp <= clock
          /\ \A v \in 1 .. txn[d].base : table[txn[d].stream][v].stamp <= txn[d].stamp
      BY <3>1 DEF BaseIsCommitted, ClientsOK, Txn, StampsAreOrdered
    <3>3. \A v \in 1 .. txn[d].base : table'[txn[d].stream][v] = table[txn[d].stream][v]
      <4>1. CASE txn[d].stream = s
        <5>1. \A v \in 1 .. txn[d].base : v \in 1 .. n
          BY <1>1, <3>2, <4>1
        <5> QED
          BY <1>7, <4>1, <5>1
      <4>2. CASE txn[d].stream # s
        BY <1>6, <3>2, <4>2
      <4> QED
        BY <4>1, <4>2
    <3> QED
      BY <1>2, <3>1, <3>2, <3>3
  <2> QED
    BY <2>3, <2>4 DEF StampsAreOrdered
<1> QED
  BY <1>3, <1>6, <1>7, <1>8, <1>9, <1>10, <1>11, <1>12

LEMMA NextIInv == IInv /\ [Next]_vars => IInv'
<1> SUFFICES ASSUME IInv, [Next]_vars PROVE IInv'
  OBVIOUS
<1>1. ASSUME NEW c \in Clients, NEW s \in Streams, NEW n \in 1 .. MaxBatch, Begin(c, s, n)
      PROVE  IInv'
  <2>1. PICK e \in {AnyVersion} \cup 0 .. LengthRead(s) :
          txn' = [txn EXCEPT ![c] = [pc |-> "begin", stream |-> s, expected |-> e,
                                     size |-> n, base |-> 0, stamp |-> 0]]
    BY <1>1 DEF Begin
  <2>2. LengthRead(s) \in Nat
    BY VersionIsLength DEF IInv, TableIsLog
  <2>3. [pc |-> "begin", stream |-> s, expected |-> e, size |-> n, base |-> 0,
         stamp |-> 0] \in Txn
    BY <2>2 DEF Txn, Pc
  <2>4. /\ UNCHANGED <<table, clock>>
        /\ asked' = [asked EXCEPT ![c] = @ + 1] /\ asked[c] < MaxAppends
        /\ asked \in [Clients -> 0 .. MaxAppends]
    BY <1>1 DEF Begin, IInv, ClientsOK
  <2>5. /\ asked' \in [Clients -> 0 .. MaxAppends] /\ asked'[c] # 0
        /\ \A d \in Clients : asked[d] # 0 => asked'[d] # 0
    BY <2>4, StoreAssumption
  <2> QED
    BY <2>1, <2>3, <2>4, <2>5, QuietStep
<1>2. ASSUME NEW c \in Clients, NEW pc \in {"idle", "refused"}, Goto(c, pc),
             UNCHANGED <<table, asked, clock>>
      PROVE  IInv'
  <2>1. [txn[c] EXCEPT !.pc = pc] \in Txn
    BY <1>2 DEF IInv, ClientsOK, Txn, Pc
  <2>2. txn' = [txn EXCEPT ![c] = [txn[c] EXCEPT !.pc = pc]]
    BY <1>2 DEF Goto
  <2>3. [txn[c] EXCEPT !.pc = pc].pc = pc
    BY DEF IInv, ClientsOK, Txn
  <2>4. asked' \in [Clients -> 0 .. MaxAppends]
    BY <1>2 DEF IInv, ClientsOK
  <2> QED
    BY <1>2, <2>1, <2>2, <2>3, <2>4, QuietStep
<1>3. ASSUME NEW c \in Clients, RefuseVersion(c) \/ InsertConflict(c) \/ Leave(c)
      PROVE  IInv'
  BY <1>2, <1>3 DEF RefuseVersion, InsertConflict, Leave
<1>4. CASE UNCHANGED vars
  BY <1>4 DEF vars, IInv, TableIsLog, ClientsOK, BaseIsCommitted, InsertedIsNext,
              StampsAreOrdered, OpenTxn, InProgress
<1> QED
  BY <1>1, <1>3, <1>4, ReadVersionStep, InsertStep, CommitStep DEF Next

LEMMA Invariance == Spec => []IInv
<1> QED
  BY InitIInv, NextIInv, PTL DEF Spec

-----------------------------------------------------------------------------
(* The properties. *)

(* Streams are logs: the number of events a caller of read_stream has      *)
(* counted is always a possible expected version.                          *)
THEOREM StreamsHaveNoGap == Spec => []NoVersionGap
<1>1. IInv => NoVersionGap
  BY VersionIsLength DEF IInv, TableIsLog, NoVersionGap
<1> QED
  BY <1>1, Invariance, PTL

(* Folding a stream by version or by occurred_at is the same. *)
THEOREM VersionsFollowTime == Spec => []VersionOrderIsTimeOrder
<1>1. IInv => VersionOrderIsTimeOrder
  <2> SUFFICES ASSUME IInv, NEW s \in Streams,
                      NEW u \in DOMAIN table[s], NEW v \in DOMAIN table[s], u < v
               PROVE  table[s][u].stamp <= table[s][v].stamp
    BY DEF VersionOrderIsTimeOrder
  <2>1. DOMAIN table[s] = 1 .. Len(table[s]) /\ Len(table[s]) \in Nat
    BY VersionIsLength DEF IInv, TableIsLog
  <2>2. v \in 1 .. Len(table[s]) /\ u \in 1 .. v
    BY <2>1
  <2> QED
    BY <2>2 DEF IInv, StampsAreOrdered
<1> QED
  BY <1>1, Invariance, PTL

(* The compare-and-swap that claims, heartbeats and turns rely on: what is *)
(* committed with an expected version follows exactly that version.        *)
THEOREM ExpectedVersionIsHonoured == Spec => AppendsFollowExpected
<1>1. ASSUME IInv, NEW s \in Streams, NEW c \in Clients, Commit(c)
      PROVE  KeepsRows(s) /\ \A d \in Clients : FollowsExpected(s, d)
  <2> DEFINE q == txn[c].stream
             n == Len(table[q])
  <2>1. /\ txn[c].base = n /\ Len(table'[q]) = n + txn[c].size
        /\ \A v \in 1 .. n : table'[q][v] = table[q][v]
        /\ \A r \in Streams \ {q} : table'[r] = table[r]
        /\ IInv'
    BY <1>1, CommitStep
  <2>2. /\ q \in Streams /\ table[q] \in Seq(Row) /\ table'[q] \in Seq(Row)
        /\ txn[c].size \in Nat
    BY <1>1, <2>1 DEF IInv, TableIsLog, ClientsOK, Txn
  <2>3. /\ DOMAIN table[q] = 1 .. n /\ n \in Nat /\ LengthRead(q) = n
        /\ DOMAIN table'[q] = 1 .. n + txn[c].size
    BY <2>1, <2>2, VersionIsLength
  <2>4. KeepsRows(s)
    <3>1. CASE s = q
      <4> SUFFICES ASSUME NEW v \in 1 .. n
                   PROVE  v \in DOMAIN table'[q] /\ table'[q][v] = table[q][v]
        BY <2>3, <3>1 DEF KeepsRows
      <4>1. v \in 1 .. n + txn[c].size
        BY <2>2, <2>3
      <4> QED
        BY <2>1, <2>3, <4>1
    <3>2. CASE s # q
      <4>1. table'[s] = table[s]
        BY <2>1, <3>2
      <4> QED
        BY <4>1 DEF KeepsRows
    <3> QED
      BY <3>1, <3>2
  <2>5. FollowsExpected(s, c)
    BY <1>1, <2>1, <2>3 DEF IInv, BaseIsCommitted, OpenTxn, FollowsExpected
  <2>6. ASSUME NEW d \in Clients \ {c} PROVE FollowsExpected(s, d)
    BY <1>1 DEF Commit, Goto, IInv, ClientsOK, FollowsExpected
  <2> QED
    BY <2>4, <2>5, <2>6
<1>2. ASSUME IInv, [Next]_vars, NEW s \in Streams, ~\E c \in Clients : Commit(c)
      PROVE  KeepsRows(s) /\ \A d \in Clients : FollowsExpected(s, d)
  <2>1. UNCHANGED table
    BY <1>2 DEF Next, Begin, ReadVersion, RefuseVersion, Insert, InsertConflict,
                Leave, vars
  <2>2. ASSUME NEW d \in Clients, txn[d].pc = "inserted" PROVE txn'[d].pc # "committed"
    BY <1>2, <2>2 DEF Next, Begin, ReadVersion, RefuseVersion, Insert,
                      InsertConflict, Leave, Goto, vars, IInv, ClientsOK, Txn, InProgress
  <2> QED
    BY <2>1, <2>2 DEF KeepsRows, FollowsExpected
<1>3. IInv /\ [Next]_vars => [AppendsOnly]_vars
  BY <1>1, <1>2 DEF AppendsOnly
<1> QED
  BY <1>3, Invariance, PTL DEF Spec, AppendsFollowExpected

-----------------------------------------------------------------------------
(* The refinement: each transaction implements one step of the log. *)

Origins == Clients \X (1 .. MaxAppends)
Logs == [s \in Streams |-> LogOf(s)]
Requests == [c \in Clients |-> RequestOf(c)]

LEMMA LogIsSequence ==
  ASSUME IInv, NEW s \in Streams
  PROVE  /\ LogOf(s) \in Seq(Origins)
         /\ Len(LogOf(s)) = Len(table[s])
         /\ LengthRead(s) = Len(table[s]) /\ Len(table[s]) \in Nat
         /\ \A v \in 1 .. Len(table[s]) :
              LogOf(s)[v] = <<table[s][v].client, table[s][v].nr>>
<1>1. table[s] \in Seq(Row)
  BY DEF IInv, TableIsLog
<1>2. /\ Len(table[s]) \in Nat /\ DOMAIN table[s] = 1 .. Len(table[s])
      /\ LengthRead(s) = Len(table[s])
  BY <1>1, VersionIsLength
<1>3. ASSUME NEW v \in 1 .. Len(table[s])
      PROVE  <<table[s][v].client, table[s][v].nr>> \in Origins
  <2>1. table[s][v] \in Row
    BY RowsOfLog DEF IInv
  <2>2. table[s][v].client \in Clients /\ table[s][v].nr \in 1 .. MaxAppends
    BY <2>1 DEF Row
  <2> QED
    BY <2>2 DEF Origins
<1>4. LogOf(s) = [v \in 1 .. Len(table[s]) |-> <<table[s][v].client, table[s][v].nr>>]
  BY <1>2 DEF LogOf
<1>5. LogOf(s) \in [1 .. Len(table[s]) -> Origins]
  BY <1>3, <1>4
<1>6. LogOf(s) \in Seq(Origins) /\ Len(LogOf(s)) = Len(table[s])
  BY <1>2, <1>5
<1> QED
  BY <1>2, <1>4, <1>6

LEMMA RequestsInProgress ==
  ASSUME IInv, NEW c \in Clients
  PROVE  RequestOf(c) # NoRequest <=> InProgress(c)
<1>1. txn[c] \in Txn
  BY DEF IInv, ClientsOK
<1>2. [stream |-> txn[c].stream, expected |-> txn[c].expected, size |-> txn[c].size,
       done |-> txn[c].pc = "committed"]
        \in [stream: Streams, expected: Nat \cup {AnyVersion},
             size: 1 .. MaxBatch, done: BOOLEAN]
  BY <1>1 DEF Txn
<1> QED
  BY <1>2, StoreAssumption DEF RequestOf

LEMMA InitRefines == Init => Abstract!Init
<1> SUFFICES ASSUME Init PROVE Abstract!Init
  OBVIOUS
<1>1. \A s \in Streams : LogOf(s) = << >>
  BY DEF Init, LogOf
<1>2. \A c \in Clients : RequestOf(c) = NoRequest
  BY DEF Init, RequestOf, InProgress
<1> QED
  BY <1>1, <1>2 DEF Init, Abstract!Init

(* What a step of one client leaves alone. *)
LEMMA OthersKeepTheirs ==
  ASSUME IInv, NEW c \in Clients, NEW t, txn' = [txn EXCEPT ![c] = t]
  PROVE  /\ txn'[c] = t
         /\ Requests' = [Requests EXCEPT ![c] = RequestOf(c)']
<1>1. txn'[c] = t /\ \A d \in Clients \ {c} : txn'[d] = txn[d]
  BY DEF IInv, ClientsOK
<1>2. \A d \in Clients \ {c} : RequestOf(d)' = RequestOf(d)
  BY <1>1 DEF RequestOf, InProgress
<1> QED
  BY <1>1, <1>2 DEF Requests

LEMMA LogsStay == UNCHANGED table => Logs' = Logs
  BY DEF Logs, LogOf

(* The steps of the log, spelled with its images. *)
LEMMA LogSteps ==
  ASSUME NEW c \in Clients
  PROVE  /\ /\ Requests[c] = NoRequest /\ asked[c] < MaxAppends
            /\ \E s \in Streams, n \in 1 .. MaxBatch :
                 \E e \in {AnyVersion} \cup 0 .. Len(Logs[s]) :
                   Requests' = [Requests EXCEPT ![c] =
                     [stream |-> s, expected |-> e, size |-> n, done |-> FALSE]]
            /\ asked' = [asked EXCEPT ![c] = @ + 1]
            /\ Logs' = Logs
            => Abstract!Next
         /\ /\ Requests[c] # NoRequest /\ ~Requests[c].done
            /\ Requests[c].expected \in {AnyVersion, Len(Logs[Requests[c].stream])}
            /\ Logs' = [Logs EXCEPT ![Requests[c].stream] =
                          @ \o [i \in 1 .. Requests[c].size |-> <<c, asked[c]>>]]
            /\ Requests' = [Requests EXCEPT ![c].done = TRUE]
            /\ asked' = asked
            => Abstract!Next
         /\ /\ Requests[c] # NoRequest /\ ~Requests[c].done
            /\ Requests[c].expected # Len(Logs[Requests[c].stream])
            /\ Requests' = [Requests EXCEPT ![c] = NoRequest]
            /\ Logs' = Logs /\ asked' = asked
            => Abstract!Next
         /\ /\ Requests[c] # NoRequest
            /\ Requests' = [Requests EXCEPT ![c] = NoRequest]
            /\ Logs' = Logs /\ asked' = asked
            => Abstract!Next
  BY DEF Abstract!Next, Abstract!Ask, Abstract!Perform, Abstract!Refuse, Abstract!Leave,
         Abstract!Waiting, Logs, Requests

LEMMA BeginRefines ==
  ASSUME IInv, NEW c \in Clients, NEW s \in Streams, NEW n \in 1 .. MaxBatch,
         Begin(c, s, n)
  PROVE  Abstract!Next
<1>1. PICK e \in {AnyVersion} \cup 0 .. LengthRead(s) :
        txn' = [txn EXCEPT ![c] = [pc |-> "begin", stream |-> s, expected |-> e,
                                   size |-> n, base |-> 0, stamp |-> 0]]
  BY DEF Begin
<1>2. RequestOf(c)' = [stream |-> s, expected |-> e, size |-> n, done |-> FALSE]
  <2>1. txn'[c] = [pc |-> "begin", stream |-> s, expected |-> e, size |-> n,
                   base |-> 0, stamp |-> 0]
    BY <1>1, OthersKeepTheirs
  <2>2. /\ (txn'[c].pc = "committed") = FALSE
        /\ txn'[c].pc = "begin" /\ txn'[c].stream = s /\ txn'[c].expected = e
        /\ txn'[c].size = n
    BY <2>1
  <2> QED
    BY <2>2 DEF RequestOf, InProgress
<1>3. Requests' = [Requests EXCEPT ![c] = RequestOf(c)']
  BY <1>1, OthersKeepTheirs
<1>4. e \in {AnyVersion} \cup 0 .. Len(Logs[s])
  BY LogIsSequence DEF Logs
<1>5. Requests[c] = NoRequest
  BY DEF Requests, RequestOf, Begin
<1>6. /\ asked[c] < MaxAppends /\ asked' = [asked EXCEPT ![c] = @ + 1]
      /\ Logs' = Logs
  BY LogsStay DEF Begin
<1> QED
  BY <1>2, <1>3, <1>4, <1>5, <1>6, LogSteps

LEMMA RefuseRefines ==
  ASSUME IInv, NEW c \in Clients, RefuseVersion(c) \/ InsertConflict(c)
  PROVE  Abstract!Next
<1> DEFINE s == txn[c].stream
           n == Len(table[s])
<1>1. /\ txn[c] \in Txn /\ s \in Streams /\ txn[c].base \in Nat
      /\ txn[c].size \in 1 .. MaxBatch
      /\ n \in Nat /\ table[s] \in Seq(Row)
  BY VersionIsLength DEF IInv, ClientsOK, Txn, TableIsLog
<1>2. DOMAIN table[s] = 1 .. n /\ CurrentVersion(s) = n
  BY <1>1, VersionIsLength
<1>3. txn[c].expected # n
  <2>1. CASE RefuseVersion(c)
    BY <1>2, <2>1 DEF RefuseVersion
  <2>2. CASE InsertConflict(c)
    <3>1. txn[c].expected \in {AnyVersion, txn[c].base}
      BY <2>2 DEF InsertConflict, IInv, BaseIsCommitted, OpenTxn
    <3>2. PICK v \in Keys(txn[c]) : v \in 1 .. n
      BY <1>2, <2>2 DEF InsertConflict
    <3>3. txn[c].base < n
      BY <1>1, <3>2, StoreAssumption DEF Keys
    <3> QED
      BY <1>1, <3>1, <3>3, StoreAssumption
  <2> QED
    BY <2>1, <2>2
<1>4. /\ InProgress(c) /\ txn[c].pc # "committed"
      /\ txn' = [txn EXCEPT ![c].pc = "refused"]
      /\ UNCHANGED <<table, asked>>
  BY DEF RefuseVersion, InsertConflict, Goto, InProgress
<1>5. txn' = [txn EXCEPT ![c] = [txn[c] EXCEPT !.pc = "refused"]]
  BY <1>4
<1>6. [txn[c] EXCEPT !.pc = "refused"].pc = "refused"
  BY <1>1 DEF Txn
<1>7. txn'[c].pc = "refused" /\ Requests' = [Requests EXCEPT ![c] = RequestOf(c)']
  BY <1>5, <1>6, OthersKeepTheirs
<1>8. RequestOf(c)' = NoRequest
  BY <1>7 DEF RequestOf, InProgress
<1>9. Requests[c] = [stream |-> s, expected |-> txn[c].expected, size |-> txn[c].size,
                     done |-> FALSE]
  BY <1>4 DEF Requests, RequestOf
<1>10. Requests[c] # NoRequest
  BY <1>4, RequestsInProgress DEF Requests
<1>11. Len(Logs[s]) = n
  BY <1>1, LogIsSequence DEF Logs
<1> QED
  BY <1>3, <1>4, <1>7, <1>8, <1>9, <1>10, <1>11, LogsStay, LogSteps

LEMMA LeaveRefines ==
  ASSUME IInv, NEW c \in Clients, Leave(c)
  PROVE  Abstract!Next
<1>1. txn[c] \in Txn
  BY DEF IInv, ClientsOK
<1>2. /\ InProgress(c) /\ txn' = [txn EXCEPT ![c] = [txn[c] EXCEPT !.pc = "idle"]]
      /\ UNCHANGED <<table, asked>>
  BY DEF Leave, Goto
<1>3. [txn[c] EXCEPT !.pc = "idle"].pc = "idle"
  BY <1>1 DEF Txn
<1>4. txn'[c].pc = "idle" /\ Requests' = [Requests EXCEPT ![c] = RequestOf(c)']
  BY <1>2, <1>3, OthersKeepTheirs
<1>5. RequestOf(c)' = NoRequest
  BY <1>4 DEF RequestOf, InProgress
<1>6. Requests[c] # NoRequest
  BY <1>2, RequestsInProgress DEF Requests
<1> QED
  BY <1>2, <1>4, <1>5, <1>6, LogsStay, LogSteps

(* A read of the version and an insert are not seen. *)
LEMMA WaitingStutters ==
  ASSUME IInv, NEW c \in Clients, ReadVersion(c) \/ Insert(c)
  PROVE  Logs' = Logs /\ Requests' = Requests /\ asked' = asked
<1>1. /\ txn[c] \in Txn /\ UNCHANGED <<table, asked>>
      /\ txn[c].pc \in {"begin", "stamped"}
  BY DEF IInv, ClientsOK, ReadVersion, Insert
<1>2. PICK t \in Txn : /\ txn' = [txn EXCEPT ![c] = t]
                       /\ t.pc \in {"stamped", "inserted"}
                       /\ t.stream = txn[c].stream /\ t.expected = txn[c].expected
                       /\ t.size = txn[c].size
  <2>1. CASE ReadVersion(c)
    <3> DEFINE t == [txn[c] EXCEPT !.pc = "stamped", !.base = CurrentVersion(txn[c].stream),
                                   !.stamp = clock + 1]
    <3>1. CurrentVersion(txn[c].stream) \in Nat /\ clock + 1 \in Nat
      BY <1>1, VersionIsLength DEF IInv, TableIsLog, ClientsOK, Txn
    <3>2. /\ t \in Txn /\ t.pc = "stamped" /\ t.stream = txn[c].stream
          /\ t.expected = txn[c].expected /\ t.size = txn[c].size
      BY <1>1, <3>1 DEF Txn, Pc
    <3>3. txn' = [txn EXCEPT ![c] = t]
      BY <2>1 DEF ReadVersion
    <3> HIDE DEF t
    <3> QED
      BY <3>2, <3>3
  <2>2. CASE Insert(c)
    <3> DEFINE t == [txn[c] EXCEPT !.pc = "inserted"]
    <3>1. /\ t \in Txn /\ t.pc = "inserted" /\ t.stream = txn[c].stream
          /\ t.expected = txn[c].expected /\ t.size = txn[c].size
      BY <1>1 DEF Txn, Pc
    <3>2. txn' = [txn EXCEPT ![c] = t]
      BY <2>2 DEF Insert, Goto
    <3> HIDE DEF t
    <3> QED
      BY <3>1, <3>2
  <2> QED
    BY <2>1, <2>2
<1>3. txn'[c] = t /\ Requests' = [Requests EXCEPT ![c] = RequestOf(c)']
  BY <1>2, OthersKeepTheirs
<1>4. RequestOf(c)' = RequestOf(c)
  BY <1>1, <1>2, <1>3 DEF RequestOf, InProgress
<1>5. Requests' = Requests
  BY <1>3, <1>4 DEF Requests
<1> QED
  BY <1>1, <1>5, LogsStay

LEMMA CommitRefines ==
  ASSUME IInv, NEW c \in Clients, Commit(c)
  PROVE  Abstract!Next
<1>1. /\ txn[c] \in Txn /\ txn[c].stream \in Streams /\ txn[c].size \in Nat
      /\ txn[c].pc = "inserted" /\ asked[c] \in 1 .. MaxAppends
  BY StoreAssumption DEF IInv, ClientsOK, Txn, Commit, InProgress
<1> PICK s \in Streams : s = txn[c].stream
  BY <1>1
<1> PICK n \in Nat, k \in Nat : n = Len(table[s]) /\ k = txn[c].size
  BY <1>1, VersionIsLength DEF IInv, TableIsLog
<1> PICK one : one = <<c, asked[c]>>
  OBVIOUS
<1> DEFINE row == [client |-> c, nr |-> asked[c], stamp |-> txn[c].stamp]
           batch == [i \in 1 .. k |-> one]
<1>2. /\ table'[s] \in Seq(Row) /\ Len(table'[s]) = n + k
      /\ \A v \in 1 .. n : table'[s][v] = table[s][v]
      /\ \A v \in (n + 1) .. (n + k) : table'[s][v] = row
      /\ \A q \in Streams \ {s} : table'[q] = table[q]
      /\ txn[c].base = n
  <2>1. IInv' /\ table[s] \in Seq(Row)
    BY CommitStep DEF IInv, TableIsLog
  <2>2. table'[s] \in Seq(Row)
    BY <2>1 DEF IInv, TableIsLog
  <2>3. /\ txn[c].base = n /\ Len(table'[s]) = n + k
        /\ \A v \in 1 .. n : table'[s][v] = table[s][v]
        /\ \A q \in Streams \ {s} : table'[q] = table[q]
    BY CommitStep
  <2>4. table'[s] = WithRows(table[s], txn[c], row)
    BY <1>1 DEF Commit, IInv, TableIsLog
  <2>5. \A v \in (n + 1) .. (n + k) : table'[s][v] = row
    BY <2>3, <2>4 DEF WithRows, Keys
  <2> QED
    BY <2>2, <2>3, <2>5
<1>3. one \in Origins
  BY <1>1 DEF Origins
<1>4. /\ LogOf(s) \in Seq(Origins) /\ Len(LogOf(s)) = n
      /\ \A v \in 1 .. n : LogOf(s)[v] = <<table[s][v].client, table[s][v].nr>>
  BY LogIsSequence
<1>5. batch \in Seq(Origins) /\ Len(batch) = k /\ \A i \in 1 .. k : batch[i] = one
  <2>1. batch \in [1 .. k -> Origins]
    BY <1>3
  <2>2. \A i \in 1 .. k : batch[i] = one
    OBVIOUS
  <2> HIDE DEF batch
  <2> QED
    BY <2>1, <2>2
<1>6. LogOf(s)' = [v \in 1 .. n + k |-> IF v <= n THEN LogOf(s)[v] ELSE one]
  <2>1. DOMAIN table'[s] = 1 .. n + k
    BY <1>2
  <2>2. LogOf(s)' = [v \in 1 .. n + k |-> <<table'[s][v].client, table'[s][v].nr>>]
    BY <2>1 DEF LogOf
  <2>3. ASSUME NEW v \in 1 .. n + k
        PROVE  <<table'[s][v].client, table'[s][v].nr>>
                 = IF v <= n THEN LogOf(s)[v] ELSE one
    <3>1. CASE v <= n
      <4>1. v \in 1 .. n
        BY <3>1
      <4> QED
        BY <1>2, <1>4, <3>1, <4>1
    <3>2. CASE ~(v <= n)
      <4>1. v \in (n + 1) .. (n + k)
        BY <3>2
      <4>2. table'[s][v] = row
        BY <1>2, <4>1
      <4> QED
        BY <3>2, <4>2
    <3> QED
      BY <3>1, <3>2
  <2> QED
    BY <2>2, <2>3
<1>7. LogOf(s) \o batch = [v \in 1 .. n + k |-> IF v <= n THEN LogOf(s)[v] ELSE one]
  <2> HIDE DEF batch
  <2>1. PICK l : l = LogOf(s)
    OBVIOUS
  <2> PICK m : m = l \o batch
    OBVIOUS
  <2>2. /\ m \in Seq(Origins) /\ Len(m) = n + k
        /\ \A v \in 1 .. n + k : m[v] = IF v <= n THEN l[v] ELSE batch[v - n]
    <3>1. l \in Seq(Origins) /\ Len(l) = n
      BY <1>4, <2>1
    <3>2. batch \in Seq(Origins) /\ Len(batch) = k
      BY <1>5
    <3>3. /\ l \o batch \in Seq(Origins) /\ Len(l \o batch) = Len(l) + Len(batch)
          /\ \A v \in 1 .. Len(l) + Len(batch) :
               (l \o batch)[v] = IF v <= Len(l) THEN l[v] ELSE batch[v - Len(l)]
      BY <3>1, <3>2, ConcatProperties
    <3> QED
      BY <3>1, <3>2, <3>3
  <2>3. m = [v \in 1 .. n + k |-> m[v]]
    <3>1. m \in [1 .. n + k -> Origins]
      BY <2>2, LenProperties
    <3> QED
      BY <3>1
  <2>4. ASSUME NEW v \in 1 .. n + k, ~(v <= n) PROVE batch[v - n] = one
    <3>1. v - n \in 1 .. k
      BY <2>4
    <3> QED
      BY <1>5, <3>1
  <2>5. \A v \in 1 .. n + k : m[v] = IF v <= n THEN l[v] ELSE one
    BY <2>2, <2>4
  <2>6. m = [v \in 1 .. n + k |-> IF v <= n THEN l[v] ELSE one]
    BY <2>3, <2>5
  <2> QED
    BY <2>1, <2>6
<1>8. Logs' = [Logs EXCEPT ![s] = LogOf(s) \o batch]
  <2>1. \A q \in Streams \ {s} : LogOf(q)' = LogOf(q)
    BY <1>2 DEF LogOf
  <2>2. LogOf(s)' = LogOf(s) \o batch
    BY <1>6, <1>7
  <2> HIDE DEF batch
  <2> QED
    BY <2>1, <2>2 DEF Logs
<1>9. Requests[c] = [stream |-> s, expected |-> txn[c].expected, size |-> k,
                     done |-> FALSE]
  BY <1>1 DEF Requests, RequestOf, InProgress
<1>10. Requests[c] # NoRequest
  BY <1>1, RequestsInProgress DEF Requests, InProgress
<1>11. /\ UNCHANGED asked
       /\ txn' = [txn EXCEPT ![c] = [txn[c] EXCEPT !.pc = "committed"]]
  BY DEF Commit, Goto
<1>12. /\ txn'[c] = [txn[c] EXCEPT !.pc = "committed"]
       /\ Requests' = [Requests EXCEPT ![c] = RequestOf(c)']
  BY <1>11, OthersKeepTheirs
<1>13. RequestOf(c)' = [stream |-> s, expected |-> txn[c].expected, size |-> k,
                        done |-> TRUE]
  BY <1>1, <1>12 DEF RequestOf, InProgress, Txn
<1>14. Requests' = [Requests EXCEPT ![c].done = TRUE]
  <2>1. PICK old, new : old = FALSE /\ new = TRUE
    OBVIOUS
  <2>2. /\ Requests[c] = [stream |-> s, expected |-> txn[c].expected, size |-> k,
                          done |-> old]
        /\ RequestOf(c)' = [stream |-> s, expected |-> txn[c].expected, size |-> k,
                            done |-> new]
    BY <1>9, <1>13, <2>1
  <2>3. RequestOf(c)' = [Requests[c] EXCEPT !.done = new]
    BY <2>2
  <2>4. Requests' = [Requests EXCEPT ![c].done = new]
    BY <1>12, <2>3
  <2> QED
    BY <2>1, <2>4
<1>15. /\ Requests[c].expected \in {AnyVersion, Len(Logs[s])} /\ Logs[s] = LogOf(s)
       /\ Requests[c].stream = s /\ Requests[c].size = k /\ ~Requests[c].done
  BY <1>1, <1>2, <1>4, <1>9 DEF IInv, BaseIsCommitted, OpenTxn, Logs
<1>16. Logs' = [Logs EXCEPT ![Requests[c].stream] =
                  @ \o [i \in 1 .. Requests[c].size |-> <<c, asked[c]>>]]
  BY <1>8, <1>15
<1> QED
  BY <1>10, <1>11, <1>14, <1>15, <1>16, LogSteps

LEMMA NextRefines ==
  IInv /\ [Next]_vars => [Abstract!Next]_(Abstract!vars)
<1> SUFFICES ASSUME IInv, [Next]_vars
             PROVE  Abstract!Next \/ (Logs' = Logs /\ Requests' = Requests /\ asked' = asked)
  BY DEF Abstract!vars, Logs, Requests
<1>1. CASE UNCHANGED vars
  BY <1>1 DEF vars, Logs, LogOf, Requests, RequestOf, InProgress
<1> QED
  BY <1>1, BeginRefines, RefuseRefines, LeaveRefines, WaitingStutters, CommitRefines DEF Next

(* PostgresEventStore is the log that the port promises: whatever the       *)
(* transactions do to each other, an append happens at once and at the end, *)
(* or not at all.                                                           *)
THEOREM TransactionsImplementLog == Spec => ImplementsLog
<1>1. Spec => Abstract!Init /\ [][Abstract!Next]_(Abstract!vars)
  BY InitRefines, NextRefines, Invariance, PTL DEF Spec
<1> QED
  BY <1>1 DEF ImplementsLog, Abstract!Spec

(* The table keeps rows of positive versions, the transactions their types. *)
THEOREM StoreTypeCorrectness == Spec => []TypeOK
<1>1. IInv => TypeOK
  <2> SUFFICES ASSUME IInv PROVE TypeOK
    OBVIOUS
  <2>1. DOMAIN table = Streams
    BY DEF IInv, TableIsLog
  <2>2. ASSUME NEW s \in Streams
        PROVE  /\ DOMAIN table[s] \subseteq Nat \ {0}
               /\ \A v \in DOMAIN table[s] : table[s][v] \in Row
    BY VersionIsLength, RowsOfLog DEF IInv, TableIsLog
  <2> QED
    BY <2>1, <2>2 DEF TypeOK, IInv, ClientsOK
<1> QED
  BY <1>1, Invariance, PTL
=============================================================================
