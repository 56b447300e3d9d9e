--------------------------- MODULE LivePushProofs ---------------------------
(***************************************************************************)
(* Proofs about the live push, for any clients and any number of rows and  *)
(* of faults.                                                              *)
(***************************************************************************)
EXTENDS LivePushProperties, FiniteSetTheorems, SequenceTheorems, TLAPS

-----------------------------------------------------------------------------
(* The strengthening.                                                       *)

\* A cursor lies behind the next id of its table.
TablesGrow ==
    \A s \in Streams :
        /\ recent[s] \subseteq committed[s]
        /\ \A id \in committed[s] : id < nextId[s]
        /\ cursor[s] # NoCursor => cursor[s] < nextId[s]

\* Whoever is not connected, or waits for a first cursor, was sent nothing.
LogsBegin ==
    /\ ~alive => joined = {} /\ cursor = Unset /\ outside = Nothing
    /\ \A c \in Clients, s \in Streams :
          c \notin joined \/ since[c][s] = NoCursor => polled[c][s] = <<>>
    /\ \A c \in joined, s \in Streams : since[c][s] # NoCursor => since[c][s] <= cursor[s]

\* What lay outside the window lies behind the cursor and behind every client.
OutsideIsPassed ==
    \A s \in Streams :
        /\ outside[s] \subseteq committed[s]
        /\ cursor[s] = NoCursor => outside[s] = {}
        /\ \A id \in outside[s] :
              /\ id <= cursor[s]
              /\ \A c \in joined : since[c][s] # NoCursor => id <= since[c][s]

PushIInv == TypeOK /\ EachRowOnceInOrder /\ TablesGrow /\ LogsBegin /\ OutsideIsPassed

-----------------------------------------------------------------------------
(* Ids listed in order.                                                     *)

LEMMA ListingIsComplete ==
    ASSUME NEW ids \in SUBSET Nat, IsFiniteSet(ids), NEW rows \in InOrder(ids)
    PROVE  /\ rows \in Seq(ids) /\ Len(rows) \in Nat /\ DOMAIN rows = 1..Len(rows)
           /\ \A i \in 1..Len(rows) : rows[i] \in ids
           /\ \A i, j \in 1..Len(rows) : i < j => rows[i] < rows[j]
           /\ \A id \in ids : \E i \in 1..Len(rows) : rows[i] = id
<1> DEFINE n == Cardinality(ids)
<1>1. n \in Nat
  BY FS_CardinalityType
<1>2. /\ rows \in [1..n -> ids]
      /\ \A i, j \in 1..n : i < j => rows[i] < rows[j]
      /\ \A id \in ids : \E i \in 1..n : rows[i] = id
  BY DEF InOrder, Bijection, Surjection
<1> HIDE DEF n
<1>3. rows \in Seq(ids) /\ Len(rows) = n
  BY <1>1, <1>2
<1> QED
  BY <1>1, <1>2, <1>3

LEMMA CompleteIsListing ==
    ASSUME NEW ids \in SUBSET Nat, IsFiniteSet(ids), NEW rows \in Seq(ids),
           \A i, j \in 1..Len(rows) : i < j => rows[i] < rows[j],
           \A id \in ids : \E i \in 1..Len(rows) : rows[i] = id
    PROVE  rows \in InOrder(ids)
<1> DEFINE n == Len(rows)
<1>1. n \in Nat /\ rows \in [1..n -> ids] /\ DOMAIN rows = 1..n
  BY LenProperties
<1> HIDE DEF n
<1>2. rows \in Surjection(1..n, ids)
  BY <1>1 DEF n, Surjection
<1>3. \A i, j \in 1..n : rows[i] = rows[j] => i = j
  <2>1. ASSUME NEW i \in 1..n, NEW j \in 1..n, i < j PROVE rows[i] # rows[j]
    <3>1. rows[i] \in Nat /\ rows[j] \in Nat /\ rows[i] < rows[j]
      BY <1>1, <2>1 DEF n
    <3> QED
      BY <3>1
  <2> QED
    BY <1>1, <2>1
<1>4. rows \in Injection(1..n, ids)
  BY <1>1, <1>3 DEF Injection, IsInjective
<1>5. IsFiniteSet(1..n) /\ Cardinality(1..n) = n
  BY <1>1, FS_Interval
<1>6. Cardinality(ids) = n
  BY <1>2, <1>4, <1>5, FS_Surjection
<1> QED
  BY <1>1, <1>2, <1>4, <1>6 DEF InOrder, Bijection, n

LEMMA NothingIsListed == <<>> \in InOrder({})
<1>1. Cardinality({}) = 0
  BY FS_EmptySet
<1>2. <<>> \in [1..0 -> {}] /\ DOMAIN <<>> = {}
  OBVIOUS
<1>3. <<>> \in Bijection(1..0, {})
  BY <1>2 DEF Bijection, Injection, Surjection, IsInjective
<1> QED
  BY <1>1, <1>2, <1>3 DEF InOrder

\* A list of greater ids goes on where a list ended.
LEMMA ListsFollow ==
    ASSUME NEW old \in SUBSET Nat, NEW new \in SUBSET Nat, IsFiniteSet(old), IsFiniteSet(new),
           \A a \in old, b \in new : a < b,
           NEW p \in InOrder(old), NEW r \in InOrder(new)
    PROVE  p \o r \in InOrder(old \cup new)
<1> DEFINE all == old \cup new
<1>1. all \in SUBSET Nat /\ IsFiniteSet(all)
  BY FS_Union
<1>2. /\ p \in Seq(old) /\ Len(p) \in Nat /\ \A i \in 1..Len(p) : p[i] \in old
      /\ \A i, j \in 1..Len(p) : i < j => p[i] < p[j]
      /\ \A id \in old : \E i \in 1..Len(p) : p[i] = id
  BY ListingIsComplete
<1>3. /\ r \in Seq(new) /\ Len(r) \in Nat /\ \A i \in 1..Len(r) : r[i] \in new
      /\ \A i, j \in 1..Len(r) : i < j => r[i] < r[j]
      /\ \A id \in new : \E i \in 1..Len(r) : r[i] = id
  BY ListingIsComplete
<1>4. p \in Seq(all) /\ r \in Seq(all)
  BY <1>2, <1>3
<1> DEFINE q == p \o r
<1>5. /\ q \in Seq(all) /\ Len(q) = Len(p) + Len(r)
      /\ \A i \in 1..(Len(p) + Len(r)) : q[i] = IF i <= Len(p) THEN p[i] ELSE r[i - Len(p)]
  BY <1>4, ConcatProperties
<1> HIDE DEF all, q
<1>6. ASSUME NEW i \in 1..Len(q), NEW j \in 1..Len(q), i < j PROVE q[i] < q[j]
  <2>1. CASE j <= Len(p)
    BY <1>2, <1>3, <1>5, <1>6, <2>1
  <2>2. CASE i > Len(p)
    <3>1. /\ q[i] = r[i - Len(p)] /\ q[j] = r[j - Len(p)]
          /\ i - Len(p) \in 1..Len(r) /\ j - Len(p) \in 1..Len(r) /\ i - Len(p) < j - Len(p)
      BY <1>2, <1>3, <1>5, <1>6, <2>2
    <3> QED
      BY <1>3, <3>1
  <2>3. CASE i <= Len(p) /\ j > Len(p)
    <3>1. /\ q[i] = p[i] /\ q[j] = r[j - Len(p)]
          /\ i \in 1..Len(p) /\ j - Len(p) \in 1..Len(r)
      BY <1>2, <1>3, <1>5, <1>6, <2>3
    <3> QED
      BY <1>2, <1>3, <3>1
  <2> QED
    BY <1>2, <1>3, <1>5, <1>6, <2>1, <2>2, <2>3
<1>7. ASSUME NEW id \in all PROVE \E i \in 1..Len(q) : q[i] = id
  <2>1. CASE id \in old
    <3>1. PICK i \in 1..Len(p) : p[i] = id
      BY <1>2, <2>1
    <3>2. i \in 1..Len(q) /\ q[i] = id
      BY <1>2, <1>3, <1>5, <3>1
    <3> QED
      BY <3>2
  <2>2. CASE id \in new
    <3>1. PICK i \in 1..Len(r) : r[i] = id
      BY <1>3, <2>2
    <3>2. Len(p) + i \in 1..(Len(p) + Len(r)) /\ ~(Len(p) + i <= Len(p)) /\ (Len(p) + i) - Len(p) = i
      BY <1>2, <1>3
    <3>3. Len(p) + i \in 1..Len(q) /\ q[Len(p) + i] = id
      BY <1>5, <3>1, <3>2
    <3> QED
      BY <3>3
  <2> QED
    BY <2>1, <2>2 DEF all
<1>8. q \in InOrder(all)
  BY <1>1, <1>5, <1>6, <1>7, CompleteIsListing
<1> QED
  BY <1>8 DEF q, all

-----------------------------------------------------------------------------
(* The tables.                                                              *)

LEMMA NoCursorIsNoNumber == NoCursor \notin Nat
  BY PushAssumption

LEMMA BoundsAreNaturals == \A s \in Streams : MaxId(s) \in Nat
  BY PushAssumption DEF MaxId

LEMMA TablesAreFinite ==
    ASSUME TypeOK, NEW s \in Streams, NEW ids \in SUBSET committed[s]
    PROVE  ids \in SUBSET Nat /\ IsFiniteSet(ids)
<1>1. MaxId(s) \in Nat /\ committed[s] \subseteq 1..MaxId(s)
  BY BoundsAreNaturals DEF TypeOK, Ids
<1>2. IsFiniteSet(1..MaxId(s)) /\ ids \in SUBSET (1..MaxId(s))
  BY <1>1, FS_Interval
<1> QED
  BY <1>1, <1>2, FS_Subset

\* What the numbers of a table are.
LEMMA NumbersOf ==
    ASSUME TypeOK, NEW s \in Streams
    PROVE  /\ committed[s] \subseteq Nat /\ recent[s] \subseteq Nat /\ outside[s] \subseteq Nat
           /\ nextId[s] \in Nat /\ nextId[s] >= 1
           /\ cursor[s] # NoCursor => cursor[s] \in Nat
           /\ \A c \in Clients : since[c][s] # NoCursor => since[c][s] \in Nat
           /\ \A c \in Clients : polled[c][s] \in Seq(Nat)
<1>1. nextId[s] \in 1..(MaxId(s) + 1) /\ MaxId(s) \in Nat
  BY BoundsAreNaturals DEF TypeOK
<1> QED
  BY <1>1 DEF TypeOK

\* A cursor that was found lies below the next id, and what lay outside the
\* window does not lie above it.
LEMMA FoundIsBehind ==
    ASSUME TypeOK, TablesGrow, NEW s \in Streams, NEW m \in Nat, IsPollCursor(m, s) \/ IsGreatest(m, s)
    PROVE  /\ m < nextId[s]
           /\ \A id \in committed[s] : (\A new \in recent[s] : id < new) => id <= m
<1>1. /\ committed[s] \subseteq Nat /\ recent[s] \subseteq committed[s] /\ nextId[s] \in Nat /\ nextId[s] >= 1
      /\ \A id \in committed[s] : id < nextId[s]
  BY NumbersOf DEF TablesGrow
<1>2. CASE IsGreatest(m, s)
  BY <1>1, <1>2 DEF IsGreatest
<1>3. CASE IsPollCursor(m, s) /\ recent[s] # {}
  <2>1. m + 1 \in recent[s]
    BY <1>3 DEF IsPollCursor
  <2> QED
    BY <1>1, <2>1
<1> QED
  BY <1>2, <1>3 DEF IsPollCursor

-----------------------------------------------------------------------------
(* One poll.                                                                *)

\* What a tick finds in one table: the cursor it has or looks up, and the rows
\* above it or none.
Polls(s, at, rows) ==
    /\ IF cursor[s] # NoCursor THEN at = cursor[s]
       ELSE at = NoCursor \/ (at \in Nat /\ (IsPollCursor(at, s) \/ IsGreatest(at, s)))
    /\ rows = <<>> \/ (at # NoCursor /\ rows \in InOrder(Above(s, at)))

LEMMA LookUpsFind ==
    ASSUME NEW s \in Streams, NEW up \in BOOLEAN, NEW look \in LookUps(s, up)
    PROVE  /\ look.at = NoCursor \/ (look.at \in Nat /\ (IsPollCursor(look.at, s) \/ IsGreatest(look.at, s)))
           /\ look.cost \in Nat
<1>1. MaxId(s) \in Nat
  BY BoundsAreNaturals
<1>2. CASE look \in Found(s)
  <2>1. CASE \E m \in 0..MaxId(s) : IsPollCursor(m, s) /\ look = [at |-> m, cost |-> 0]
    BY <1>1, <2>1
  <2>2. CASE \E m \in 0..MaxId(s) : IsGreatest(m, s) /\ look = [at |-> m, cost |-> 1]
    BY <1>1, <2>2
  <2> QED
    BY <1>2, <2>1, <2>2 DEF Found
<1>3. CASE look = [at |-> NoCursor, cost |-> 2] \/ look = [at |-> NoCursor, cost |-> 0]
  BY <1>3
<1> QED
  BY <1>2, <1>3 DEF LookUps

LEMMA PollsOf ==
    ASSUME TypeOK, NEW s \in Streams, NEW look \in Cursors(s), NEW read \in RowsAfter(s, look.at)
    PROVE  /\ Polls(s, look.at, read.rows)
           /\ look.cost \in Nat /\ read.cost \in Nat
<1>1. read.cost \in Nat /\ (read.rows = <<>> \/ (look.at # NoCursor /\ read.rows \in InOrder(Above(s, look.at))))
  BY DEF RowsAfter
<1>2. CASE cursor[s] = NoCursor
  <2>1. look \in LookUps(s, dbUp) /\ dbUp \in BOOLEAN
    BY <1>2 DEF Cursors, TypeOK
  <2> QED
    BY <1>1, <1>2, <2>1, LookUpsFind DEF Polls
<1>3. CASE cursor[s] # NoCursor
  <2>1. look = [at |-> cursor[s], cost |-> 0]
    BY <1>3 DEF Cursors
  <2> QED
    BY <1>1, <1>3, <2>1 DEF Polls
<1> QED
  BY <1>2, <1>3

\* The tick, table by table.
LEMMA TickPolls ==
    ASSUME TypeOK, Tick
    PROVE  \E at, rows :
             /\ \A s \in Streams : Polls(s, at[s], rows[s])
             /\ alive /\ faults' \in 0..MaxFaults
             /\ cursor' = [s \in Streams |-> Moved(at[s], rows[s])]
             /\ polled' = [c \in Clients |-> [s \in Streams |->
                             IF c \in joined THEN polled[c][s] \o rows[s] ELSE polled[c][s]]]
             /\ since' = [c \in Clients |-> [s \in Streams |->
                             IF c \in joined /\ since[c][s] = NoCursor THEN at[s] ELSE since[c][s]]]
             /\ NoteLookUps(at)
             /\ UNCHANGED <<tableVars, alive, dbUp, mqttVars, joined, direct>>
<1>1. PICK lookR \in Cursors("readings"), lookA \in Cursors("alarms") :
      \E readR \in RowsAfter("readings", lookR.at), readA \in RowsAfter("alarms", lookA.at) :
         LET at   == [s \in Streams |-> IF s = "readings" THEN lookR.at ELSE lookA.at]
             rows == [s \in Streams |-> IF s = "readings" THEN readR.rows ELSE readA.rows]
         IN  /\ faults' = faults + lookR.cost + lookA.cost + readR.cost + readA.cost
             /\ faults' <= MaxFaults
             /\ cursor' = [s \in Streams |-> Moved(at[s], rows[s])]
             /\ polled' = [c \in Clients |-> [s \in Streams |->
                             IF c \in joined THEN polled[c][s] \o rows[s] ELSE polled[c][s]]]
             /\ since' = [c \in Clients |-> [s \in Streams |->
                             IF c \in joined /\ since[c][s] = NoCursor THEN at[s] ELSE since[c][s]]]
             /\ NoteLookUps(at)
  BY DEF Tick
<1> DEFINE at == [s \in Streams |-> IF s = "readings" THEN lookR.at ELSE lookA.at]
<1>2. PICK readR \in RowsAfter("readings", lookR.at), readA \in RowsAfter("alarms", lookA.at) :
         LET rows == [s \in Streams |-> IF s = "readings" THEN readR.rows ELSE readA.rows]
         IN  /\ faults' = faults + lookR.cost + lookA.cost + readR.cost + readA.cost
             /\ faults' <= MaxFaults
             /\ cursor' = [s \in Streams |-> Moved(at[s], rows[s])]
             /\ polled' = [c \in Clients |-> [s \in Streams |->
                             IF c \in joined THEN polled[c][s] \o rows[s] ELSE polled[c][s]]]
             /\ since' = [c \in Clients |-> [s \in Streams |->
                             IF c \in joined /\ since[c][s] = NoCursor THEN at[s] ELSE since[c][s]]]
             /\ NoteLookUps(at)
  BY <1>1
<1> DEFINE rows == [s \in Streams |-> IF s = "readings" THEN readR.rows ELSE readA.rows]
<1>3. /\ Polls("readings", lookR.at, readR.rows) /\ lookR.cost \in Nat /\ readR.cost \in Nat
      /\ Polls("alarms", lookA.at, readA.rows) /\ lookA.cost \in Nat /\ readA.cost \in Nat
  BY PollsOf DEF Streams
<1>4. \A s \in Streams : Polls(s, at[s], rows[s])
  BY <1>3 DEF Streams
<1>5. faults' \in 0..MaxFaults
  BY <1>2, <1>3, PushAssumption DEF TypeOK
<1>6. alive /\ UNCHANGED <<tableVars, alive, dbUp, mqttVars, joined, direct>>
  BY DEF Tick
<1>7. /\ cursor' = [s \in Streams |-> Moved(at[s], rows[s])]
      /\ polled' = [c \in Clients |-> [s \in Streams |->
                      IF c \in joined THEN polled[c][s] \o rows[s] ELSE polled[c][s]]]
      /\ since' = [c \in Clients |-> [s \in Streams |->
                      IF c \in joined /\ since[c][s] = NoCursor THEN at[s] ELSE since[c][s]]]
      /\ NoteLookUps(at)
  BY <1>2
<1> HIDE DEF at, rows
<1> QED
  BY <1>4, <1>5, <1>6, <1>7

\* The cursor ends at the last row sent, and the rows sent are those it passed.
LEMMA CursorFollowsRows ==
    ASSUME TypeOK, TablesGrow, NEW s \in Streams, NEW at \in Nat, at < nextId[s],
           NEW rows, rows = <<>> \/ rows \in InOrder(Above(s, at))
    PROVE  /\ Moved(at, rows) \in Nat /\ at <= Moved(at, rows) /\ Moved(at, rows) < nextId[s]
           /\ rows \in Seq(Nat)
           /\ rows \in InOrder({id \in committed[s] : at < id /\ id <= Moved(at, rows)})
<1>1. committed[s] \subseteq Nat /\ nextId[s] \in Nat /\ \A id \in committed[s] : id < nextId[s]
  BY NumbersOf DEF TablesGrow
<1> DEFINE m == Moved(at, rows)
<1> HIDE DEF m
<1>2. CASE rows = <<>>
  <2>1. m = at
    BY <1>2 DEF Moved, m
  <2>2. {id \in committed[s] : at < id /\ id <= m} = {}
    BY <1>1, <2>1
  <2>3. rows \in Seq(Nat)
    BY <1>2, EmptySeq
  <2>4. m \in Nat /\ at <= m /\ m < nextId[s]
    BY <2>1
  <2> QED
    BY <1>2, <2>2, <2>3, <2>4, NothingIsListed DEF m
<1>3. CASE rows # <<>>
  <2> DEFINE ids == Above(s, at)
             last == Last(rows)
  <2>1. ids \in SUBSET committed[s] /\ \A id \in committed[s] : id \in ids <=> at < id
    BY DEF Above
  <2> HIDE DEF ids
  <2>2. ids \in SUBSET Nat /\ IsFiniteSet(ids) /\ rows \in InOrder(ids)
    BY <1>3, <2>1, TablesAreFinite DEF ids
  <2>3. /\ rows \in Seq(ids) /\ Len(rows) \in Nat
        /\ \A i \in 1..Len(rows) : rows[i] \in ids
        /\ \A i, j \in 1..Len(rows) : i < j => rows[i] < rows[j]
        /\ \A id \in ids : \E i \in 1..Len(rows) : rows[i] = id
    BY <2>2, ListingIsComplete
  <2>4. Len(rows) \in 1..Len(rows) /\ last = rows[Len(rows)]
    BY <1>3, <2>3, EmptySeq DEF Last
  <2> HIDE DEF last
  <2>5. last \in ids /\ last \in Nat /\ at < last /\ last < nextId[s]
    BY <1>1, <2>1, <2>2, <2>3, <2>4
  <2>6. ASSUME NEW id \in ids PROVE id <= last
    <3>1. PICK i \in 1..Len(rows) : rows[i] = id
      BY <2>3
    <3>2. i = Len(rows) \/ i < Len(rows)
      BY <2>3
    <3>3. id = last \/ id < last
      BY <2>3, <2>4, <3>1, <3>2
    <3> QED
      BY <2>2, <2>5, <3>3
  <2>7. m = last
    BY <1>3 DEF Moved, m, last
  <2>8. {id \in committed[s] : at < id /\ id <= m} = ids
    BY <2>1, <2>6, <2>7
  <2>9. rows \in Seq(Nat)
    <3>1. rows \in [1..Len(rows) -> ids]
      BY <2>3, LenProperties
    <3>2. rows \in [1..Len(rows) -> Nat]
      BY <2>2, <3>1
    <3> QED
      BY <2>3, <3>2, SeqDef
  <2>10. m \in Nat /\ at <= m /\ m < nextId[s]
    BY <2>5, <2>7
  <2> QED
    BY <2>2, <2>8, <2>9, <2>10 DEF m
<1> QED
  BY <1>2, <1>3

-----------------------------------------------------------------------------
(* The steps.                                                               *)

LEMMA InitHolds == Init => PushIInv
<1> SUFFICES ASSUME Init PROVE PushIInv
  OBVIOUS
<1>1. \A s \in Streams : MaxId(s) \in Nat
  BY BoundsAreNaturals
<1>2. TypeOK
  <2>1. <<>> \in Seq(Nat) /\ <<>> \in Seq(Ids("readings"))
    BY EmptySeq
  <2>2. \A s \in Streams : 1 \in 1..(MaxId(s) + 1)
    BY <1>1
  <2>3. 0 \in 0..MaxFaults
    BY PushAssumption
  <2> QED
    BY <2>1, <2>2, <2>3 DEF Init, TypeOK, Nothing, NoRows, Unset
<1>3. EachRowOnceInOrder
  BY DEF Init, EachRowOnceInOrder
<1>4. TablesGrow
  BY DEF Init, TablesGrow, Nothing, Unset
<1>5. LogsBegin
  BY DEF Init, LogsBegin, NoRows
<1>6. OutsideIsPassed
  BY DEF Init, OutsideIsPassed, Nothing
<1> QED
  BY <1>2, <1>3, <1>4, <1>5, <1>6 DEF PushIInv

\* What the bridge and the connection do leaves the poll alone.
LEMMA AsideKeeps ==
    ASSUME PushIInv, TypeOK', UNCHANGED <<tableVars, cursor, alive, joined, polled, since, outside>>
    PROVE  PushIInv'
<1>1. EachRowOnceInOrder' /\ TablesGrow'
  BY DEF PushIInv, EachRowOnceInOrder, TablesGrow, tableVars
<1>2. LogsBegin' /\ OutsideIsPassed'
  BY DEF PushIInv, LogsBegin, OutsideIsPassed, tableVars
<1> QED
  BY <1>1, <1>2 DEF PushIInv

LEMMA InsertKeeps ==
    ASSUME PushIInv, NEW s \in Streams, NEW stored \in BOOLEAN, Insert(s, stored)
    PROVE  PushIInv'
<1>1. TypeOK /\ EachRowOnceInOrder /\ TablesGrow /\ LogsBegin /\ OutsideIsPassed
  BY DEF PushIInv
<1>2. /\ nextId[s] \in Ids(s) /\ nextId[s] \in Nat /\ nextId' = [nextId EXCEPT ![s] = @ + 1]
      /\ UNCHANGED <<cursor, alive, joined, polled, since, outside>>
      /\ MaxId(s) \in Nat
  BY <1>1, NumbersOf, BoundsAreNaturals DEF Insert, apiVars, clientVars
<1>3. \A t \in Streams :
        /\ committed[t] \subseteq committed'[t]
        /\ committed'[t] \subseteq committed[t] \cup (IF t = s THEN {nextId[s]} ELSE {})
        /\ recent'[t] \subseteq committed'[t]
        /\ nextId'[t] = IF t = s THEN nextId[s] + 1 ELSE nextId[t]
  BY <1>1, <1>2 DEF Insert, TypeOK, TablesGrow
<1>4. TypeOK'
  <2>1. nextId' \in [Streams -> Nat]
    BY <1>1, <1>2 DEF TypeOK
  <2>2. committed[s] \cup {nextId[s]} \in SUBSET Nat /\ recent[s] \cup {nextId[s]} \in SUBSET Nat
    BY <1>1, <1>2 DEF TypeOK
  <2>3. committed' \in [Streams -> SUBSET Nat]
    <3>1. committed' = committed \/ committed' = [committed EXCEPT ![s] = committed[s] \cup {nextId[s]}]
      BY DEF Insert
    <3>2. committed \in [Streams -> SUBSET Nat]
      BY <1>1 DEF TypeOK
    <3> QED
      BY <2>2, <3>1, <3>2
  <2>4. recent' \in [Streams -> SUBSET Nat]
    <3>1. recent' = recent \/ recent' = [recent EXCEPT ![s] = recent[s] \cup {nextId[s]}]
      BY DEF Insert
    <3>2. recent \in [Streams -> SUBSET Nat]
      BY <1>1 DEF TypeOK
    <3> QED
      BY <2>2, <3>1, <3>2
  <2>5. nextId[s] + 1 \in 1..(MaxId(s) + 1)
    BY <1>2 DEF Ids
  <2>6. \A t \in Streams : committed'[t] \subseteq Ids(t) /\ nextId'[t] \in 1..(MaxId(t) + 1)
    BY <1>1, <1>2, <1>3, <2>5 DEF TypeOK
  <2> QED
    BY <1>1, <1>2, <2>1, <2>3, <2>4, <2>6 DEF Insert, TypeOK, apiVars, mqttVars, clientVars
<1>5. \A t \in Streams : \A id \in committed'[t] : cursor[t] # NoCursor /\ id <= cursor[t] => id \in committed[t]
  <2> SUFFICES ASSUME NEW id \in committed'[s], cursor[s] # NoCursor, id <= cursor[s], id = nextId[s] PROVE FALSE
    BY <1>3
  <2> QED
    BY <1>1, <1>2, NumbersOf DEF TablesGrow
<1>6. EachRowOnceInOrder'
  <2> SUFFICES ASSUME NEW c \in joined, NEW t \in Streams, since[c][t] # NoCursor
               PROVE  /\ cursor[t] # NoCursor
                      /\ polled[c][t] \in InOrder({id \in committed'[t] : since[c][t] < id /\ id <= cursor[t]})
    BY <1>2 DEF EachRowOnceInOrder
  <2>1. /\ cursor[t] # NoCursor
        /\ polled[c][t] \in InOrder({id \in committed[t] : since[c][t] < id /\ id <= cursor[t]})
    BY <1>1 DEF EachRowOnceInOrder
  <2>2. {id \in committed'[t] : since[c][t] < id /\ id <= cursor[t]}
          = {id \in committed[t] : since[c][t] < id /\ id <= cursor[t]}
    BY <1>3, <1>5, <2>1
  <2> QED
    BY <2>1, <2>2
<1>7. TablesGrow'
  <2> SUFFICES ASSUME NEW t \in Streams
               PROVE  /\ recent'[t] \subseteq committed'[t]
                      /\ \A id \in committed'[t] : id < nextId'[t]
                      /\ cursor[t] # NoCursor => cursor[t] < nextId'[t]
    BY <1>2 DEF TablesGrow
  <2>1. /\ committed[t] \subseteq Nat /\ nextId[t] \in Nat /\ \A id \in committed[t] : id < nextId[t]
        /\ cursor[t] # NoCursor => cursor[t] \in Nat /\ cursor[t] < nextId[t]
    BY <1>1, NumbersOf DEF TablesGrow
  <2>2. nextId'[t] = nextId[t] \/ (t = s /\ nextId'[t] = nextId[t] + 1)
    BY <1>3
  <2>3. \A id \in committed'[t] : id < nextId'[t]
    BY <1>3, <2>1, <2>2
  <2> QED
    BY <1>3, <2>1, <2>2, <2>3
<1>8. LogsBegin'
  BY <1>1, <1>2 DEF LogsBegin
<1>9. OutsideIsPassed'
  BY <1>1, <1>2, <1>3 DEF OutsideIsPassed
<1> QED
  BY <1>4, <1>6, <1>7, <1>8, <1>9 DEF PushIInv

LEMMA AgeKeeps == ASSUME PushIInv, Age PROVE PushIInv'
<1>1. /\ recent' = Nothing
      /\ UNCHANGED <<committed, nextId, cursor, alive, joined, polled, since, outside>>
  BY DEF Age, apiVars, clientVars
<1>2. TypeOK'
  BY DEF PushIInv, TypeOK, Age, Nothing, apiVars, mqttVars, clientVars
<1>3. TablesGrow'
  BY <1>1 DEF PushIInv, TablesGrow, Nothing
<1>4. EachRowOnceInOrder' /\ LogsBegin' /\ OutsideIsPassed'
  BY <1>1 DEF PushIInv, EachRowOnceInOrder, LogsBegin, OutsideIsPassed
<1> QED
  BY <1>2, <1>3, <1>4 DEF PushIInv

LEMMA StopKeeps == ASSUME PushIInv, Stop PROVE PushIInv'
<1>1. /\ cursor' = Unset /\ outside' = Nothing /\ joined' = {} /\ alive' = FALSE
      /\ polled' = [c \in Clients |-> NoRows] /\ since' = [c \in Clients |-> Unset]
      /\ direct' = [c \in Clients |-> {}] /\ bridge' = <<>> /\ arrived' = {} /\ mqtt' = "down" /\ dbUp' = FALSE
      /\ UNCHANGED <<committed, nextId, recent, faults>>
  BY DEF Stop, NoClients, tableVars
<1>2. TypeOK'
  <2>1. <<>> \in Seq(Nat) /\ <<>> \in Seq(Ids("readings"))
    BY EmptySeq
  <2> QED
    BY <1>1, <2>1 DEF PushIInv, TypeOK, Nothing, NoRows, Unset
<1>3. EachRowOnceInOrder' /\ TablesGrow'
  BY <1>1 DEF PushIInv, EachRowOnceInOrder, TablesGrow, Unset
<1>4. LogsBegin' /\ OutsideIsPassed'
  BY <1>1 DEF LogsBegin, OutsideIsPassed, Nothing, NoRows
<1> QED
  BY <1>2, <1>3, <1>4 DEF PushIInv

LEMMA JoinKeeps == ASSUME PushIInv, NEW c \in Clients, Join(c) PROVE PushIInv'
<1>1. TypeOK /\ EachRowOnceInOrder /\ TablesGrow /\ LogsBegin /\ OutsideIsPassed
  BY DEF PushIInv
<1>2. /\ alive /\ c \notin joined /\ joined' = joined \cup {c}
      /\ since' = [since EXCEPT ![c] = cursor]
      /\ UNCHANGED <<committed, nextId, recent, alive, cursor, polled, outside>>
  BY DEF Join, tableVars, apiVars
<1>3. \A d \in Clients, s \in Streams : since'[d][s] = IF d = c THEN cursor[s] ELSE since[d][s]
  BY <1>1, <1>2 DEF TypeOK
<1>4. TypeOK'
  <2>1. since' \in [Clients -> [Streams -> Nat \cup {NoCursor}]]
    BY <1>1, <1>2 DEF TypeOK
  <2> QED
    BY <1>1, <1>2, <2>1 DEF Join, TypeOK, apiVars, mqttVars
<1>5. TablesGrow'
  BY <1>1, <1>2 DEF TablesGrow
<1>6. \A s \in Streams : polled[c][s] = <<>>
  BY <1>1, <1>2 DEF LogsBegin
<1>7. EachRowOnceInOrder'
  <2> SUFFICES ASSUME NEW d \in joined', NEW s \in Streams, since'[d][s] # NoCursor
               PROVE  /\ cursor[s] # NoCursor
                      /\ polled[d][s] \in InOrder({id \in committed[s] : since'[d][s] < id /\ id <= cursor[s]})
    BY <1>2 DEF EachRowOnceInOrder
  <2>1. CASE d = c
    <3>1. since'[d][s] = cursor[s] /\ cursor[s] \in Nat /\ committed[s] \subseteq Nat
      BY <1>1, <1>3, <2>1, NumbersOf
    <3>2. {id \in committed[s] : since'[d][s] < id /\ id <= cursor[s]} = {}
      BY <3>1
    <3> QED
      BY <1>6, <2>1, <3>1, <3>2, NothingIsListed
  <2>2. CASE d # c
    <3>1. d \in joined /\ d \in Clients /\ since'[d][s] = since[d][s]
      BY <1>1, <1>2, <1>3, <2>2 DEF TypeOK
    <3> QED
      BY <1>1, <3>1 DEF EachRowOnceInOrder
  <2> QED
    BY <2>1, <2>2
<1>8. LogsBegin'
  <2>1. \A d \in Clients, s \in Streams : d \notin joined' \/ since'[d][s] = NoCursor => polled[d][s] = <<>>
    BY <1>1, <1>2, <1>3, <1>6 DEF LogsBegin
  <2>2. \A d \in joined', s \in Streams : since'[d][s] # NoCursor => since'[d][s] <= cursor[s]
    <3> SUFFICES ASSUME NEW d \in joined', NEW s \in Streams, since'[d][s] # NoCursor
                 PROVE  since'[d][s] <= cursor[s]
      OBVIOUS
    <3>1. CASE d = c
      BY <1>1, <1>3, <3>1, NumbersOf
    <3>2. CASE d # c
      <4>1. d \in joined /\ d \in Clients /\ since'[d][s] = since[d][s]
        BY <1>1, <1>2, <1>3, <3>2 DEF TypeOK
      <4> QED
        BY <1>1, <4>1 DEF LogsBegin
    <3> QED
      BY <3>1, <3>2
  <2> QED
    BY <1>2, <2>1, <2>2 DEF LogsBegin
<1>9. OutsideIsPassed'
  <2> SUFFICES ASSUME NEW s \in Streams, NEW id \in outside[s], NEW d \in joined', since'[d][s] # NoCursor
               PROVE  id <= since'[d][s]
    BY <1>1, <1>2 DEF OutsideIsPassed
  <2>1. CASE d = c
    BY <1>1, <1>3, <2>1 DEF OutsideIsPassed
  <2>2. CASE d # c
    <3>1. d \in joined /\ d \in Clients /\ since'[d][s] = since[d][s]
      BY <1>1, <1>2, <1>3, <2>2 DEF TypeOK
    <3> QED
      BY <1>1, <3>1 DEF OutsideIsPassed
  <2> QED
    BY <2>1, <2>2
<1> QED
  BY <1>4, <1>5, <1>7, <1>8, <1>9 DEF PushIInv

LEMMA LeaveKeeps == ASSUME PushIInv, NEW c \in Clients, Leave(c) PROVE PushIInv'
<1>1. TypeOK /\ EachRowOnceInOrder /\ TablesGrow /\ LogsBegin /\ OutsideIsPassed
  BY DEF PushIInv
<1>2. /\ c \in joined /\ joined' = joined \ {c}
      /\ polled' = [polled EXCEPT ![c] = NoRows] /\ since' = [since EXCEPT ![c] = Unset]
      /\ UNCHANGED <<committed, nextId, recent, alive, cursor, outside>>
  BY DEF Leave, tableVars, apiVars
<1>3. \A d \in Clients, s \in Streams :
        /\ since'[d][s] = IF d = c THEN NoCursor ELSE since[d][s]
        /\ polled'[d][s] = IF d = c THEN <<>> ELSE polled[d][s]
  BY <1>1, <1>2 DEF TypeOK, NoRows, Unset
<1>4. TypeOK'
  <2>1. NoRows \in [Streams -> Seq(Nat)] /\ Unset \in [Streams -> Nat \cup {NoCursor}]
    BY EmptySeq DEF NoRows, Unset
  <2>2. /\ since' \in [Clients -> [Streams -> Nat \cup {NoCursor}]]
        /\ polled' \in [Clients -> [Streams -> Seq(Nat)]]
    BY <1>1, <1>2, <2>1 DEF TypeOK
  <2>3. direct' \in [Clients -> SUBSET Ids("readings")]
    BY <1>1 DEF Leave, TypeOK
  <2> QED
    BY <1>1, <1>2, <2>2, <2>3 DEF Leave, TypeOK, apiVars, mqttVars
<1>5. TablesGrow'
  BY <1>1, <1>2 DEF TablesGrow
<1>6. \A d \in joined' : d \in joined /\ d \in Clients /\ d # c
  BY <1>1, <1>2 DEF TypeOK
<1>7. \A d \in joined', s \in Streams : since'[d][s] = since[d][s] /\ polled'[d][s] = polled[d][s]
  BY <1>3, <1>6
<1>8. EachRowOnceInOrder'
  <2> SUFFICES ASSUME NEW d \in joined', NEW s \in Streams, since'[d][s] # NoCursor
               PROVE  /\ cursor[s] # NoCursor
                      /\ polled'[d][s] \in InOrder({id \in committed[s] : since'[d][s] < id /\ id <= cursor[s]})
    BY <1>2 DEF EachRowOnceInOrder
  <2> QED
    BY <1>1, <1>6, <1>7 DEF EachRowOnceInOrder
<1>9. OutsideIsPassed'
  BY <1>1, <1>2, <1>6, <1>7 DEF OutsideIsPassed
<1>10. LogsBegin'
  BY <1>1, <1>2, <1>3, <1>6 DEF LogsBegin
<1> QED
  BY <1>4, <1>5, <1>8, <1>9, <1>10 DEF PushIInv

\* A cursor that was just found, and what it leaves outside.
LEMMA StartKeeps == ASSUME PushIInv, Start PROVE PushIInv'
<1>1. TypeOK /\ EachRowOnceInOrder /\ TablesGrow /\ LogsBegin /\ OutsideIsPassed
  BY DEF PushIInv
<1> DEFINE At(lookR, lookA) == [s \in Streams |-> IF s = "readings" THEN lookR.at ELSE lookA.at]
           Sets(up, lookR, lookA) ==
             /\ dbUp' = up
             /\ faults' = faults + lookR.cost + lookA.cost
             /\ faults' <= MaxFaults
             /\ cursor' = At(lookR, lookA)
             /\ NoteLookUps(At(lookR, lookA))
<1>0. PICK up \in BOOLEAN :
        \E lookR \in LookUps("readings", up), lookA \in LookUps("alarms", up) : Sets(up, lookR, lookA)
  BY DEF Start
<1>2. PICK lookR \in LookUps("readings", up), lookA \in LookUps("alarms", up) : Sets(up, lookR, lookA)
  BY <1>0
<1>3. /\ lookR.at = NoCursor \/ (lookR.at \in Nat /\ (IsPollCursor(lookR.at, "readings") \/ IsGreatest(lookR.at, "readings")))
      /\ lookA.at = NoCursor \/ (lookA.at \in Nat /\ (IsPollCursor(lookA.at, "alarms") \/ IsGreatest(lookA.at, "alarms")))
      /\ lookR.cost \in Nat /\ lookA.cost \in Nat
  BY LookUpsFind DEF Streams
<1>4. \A s \in Streams :
        cursor'[s] = NoCursor \/ (cursor'[s] \in Nat /\ (IsPollCursor(cursor'[s], s) \/ IsGreatest(cursor'[s], s)))
  <2>1. cursor'["readings"] = lookR.at /\ cursor'["alarms"] = lookA.at
    BY <1>2 DEF Streams
  <2> QED
    BY <1>3, <2>1 DEF Streams
<1>5. /\ cursor' \in [Streams -> Nat \cup {NoCursor}]
      /\ outside' = [s \in Streams |->
                  IF cursor[s] = NoCursor /\ cursor'[s] # NoCursor
                  THEN {id \in committed[s] : \A new \in recent[s] : id < new}
                  ELSE outside[s]]
  BY <1>2, <1>3 DEF NoteLookUps
<1>6. /\ ~alive /\ joined = {} /\ cursor = Unset /\ outside = Nothing
      /\ alive' = TRUE
      /\ UNCHANGED <<committed, nextId, recent, joined, polled, direct, since, bridge, arrived>>
  BY <1>1 DEF Start, LogsBegin, tableVars, clientVars
<1>7. TypeOK'
  <2>1. faults' \in 0..MaxFaults
    BY <1>1, <1>2, <1>3, PushAssumption DEF TypeOK
  <2>2. outside' \in [Streams -> SUBSET Nat]
    BY <1>1, <1>5 DEF TypeOK
  <2> QED
    BY <1>1, <1>2, <1>5, <1>6, <2>1, <2>2 DEF Start, TypeOK
<1>8. \A s \in Streams : cursor'[s] # NoCursor =>
        /\ cursor'[s] < nextId[s]
        /\ \A id \in committed[s] : (\A new \in recent[s] : id < new) => id <= cursor'[s]
  BY <1>1, <1>4, FoundIsBehind
<1>9. EachRowOnceInOrder' /\ TablesGrow' /\ LogsBegin'
  BY <1>1, <1>6, <1>8 DEF EachRowOnceInOrder, TablesGrow, LogsBegin
<1>10. OutsideIsPassed'
  <2> SUFFICES ASSUME NEW s \in Streams
               PROVE  /\ outside'[s] \subseteq committed[s]
                      /\ cursor'[s] = NoCursor => outside'[s] = {}
                      /\ \A id \in outside'[s] : id <= cursor'[s]
    BY <1>6 DEF OutsideIsPassed
  <2>1. cursor[s] = NoCursor /\ outside[s] = {}
    BY <1>6 DEF Unset, Nothing
  <2> QED
    BY <1>5, <1>8, <2>1
<1> QED
  BY <1>7, <1>9, <1>10 DEF PushIInv

\* The tick, table by table: the connections of a table are sent what its
\* cursor passes.
LEMMA TickKeeps == ASSUME PushIInv, Tick PROVE PushIInv'
<1>1. TypeOK /\ EachRowOnceInOrder /\ TablesGrow /\ LogsBegin /\ OutsideIsPassed
  BY DEF PushIInv
<1>2. PICK at, rows :
        /\ \A s \in Streams : Polls(s, at[s], rows[s])
        /\ alive /\ faults' \in 0..MaxFaults
        /\ cursor' = [s \in Streams |-> Moved(at[s], rows[s])]
        /\ polled' = [c \in Clients |-> [s \in Streams |->
                        IF c \in joined THEN polled[c][s] \o rows[s] ELSE polled[c][s]]]
        /\ since' = [c \in Clients |-> [s \in Streams |->
                        IF c \in joined /\ since[c][s] = NoCursor THEN at[s] ELSE since[c][s]]]
        /\ NoteLookUps(at)
        /\ UNCHANGED <<tableVars, alive, dbUp, mqttVars, joined, direct>>
  BY <1>1, TickPolls
<1>3. ASSUME NEW s \in Streams
      PROVE  \/ at[s] = NoCursor /\ cursor[s] = NoCursor /\ cursor'[s] = NoCursor /\ rows[s] = <<>>
             \/ /\ at[s] \in Nat /\ cursor[s] \in {at[s], NoCursor}
                /\ cursor'[s] \in Nat /\ at[s] <= cursor'[s] /\ cursor'[s] < nextId[s]
                /\ rows[s] \in Seq(Nat)
                /\ rows[s] \in InOrder({id \in committed[s] : at[s] < id /\ id <= cursor'[s]})
                /\ cursor[s] = NoCursor =>
                     \A id \in committed[s] : (\A new \in recent[s] : id < new) => id <= at[s]
  <2>1. cursor'[s] = Moved(at[s], rows[s]) /\ Polls(s, at[s], rows[s])
    BY <1>2
  <2>2. CASE at[s] = NoCursor
    <3>1. cursor[s] = NoCursor /\ rows[s] = <<>>
      BY <2>1, <2>2 DEF Polls
    <3> QED
      BY <2>1, <2>2, <3>1 DEF Moved
  <2>3. CASE at[s] # NoCursor
    <3>1. /\ at[s] \in Nat /\ cursor[s] \in {at[s], NoCursor} /\ at[s] < nextId[s]
          /\ cursor[s] = NoCursor =>
                \A id \in committed[s] : (\A new \in recent[s] : id < new) => id <= at[s]
      <4>1. CASE cursor[s] # NoCursor
        BY <1>1, <2>1, <4>1, NumbersOf DEF Polls, TablesGrow
      <4>2. CASE cursor[s] = NoCursor
        <5>1. at[s] \in Nat /\ (IsPollCursor(at[s], s) \/ IsGreatest(at[s], s))
          BY <2>1, <2>3, <4>2 DEF Polls
        <5> QED
          BY <1>1, <4>2, <5>1, FoundIsBehind
      <4> QED
        BY <4>1, <4>2
    <3>2. rows[s] = <<>> \/ rows[s] \in InOrder(Above(s, at[s]))
      BY <2>1 DEF Polls
    <3>3. /\ Moved(at[s], rows[s]) \in Nat /\ at[s] <= Moved(at[s], rows[s]) /\ Moved(at[s], rows[s]) < nextId[s]
          /\ rows[s] \in Seq(Nat)
          /\ rows[s] \in InOrder({id \in committed[s] : at[s] < id /\ id <= Moved(at[s], rows[s])})
      BY <1>1, <3>1, <3>2, CursorFollowsRows
    <3> QED
      BY <2>1, <3>1, <3>3
  <2> QED
    BY <2>2, <2>3
<1>4. \A c \in Clients, s \in Streams :
        /\ polled'[c][s] = IF c \in joined THEN polled[c][s] \o rows[s] ELSE polled[c][s]
        /\ since'[c][s] = IF c \in joined /\ since[c][s] = NoCursor THEN at[s] ELSE since[c][s]
  BY <1>2
<1>5. /\ UNCHANGED <<committed, nextId, recent, alive, dbUp, mqtt, bridge, arrived, joined, direct>>
      /\ alive /\ joined \subseteq Clients /\ faults' \in 0..MaxFaults
      /\ \A s \in Streams : outside'[s] = IF cursor[s] = NoCursor /\ at[s] # NoCursor
                                          THEN {id \in committed[s] : \A new \in recent[s] : id < new}
                                          ELSE outside[s]
  BY <1>1, <1>2 DEF NoteLookUps, TypeOK, tableVars, mqttVars
<1>6. TypeOK'
  <2>1. \A s \in Streams : cursor'[s] \in Nat \cup {NoCursor} /\ at[s] \in Nat \cup {NoCursor} /\ rows[s] \in Seq(Nat)
    BY <1>3, EmptySeq
  <2>2. cursor' \in [Streams -> Nat \cup {NoCursor}]
    BY <1>2, <2>1
  <2>3. since' \in [Clients -> [Streams -> Nat \cup {NoCursor}]]
    BY <1>1, <1>2, <2>1 DEF TypeOK
  <2>4. \A c \in Clients, s \in Streams : polled[c][s] \in Seq(Nat) /\ polled[c][s] \o rows[s] \in Seq(Nat)
    BY <1>1, <2>1, ConcatProperties DEF TypeOK
  <2>5. polled' \in [Clients -> [Streams -> Seq(Nat)]]
    BY <1>2, <2>4
  <2>6. outside' \in [Streams -> SUBSET Nat]
    BY <1>1, <1>2 DEF NoteLookUps, TypeOK
  <2> QED
    BY <1>1, <1>5, <2>2, <2>3, <2>5, <2>6 DEF TypeOK
<1>7. TablesGrow'
  BY <1>1, <1>3, <1>5 DEF TablesGrow
<1>8. EachRowOnceInOrder'
  <2> SUFFICES ASSUME NEW c \in joined, NEW s \in Streams, since'[c][s] # NoCursor
               PROVE  /\ cursor'[s] # NoCursor
                      /\ polled'[c][s] \in InOrder({id \in committed[s] : since'[c][s] < id /\ id <= cursor'[s]})
    BY <1>5 DEF EachRowOnceInOrder
  <2>1. c \in Clients /\ polled'[c][s] = polled[c][s] \o rows[s]
    BY <1>4, <1>5
  <2>2. polled[c][s] \in Seq(Nat) /\ committed[s] \subseteq Nat /\ NoCursor \notin Nat
    BY <1>1, <2>1, NumbersOf, NoCursorIsNoNumber
  <2>3. CASE since[c][s] = NoCursor
    <3>1. since'[c][s] = at[s] /\ at[s] # NoCursor /\ polled[c][s] = <<>>
      BY <1>1, <1>4, <2>1, <2>2, <2>3 DEF LogsBegin
    <3>2. /\ cursor'[s] \in Nat /\ rows[s] \in Seq(Nat)
          /\ rows[s] \in InOrder({id \in committed[s] : at[s] < id /\ id <= cursor'[s]})
      BY <1>3, <3>1
    <3>3. polled'[c][s] = rows[s]
      BY <2>1, <2>2, <3>1, <3>2, ConcatEmptySeq
    <3> QED
      BY <2>1, <2>2, <3>1, <3>2, <3>3
  <2>4. CASE since[c][s] # NoCursor
    <3> DEFINE old == {id \in committed[s] : since[c][s] < id /\ id <= cursor[s]}
               new == {id \in committed[s] : cursor[s] < id /\ id <= cursor'[s]}
    <3>1. /\ since'[c][s] = since[c][s] /\ since[c][s] \in Nat /\ cursor[s] # NoCursor
          /\ since[c][s] <= cursor[s] /\ polled[c][s] \in InOrder(old)
      BY <1>1, <1>4, <2>1, <2>2, <2>4, NumbersOf DEF EachRowOnceInOrder, LogsBegin
    <3>2. /\ cursor[s] \in Nat /\ cursor'[s] \in Nat /\ cursor[s] <= cursor'[s] /\ rows[s] \in InOrder(new)
      BY <1>3, <3>1
    <3>3. \A a \in old, b \in new : a < b
      BY <2>1, <2>2, <3>1, <3>2
    <3>4. old \cup new = {id \in committed[s] : since[c][s] < id /\ id <= cursor'[s]}
      BY <2>1, <2>2, <3>1, <3>2
    <3>5. old \in SUBSET Nat /\ IsFiniteSet(old) /\ new \in SUBSET Nat /\ IsFiniteSet(new)
      <4>1. old \in SUBSET committed[s] /\ new \in SUBSET committed[s]
        OBVIOUS
      <4> HIDE DEF old, new
      <4> QED
        BY <1>1, <4>1, TablesAreFinite
    <3> HIDE DEF old, new
    <3>6. polled[c][s] \o rows[s] \in InOrder(old \cup new)
      BY <3>1, <3>2, <3>3, <3>5, ListsFollow
    <3> QED
      BY <2>1, <2>2, <3>1, <3>2, <3>4, <3>6
  <2> QED
    BY <2>3, <2>4
<1>9. LogsBegin'
  <2>1. ASSUME NEW c \in Clients, NEW s \in Streams, c \notin joined \/ since'[c][s] = NoCursor
        PROVE  polled'[c][s] = <<>>
    <3>1. CASE c \notin joined
      BY <1>1, <1>4, <3>1 DEF LogsBegin
    <3>2. CASE c \in joined
      <4>1. since[c][s] = NoCursor /\ at[s] = NoCursor /\ polled[c][s] = <<>>
        BY <1>1, <1>4, <2>1, <3>2 DEF LogsBegin
      <4>2. rows[s] = <<>>
        BY <1>3, <4>1, NoCursorIsNoNumber
      <4>3. <<>> \in Seq(Nat) /\ <<>> \o <<>> = <<>>
        BY EmptySeq, ConcatEmptySeq
      <4> QED
        BY <1>4, <3>2, <4>1, <4>2, <4>3
    <3> QED
      BY <3>1, <3>2
  <2>2. ASSUME NEW c \in joined, NEW s \in Streams, since'[c][s] # NoCursor PROVE since'[c][s] <= cursor'[s]
    <3>1. c \in Clients /\ NoCursor \notin Nat
      BY <1>5, NoCursorIsNoNumber
    <3>2. CASE since[c][s] = NoCursor
      BY <1>3, <1>4, <2>2, <3>1, <3>2
    <3>3. CASE since[c][s] # NoCursor
      <4>1. since'[c][s] = since[c][s] /\ since[c][s] \in Nat /\ since[c][s] <= cursor[s] /\ cursor[s] # NoCursor
        BY <1>1, <1>4, <3>1, <3>3, NumbersOf DEF EachRowOnceInOrder, LogsBegin
      <4>2. cursor[s] \in Nat /\ cursor'[s] \in Nat /\ cursor[s] <= cursor'[s]
        BY <1>3, <4>1
      <4> QED
        BY <4>1, <4>2
    <3> QED
      BY <3>2, <3>3
  <2> QED
    BY <1>5, <2>1, <2>2 DEF LogsBegin
<1>10. OutsideIsPassed'
  <2> SUFFICES ASSUME NEW s \in Streams
               PROVE  /\ outside'[s] \subseteq committed[s]
                      /\ cursor'[s] = NoCursor => outside'[s] = {}
                      /\ \A id \in outside'[s] :
                            /\ id <= cursor'[s]
                            /\ \A c \in joined : since'[c][s] # NoCursor => id <= since'[c][s]
    BY <1>5 DEF OutsideIsPassed
  <2>0. committed[s] \subseteq Nat /\ NoCursor \notin Nat /\ outside[s] \subseteq committed[s]
    BY <1>1, NumbersOf, NoCursorIsNoNumber DEF OutsideIsPassed
  <2>1. CASE at[s] = NoCursor
    BY <1>1, <1>3, <1>5, <2>0, <2>1 DEF OutsideIsPassed
  <2>2. CASE at[s] # NoCursor /\ cursor[s] = NoCursor
    <3>1. \A id \in outside'[s] : id \in committed[s] /\ id \in Nat /\ id <= at[s]
      BY <1>3, <1>5, <2>0, <2>2
    <3>2. \A c \in joined : since'[c][s] = at[s]
      BY <1>1, <1>4, <1>5, <2>2 DEF EachRowOnceInOrder
    <3>3. at[s] \in Nat /\ cursor'[s] \in Nat /\ at[s] <= cursor'[s]
      BY <1>3, <2>2
    <3> QED
      BY <2>0, <3>1, <3>2, <3>3
  <2>3. CASE at[s] # NoCursor /\ cursor[s] # NoCursor
    <3>1. outside'[s] = outside[s] /\ at[s] = cursor[s] /\ cursor[s] \in Nat /\ cursor'[s] \in Nat /\ cursor[s] <= cursor'[s]
      BY <1>3, <1>5, <2>3
    <3>2. \A c \in joined : since'[c][s] = IF since[c][s] = NoCursor THEN cursor[s] ELSE since[c][s]
      BY <1>4, <1>5, <3>1
    <3>3. \A id \in outside[s] : id \in Nat /\ id <= cursor[s] /\ \A c \in joined : since[c][s] # NoCursor => id <= since[c][s]
      BY <1>1, <2>0 DEF OutsideIsPassed
    <3> QED
      BY <2>0, <3>1, <3>2, <3>3
  <2> QED
    BY <2>1, <2>2, <2>3
<1> QED
  BY <1>6, <1>7, <1>8, <1>9, <1>10 DEF PushIInv

LEMMA NextKeeps == ASSUME PushIInv, [Next]_vars PROVE PushIInv'
<1>1. CASE \E s \in Streams, stored \in BOOLEAN : Insert(s, stored)
  BY <1>1, InsertKeeps
<1>2. CASE Age
  BY <1>2, AgeKeeps
<1>3. CASE Tick
  BY <1>3, TickKeeps
<1>4. CASE Start
  BY <1>4, StartKeeps
<1>5. CASE Stop
  BY <1>5, StopKeeps
<1>6. CASE LoseDatabase
  <2>1. TypeOK'
    BY <1>6 DEF LoseDatabase, PushIInv, TypeOK, tableVars, mqttVars, clientVars
  <2> QED
    BY <1>6, <2>1, AsideKeeps DEF LoseDatabase, clientVars
<1>7. ASSUME NEW id \in Ids("readings"), MessageArrived(id) PROVE PushIInv'
  <2>1. bridge' \in Seq(Ids("readings"))
    BY <1>7 DEF MessageArrived, PushIInv, TypeOK
  <2>2. TypeOK'
    BY <1>7, <2>1 DEF MessageArrived, PushIInv, TypeOK, tableVars, apiVars, clientVars
  <2> QED
    BY <1>7, <2>2, AsideKeeps DEF MessageArrived, apiVars, clientVars
<1>8. CASE BroadcastReading
  <2>1. bridge' \in Seq(Ids("readings")) /\ Head(bridge) \in Ids("readings")
    BY <1>8, HeadTailProperties DEF BroadcastReading, PushIInv, TypeOK
  <2>2. direct' \in [Clients -> SUBSET Ids("readings")]
    BY <1>8, <2>1 DEF BroadcastReading, PushIInv, TypeOK
  <2>3. TypeOK'
    BY <1>8, <2>1, <2>2 DEF BroadcastReading, PushIInv, TypeOK, tableVars, apiVars
  <2> QED
    BY <1>8, <2>3, AsideKeeps DEF BroadcastReading, apiVars
<1>9. CASE MqttLost
  <2>1. TypeOK'
    BY <1>9 DEF MqttLost, PushIInv, TypeOK, tableVars, apiVars, clientVars
  <2> QED
    BY <1>9, <2>1, AsideKeeps DEF MqttLost, apiVars, clientVars
<1>10. CASE \E c \in Clients : Join(c) \/ Leave(c)
  BY <1>10, JoinKeeps, LeaveKeeps
<1>11. CASE UNCHANGED vars
  <2>1. TypeOK'
    BY <1>11 DEF PushIInv, TypeOK, vars, tableVars, apiVars, mqttVars, clientVars
  <2> QED
    BY <1>11, <2>1, AsideKeeps DEF vars, apiVars, clientVars
<1> QED
  BY <1>1, <1>2, <1>3, <1>4, <1>5, <1>6, <1>7, <1>8, <1>9, <1>10, <1>11 DEF Next

-----------------------------------------------------------------------------
(* The theorems.                                                            *)

\* The strengthening holds in every reachable state.
THEOREM PushIsInductive == Spec => []PushIInv
<1>1. PushIInv /\ [Next]_vars => PushIInv'
  BY NextKeeps
<1> QED
  BY InitHolds, <1>1, PTL DEF Spec

\* Whatever fails and restarts in between, the poll sends each connection the
\* rows from its first cursor to the cursor of now, each once and in order
\* (DeviceService::readings_after and the timer of ApiServer::start).
THEOREM PushIsExact == Spec => []PushInv
<1>1. PushIInv => PushInv
  BY DEF PushIInv, PushInv
<1> QED
  BY PushIsInductive, <1>1, PTL

\* A lookup that fails, at the start or at a tick, never makes the poll replay
\* rows from before the window (RuleService::alarm_poll_cursor).
THEOREM NothingOldIsPushed == Spec => []NoHistoryReplay
<1>1. ASSUME PushIInv PROVE NoHistoryReplay
  <2> SUFFICES ASSUME NEW c \in joined, NEW s \in Streams,
                      NEW id \in ToSet(polled[c][s]), id \in outside[s]
               PROVE  FALSE
    BY DEF NoHistoryReplay
  <2>1. TypeOK /\ c \in Clients /\ polled[c][s] \in Seq(Nat)
    BY <1>1 DEF PushIInv, TypeOK
  <2>2. PICK i \in DOMAIN polled[c][s] : polled[c][s][i] = id
    BY DEF ToSet, Range
  <2>3. since[c][s] # NoCursor
    <3>1. since[c][s] = NoCursor => polled[c][s] = <<>>
      BY <1>1, <2>1 DEF PushIInv, LogsBegin
    <3> QED
      BY <2>2, <3>1
  <2> DEFINE ids == {n \in committed[s] : since[c][s] < n /\ n <= cursor[s]}
  <2>4. polled[c][s] \in InOrder(ids)
    BY <1>1, <2>3 DEF PushIInv, EachRowOnceInOrder
  <2>5. id \in ids
    BY <2>2, <2>4 DEF InOrder, Bijection, Surjection
  <2>6. id \in Nat /\ since[c][s] \in Nat /\ since[c][s] < id
    BY <2>1, <2>3, <2>5, NumbersOf
  <2>7. id <= since[c][s]
    BY <1>1, <2>3 DEF PushIInv, OutsideIsPassed
  <2> QED
    BY <2>6, <2>7
<1> QED
  BY PushIsInductive, <1>1, PTL
=============================================================================
