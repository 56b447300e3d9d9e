---------------------------- MODULE DevicesProofs ----------------------------
(***************************************************************************)
(* The numbers and the floor of the devices page follow the rows, for any  *)
(* number of devices, sensors and places and bursts of any length.         *)
(***************************************************************************)
EXTENDS Devices, FiniteSetTheorems, TLAPS

\* The parts of DevicesInv, by module.
ModelInv ==
    /\ rows \in Seq(Keys) /\ NoneTwice(rows)
    /\ status \in [Keys -> Statuses \cup {NoStatus}]
    /\ place \in [Keys -> Places] /\ meta \in [Devices -> Places]
    /\ RowsFollowMeta

FilterInv ==
    /\ followed \in Places \cup {Everything, TheFloor}
    /\ search \subseteq Keys /\ groups \subseteq Places
    /\ filter \in [members : SUBSET Keys, cached : Nat, dirty : BOOLEAN, timer : BOOLEAN,
                   shown : Nat, healthy : Nat \X Nat]
    /\ MembersFollowRows
    /\ NumbersAgree

PageInv ==
    /\ view \in {"cards", "floor"} /\ sceneTimer \in BOOLEAN
    /\ DOMAIN scene.at \subseteq Keys \cup DOMAIN Others
    /\ selected \in Keys \cup DOMAIN Others \cup {0}
    /\ readings \subseteq Keys /\ located \subseteq Devices

LEMMA PartsOfInv == DevicesInv <=> ModelInv /\ FilterInv /\ PageInv
BY DEF DevicesInv, TypeOK, ModelInv, FilterInv, PageInv

-----------------------------------------------------------------------------
(* Counting. *)

LEMMA CountsAreNumbers ==
  ASSUME NEW S \in SUBSET Keys, NEW stat
  PROVE  Cardinality(S) \in Nat /\ Critical(S, stat) \in Nat
<1>1. IsFiniteSet(S) /\ IsFiniteSet({k \in S : stat[k] = "critical"})
  BY FS_Subset, DeviceAssumption
<1> QED
  BY <1>1, FS_CardinalityType DEF Critical

\* The count is of the statuses of the rows counted.
LEMMA CountOfRows ==
  ASSUME NEW S, NEW stat1, NEW stat2, \A k \in S : stat1[k] = stat2[k]
  PROVE  Critical(S, stat1) = Critical(S, stat2)
<1>1. {k \in S : stat1[k] = "critical"} = {k \in S : stat2[k] = "critical"}
  OBVIOUS
<1> QED
  BY <1>1 DEF Critical

LEMMA NothingIsCritical == ASSUME NEW stat PROVE Critical({}, stat) = 0 /\ Cardinality({}) = 0
<1>1. {k \in {} : stat[k] = "critical"} = {}
  OBVIOUS
<1> QED
  BY <1>1, FS_EmptySet DEF Critical

-----------------------------------------------------------------------------
(* Steps of the model. *)

LEMMA ShownAreKeys == ASSUME rows \in Seq(Keys) PROVE Shown \subseteq Keys
BY DEF Shown

LEMMA AddRowKeeps ==
  ASSUME ModelInv, NEW k \in Keys, NEW s \in Statuses, AddRow(k, s)
  PROVE  /\ ModelInv'
         /\ Shown' = Shown \cup {k} /\ k \notin Shown
         /\ \A j \in Shown : place'[j] = place[j] /\ status'[j] = status[j]
<1> USE DEF ModelInv
<1>1. rows' \in Seq(Keys) /\ Len(rows') = Len(rows) + 1
  BY DEF AddRow
<1>2. DOMAIN rows = 1..Len(rows) /\ DOMAIN rows' = 1..(Len(rows) + 1) /\ Len(rows) \in Nat
  BY <1>1
<1>3. rows'[Len(rows) + 1] = k /\ \A i \in 1..Len(rows) : rows'[i] = rows[i]
  BY DEF AddRow
<1>4. Shown' = Shown \cup {k} /\ k \notin Shown
  BY <1>2, <1>3 DEF Shown, AddRow
<1>5. \A i \in 1..Len(rows) : rows[i] # k
  BY <1>2, <1>4 DEF Shown
<1>6. NoneTwice(rows')
  BY <1>2, <1>3, <1>5 DEF NoneTwice
<1>7. status' \in [Keys -> Statuses \cup {NoStatus}]
  BY DEF AddRow
<1>8. DeviceOf[k] \in Devices
  BY DEF Devices
<1>9. place' \in [Keys -> Places] /\ meta' = meta /\ place'[k] = meta[DeviceOf[k]]
  BY <1>8 DEF AddRow
<1>10. \A j \in Shown : place'[j] = place[j] /\ status'[j] = status[j]
  BY <1>4, ShownAreKeys DEF AddRow
<1>11. RowsFollowMeta'
  BY <1>4, <1>9, <1>10 DEF RowsFollowMeta
<1> QED
  BY <1>1, <1>4, <1>6, <1>7, <1>9, <1>10, <1>11

LEMMA SetRowKeeps ==
  ASSUME ModelInv, NEW k \in Keys, NEW s \in Statuses, SetRow(k, s)
  PROVE  /\ ModelInv'
         /\ Shown' = Shown /\ {k} \subseteq Shown
         /\ \A j \in Shown \ {k} : place'[j] = place[j] /\ status'[j] = status[j]
<1> USE DEF ModelInv
<1>1. rows' = rows /\ place' = place /\ meta' = meta /\ k \in Shown
  BY DEF SetRow
<1>2. status' \in [Keys -> Statuses \cup {NoStatus}]
  BY DEF SetRow
<1>3. \A j \in Shown \ {k} : status'[j] = status[j]
  BY ShownAreKeys DEF SetRow
<1>4. Shown' = Shown
  BY <1>1 DEF Shown
<1> QED
  BY <1>1, <1>2, <1>3, <1>4 DEF RowsFollowMeta, NoneTwice

\* A place that changes is that of a row that is announced.
LEMMA SetMetaKeeps ==
  ASSUME ModelInv, NEW d \in Devices, NEW p \in Places, SetMeta(d, p)
  PROVE  /\ ModelInv'
         /\ Shown' = Shown /\ Announced(d) \subseteq Shown
         /\ \A j \in Shown \ Announced(d) : place'[j] = place[j] /\ status'[j] = status[j]
         /\ \A j \in Keys \ Shown : place'[j] = place[j]
<1> USE DEF ModelInv
<1>1. rows' = rows /\ status' = status /\ meta' = [meta EXCEPT ![d] = p]
  BY DEF SetMeta
<1>2. Shown' = Shown /\ Shown \subseteq Keys
  BY <1>1, ShownAreKeys DEF Shown
<1>3. place' = [k \in Keys |-> IF k \in Shown /\ DeviceOf[k] = d THEN p ELSE place[k]]
  BY DEF SetMeta
<1>4. place' \in [Keys -> Places] /\ meta' \in [Devices -> Places]
  BY <1>1, <1>3
<1>5. ASSUME NEW k \in Shown PROVE place'[k] = meta'[DeviceOf[k]]
  <2>1. DeviceOf[k] \in Devices /\ k \in Keys
    BY <1>2 DEF Devices
  <2>2. place[k] = meta[DeviceOf[k]]
    BY DEF RowsFollowMeta
  <2> QED
    BY <1>1, <1>3, <2>1, <2>2
<1>6. ASSUME NEW k \in Shown, DeviceOf[k] = d PROVE k \in Announced(d)
  <2>1. PICK i \in DOMAIN rows : rows[i] = k
    BY DEF Shown
  <2>2. i \in RowsOf(d) /\ i <= i
    BY <1>6, <2>1 DEF RowsOf
  <2> QED
    BY <2>1, <2>2 DEF Announced
<1>7. Announced(d) \subseteq Shown
  BY DEF Announced, Shown
<1>8. \A j \in Shown \ Announced(d) : place'[j] = place[j]
  BY <1>2, <1>3, <1>6
<1> QED
  BY <1>1, <1>2, <1>3, <1>4, <1>5, <1>7, <1>8 DEF RowsFollowMeta, NoneTwice

-----------------------------------------------------------------------------
(* Steps of the filter. *)

FilterType == [members : SUBSET Keys, cached : Nat, dirty : BOOLEAN, timer : BOOLEAN,
               shown : Nat, healthy : Nat \X Nat]

\* Counting again changes the count and clears the flag.
LEMMA RefreshedKeeps ==
  ASSUME NEW f \in FilterType, NEW stat
  PROVE  /\ Refreshed(f, stat) \in FilterType
         /\ Refreshed(f, stat).members = f.members /\ ~Refreshed(f, stat).dirty
         /\ Refreshed(f, stat).timer = f.timer /\ Refreshed(f, stat).shown = f.shown
         /\ Refreshed(f, stat).healthy = f.healthy
         /\ Refreshed(f, stat).cached =
              IF f.dirty THEN Critical(f.members, stat) ELSE f.cached
<1>1. Critical(f.members, stat) \in Nat
  BY CountsAreNumbers DEF FilterType
<1> QED
  BY <1>1 DEF Refreshed, FilterType

LEMMA ScheduledKeeps ==
  ASSUME NEW f \in FilterType
  PROVE  /\ Scheduled(f) \in FilterType
         /\ Scheduled(f).dirty /\ Scheduled(f).timer
         /\ Scheduled(f).members = f.members /\ Scheduled(f).cached = f.cached
         /\ Scheduled(f).shown = f.shown /\ Scheduled(f).healthy = f.healthy
BY DEF Scheduled, FilterType

\* What HEALTHY reads is the count of that moment.
LEMMA HealthyReadKeeps ==
  ASSUME NEW f \in FilterType, NEW stat
  PROVE  LET g == HealthyRead(f, stat) IN
         /\ g \in FilterType /\ g.members = f.members
         /\ g.timer = f.timer /\ g.shown = f.shown
         /\ followed # Everything => g = f
         /\ followed = Everything /\ f.members = {} =>
              g.healthy = <<0, 0>> /\ g.cached = f.cached /\ g.dirty = f.dirty
         /\ followed = Everything /\ f.members # {} =>
              /\ g.healthy = <<Cardinality(g.members), g.cached>> /\ ~g.dirty
              /\ g.cached = IF f.dirty THEN Critical(f.members, stat) ELSE f.cached
<1>1. CASE followed # Everything
  BY <1>1 DEF HealthyRead
<1>2. CASE followed = Everything /\ f.members = {}
  BY <1>2 DEF HealthyRead, FilterType
<1>3. CASE followed = Everything /\ f.members # {}
  <2> DEFINE r == Refreshed(f, stat)
  <2>1. HealthyRead(f, stat) = [r EXCEPT !.healthy = <<Cardinality(r.members), r.cached>>]
    BY <1>3 DEF HealthyRead
  <2>2. r \in FilterType /\ Cardinality(r.members) \in Nat
    BY RefreshedKeeps, CountsAreNumbers DEF FilterType
  <2> HIDE DEF r
  <2>3. LET g == [r EXCEPT !.healthy = <<Cardinality(r.members), r.cached>>] IN
          /\ g \in FilterType /\ g.members = r.members /\ g.timer = r.timer
          /\ g.shown = r.shown /\ g.cached = r.cached /\ g.dirty = r.dirty
          /\ g.healthy = <<Cardinality(r.members), r.cached>>
    BY <2>2 DEF FilterType
  <2> QED
    BY <1>3, <2>1, <2>2, <2>3, RefreshedKeeps DEF r
<1> QED
  BY <1>1, <1>2, <1>3

\* A filter that is made holds what it accepts and has its count due.
LEMMA CreatedKeeps ==
  ASSUME NEW keys \in SUBSET Keys, NEW at, NEW found, NEW stat,
         NEW f \in Created(keys, at, found, stat)
  PROVE  /\ f \in FilterType /\ f.members = Accepted(keys, at, found)
         /\ f.dirty /\ f.timer /\ f.shown = f.cached
<1>1. Accepted(keys, at, found) \in SUBSET Keys
  BY DEF Accepted
<1>2. Critical(keys, stat) \in Nat /\ Critical(Accepted(keys, at, found), stat) \in Nat
  BY <1>1, CountsAreNumbers
<1>3. PICK n \in {0, Critical(keys, stat), Critical(Accepted(keys, at, found), stat)} :
         f = [members |-> Accepted(keys, at, found), cached |-> n, dirty |-> TRUE,
              timer |-> TRUE, shown |-> n, healthy |-> <<0, 0>>]
  BY DEF Created
<1>4. n \in Nat
  BY <1>2
<1> QED
  BY <1>1, <1>3, <1>4 DEF FilterType

LEMMA AbsentKeeps ==
  ASSUME NEW stat
  PROVE  /\ Absent \in FilterType /\ Absent.members = {} /\ ~Absent.dirty
         /\ Absent.cached = Critical(Absent.members, stat) /\ Absent.shown = Absent.cached
<1>1. Absent \in FilterType /\ Absent.members = {} /\ ~Absent.dirty /\ Absent.cached = 0
      /\ Absent.shown = 0
  BY DEF Absent, FilterType
<1> QED
  BY <1>1, NothingIsCritical

\* NumbersAgree of a filter f of rows with the statuses stat.
Agrees(f, stat) ==
    /\ f.dirty => f.timer
    /\ ~f.dirty => f.cached = Critical(f.members, stat)
    /\ IF followed = Everything
       THEN /\ f.healthy = <<Cardinality(f.members), f.cached>>
            /\ f.members = {} => f.cached = 0
       ELSE f.shown = f.cached

LEMMA FilterInvIs ==
  FilterInv <=> /\ followed \in Places \cup {Everything, TheFloor}
                /\ search \subseteq Keys /\ groups \subseteq Places
                /\ filter \in FilterType
                /\ filter.members = IF Exists(groups) THEN Accepted(Shown, place, search) ELSE {}
                /\ Agrees(filter, status)
BY DEF FilterInv, FilterType, MembersFollowRows, NumbersAgree, Agrees

LEMMA InsertAgrees ==
  ASSUME NEW f \in FilterType, NEW k \in Keys, NEW stat, NEW before,
         Agrees(f, before)
  PROVE  /\ AfterInsert(f, k, stat) \in FilterType
         /\ AfterInsert(f, k, stat).members = f.members \cup {k}
         /\ Agrees(AfterInsert(f, k, stat), stat)
<1> DEFINE e == [f EXCEPT !.members = @ \cup {k}]
           h == HealthyRead(e, stat)
<1>1. /\ e \in FilterType /\ e.members = f.members \cup {k} /\ e.members # {}
      /\ e.shown = f.shown /\ e.cached = f.cached
  BY DEF FilterType
<1> HIDE DEF e
<1>2. /\ h \in FilterType /\ h.members = e.members /\ h.shown = e.shown
      /\ followed # Everything => h = e
      /\ followed = Everything => h.healthy = <<Cardinality(h.members), h.cached>>
  BY <1>1, HealthyReadKeeps
<1> HIDE DEF h
<1>3. AfterInsert(f, k, stat) = Scheduled(h)
  BY DEF AfterInsert, h, e
<1> DEFINE r == AfterInsert(f, k, stat)
<1>4. /\ r \in FilterType /\ r.dirty /\ r.timer /\ r.members = f.members \cup {k}
      /\ r.cached = h.cached /\ r.shown = h.shown /\ r.healthy = h.healthy
      /\ r.members = h.members
  BY <1>1, <1>2, <1>3, ScheduledKeeps
<1> HIDE DEF r
<1>5. CASE followed = Everything
  BY <1>2, <1>4, <1>5 DEF Agrees, r
<1>6. CASE followed # Everything
  BY <1>1, <1>2, <1>4, <1>6 DEF Agrees, r
<1> QED
  BY <1>5, <1>6

\* A change the filter does not hear of is none of its rows.
LEMMA ChangeAgrees ==
  ASSUME NEW f \in FilterType, NEW keys \in SUBSET Keys, NEW accepted \in SUBSET keys,
         NEW before, NEW stat, Agrees(f, before),
         \A j \in f.members \ keys : stat[j] = before[j],
         followed = Everything => accepted = keys /\ keys \subseteq f.members
  PROVE  /\ AfterChange(f, keys, accepted) \in FilterType
         /\ AfterChange(f, keys, accepted).members = (f.members \ keys) \cup accepted
         /\ Agrees(AfterChange(f, keys, accepted), stat)
<1> DEFINE m == (f.members \ keys) \cup (keys \cap accepted)
<1>1. m \in SUBSET Keys /\ m = (f.members \ keys) \cup accepted
  BY DEF FilterType
<1>2. CASE keys \cap (m \cup f.members) = {}
  <2>1. AfterChange(f, keys, accepted) = f
    BY <1>2 DEF AfterChange
  <2>2. m = f.members /\ f.members \ keys = f.members
    BY <1>2
  <2>3. Critical(f.members, stat) = Critical(f.members, before)
    BY <2>2, CountOfRows
  <2> QED
    BY <1>1, <2>1, <2>2, <2>3 DEF Agrees
<1>3. CASE keys \cap (m \cup f.members) # {}
  <2> DEFINE e == [f EXCEPT !.members = m]
  <2>1. /\ e \in FilterType /\ e.members = m /\ e.shown = f.shown
        /\ e.cached = f.cached /\ e.healthy = f.healthy
    BY <1>1 DEF FilterType
  <2>2. AfterChange(f, keys, accepted) = Scheduled(e)
    BY <1>3 DEF AfterChange
  <2>3. followed = Everything => m = f.members
    BY <1>1
  <2> HIDE DEF e, m
  <2> QED
    BY <1>1, <2>1, <2>2, <2>3, ScheduledKeeps DEF Agrees, m
<1> QED
  BY <1>2, <1>3

\* FilterInv after a step that keeps what is followed.
LEMMA FilterInvAfter ==
  ASSUME followed' = followed, followed \in Places \cup {Everything, TheFloor},
         search' \subseteq Keys, groups' \subseteq Places, filter' \in FilterType,
         filter'.members = IF Exists(groups') THEN Accepted(Shown', place', search') ELSE {},
         Agrees(filter', status')
  PROVE  FilterInv'
<1>1. NumbersAgree'
  BY DEF NumbersAgree, Agrees
<1>2. MembersFollowRows'
  BY DEF MembersFollowRows, Exists, Accepted
<1> QED
  BY <1>1, <1>2 DEF FilterInv, FilterType

\* The sections are made anew, or the filter stays.
LEMMA ResectionedKeeps ==
  ASSUME ModelInv', NEW f \in FilterType, FilterInv,
         followed' = followed, search' = search,
         RebuildGroups, Resectioned(f),
         f.members = IF Exists(groups) THEN Accepted(Shown', place', search) ELSE {},
         Agrees(f, status')
  PROVE  FilterInv'
<1>1. Shown' \subseteq Keys /\ groups' \subseteq Places
  BY DEF ModelInv, RebuildGroups, Shown
<1>2. followed \in Places \cup {Everything, TheFloor} /\ search' \subseteq Keys
  BY DEF FilterInv
<1>3. CASE groups' = groups \/ followed = Everything
  <2>1. filter' = f /\ (Exists(groups') <=> Exists(groups))
    BY <1>3 DEF Resectioned, Exists
  <2> QED
    BY <1>1, <1>2, <2>1, FilterInvAfter
<1>4. CASE ~(groups' = groups \/ followed = Everything) /\ Exists(groups')
  <2>1. filter' \in Created(Shown', place', search, status')
    BY <1>4 DEF Resectioned
  <2>2. /\ filter' \in FilterType /\ filter'.members = Accepted(Shown', place', search)
        /\ filter'.dirty /\ filter'.timer /\ filter'.shown = filter'.cached
    BY <1>1, <2>1, CreatedKeeps
  <2>3. Agrees(filter', status')
    BY <1>4, <2>2 DEF Agrees
  <2> QED
    BY <1>1, <1>2, <1>4, <2>2, <2>3, FilterInvAfter
<1>5. CASE ~(groups' = groups \/ followed = Everything) /\ ~Exists(groups')
  <2>1. filter' = Absent
    BY <1>5 DEF Resectioned
  <2>2. /\ filter' \in FilterType /\ filter'.members = {} /\ ~filter'.dirty
        /\ filter'.cached = Critical(filter'.members, status')
        /\ filter'.shown = filter'.cached
    BY <2>1, AbsentKeeps
  <2>3. Agrees(filter', status')
    BY <1>5, <2>2 DEF Agrees
  <2> QED
    BY <1>1, <1>2, <1>5, <2>2, <2>3, FilterInvAfter
<1> QED
  BY <1>3, <1>4, <1>5

LEMMA FilterInsertsKeeps ==
  ASSUME ModelInv, ModelInv', FilterInv, NEW k \in Keys, FilterInserts(k),
         Shown' = Shown \cup {k}, k \notin Shown,
         \A j \in Shown : place'[j] = place[j] /\ status'[j] = status[j]
  PROVE  FilterInv'
<1> DEFINE f == IF Exists(groups) /\ k \in Accepted({k}, place', search)
                THEN AfterInsert(filter, k, status') ELSE filter
<1>1. RebuildGroups /\ Resectioned(f) /\ followed' = followed /\ search' = search
  BY DEF FilterInserts
<1>2. /\ filter \in FilterType /\ Agrees(filter, status)
      /\ filter.members = IF Exists(groups) THEN Accepted(Shown, place, search) ELSE {}
  BY FilterInvIs
<1>3. CASE Exists(groups) /\ k \in Accepted({k}, place', search)
  <2>1. f = AfterInsert(filter, k, status')
    BY <1>3
  <2>2. Accepted(Shown', place', search) = Accepted(Shown, place, search) \cup {k}
    BY <1>3 DEF Accepted
  <2> HIDE DEF f
  <2>3. /\ AfterInsert(filter, k, status') \in FilterType
        /\ AfterInsert(filter, k, status').members = filter.members \cup {k}
        /\ Agrees(AfterInsert(filter, k, status'), status')
    BY <1>2, InsertAgrees
  <2>4. /\ f \in FilterType /\ Agrees(f, status')
        /\ f.members = filter.members \cup {k}
    BY <2>1, <2>3
  <2> QED
    BY <1>1, <1>2, <1>3, <2>2, <2>4, ResectionedKeeps
<1>4. CASE ~(Exists(groups) /\ k \in Accepted({k}, place', search))
  <2>1. f = filter
    BY <1>4
  <2>2. filter.members \subseteq Shown
    BY <1>2 DEF Accepted
  <2>3. Exists(groups) => Accepted(Shown', place', search) = Accepted(Shown, place, search)
    BY <1>4 DEF Accepted
  <2>4. Critical(filter.members, status') = Critical(filter.members, status)
    BY <2>2, CountOfRows
  <2>5. Agrees(filter, status')
    BY <1>2, <2>4 DEF Agrees
  <2> HIDE DEF f
  <2> QED
    BY <1>1, <1>2, <2>1, <2>3, <2>5, ResectionedKeeps
<1> QED
  BY <1>3, <1>4

LEMMA FilterChangesKeeps ==
  ASSUME ModelInv, ModelInv', FilterInv, NEW keys \in SUBSET Keys, FilterChanges(keys),
         Shown' = Shown, keys \subseteq Shown,
         \A j \in Shown \ keys : place'[j] = place[j] /\ status'[j] = status[j]
  PROVE  FilterInv'
<1> DEFINE accepted == Accepted(keys, place', search)
<1>1. followed' = followed /\ search' = search /\ groups' = groups
  BY DEF FilterChanges
<1>2. /\ filter \in FilterType /\ Agrees(filter, status)
      /\ filter.members = IF Exists(groups) THEN Accepted(Shown, place, search) ELSE {}
      /\ followed \in Places \cup {Everything, TheFloor}
      /\ search \subseteq Keys /\ groups \subseteq Places
  BY FilterInvIs
<1>3. CASE Exists(groups)
  <2>1. filter' = AfterChange(filter, keys, accepted)
    BY <1>3 DEF FilterChanges
  <2>2. accepted \in SUBSET keys /\ (followed = Everything => accepted = keys)
    BY DEF Accepted
  <2>3. filter.members \subseteq Shown /\ (followed = Everything => filter.members = Shown)
    BY <1>2, <1>3 DEF Accepted
  <2>4. /\ filter' \in FilterType /\ Agrees(filter', status')
        /\ filter'.members = (filter.members \ keys) \cup accepted
    <3> HIDE DEF accepted
    <3>1. \A j \in filter.members \ keys : status'[j] = status[j]
      BY <2>3
    <3>2. followed = Everything => accepted = keys /\ keys \subseteq filter.members
      BY <2>2, <2>3
    <3>3. /\ AfterChange(filter, keys, accepted) \in FilterType
          /\ AfterChange(filter, keys, accepted).members = (filter.members \ keys) \cup accepted
          /\ Agrees(AfterChange(filter, keys, accepted), status')
      BY <1>2, <2>2, <3>1, <3>2, ChangeAgrees
    <3> QED
      BY <2>1, <3>3
  <2>5. (Accepted(Shown, place, search) \ keys) \cup accepted
          = Accepted(Shown', place', search)
    BY DEF Accepted
  <2> HIDE DEF accepted
  <2> QED
    BY <1>1, <1>2, <1>3, <2>4, <2>5, FilterInvAfter
<1>4. CASE ~Exists(groups)
  <2>1. filter' = filter
    BY <1>4 DEF FilterChanges
  <2>2. Critical(filter.members, status') = Critical(filter.members, status)
    BY <1>2, <1>4, CountOfRows
  <2>3. Agrees(filter', status')
    BY <1>2, <2>1, <2>2 DEF Agrees
  <2> QED
    BY <1>1, <1>2, <1>4, <2>1, <2>3, FilterInvAfter
<1> QED
  BY <1>3, <1>4

LEMMA FilterSearchesKeeps ==
  ASSUME ModelInv, FilterInv, UNCHANGED modelVars, NEW found \in SUBSET Keys,
         FilterSearches(found)
  PROVE  FilterInv'
<1> DEFINE members == Accepted(Shown, place, found)
<1>1. /\ followed' = followed /\ groups' = groups /\ search' = found
      /\ Shown' = Shown /\ place' = place /\ status' = status
  BY DEF FilterSearches, modelVars, Shown
<1>2. /\ filter \in FilterType /\ Agrees(filter, status)
      /\ filter.members = IF Exists(groups) THEN Accepted(Shown, place, search) ELSE {}
      /\ followed \in Places \cup {Everything, TheFloor} /\ groups \subseteq Places
  BY FilterInvIs
<1>3. members \in SUBSET Keys
  BY ShownAreKeys DEF Accepted, ModelInv
<1>4. CASE ~Exists(groups) \/ members = filter.members
  <2>1. filter' = filter
    BY <1>4 DEF FilterSearches
  <2> QED
    BY <1>1, <1>2, <1>4, <2>1, FilterInvAfter
<1>5. CASE Exists(groups) /\ members # filter.members
  <2> DEFINE e == [filter EXCEPT !.members = members]
  <2>1. filter' = Scheduled(e)
    BY <1>5 DEF FilterSearches
  <2>2. /\ e \in FilterType /\ e.members = members /\ e.cached = filter.cached
        /\ e.shown = filter.shown
    BY <1>2, <1>3 DEF FilterType
  <2>3. followed # Everything
    BY <1>2, <1>5 DEF Accepted
  <2> HIDE DEF e
  <2>4. /\ filter' \in FilterType /\ filter'.members = members /\ filter'.dirty
        /\ filter'.timer /\ filter'.shown = filter'.cached
    BY <1>2, <2>1, <2>2, <2>3, ScheduledKeeps DEF Agrees
  <2>5. Agrees(filter', status')
    BY <2>3, <2>4 DEF Agrees
  <2> QED
    BY <1>1, <1>2, <1>5, <2>4, <2>5, FilterInvAfter
<1> QED
  BY <1>4, <1>5

\* recount tells of a count that differs from the last one taken, which the insert
\* of a row may have taken.
LEMMA RecountKeeps ==
  ASSUME ModelInv, FilterInv, Recount
  PROVE  FilterInv'
<1> DEFINE f == Refreshed(filter, status)
           g == [f EXCEPT !.timer = FALSE]
           h == IF filter.healthy[1] > 0 THEN HealthyRead(g, status) ELSE g
<1>1. /\ followed' = followed /\ groups' = groups /\ search' = search
      /\ Shown' = Shown /\ place' = place /\ status' = status
  BY DEF Recount, modelVars, Shown
<1>2. /\ filter \in FilterType /\ Agrees(filter, status)
      /\ filter.members = IF Exists(groups) THEN Accepted(Shown, place, search) ELSE {}
      /\ followed \in Places \cup {Everything, TheFloor} /\ groups \subseteq Places
      /\ search \subseteq Keys
  BY FilterInvIs
<1>3. filter' = IF f.cached = filter.cached THEN g ELSE [h EXCEPT !.shown = f.cached]
  BY DEF Recount
<1>4. /\ f \in FilterType /\ f.members = filter.members /\ ~f.dirty
      /\ f.healthy = filter.healthy /\ f.shown = filter.shown
      /\ f.cached = Critical(filter.members, status)
  BY <1>2, RefreshedKeeps DEF Agrees
<1> HIDE DEF f
<1>5. /\ g \in FilterType /\ g.members = filter.members /\ ~g.dirty /\ g.cached = f.cached
      /\ g.healthy = filter.healthy /\ g.shown = filter.shown /\ ~g.timer
  BY <1>4 DEF FilterType
<1> HIDE DEF g
<1>6. CASE f.cached = filter.cached
  <2>1. filter' = g
    BY <1>3, <1>6
  <2>2. Agrees(filter', status')
    BY <1>1, <1>2, <1>4, <1>5, <1>6, <2>1 DEF Agrees
  <2> QED
    BY <1>1, <1>2, <1>5, <2>1, <2>2, FilterInvAfter
<1>7. CASE f.cached # filter.cached /\ followed # Everything
  <2>1. h = g
    BY <1>5, <1>7, HealthyReadKeeps
  <2>2. filter' = [g EXCEPT !.shown = f.cached]
    BY <1>3, <1>7, <2>1
  <2>3. /\ filter' \in FilterType /\ filter'.members = filter.members /\ ~filter'.dirty
        /\ filter'.shown = f.cached /\ filter'.cached = f.cached
    BY <1>4, <1>5, <2>2 DEF FilterType
  <2>4. Agrees(filter', status')
    BY <1>1, <1>4, <1>7, <2>3 DEF Agrees
  <2> QED
    BY <1>1, <1>2, <2>3, <2>4, FilterInvAfter
<1>8. CASE f.cached # filter.cached /\ followed = Everything
  <2>1. filter.members # {}
    BY <1>2, <1>4, <1>8, NothingIsCritical DEF Agrees
  <2>2. filter.healthy[1] > 0
    <3>1. filter.members \in SUBSET Keys /\ IsFiniteSet(filter.members)
      BY <1>2, FS_Subset, DeviceAssumption DEF FilterType
    <3>2. Cardinality(filter.members) > 0
      BY <2>1, <3>1, FS_EmptySet, FS_CardinalityType
    <3> QED
      BY <1>2, <1>8, <3>2 DEF Agrees
  <2>3. h = HealthyRead(g, status)
    BY <2>2
  <2>4. /\ h \in FilterType /\ h.members = filter.members /\ ~h.dirty
        /\ h.cached = f.cached /\ h.healthy = <<Cardinality(h.members), h.cached>>
    BY <1>5, <1>8, <2>1, <2>3, HealthyReadKeeps
  <2> HIDE DEF h
  <2>5. filter' = [h EXCEPT !.shown = f.cached]
    BY <1>3, <1>8
  <2>6. /\ filter' \in FilterType /\ filter'.members = filter.members /\ ~filter'.dirty
        /\ filter'.cached = f.cached
        /\ filter'.healthy = <<Cardinality(filter'.members), filter'.cached>>
    BY <1>4, <2>4, <2>5 DEF FilterType
  <2>7. Agrees(filter', status')
    BY <1>1, <1>4, <1>8, <2>1, <2>6 DEF Agrees
  <2> QED
    BY <1>1, <1>2, <2>6, <2>7, FilterInvAfter
<1> QED
  BY <1>6, <1>7, <1>8

LEMMA FilterStays ==
  ASSUME FilterInv, UNCHANGED modelVars, UNCHANGED filterVars
  PROVE  FilterInv'
<1>1. /\ followed' = followed /\ groups' = groups /\ search' = search /\ filter' = filter
      /\ Shown' = Shown /\ place' = place /\ status' = status
  BY DEF filterVars, modelVars, Shown
<1> QED
  BY <1>1, FilterInvIs, FilterInvAfter

LEMMA GroupsTickKeeps ==
  ASSUME ModelInv, ModelInv', FilterInv, GroupsTick
  PROVE  FilterInv'
<1>1. /\ RebuildGroups /\ Resectioned(filter) /\ followed' = followed /\ search' = search
      /\ Shown' = Shown /\ place' = place /\ status' = status
  BY DEF GroupsTick, modelVars, Shown
<1>2. /\ filter \in FilterType /\ Agrees(filter, status)
      /\ filter.members = IF Exists(groups) THEN Accepted(Shown, place, search) ELSE {}
  BY FilterInvIs
<1> QED
  BY <1>1, <1>2, ResectionedKeeps

-----------------------------------------------------------------------------
(* The invariant. *)

LEMMA InitialPage == Init => DevicesInv
<1> SUFFICES ASSUME Init PROVE DevicesInv
  OBVIOUS
<1>1. PICK keys \in SUBSET Keys :
         rows \in {r \in [1..Cardinality(keys) -> keys] : NoneTwice(r)}
  BY DEF Init
<1>2. Cardinality(keys) \in Nat
  BY CountsAreNumbers
<1>3. rows \in Seq(Keys) /\ NoneTwice(rows)
  <2>1. rows \in [1..Cardinality(keys) -> Keys]
    BY <1>1
  <2> QED
    BY <1>1, <1>2, <2>1
<1>4. Shown \subseteq Keys
  BY <1>3, ShownAreKeys
<1>5. ModelInv
  <2>1. /\ status \in [Keys -> Statuses \cup {NoStatus}] /\ meta \in [Devices -> Places]
        /\ place = [k \in Keys |-> IF k \in Shown THEN meta[DeviceOf[k]] ELSE Unassigned]
    BY DEF Init, Restored
  <2>2. \A k \in Keys : DeviceOf[k] \in Devices
    BY DEF Devices
  <2>3. place \in [Keys -> Places]
    BY <2>1, <2>2, DeviceAssumption
  <2> QED
    BY <1>3, <1>4, <2>1, <2>3 DEF ModelInv, RowsFollowMeta
<1>6. /\ followed \in Places \cup {Everything, TheFloor} /\ search \subseteq Keys
      /\ groups \subseteq Places /\ groups = {place[k] : k \in Shown} /\ search = Keys
  BY <1>4, <1>5 DEF Init, FilterInit, ModelInv
<1>7. /\ filter \in FilterType
      /\ filter.members = IF Exists(groups) THEN Accepted(Shown, place, search) ELSE {}
      /\ Agrees(filter, status)
  <2>1. CASE followed = Everything
    <3> DEFINE n == Critical(Shown, status)
    <3>1. filter = [members |-> Shown, cached |-> n, dirty |-> FALSE, timer |-> FALSE,
                    shown |-> n, healthy |-> <<Cardinality(Shown), n>>]
      BY <2>1 DEF Init, FilterInit
    <3>2. Cardinality(Shown) \in Nat /\ n \in Nat
      BY <1>4, CountsAreNumbers
    <3>3. Shown = {} => n = 0
      BY NothingIsCritical
    <3>4. Exists(groups) /\ Accepted(Shown, place, search) = Shown
      BY <2>1 DEF Exists, Accepted
    <3> HIDE DEF n
    <3>5. /\ filter \in FilterType /\ filter.members = Shown /\ ~filter.dirty
          /\ filter.cached = n /\ filter.healthy = <<Cardinality(Shown), n>>
      BY <1>4, <3>1, <3>2 DEF FilterType
    <3> QED
      BY <2>1, <3>3, <3>4, <3>5 DEF Agrees, n
  <2>2. CASE followed # Everything /\ followed \in groups
    <3>1. filter \in Created(Shown, place, Keys, status)
      BY <2>2 DEF Init, FilterInit
    <3>2. /\ filter \in FilterType /\ filter.members = Accepted(Shown, place, Keys)
          /\ filter.dirty /\ filter.timer /\ filter.shown = filter.cached
      BY <1>4, <3>1, CreatedKeeps
    <3> QED
      BY <1>6, <2>2, <3>2 DEF Exists, Agrees
  <2>3. CASE followed # Everything /\ followed \notin groups
    <3>1. filter = Absent /\ ~Exists(groups)
      BY <2>3 DEF Init, FilterInit, Exists
    <3> QED
      BY <2>3, <3>1, AbsentKeeps DEF Agrees
  <2> QED
    BY <2>1, <2>2, <2>3
<1>8. FilterInv
  BY <1>6, <1>7, FilterInvIs
<1>9. PageInv
  <2>1. DOMAIN scene.at = {}
    BY DEF Init, SceneInit, EmptyScene
  <2> QED
    BY <2>1 DEF Init, SceneInit, PageInv
<1> QED
  BY <1>5, <1>8, <1>9, PartsOfInv

LEMMA StepKeepsPage == DevicesInv /\ [Next]_vars => DevicesInv'
<1> SUFFICES ASSUME DevicesInv, [Next]_vars PROVE ModelInv' /\ FilterInv' /\ PageInv'
  BY DEF DevicesInv, TypeOK, ModelInv, FilterInv, PageInv
<1>0. ModelInv /\ FilterInv /\ PageInv
  BY PartsOfInv
<1>a. ASSUME UNCHANGED modelVars
      PROVE  ModelInv' /\ Shown' = Shown
  BY <1>a, <1>0 DEF ModelInv, modelVars, RowsFollowMeta, NoneTwice, Shown
<1>b. ASSUME UNCHANGED modelVars, UNCHANGED filterVars
      PROVE  FilterInv'
  BY <1>b, <1>0, FilterStays
<1>c. ASSUME Schedule
      PROVE  view' = view /\ sceneTimer' \in BOOLEAN /\ scene' = scene /\ selected' = selected
  BY <1>c, <1>0 DEF Schedule, PageInv
<1>d. DOMAIN SceneOf(Shown, place, status).at \subseteq Keys \cup DOMAIN Others
  BY <1>0, ShownAreKeys DEF SceneOf, ModelInv
<1>1. ASSUME NEW keys \in SUBSET Keys, ReadingsArrive(keys) PROVE ModelInv' /\ FilterInv' /\ PageInv'
  BY <1>1, <1>0, <1>a, <1>b DEF ReadingsArrive, PageInv, sceneVars
<1>2. ASSUME NEW devices \in SUBSET Devices, PlacesArrive(devices)
      PROVE ModelInv' /\ FilterInv' /\ PageInv'
  BY <1>2, <1>0, <1>a, <1>b DEF PlacesArrive, PageInv, sceneVars
<1>3. ASSUME NEW k \in Keys, NEW s \in Statuses, NewRow(k, s)
      PROVE ModelInv' /\ FilterInv' /\ PageInv'
  <2>1. AddRow(k, s) /\ FilterInserts(k) /\ Schedule /\ located' = located /\ readings' \subseteq Keys
    BY <1>3, <1>0 DEF NewRow, PageInv
  <2>2. ModelInv' /\ FilterInv'
    BY <1>0, <2>1, AddRowKeeps, FilterInsertsKeeps
  <2> QED
    BY <1>0, <1>c, <2>1, <2>2 DEF PageInv
<1>4. ASSUME NEW k \in Keys, NEW s \in Statuses, ChangedRow(k, s)
      PROVE ModelInv' /\ FilterInv' /\ PageInv'
  <2>1. SetRow(k, s) /\ FilterChanges({k}) /\ Schedule /\ located' = located
        /\ readings' \subseteq Keys
    BY <1>4, <1>0 DEF ChangedRow, PageInv
  <2>2. /\ ModelInv' /\ Shown' = Shown /\ {k} \subseteq Shown
        /\ \A j \in Shown \ {k} : place'[j] = place[j] /\ status'[j] = status[j]
    BY <1>0, <2>1, SetRowKeeps
  <2>3. FilterInv'
    BY <1>0, <2>1, <2>2, FilterChangesKeeps
  <2> QED
    BY <1>0, <1>c, <2>1, <2>2, <2>3 DEF PageInv
<1>5. ASSUME NEW d \in Devices, NEW p \in Places, DevicePlaced(d, p)
      PROVE ModelInv' /\ FilterInv' /\ PageInv'
  <2>1. SetMeta(d, p) /\ FilterChanges(Announced(d)) /\ readings' = readings
        /\ located' \subseteq Devices /\ (UNCHANGED sceneVars \/ Schedule)
    BY <1>5, <1>0 DEF DevicePlaced, PageInv
  <2>2. /\ ModelInv' /\ Shown' = Shown /\ Announced(d) \subseteq Shown
        /\ \A j \in Shown \ Announced(d) : place'[j] = place[j] /\ status'[j] = status[j]
    BY <1>0, <2>1, SetMetaKeeps
  <2>3. Announced(d) \in SUBSET Keys
    BY <1>0, <2>2, ShownAreKeys DEF ModelInv
  <2>4. FilterInv'
    BY <1>0, <2>1, <2>2, <2>3, FilterChangesKeeps
  <2> QED
    BY <1>0, <1>c, <2>1, <2>2, <2>4 DEF PageInv, sceneVars
<1>6. ASSUME TimerFires PROVE ModelInv' /\ FilterInv' /\ PageInv'
  <2>1. CASE Recount /\ UNCHANGED sceneVars
    BY <1>0, <1>6, <1>a, <2>1, RecountKeeps DEF TimerFires, Recount, PageInv, sceneVars
  <2>2. CASE GroupsTick /\ UNCHANGED sceneVars
    BY <1>0, <1>6, <1>a, <2>2, GroupsTickKeeps DEF TimerFires, GroupsTick, PageInv, sceneVars
  <2>3. CASE Rebuild /\ UNCHANGED filterVars
    <3>1. DOMAIN EmptyScene.at = {}
      BY DEF EmptyScene
    <3> QED
      BY <1>0, <1>6, <1>a, <1>b, <1>d, <2>3, <3>1 DEF TimerFires, Rebuild, PageInv
  <2> QED
    BY <1>6, <2>1, <2>2, <2>3 DEF TimerFires
<1>7. ASSUME NEW found \in Searches, Search(found) PROVE ModelInv' /\ FilterInv' /\ PageInv'
  <2>1. found \in SUBSET Keys
    BY FilterAssumption
  <2> QED
    BY <1>0, <1>7, <1>a, <2>1, FilterSearchesKeeps DEF Search, PageInv, sceneVars
<1>8. ASSUME ShowInList PROVE ModelInv' /\ FilterInv' /\ PageInv'
  <2>1. {k \in Keys : DeviceOf[k] = DeviceOf[selected]} \in SUBSET Keys
    OBVIOUS
  <2>2. DOMAIN EmptyScene.at = {}
    BY DEF EmptyScene
  <2> QED
    BY <1>0, <1>8, <1>a, <2>1, <2>2, FilterSearchesKeeps DEF ShowInList, ShowCards, PageInv
<1>9. ASSUME UserActs PROVE ModelInv' /\ FilterInv' /\ PageInv'
  <2>1. ModelInv' /\ FilterInv' /\ readings' = readings /\ located' = located
    BY <1>9, <1>a, <1>b DEF UserActs
  <2>2. DOMAIN EmptyScene.at = {}
    BY DEF EmptyScene
  <2>3. Shown \subseteq Keys
    BY <1>0, ShownAreKeys DEF ModelInv
  <2>4. ASSUME NEW k, k = selected \/ k \in Shown, ShowFloor(k) PROVE PageInv'
    BY <1>0, <1>d, <2>1, <2>3, <2>4 DEF ShowFloor, PageInv
  <2>5. CASE ShowCards
    BY <1>0, <2>1, <2>2, <2>5 DEF ShowCards, PageInv
  <2>6. ASSUME NEW k \in Shown, SelectCard(k) PROVE PageInv'
    BY <1>0, <2>1, <2>3, <2>6 DEF SelectCard, PageInv
  <2>7. ASSUME NEW k \in DOMAIN scene.at, Pick(k) PROVE PageInv'
    BY <1>0, <2>1, <2>7 DEF Pick, PageInv
  <2> QED
    BY <1>9, <2>1, <2>4, <2>5, <2>6, <2>7 DEF UserActs
<1>10. CASE UNCHANGED vars
  BY <1>0, <1>10, <1>a, <1>b DEF vars, PageInv, sceneVars
<1> QED
  BY <1>1, <1>2, <1>3, <1>4, <1>5, <1>6, <1>7, <1>8, <1>9, <1>10 DEF Next

\* The rows a filter holds and the numbers shown of them are right whatever order
\* readings, places, timers and searches come in (device_filter_model.cpp,
\* device_model.cpp).
THEOREM PageInvariant == Spec => []DevicesInv
BY InitialPage, StepKeepsPage, PTL DEF Spec

\* Whenever no recount is due, HEALTHY and the pills of the sections count the rows
\* as they are.
THEOREM NumbersAreRight == Spec => []CountsAreRight
<1>1. DevicesInv => CountsAreRight
  BY DEF DevicesInv, NumbersAgree, CountsAreRight
<1> QED
  BY <1>1, PageInvariant, PTL

-----------------------------------------------------------------------------
(* The floor. *)

LEMMA StepKeepsFloor == DevicesInv /\ FloorIsCurrent /\ [Next]_vars => FloorIsCurrent'
<1> SUFFICES ASSUME DevicesInv, FloorIsCurrent, [Next]_vars PROVE FloorIsCurrent'
  OBVIOUS
<1>0. ModelInv /\ PageInv
  BY PartsOfInv
<1>1. ASSUME UNCHANGED modelVars, UNCHANGED <<view, scene, sceneTimer>> PROVE FloorIsCurrent'
  BY <1>1 DEF FloorIsCurrent, SceneOf, modelVars, Shown
<1>2. ASSUME Schedule PROVE FloorIsCurrent'
  BY <1>2 DEF Schedule, FloorIsCurrent
<1>3. ASSUME NEW d \in Devices, NEW p \in Places, DevicePlaced(d, p) PROVE FloorIsCurrent'
  <2>1. CASE Announced(d) # {}
    BY <1>2, <1>3, <2>1 DEF DevicePlaced
  <2>2. CASE Announced(d) = {}
    <3>1. /\ Shown' = Shown
          /\ \A j \in Shown : place'[j] = place[j] /\ status'[j] = status[j]
      BY <1>0, <1>3, <2>2, SetMetaKeeps DEF DevicePlaced
    <3>2. SceneOf(Shown', place', status') = SceneOf(Shown, place, status)
      <4>1. [k \in Shown \cup DOMAIN Others |-> IF k \in Shown THEN place'[k] ELSE Others[k]]
              = [k \in Shown \cup DOMAIN Others |-> IF k \in Shown THEN place[k] ELSE Others[k]]
        BY <3>1
      <4>2. {k \in Shown : status'[k] = "critical"} = {k \in Shown : status[k] = "critical"}
        BY <3>1
      <4> QED
        BY <3>1, <4>1, <4>2 DEF SceneOf
    <3>3. UNCHANGED sceneVars
      BY <1>3, <2>2 DEF DevicePlaced
    <3> QED
      BY <3>2, <3>3 DEF FloorIsCurrent, sceneVars
  <2> QED
    BY <2>1, <2>2
<1>4. ASSUME TimerFires PROVE FloorIsCurrent'
  <2>1. CASE Rebuild
    <3>1. Shown' = Shown /\ place' = place /\ status' = status
      BY <2>1 DEF Rebuild, modelVars, Shown
    <3> QED
      BY <2>1, <3>1 DEF Rebuild, FloorIsCurrent
  <2>2. CASE (Recount \/ GroupsTick) /\ UNCHANGED sceneVars
    BY <1>1, <2>2 DEF Recount, GroupsTick, sceneVars
  <2> QED
    BY <1>4, <2>1, <2>2 DEF TimerFires
<1>5. ASSUME ShowCards PROVE FloorIsCurrent'
  BY <1>5 DEF ShowCards, FloorIsCurrent
<1>6. ASSUME UserActs PROVE FloorIsCurrent'
  <2>1. UNCHANGED modelVars /\ Shown' = Shown /\ place' = place /\ status' = status
    BY <1>6 DEF UserActs, modelVars, Shown
  <2>2. ASSUME NEW k, ShowFloor(k) PROVE FloorIsCurrent'
    BY <2>1, <2>2 DEF ShowFloor, FloorIsCurrent
  <2>3. ASSUME NEW k, SelectCard(k) \/ Pick(k) PROVE FloorIsCurrent'
    BY <1>1, <2>1, <2>3 DEF SelectCard, Pick
  <2> QED
    BY <1>5, <1>6, <2>2, <2>3 DEF UserActs
<1>7. CASE \E k \in Keys, s \in Statuses : NewRow(k, s) \/ ChangedRow(k, s)
  BY <1>2, <1>7 DEF NewRow, ChangedRow
<1>8. CASE \/ \E keys \in SUBSET Keys : ReadingsArrive(keys)
           \/ \E devices \in SUBSET Devices : PlacesArrive(devices)
           \/ \E found \in Searches : Search(found)
  BY <1>1, <1>8 DEF ReadingsArrive, PlacesArrive, Search, sceneVars
<1>9. CASE UNCHANGED vars
  BY <1>1, <1>9 DEF vars, sceneVars
<1> QED
  BY <1>3, <1>4, <1>5, <1>6, <1>7, <1>8, <1>9 DEF Next, ShowInList

\* While no layout is due, the floor shows the rows as they are: every change of a
\* row that is laid out asks for a layout (plant_scene_model.cpp).
THEOREM FloorFollowsRows == Spec => []FloorIsCurrent
<1>1. Init => FloorIsCurrent
  BY DEF Init, SceneInit, FloorIsCurrent
<1> QED
  BY <1>1, StepKeepsFloor, PageInvariant, PTL DEF Spec

-----------------------------------------------------------------------------
(* Finite sets of numbers.                                                  *)

LEMMA MaxIsThere ==
    ASSUME NEW S \in SUBSET Int, IsFiniteSet(S), S # {}
    PROVE  Max(S) \in S /\ \A y \in S : Max(S) >= y
<1> DEFINE Open == {T \in FiniteSubsetsOf(S) : T # {} /\ \A x \in T : \E y \in T : ~(x >= y)}
<1> SUFFICES ASSUME ~(\E x \in S : \A y \in S : x >= y) PROVE FALSE
  BY DEF Max
<1>1. S \in FiniteSubsetsOf(S) /\ S \in Open
  BY DEF FiniteSubsetsOf
<1>2. Open \subseteq FiniteSubsetsOf(S) /\ Open # {}
  BY <1>1
<1>3. IsWellFoundedOn(StrictSubsetOrdering(S), FiniteSubsetsOf(S))
  BY FS_StrictSubsetOrderingWellFounded
<1> HIDE DEF Open
<1>4. PICK T \in Open : \A U \in Open : <<U, T>> \notin StrictSubsetOrdering(S)
  BY <1>2, <1>3, WFMin
<1>5. T \in SUBSET S /\ IsFiniteSet(T) /\ T # {} /\ \A x \in T : \E y \in T : ~(x >= y)
  BY DEF Open, FiniteSubsetsOf
<1>6. PICK z \in T : TRUE
  BY <1>5
<1> DEFINE U == T \ {z}
<1>7. U \in FiniteSubsetsOf(S)
  <2>1. IsFiniteSet(U)
    BY <1>5, FS_RemoveElement
  <2> QED
    BY <1>5, <2>1 DEF FiniteSubsetsOf
<1>8. <<U, T>> \in StrictSubsetOrdering(S)
  BY <1>5, <1>6, <1>7 DEF StrictSubsetOrdering, FiniteSubsetsOf
<1>9. U \notin Open
  BY <1>4, <1>8
<1>10. U # {}
  <2> SUFFICES ASSUME U = {} PROVE FALSE
    OBVIOUS
  <2>1. T = {z}
    BY <1>6
  <2> QED
    BY <1>5, <1>6, <2>1
<1>11. PICK x \in U : \A y \in U : x >= y
  BY <1>7, <1>9, <1>10 DEF Open
<1>12. PICK w \in T : ~(x >= w)
  BY <1>5, <1>11
<1>13. w = z
  BY <1>11, <1>12
<1>14. x \in Int /\ z \in Int /\ \A y \in U : y \in Int
  BY <1>5, <1>6, <1>11
<1>15. \A y \in T : z >= y
  BY <1>6, <1>11, <1>12, <1>13, <1>14
<1> QED
  BY <1>5, <1>6, <1>15

LEMMA MinIsThere ==
    ASSUME NEW S \in SUBSET Nat, S # {}
    PROVE  Min(S) \in S /\ \A y \in S : Min(S) <= y
<1>1. PICK n \in S : n \in Nat
  OBVIOUS
<1> DEFINE below == {n - m : m \in {l \in S : l <= n}}
<1>2. below \subseteq 0..n
  BY <1>1
<1>3. n - n \in below
  BY <1>1
<1>4. IsFiniteSet(below) /\ below \in SUBSET Int
  <2>1. IsFiniteSet(0..n)
    BY <1>1, FS_Interval
  <2>2. below \in SUBSET (0..n)
    BY <1>2
  <2> HIDE DEF below
  <2>3. IsFiniteSet(below)
    BY <2>1, <2>2, FS_Subset
  <2>4. below \in SUBSET Int
    BY <2>2
  <2> QED
    BY <2>3, <2>4
<1>5. PICK x \in below : \A y \in below : x >= y
  <2> HIDE DEF below
  <2> QED
    BY <1>3, <1>4, MaxIsThere
<1>6. PICK m \in S : m <= n /\ x = n - m
  BY <1>5
<1>7. ASSUME NEW y \in S PROVE m <= y
  <2>1. CASE y <= n
    <3>1. n - y \in below
      BY <2>1
    <3>2. x >= n - y
      BY <1>5, <3>1
    <3> QED
      BY <1>1, <1>6, <3>2
  <2> QED
    BY <1>1, <1>6, <2>1
<1> QED
  BY <1>6, <1>7 DEF Min

LEMMA MaxIs ==
    ASSUME NEW S \in SUBSET Int, NEW x \in S, \A y \in S : x >= y
    PROVE  Max(S) = x
<1>1. \A z \in S : (\A y \in S : z >= y) => z = x
  OBVIOUS
<1> QED
  BY <1>1 DEF Max

LEMMA MinIs ==
    ASSUME NEW S \in SUBSET Int, NEW x \in S, \A y \in S : x <= y
    PROVE  Min(S) = x
<1>1. \A z \in S : (\A y \in S : z <= y) => z = x
  OBVIOUS
<1> QED
  BY <1>1 DEF Min

LEMMA ValuesAreFinite ==
    ASSUME NEW S, IsFiniteSet(S), NEW f, DOMAIN f = S
    PROVE  IsFiniteSet({f[x] : x \in S})
<1> DEFINE T == {f[x] : x \in S}
<1> DEFINE g == [x \in S |-> f[x]]
<1>1. g \in Surjection(S, T)
  BY DEF Surjection
<1> QED
  BY <1>1, FS_Surjection

-----------------------------------------------------------------------------
(* Sums of lengths.                                                         *)

Units(lengths) == UNION {{x} \X (1..lengths[x]) : x \in DOMAIN lengths}

LEMMA UnitsAre ==
    ASSUME NEW f, \A x \in DOMAIN f : f[x] \in Nat
    PROVE  \A u : u \in Units(f) <=> \E x \in DOMAIN f : \E i \in 1..f[x] : u = <<x, i>>
  BY DEF Units

LEMMA TotalIsANumber ==
    ASSUME NEW f, IsFiniteSet(DOMAIN f), \A x \in DOMAIN f : f[x] \in Nat
    PROVE  IsFiniteSet(Units(f)) /\ Total(f) \in Nat /\ Total(f) = Cardinality(Units(f))
<1> DEFINE pile == [x \in DOMAIN f |-> {x} \X (1..f[x])]
<1>1. Units(f) = UNION {pile[x] : x \in DOMAIN f}
  BY DEF Units
<1>2. \A x \in DOMAIN f : IsFiniteSet(pile[x])
  <2> SUFFICES ASSUME NEW x \in DOMAIN f PROVE IsFiniteSet({x} \X (1..f[x]))
    OBVIOUS
  <2>1. IsFiniteSet({x})
    BY FS_Singleton
  <2>2. f[x] \in Int /\ 1 \in Int
    OBVIOUS
  <2>3. IsFiniteSet(1..f[x])
    BY <2>2, FS_Interval
  <2> QED
    BY <2>1, <2>3, FS_Product
<1>3. DOMAIN pile = DOMAIN f
  OBVIOUS
<1> HIDE DEF pile
<1>4. IsFiniteSet({pile[x] : x \in DOMAIN f})
  BY <1>3, ValuesAreFinite
<1>5. IsFiniteSet(UNION {pile[x] : x \in DOMAIN f})
  BY <1>2, <1>4, FS_UNION
<1>6. IsFiniteSet(Units(f))
  BY <1>1, <1>5
<1>7. Total(f) = Cardinality(Units(f))
  BY DEF Total, Units
<1> QED
  BY <1>6, <1>7, FS_CardinalityType

\* A sum over more summands is longer by each of the summands it has more.
LEMMA TotalGrows ==
    ASSUME NEW f, IsFiniteSet(DOMAIN f), \A y \in DOMAIN f : f[y] \in Nat,
           NEW g, IsFiniteSet(DOMAIN g), \A y \in DOMAIN g : g[y] \in Nat,
           NEW x \in DOMAIN g, x \notin DOMAIN f,
           \A y \in DOMAIN f : y \in DOMAIN g /\ f[y] = g[y]
    PROVE  Total(g) >= Total(f) + g[x]
<1> DEFINE pile == {x} \X (1..g[x])
<1>1. IsFiniteSet(pile) /\ Cardinality(pile) = g[x]
  <2>1. IsFiniteSet({x}) /\ Cardinality({x}) = 1
    BY FS_Singleton
  <2>2. g[x] \in Int /\ 1 \in Int /\ g[x] \in Nat
    OBVIOUS
  <2>3. IsFiniteSet(1..g[x]) /\ Cardinality(1..g[x]) = g[x]
    <3>1. IsFiniteSet(1..g[x]) /\ Cardinality(1..g[x]) = IF 1 > g[x] THEN 0 ELSE g[x] - 1 + 1
      BY <2>2, FS_Interval
    <3> QED
      BY <2>2, <3>1
  <2>4. IsFiniteSet(pile) /\ Cardinality(pile) = Cardinality({x}) * Cardinality(1..g[x])
    BY <2>1, <2>3, FS_Product
  <2> HIDE DEF pile
  <2> QED
    BY <2>1, <2>2, <2>3, <2>4
<1>2. /\ IsFiniteSet(Units(f)) /\ Total(f) \in Nat /\ Total(f) = Cardinality(Units(f))
      /\ IsFiniteSet(Units(g)) /\ Total(g) \in Nat /\ Total(g) = Cardinality(Units(g))
  BY TotalIsANumber
<1>3. Units(f) \cap pile = {}
  BY UnitsAre
<1>4. Units(f) \cup pile \in SUBSET Units(g)
  BY UnitsAre
<1> HIDE DEF pile
<1>5. /\ IsFiniteSet(Units(f) \cup pile)
      /\ Cardinality(Units(f) \cup pile)
           = Cardinality(Units(f)) + Cardinality(pile) - Cardinality(Units(f) \cap pile)
  BY <1>1, <1>2, FS_Union
<1>6. Cardinality(Units(f) \cap pile) = 0
  BY <1>3, FS_EmptySet
<1>7. Cardinality(Units(f) \cup pile) <= Cardinality(Units(g))
  BY <1>2, <1>4, FS_Subset
<1> QED
  BY <1>1, <1>2, <1>5, <1>6, <1>7

-----------------------------------------------------------------------------
(* Division, and the grid of a zone.                                        *)

LEMMA DivisionOfIntegers ==
    ASSUME NEW a \in Int, NEW b \in Int, b > 0
    PROVE  a = b * (a \div b) + (a % b)
  OBVIOUS

LEMMA Division ==
    ASSUME NEW a \in Nat, NEW b \in Nat \ {0}
    PROVE  a \div b \in Nat /\ a % b \in 0..(b - 1) /\ a = b * (a \div b) + (a % b)
<1>1. a \div b \in Nat
  OBVIOUS
<1>2. a % b \in 0..(b - 1)
  OBVIOUS
<1>3. a \in Int /\ b \in Int /\ b > 0
  OBVIOUS
<1>4. a = b * (a \div b) + (a % b)
  BY <1>3, DivisionOfIntegers
<1> QED
  BY <1>1, <1>2, <1>4

LEMMA ColumnsAre == ASSUME NEW n \in Nat PROVE Columns(n) \in Nat \ {0}
<1> DEFINE enough == {c \in 1..MaxColumns : c = MaxColumns \/ 10 * c * c >= 16 * n}
<1>1. MaxColumns \in enough /\ enough \in SUBSET Nat
  BY ColumnsAssumption
<1>2. \A c \in enough : c \in Nat \ {0}
  BY ColumnsAssumption
<1>3. Columns(n) = Min(enough)
  BY DEF Columns
<1> HIDE DEF enough
<1>4. Min(enough) \in enough
  BY <1>1, MinIsThere
<1> QED
  BY <1>2, <1>3, <1>4

\* The rows of a zone hold its devices.
LEMMA RowsAre ==
    ASSUME NEW n \in Nat \ {0}
    PROVE  RowsFor(n) \in Nat \ {0} /\ n <= Columns(n) * RowsFor(n)
<1> DEFINE c == Columns(n)
<1> DEFINE a == n + c - 1
<1> DEFINE d == a \div c
<1> DEFINE r == a % c
<1>1. c \in Nat \ {0}
  BY ColumnsAre
<1>2. RowsFor(n) = d
  BY DEF RowsFor
<1> HIDE DEF c
<1>3. a \in Nat /\ a = n + c - 1
  BY <1>1
<1> HIDE DEF a
<1>4. d \in Nat /\ r \in 0..(c - 1) /\ a = c * d + r
  BY <1>1, <1>3, Division
<1> HIDE DEF d, r
<1> DEFINE p == c * d
<1>5. p \in Nat /\ a = p + r
  BY <1>1, <1>4
<1>6. d # 0
  <2> SUFFICES ASSUME d = 0 PROVE FALSE
    OBVIOUS
  <2>1. c * d = 0
    BY <1>1
  <2> QED
    BY <1>1, <1>3, <1>4, <2>1
<1> HIDE DEF p
<1>7. n <= p
  BY <1>1, <1>3, <1>4, <1>5
<1> QED
  BY <1>2, <1>4, <1>6, <1>7 DEF p, c

\* The cells of a grid: the column and the row of a rank.
LEMMA CellOfRank ==
    ASSUME NEW rank \in Nat, NEW c \in Nat \ {0}, NEW r \in Nat, rank < c * r
    PROVE  /\ rank % c \in 0..(c - 1) /\ rank \div c \in 0..(r - 1)
           /\ rank = c * (rank \div c) + (rank % c)
<1> DEFINE d == rank \div c
<1>1. d \in Nat /\ rank % c \in 0..(c - 1) /\ rank = c * d + (rank % c)
  BY Division
<1> HIDE DEF d
<1>2. d < r
  <2> SUFFICES ASSUME d >= r PROVE FALSE
    BY <1>1
  <2>1. c * d >= c * r
    BY <1>1
  <2> DEFINE x == c * d
  <2> DEFINE y == c * r
  <2>2. x \in Int /\ y \in Int /\ x >= y /\ rank = x + (rank % c) /\ rank < y
    BY <1>1, <2>1
  <2> HIDE DEF x, y
  <2> QED
    BY <1>1, <2>2
<1>3. d \in 0..(r - 1)
  BY <1>1, <1>2
<1> QED
  BY <1>1, <1>3 DEF d

LEMMA RanksHaveCells ==
    ASSUME NEW j \in Nat, NEW k \in Nat, NEW c \in Nat \ {0}, j % c = k % c, j \div c = k \div c
    PROVE  j = k
<1>1. /\ j = c * (j \div c) + (j % c)
      /\ k = c * (k \div c) + (k % c)
  BY Division
<1> QED
  BY <1>1

-----------------------------------------------------------------------------
(* Plans of a plant.                                                        *)

IsPlan(at) ==
    /\ IsFiniteSet(DOMAIN at) /\ DOMAIN at \subseteq Nat
    /\ \A k \in DOMAIN at : at[k] \in Nat \X Nat

PlacesOf(at) == {at[k] : k \in DOMAIN at}

LEMMA PlacesAre ==
    ASSUME NEW at, IsPlan(at)
    PROVE  /\ IsFiniteSet(PlacesOf(at))
           /\ \A p \in PlacesOf(at) : p = <<p[1], p[2]>> /\ p[1] \in Nat /\ p[2] \in Nat
           /\ IsFiniteSet(Plants(at)) /\ Plants(at) \subseteq Nat
           /\ \A p \in PlacesOf(at) : p[1] \in Plants(at)
           /\ \A plant : /\ IsFiniteSet(Floors(at, plant)) /\ Floors(at, plant) \subseteq PlacesOf(at)
                         /\ \A p : p \in Floors(at, plant) <=> p \in PlacesOf(at) /\ p[1] = plant
<1>1. IsFiniteSet(PlacesOf(at))
  BY ValuesAreFinite DEF IsPlan, PlacesOf
<1>2. \A p \in PlacesOf(at) : p = <<p[1], p[2]>> /\ p[1] \in Nat /\ p[2] \in Nat
  BY DEF IsPlan, PlacesOf
<1>3. IsFiniteSet(Plants(at)) /\ Plants(at) \subseteq Nat /\ \A p \in PlacesOf(at) : p[1] \in Plants(at)
  <2> DEFINE plant == [k \in DOMAIN at |-> at[k][1]]
  <2>1. Plants(at) = {plant[k] : k \in DOMAIN at} /\ DOMAIN plant = DOMAIN at
    BY DEF Plants
  <2> HIDE DEF plant
  <2>2. IsFiniteSet(Plants(at))
    BY <2>1, ValuesAreFinite DEF IsPlan
  <2>3. Plants(at) \subseteq Nat
    BY DEF IsPlan, Plants
  <2> QED
    BY <2>2, <2>3 DEF PlacesOf, Plants
<1>4. ASSUME NEW plant
      PROVE  /\ IsFiniteSet(Floors(at, plant)) /\ Floors(at, plant) \subseteq PlacesOf(at)
             /\ \A p : p \in Floors(at, plant) <=> p \in PlacesOf(at) /\ p[1] = plant
  <2>1. \A p : p \in Floors(at, plant) <=> p \in PlacesOf(at) /\ p[1] = plant
    BY DEF Floors, PlacesOf
  <2>2. Floors(at, plant) \in SUBSET PlacesOf(at)
    BY <2>1
  <2>3. IsFiniteSet(Floors(at, plant))
    BY <1>1, <2>2, FS_Subset
  <2> QED
    BY <2>1, <2>2, <2>3
<1> QED
  BY <1>1, <1>2, <1>3, <1>4

\* Zones are not empty, and devices of a zone have ranks of their own.
LEMMA ZonesAre ==
    ASSUME NEW at, IsPlan(at)
    PROVE  /\ \A p \in PlacesOf(at) : IsFiniteSet(Zone(at, p)) /\ Cardinality(Zone(at, p)) \in Nat \ {0}
           /\ \A k \in DOMAIN at : Rank(at, k) \in Nat /\ Rank(at, k) < Cardinality(Zone(at, at[k]))
           /\ \A j, k \in DOMAIN at : at[j] = at[k] /\ j # k => Rank(at, j) # Rank(at, k)
<1>1. \A p : IsFiniteSet(Zone(at, p)) /\ Zone(at, p) \subseteq DOMAIN at
  <2> SUFFICES ASSUME NEW p PROVE IsFiniteSet(Zone(at, p)) /\ Zone(at, p) \subseteq DOMAIN at
    OBVIOUS
  <2>1. Zone(at, p) \in SUBSET DOMAIN at
    BY DEF Zone
  <2> QED
    BY <2>1, FS_Subset DEF IsPlan
<1>2. ASSUME NEW p \in PlacesOf(at) PROVE Cardinality(Zone(at, p)) \in Nat \ {0}
  <2>1. Zone(at, p) # {}
    BY DEF PlacesOf, Zone
  <2> QED
    BY <1>1, <2>1, FS_EmptySet, FS_CardinalityType
<1> DEFINE Lower(k) == {j \in Zone(at, at[k]) : j < k}
<1>3. \A k : Rank(at, k) = Cardinality(Lower(k))
  BY DEF Rank
<1>4. \A k \in DOMAIN at : k \in Nat /\ k \in Zone(at, at[k])
  BY DEF IsPlan, Zone
<1>5. \A k \in DOMAIN at : Lower(k) \in SUBSET (Zone(at, at[k])) /\ k \notin Lower(k)
  BY <1>1, <1>4
<1>6. \A j, k \in DOMAIN at : at[j] = at[k] /\ j < k => Lower(j) \in SUBSET Lower(k) /\ j \in Lower(k) /\ j \notin Lower(j)
  BY <1>1, <1>4 DEF IsPlan
<1> HIDE DEF Lower
<1>7. ASSUME NEW S, NEW T, IsFiniteSet(S), T \in SUBSET S, NEW x \in S, x \notin T
      PROVE  Cardinality(T) \in Nat /\ Cardinality(S) \in Nat /\ Cardinality(T) < Cardinality(S)
  <2>1. IsFiniteSet(T) /\ Cardinality(T) <= Cardinality(S) /\ (Cardinality(S) = Cardinality(T) => S = T)
    BY <1>7, FS_Subset
  <2>2. Cardinality(T) \in Nat /\ Cardinality(S) \in Nat
    BY <1>7, <2>1, FS_CardinalityType
  <2> QED
    BY <1>7, <2>1, <2>2
<1>8. ASSUME NEW k \in DOMAIN at
      PROVE  Rank(at, k) \in Nat /\ Rank(at, k) < Cardinality(Zone(at, at[k]))
  <2>1. /\ IsFiniteSet(Zone(at, at[k])) /\ Lower(k) \in SUBSET (Zone(at, at[k]))
        /\ k \in Zone(at, at[k]) /\ k \notin Lower(k)
    BY <1>1, <1>4, <1>5
  <2>2. Cardinality(Lower(k)) \in Nat /\ Cardinality(Lower(k)) < Cardinality(Zone(at, at[k]))
    BY <1>7, <2>1
  <2> QED
    BY <1>3, <2>2
<1>9. ASSUME NEW j \in DOMAIN at, NEW k \in DOMAIN at, at[j] = at[k], j < k
      PROVE  Rank(at, j) < Rank(at, k)
  <2>1. Lower(j) \in SUBSET Lower(k) /\ j \in Lower(k) /\ j \notin Lower(j)
    BY <1>6, <1>9
  <2>2. IsFiniteSet(Lower(k))
    BY <1>1, <1>5, FS_Subset
  <2>3. Cardinality(Lower(j)) < Cardinality(Lower(k))
    BY <1>7, <2>1, <2>2
  <2> QED
    BY <1>3, <2>3
<1>10. ASSUME NEW j \in DOMAIN at, NEW k \in DOMAIN at, at[j] = at[k], j # k
       PROVE  Rank(at, j) # Rank(at, k)
  <2>1. j < k \/ k < j
    BY <1>4, <1>10
  <2>2. Rank(at, j) \in Nat /\ Rank(at, k) \in Nat
    BY <1>8
  <2> QED
    BY <1>9, <1>10, <2>1, <2>2
<1> QED
  BY <1>1, <1>2, <1>8, <1>10

\* The width of a plant, and the columns of its floors.
LEMMA WidthsAre ==
    ASSUME NEW at, IsPlan(at), NEW p \in PlacesOf(at)
    PROVE  /\ PlantWidth(at, p[1]) \in Nat
           /\ PlantWidth(at, p[1]) >= Spacing * Columns(Cardinality(Zone(at, p)))
           /\ Depth(at, p) \in Nat
           /\ Depth(at, p) = Spacing * RowsFor(Cardinality(Zone(at, p)))
<1> DEFINE floors == Floors(at, p[1])
<1> DEFINE columns == [q \in floors |-> Columns(Cardinality(Zone(at, q)))]
<1>1. IsFiniteSet(floors) /\ p \in floors /\ \A q \in floors : q \in PlacesOf(at)
  BY PlacesAre
<1>2. \A q \in floors : columns[q] \in Nat \ {0}
  <2> SUFFICES ASSUME NEW q \in floors PROVE Columns(Cardinality(Zone(at, q))) \in Nat \ {0}
    OBVIOUS
  <2>1. Cardinality(Zone(at, q)) \in Nat
    BY <1>1, ZonesAre
  <2> QED
    BY <2>1, ColumnsAre
<1>3. /\ PlantWidth(at, p[1]) = Spacing * Max({columns[q] : q \in floors})
      /\ DOMAIN columns = floors /\ columns[p] = Columns(Cardinality(Zone(at, p)))
  BY <1>1 DEF PlantWidth
<1> HIDE DEF columns, floors
<1>4. IsFiniteSet({columns[q] : q \in floors})
  BY <1>1, <1>3, ValuesAreFinite
<1>5. {columns[q] : q \in floors} \in SUBSET Int /\ columns[p] \in {columns[q] : q \in floors}
  BY <1>1, <1>2
<1> DEFINE widest == Max({columns[q] : q \in floors})
<1>6. widest \in {columns[q] : q \in floors} /\ widest >= columns[p]
  BY <1>4, <1>5, MaxIsThere
<1>7. widest \in Nat /\ columns[p] \in Nat
  BY <1>1, <1>2, <1>6
<1> HIDE DEF widest
<1>8. Spacing * widest \in Nat /\ Spacing * widest >= Spacing * columns[p]
  BY <1>6, <1>7 DEF Spacing
<1>9. RowsFor(Cardinality(Zone(at, p))) \in Nat
  BY ZonesAre, RowsAre
<1>10. Depth(at, p) \in Nat /\ Depth(at, p) = Spacing * RowsFor(Cardinality(Zone(at, p)))
  BY <1>9 DEF Depth, Spacing
<1> QED
  BY <1>3, <1>8, <1>10 DEF widest

\* Plants stand side by side, in their order.
LEMMA LeftIs ==
    ASSUME NEW at, IsPlan(at)
    PROVE  /\ \A p \in PlacesOf(at) : Left(at, p) \in Nat
           /\ \A p, q \in PlacesOf(at) :
                /\ p[1] = q[1] => Left(at, p) = Left(at, q)
                /\ p[1] < q[1] => Left(at, q) >= Left(at, p) + PlantWidth(at, p[1]) + PlantGap
<1> DEFINE before(p) == {plant \in Plants(at) : plant < p[1]}
<1> DEFINE lengths(p) == [plant \in before(p) |-> PlantWidth(at, plant) + PlantGap]
<1>1. \A p : Left(at, p) = Total(lengths(p))
  BY DEF Left
<1>2. \A plant \in Plants(at) : PlantWidth(at, plant) + PlantGap \in Nat
  <2> SUFFICES ASSUME NEW plant \in Plants(at) PROVE PlantWidth(at, plant) + PlantGap \in Nat
    OBVIOUS
  <2>1. PICK k \in DOMAIN at : plant = at[k][1]
    BY DEF Plants
  <2>2. at[k] \in PlacesOf(at)
    BY DEF PlacesOf
  <2>3. PlantWidth(at, plant) \in Nat
    BY <2>1, <2>2, WidthsAre
  <2> QED
    BY <2>3 DEF PlantGap
<1>3. ASSUME NEW p \in PlacesOf(at)
      PROVE  /\ IsFiniteSet(before(p)) /\ DOMAIN lengths(p) = before(p)
             /\ \A plant \in before(p) :
                  lengths(p)[plant] \in Nat /\ lengths(p)[plant] = PlantWidth(at, plant) + PlantGap
  <2>1. IsFiniteSet(Plants(at)) /\ before(p) \in SUBSET Plants(at)
    BY PlacesAre
  <2>2. IsFiniteSet(before(p))
    BY <2>1, FS_Subset
  <2> QED
    BY <1>2, <2>2
<1>4. \A p \in PlacesOf(at) : p[1] \in Nat /\ p[1] \in Plants(at)
  BY PlacesAre
<1>5. \A plant \in Plants(at) : plant \in Nat
  BY PlacesAre
<1>6. ASSUME NEW p \in PlacesOf(at), NEW q \in PlacesOf(at), p[1] < q[1]
      PROVE  /\ p[1] \in before(q) /\ p[1] \notin before(p)
             /\ \A plant \in before(p) : plant \in before(q)
  BY <1>4, <1>5, <1>6
<1>7. ASSUME NEW p \in PlacesOf(at), NEW q \in PlacesOf(at), p[1] = q[1]
      PROVE  lengths(p) = lengths(q)
  BY <1>7
<1> HIDE DEF lengths, before
<1>8. ASSUME NEW p \in PlacesOf(at) PROVE Total(lengths(p)) \in Nat
  BY <1>3, TotalIsANumber
<1>9. ASSUME NEW p \in PlacesOf(at), NEW q \in PlacesOf(at), p[1] < q[1]
      PROVE  Total(lengths(q)) >= Total(lengths(p)) + PlantWidth(at, p[1]) + PlantGap
  <2>1. /\ IsFiniteSet(DOMAIN lengths(p)) /\ \A y \in DOMAIN lengths(p) : lengths(p)[y] \in Nat
        /\ IsFiniteSet(DOMAIN lengths(q)) /\ \A y \in DOMAIN lengths(q) : lengths(q)[y] \in Nat
        /\ p[1] \in DOMAIN lengths(q) /\ p[1] \notin DOMAIN lengths(p)
        /\ \A y \in DOMAIN lengths(p) : y \in DOMAIN lengths(q) /\ lengths(p)[y] = lengths(q)[y]
    BY <1>3, <1>6, <1>9
  <2>2. Total(lengths(q)) >= Total(lengths(p)) + lengths(q)[p[1]]
    BY <2>1, TotalGrows
  <2>3. lengths(q)[p[1]] = PlantWidth(at, p[1]) + PlantGap
    BY <1>3, <1>6, <1>9
  <2>4. Total(lengths(p)) \in Nat /\ PlantWidth(at, p[1]) \in Nat /\ Total(lengths(q)) \in Nat
    BY <1>8, WidthsAre
  <2> QED
    BY <2>2, <2>3, <2>4 DEF PlantGap
<1> QED
  BY <1>1, <1>7, <1>8, <1>9

\* The floors of a plant lie one behind the other, in their order.
LEMMA NearIs ==
    ASSUME NEW at, IsPlan(at)
    PROVE  /\ \A p \in PlacesOf(at) : Near(at, p) \in Nat
           /\ \A p, q \in PlacesOf(at) :
                p[1] = q[1] /\ p[2] < q[2] => Near(at, q) >= Near(at, p) + Depth(at, p) + ZoneGap
<1> DEFINE before(p) == {f \in Floors(at, p[1]) : f[2] < p[2]}
<1> DEFINE lengths(p) == [f \in before(p) |-> Depth(at, f) + ZoneGap]
<1>1. \A p : Near(at, p) = Total(lengths(p))
  BY DEF Near
<1>2. \A f \in PlacesOf(at) : Depth(at, f) \in Nat /\ Depth(at, f) + ZoneGap \in Nat
  BY WidthsAre DEF ZoneGap
<1>3. \A p \in PlacesOf(at) :
        /\ p[2] \in Nat /\ IsFiniteSet(Floors(at, p[1]))
        /\ \A f : f \in Floors(at, p[1]) <=> f \in PlacesOf(at) /\ f[1] = p[1]
  BY PlacesAre
<1>4. ASSUME NEW p \in PlacesOf(at)
      PROVE  /\ IsFiniteSet(before(p)) /\ DOMAIN lengths(p) = before(p)
             /\ \A f \in before(p) : lengths(p)[f] \in Nat /\ lengths(p)[f] = Depth(at, f) + ZoneGap
  <2>1. IsFiniteSet(Floors(at, p[1])) /\ before(p) \in SUBSET Floors(at, p[1])
    BY <1>3
  <2>2. IsFiniteSet(before(p))
    BY <2>1, FS_Subset
  <2> QED
    BY <1>2, <1>3, <2>2
<1>5. ASSUME NEW p \in PlacesOf(at), NEW q \in PlacesOf(at), p[1] = q[1], p[2] < q[2]
      PROVE  p \in before(q) /\ p \notin before(p) /\ \A f \in before(p) : f \in before(q)
  BY <1>3, <1>5
<1> HIDE DEF lengths, before
<1>6. ASSUME NEW p \in PlacesOf(at) PROVE Total(lengths(p)) \in Nat
  BY <1>4, TotalIsANumber
<1>7. ASSUME NEW p \in PlacesOf(at), NEW q \in PlacesOf(at), p[1] = q[1], p[2] < q[2]
      PROVE  Total(lengths(q)) >= Total(lengths(p)) + Depth(at, p) + ZoneGap
  <2>1. /\ IsFiniteSet(DOMAIN lengths(p)) /\ \A y \in DOMAIN lengths(p) : lengths(p)[y] \in Nat
        /\ IsFiniteSet(DOMAIN lengths(q)) /\ \A y \in DOMAIN lengths(q) : lengths(q)[y] \in Nat
        /\ p \in DOMAIN lengths(q) /\ p \notin DOMAIN lengths(p)
        /\ \A y \in DOMAIN lengths(p) : y \in DOMAIN lengths(q) /\ lengths(p)[y] = lengths(q)[y]
    BY <1>4, <1>5, <1>7
  <2>2. Total(lengths(q)) >= Total(lengths(p)) + lengths(q)[p]
    BY <2>1, TotalGrows
  <2>3. lengths(q)[p] = Depth(at, p) + ZoneGap
    BY <1>4, <1>5, <1>7
  <2>4. Total(lengths(p)) \in Nat /\ Depth(at, p) \in Nat /\ Total(lengths(q)) \in Nat
    BY <1>2, <1>6
  <2> QED
    BY <2>2, <2>3, <2>4 DEF ZoneGap
<1> QED
  BY <1>1, <1>6, <1>7

\* Zones put about the middle of a scene with these ends.
LieBetween(zones, at, left, right, near, far) ==
    /\ \A p \in PlacesOf(at) :
         /\ zones[p].x = 2 * Left(at, p) + PlantWidth(at, p[1]) - (left + right)
         /\ zones[p].z = 2 * Near(at, p) + Depth(at, p) - (near + far)
         /\ zones[p].width = PlantWidth(at, p[1]) /\ zones[p].depth = Depth(at, p)
         /\ left <= Left(at, p) /\ Left(at, p) + PlantWidth(at, p[1]) <= right
         /\ near <= Near(at, p) /\ Near(at, p) + Depth(at, p) <= far
    /\ \E p \in PlacesOf(at) : Left(at, p) = left
    /\ \E p \in PlacesOf(at) : Left(at, p) + PlantWidth(at, p[1]) = right
    /\ \E p \in PlacesOf(at) : Near(at, p) = near
    /\ \E p \in PlacesOf(at) : Near(at, p) + Depth(at, p) = far

LEMMA ZonesLie ==
    ASSUME NEW at, IsPlan(at), DOMAIN at # {}
    PROVE  \E left, right, near, far \in Int : LieBetween(Zones(at), at, left, right, near, far)
<1> DEFINE places == PlacesOf(at)
<1> DEFINE L == [p \in places |-> Left(at, p)]
<1> DEFINE R == [p \in places |-> Left(at, p) + PlantWidth(at, p[1])]
<1> DEFINE N == [p \in places |-> Near(at, p)]
<1> DEFINE F == [p \in places |-> Near(at, p) + Depth(at, p)]
<1> DEFINE Ends(f) == {f[p] : p \in places}
<1>1. IsFiniteSet(places) /\ places # {}
  <2>1. places # {}
    BY DEF PlacesOf
  <2> QED
    BY <2>1, PlacesAre
<1>2. \A p \in places : L[p] \in Nat /\ R[p] \in Nat /\ N[p] \in Nat /\ F[p] \in Nat
  <2> SUFFICES ASSUME NEW p \in places
               PROVE  /\ Left(at, p) \in Nat /\ Left(at, p) + PlantWidth(at, p[1]) \in Nat
                      /\ Near(at, p) \in Nat /\ Near(at, p) + Depth(at, p) \in Nat
    OBVIOUS
  <2>1. Left(at, p) \in Nat /\ Near(at, p) \in Nat /\ PlantWidth(at, p[1]) \in Nat /\ Depth(at, p) \in Nat
    BY LeftIs, NearIs, WidthsAre
  <2> QED
    BY <2>1
<1>3. /\ Min({Left(at, p) : p \in places}) = Min(Ends(L))
      /\ Max({Left(at, p) + PlantWidth(at, p[1]) : p \in places}) = Max(Ends(R))
      /\ Min({Near(at, p) : p \in places}) = Min(Ends(N))
      /\ Max({Near(at, p) + Depth(at, p) : p \in places}) = Max(Ends(F))
  <2>1. /\ {Left(at, p) : p \in places} = Ends(L)
        /\ {Left(at, p) + PlantWidth(at, p[1]) : p \in places} = Ends(R)
        /\ {Near(at, p) : p \in places} = Ends(N)
        /\ {Near(at, p) + Depth(at, p) : p \in places} = Ends(F)
    OBVIOUS
  <2> HIDE DEF L, R, N, F, places, Ends
  <2> QED
    BY <2>1
<1>4. /\ DOMAIN L = places /\ DOMAIN R = places /\ DOMAIN N = places /\ DOMAIN F = places
      /\ \A p \in places : /\ L[p] = Left(at, p) /\ R[p] = Left(at, p) + PlantWidth(at, p[1])
                           /\ N[p] = Near(at, p) /\ F[p] = Near(at, p) + Depth(at, p)
  OBVIOUS
<1>5. DOMAIN Zones(at) = places
      /\ \A p \in places :
           /\ Zones(at)[p].x = 2 * Left(at, p) + PlantWidth(at, p[1]) - (Min(Ends(L)) + Max(Ends(R)))
           /\ Zones(at)[p].z = 2 * Near(at, p) + Depth(at, p) - (Min(Ends(N)) + Max(Ends(F)))
           /\ Zones(at)[p].width = PlantWidth(at, p[1]) /\ Zones(at)[p].depth = Depth(at, p)
  <2> DEFINE zone(p) == [x |-> 2 * Left(at, p) + PlantWidth(at, p[1]) - (Min(Ends(L)) + Max(Ends(R))),
                         z |-> 2 * Near(at, p) + Depth(at, p) - (Min(Ends(N)) + Max(Ends(F))),
                         width |-> PlantWidth(at, p[1]), depth |-> Depth(at, p)]
  <2>1. Zones(at) = [p \in places |-> zone(p)]
    BY <1>3 DEF Zones, PlacesOf
  <2> HIDE DEF L, R, N, F, places, Ends
  <2> QED
    BY <2>1
<1> HIDE DEF L, R, N, F, places
<1>6. ASSUME NEW f, DOMAIN f = places, \A p \in places : f[p] \in Nat
      PROVE  /\ Min(Ends(f)) \in Int /\ \A p \in places : Min(Ends(f)) <= f[p]
             /\ \E p \in places : f[p] = Min(Ends(f))
             /\ Max(Ends(f)) \in Int /\ \A p \in places : f[p] <= Max(Ends(f))
             /\ \E p \in places : f[p] = Max(Ends(f))
  <2>1. IsFiniteSet(Ends(f))
    BY <1>1, <1>6, ValuesAreFinite
  <2>2. Ends(f) \in SUBSET Nat /\ Ends(f) \in SUBSET Int /\ Ends(f) # {}
    BY <1>1, <1>6
  <2>3. \A p \in places : f[p] \in Ends(f)
    OBVIOUS
  <2>4. \A e \in Ends(f) : \E p \in places : f[p] = e
    OBVIOUS
  <2> HIDE DEF Ends
  <2>5. Min(Ends(f)) \in Ends(f) /\ \A y \in Ends(f) : Min(Ends(f)) <= y
    BY <2>2, MinIsThere
  <2>6. Max(Ends(f)) \in Ends(f) /\ \A y \in Ends(f) : Max(Ends(f)) >= y
    BY <2>1, <2>2, MaxIsThere
  <2>7. Max(Ends(f)) \in Int /\ Min(Ends(f)) \in Int
    BY <2>2, <2>5, <2>6
  <2>8. \A p \in places : f[p] <= Max(Ends(f))
    BY <1>6, <2>3, <2>6, <2>7
  <2> QED
    BY <2>3, <2>4, <2>5, <2>6, <2>7, <2>8
<1> HIDE DEF Ends
<1> DEFINE left == Min(Ends(L))
<1> DEFINE right == Max(Ends(R))
<1> DEFINE near == Min(Ends(N))
<1> DEFINE far == Max(Ends(F))
<1>7. /\ left \in Int /\ \A p \in places : left <= L[p]
      /\ \E p \in places : L[p] = left
  BY <1>2, <1>4, <1>6
<1>8. /\ right \in Int /\ \A p \in places : R[p] <= right
      /\ \E p \in places : R[p] = right
  BY <1>2, <1>4, <1>6
<1>9. /\ near \in Int /\ \A p \in places : near <= N[p]
      /\ \E p \in places : N[p] = near
  BY <1>2, <1>4, <1>6
<1>10. /\ far \in Int /\ \A p \in places : F[p] <= far
       /\ \E p \in places : F[p] = far
  BY <1>2, <1>4, <1>6
<1>11. \A p \in places :
         /\ Zones(at)[p].x = 2 * Left(at, p) + PlantWidth(at, p[1]) - (left + right)
         /\ Zones(at)[p].z = 2 * Near(at, p) + Depth(at, p) - (near + far)
  BY <1>5
<1> HIDE DEF left, right, near, far
<1>12. \A p \in places :
         /\ left <= Left(at, p) /\ Left(at, p) + PlantWidth(at, p[1]) <= right
         /\ near <= Near(at, p) /\ Near(at, p) + Depth(at, p) <= far
  BY <1>4, <1>7, <1>8, <1>9, <1>10
<1>13. /\ \E p \in places : Left(at, p) = left
       /\ \E p \in places : Left(at, p) + PlantWidth(at, p[1]) = right
       /\ \E p \in places : Near(at, p) = near
       /\ \E p \in places : Near(at, p) + Depth(at, p) = far
  BY <1>4, <1>7, <1>8, <1>9, <1>10
<1>14. left \in Int /\ right \in Int /\ near \in Int /\ far \in Int
  BY <1>7, <1>8, <1>9, <1>10
<1>15. places = PlacesOf(at)
  BY DEF places
<1> USE <1>14
<1> WITNESS left \in Int, right \in Int, near \in Int, far \in Int
<1>16. \A p \in PlacesOf(at) :
         /\ Zones(at)[p].x = 2 * Left(at, p) + PlantWidth(at, p[1]) - (left + right)
         /\ Zones(at)[p].z = 2 * Near(at, p) + Depth(at, p) - (near + far)
         /\ Zones(at)[p].width = PlantWidth(at, p[1]) /\ Zones(at)[p].depth = Depth(at, p)
         /\ left <= Left(at, p) /\ Left(at, p) + PlantWidth(at, p[1]) <= right
         /\ near <= Near(at, p) /\ Near(at, p) + Depth(at, p) <= far
  BY <1>5, <1>11, <1>12, <1>15
<1> QED
  BY <1>13, <1>15, <1>16 DEF LieBetween

\* The cell of a device lies in its zone; rank, columns and rows decide where.
LEMMA CellIs ==
    ASSUME NEW rank \in Nat, NEW c \in Nat \ {0}, NEW r \in Nat, rank < c * r,
           NEW x \in Int, NEW z \in Int, NEW w \in Nat, w >= Spacing * c,
           NEW cx, cx = x + (2 * (rank % c) + 1 - c) * Spacing,
           NEW cz, cz = z + (2 * (rank \div c) + 1) * Spacing - Spacing * r
    PROVE  /\ cx \in Int /\ cz \in Int
           /\ Within(cx, Spacing, x, w) /\ Within(cz, Spacing, z, Spacing * r)
<1> DEFINE col == rank % c
<1> DEFINE row == rank \div c
<1>1. col \in 0..(c - 1) /\ row \in 0..(r - 1)
  BY CellOfRank
<1>2. cx = x + (2 * col + 1 - c) * Spacing /\ cz = z + (2 * row + 1) * Spacing - Spacing * r
  OBVIOUS
<1> HIDE DEF col, row
<1>3. cx \in Int /\ Within(cx, Spacing, x, w)
  BY <1>1, <1>2 DEF Within, Spacing
<1>4. cz \in Int /\ Within(cz, Spacing, z, Spacing * r)
  BY <1>1, <1>2 DEF Within, Spacing
<1> QED
  BY <1>3, <1>4

\* Two cells of a zone.
LEMMA CellsOfAZone ==
    ASSUME NEW j \in Nat, NEW k \in Nat, j # k, NEW c \in Nat \ {0},
           NEW x \in Int, NEW z \in Int
    PROVE  \/ Apart(x + (2 * (j % c) + 1 - c) * Spacing, Spacing, x + (2 * (k % c) + 1 - c) * Spacing, Spacing)
           \/ Apart(z + (2 * (j \div c) + 1) * Spacing, Spacing, z + (2 * (k \div c) + 1) * Spacing, Spacing)
<1> DEFINE cj == j % c
<1> DEFINE ck == k % c
<1> DEFINE rj == j \div c
<1> DEFINE rk == k \div c
<1>1. cj \in Int /\ ck \in Int /\ rj \in Int /\ rk \in Int
  BY Division
<1>2. cj # ck \/ rj # rk
  BY RanksHaveCells
<1> HIDE DEF cj, ck, rj, rk
<1>3. \/ Apart(x + (2 * cj + 1 - c) * Spacing, Spacing, x + (2 * ck + 1 - c) * Spacing, Spacing)
      \/ Apart(z + (2 * rj + 1) * Spacing, Spacing, z + (2 * rk + 1) * Spacing, Spacing)
  BY <1>1, <1>2 DEF Apart, Spacing
<1> QED
  BY <1>3 DEF cj, ck, rj, rk

\* Parts of intervals that keep apart keep apart.
LEMMA PartsKeepApart ==
    ASSUME NEW c1 \in Int, NEW l1 \in Int, NEW c2 \in Int, NEW l2 \in Int, Apart(c1, l1, c2, l2),
           NEW d1 \in Int, NEW d2 \in Int, NEW l \in Int, Within(d1, l, c1, l1), Within(d2, l, c2, l2)
    PROVE  Apart(d1, l, d2, l)
  BY DEF Apart, Within

LEMMA FarAway ==
    ASSUME NEW a \in Int, NEW b \in Int, NEW s \in Int, s \in {-1, 1}, a - b >= 8 \/ b - a >= 8
    PROVE  (a - (b + s)) * (a - (b + s)) > 21
<1> DEFINE d == a - (b + s)
<1>1. d \in Int /\ (d >= 7 \/ -d >= 7)
  OBVIOUS
<1> HIDE DEF d
<1>2. d * d >= 49
  BY <1>1
<1>3. d * d > 21
  <2> DEFINE e == d * d
  <2>1. e \in Int /\ e >= 49
    BY <1>1, <1>2
  <2> HIDE DEF e
  <2>2. e > 21
    BY <2>1
  <2> QED
    BY <2>2 DEF e
<1> QED
  BY <1>3 DEF d

LEMMA SquaresAre == ASSUME NEW a \in Int PROVE a * a \in Nat
<1>1. CASE a >= 0
  BY <1>1
<1>2. CASE a <= 0
  BY <1>2
<1> QED
  BY <1>1, <1>2

\* A click near a device whose neighbours keep away finds it.
StandsClear(at, cells, k) ==
    \A j \in DOMAIN at :
       /\ cells[j].x \in Int /\ cells[j].z \in Int
       /\ j # k => \/ Apart(cells[j].x, Spacing, cells[k].x, Spacing)
                   \/ Apart(cells[j].z, Spacing, cells[k].z, Spacing)

LEMMA ClickFindsDevice ==
    ASSUME NEW at, IsPlan(at), NEW cells, NEW k \in DOMAIN at, StandsClear(at, cells, k)
    PROVE  Nearest(at, cells, cells[k].x + 1, cells[k].z - 1, 21) = {k}
<1> USE DEF StandsClear
<1> DEFINE x == cells[k].x + 1
<1> DEFINE z == cells[k].z - 1
<1> DEFINE distance2 == [j \in DOMAIN at |-> (cells[j].x - x) * (cells[j].x - x)
                                              + (cells[j].z - z) * (cells[j].z - z)]
<1>1. distance2[k] = 2
  <2>1. cells[k].x - x = -1 /\ cells[k].z - z = 1 /\ distance2[k] = (cells[k].x - x) * (cells[k].x - x)
                                              + (cells[k].z - z) * (cells[k].z - z)
    OBVIOUS
  <2> HIDE DEF x, z, distance2
  <2>2. distance2[k] = (-1) * (-1) + 1 * 1
    BY <2>1
  <2> QED
    BY <2>2
<1>2. ASSUME NEW j \in DOMAIN at, j # k PROVE ~(distance2[j] <= 21)
  <2> DEFINE a == cells[j].x - x
  <2> DEFINE b == cells[j].z - z
  <2>1. a \in Int /\ b \in Int
    OBVIOUS
  <2>2. a * a > 21 \/ b * b > 21
    <3>1. \/ cells[j].x - cells[k].x >= 8 \/ cells[k].x - cells[j].x >= 8
          \/ cells[j].z - cells[k].z >= 8 \/ cells[k].z - cells[j].z >= 8
      BY <1>2 DEF Apart, Spacing
    <3>2. /\ cells[j].x \in Int /\ cells[k].x \in Int /\ cells[j].z \in Int /\ cells[k].z \in Int
          /\ a = cells[j].x - (cells[k].x + 1) /\ b = cells[j].z - (cells[k].z + -1)
      OBVIOUS
    <3> HIDE DEF a, b, x, z, distance2
    <3>3. CASE cells[j].x - cells[k].x >= 8 \/ cells[k].x - cells[j].x >= 8
      <4>1. 1 \in Int /\ 1 \in {-1, 1}
        OBVIOUS
      <4>2. (cells[j].x - (cells[k].x + 1)) * (cells[j].x - (cells[k].x + 1)) > 21
        BY <3>2, <3>3, <4>1, FarAway
      <4> QED
        BY <3>2, <4>2
    <3>4. CASE cells[j].z - cells[k].z >= 8 \/ cells[k].z - cells[j].z >= 8
      <4>1. -1 \in Int /\ -1 \in {-1, 1}
        OBVIOUS
      <4>2. (cells[j].z - (cells[k].z + -1)) * (cells[j].z - (cells[k].z + -1)) > 21
        BY <3>2, <3>4, <4>1, FarAway
      <4> QED
        BY <3>2, <4>2
    <3> QED
      BY <3>1, <3>3, <3>4
  <2>3. distance2[j] = a * a + b * b
    OBVIOUS
  <2> HIDE DEF a, b, distance2
  <2> DEFINE p == a * a
  <2> DEFINE q == b * b
  <2>4. p \in Nat /\ q \in Nat
    BY <2>1, SquaresAre
  <2>5. (p > 21 \/ q > 21) /\ distance2[j] = p + q
    BY <2>2, <2>3
  <2> HIDE DEF p, q
  <2> QED
    BY <2>4, <2>5
<1> DEFINE within == {j \in DOMAIN at : distance2[j] <= 21}
<1> DEFINE closest == {j \in within : \A i \in within : distance2[j] <= distance2[i]}
<1>3. Nearest(at, cells, x, z, 21) = {j \in closest : \A i \in closest : ~Before(at, j, i)}
  BY DEF Nearest
<1> HIDE DEF distance2, x, z
<1>4. within = {k}
  BY <1>1, <1>2
<1> HIDE DEF within
<1>5. closest = {k}
  BY <1>1, <1>4
<1> HIDE DEF closest
<1>6. ~Before(at, k, k)
  <2>1. k \in Nat /\ at[k][1] \in Nat /\ at[k][2] \in Nat
    BY DEF IsPlan
  <2> QED
    BY <2>1 DEF Before
<1>7. Nearest(at, cells, x, z, 21) = {k}
  BY <1>3, <1>5, <1>6
<1> QED
  BY <1>7 DEF x, z

\* Any plan is laid out soundly.
LEMMA LayoutOfAPlan == ASSUME NEW at, IsPlan(at) PROVE LayoutIsSound(at)
<1> DEFINE zones == Layout(at).zones
<1> DEFINE cells == Layout(at).devices
<1>1. zones = Zones(at) /\ cells = [k \in DOMAIN at |-> Cell(at, k, Zones(at)[at[k]])]
  BY DEF Layout
<1>2. \A p \in PlacesOf(at) :
        /\ Left(at, p) \in Nat /\ PlantWidth(at, p[1]) \in Nat
        /\ Near(at, p) \in Nat /\ Depth(at, p) \in Nat
        /\ PlantWidth(at, p[1]) >= Spacing * Columns(Cardinality(Zone(at, p)))
        /\ Depth(at, p) = Spacing * RowsFor(Cardinality(Zone(at, p)))
  BY LeftIs, NearIs, WidthsAre
<1>3. DOMAIN zones = PlacesOf(at)
  BY <1>1 DEF Zones, PlacesOf
<1> HIDE DEF zones, cells
<1>4. ASSUME NEW p \in PlacesOf(at), NEW q \in PlacesOf(at), p # q
      PROVE  \/ Apart(zones[p].x, zones[p].width, zones[q].x, zones[q].width)
             \/ Apart(zones[p].z, zones[p].depth, zones[q].z, zones[q].depth)
  <2>1. DOMAIN at # {}
    BY DEF PlacesOf
  <2>2. PICK left \in Int, right \in Int, near \in Int, far \in Int :
          LieBetween(zones, at, left, right, near, far)
    BY <1>1, <2>1, ZonesLie
  <2>3. /\ p = <<p[1], p[2]>> /\ p[1] \in Nat /\ p[2] \in Nat
        /\ q = <<q[1], q[2]>> /\ q[1] \in Nat /\ q[2] \in Nat
    BY PlacesAre
  <2>4. p[1] < q[1] \/ q[1] < p[1] \/ (p[1] = q[1] /\ (p[2] < q[2] \/ q[2] < p[2]))
    BY <1>4, <2>3
  <2>5. /\ p[1] < q[1] => Left(at, q) >= Left(at, p) + PlantWidth(at, p[1]) + PlantGap
        /\ q[1] < p[1] => Left(at, p) >= Left(at, q) + PlantWidth(at, q[1]) + PlantGap
        /\ p[1] = q[1] /\ p[2] < q[2] => Near(at, q) >= Near(at, p) + Depth(at, p) + ZoneGap
        /\ p[1] = q[1] /\ q[2] < p[2] => Near(at, p) >= Near(at, q) + Depth(at, q) + ZoneGap
    BY LeftIs, NearIs
  <2>6. /\ Left(at, p) \in Nat /\ PlantWidth(at, p[1]) \in Nat /\ Near(at, p) \in Nat /\ Depth(at, p) \in Nat
        /\ Left(at, q) \in Nat /\ PlantWidth(at, q[1]) \in Nat /\ Near(at, q) \in Nat /\ Depth(at, q) \in Nat
    BY <1>2
  <2> DEFINE Lp == Left(at, p)
  <2> DEFINE Wp == PlantWidth(at, p[1])
  <2> DEFINE Np == Near(at, p)
  <2> DEFINE Dp == Depth(at, p)
  <2> DEFINE Lq == Left(at, q)
  <2> DEFINE Wq == PlantWidth(at, q[1])
  <2> DEFINE Nq == Near(at, q)
  <2> DEFINE Dq == Depth(at, q)
  <2> DEFINE cx == left + right
  <2> DEFINE cz == near + far
  <2>7. /\ Lp \in Nat /\ Wp \in Nat /\ Np \in Nat /\ Dp \in Nat /\ Lq \in Nat /\ Wq \in Nat /\ Nq \in Nat /\ Dq \in Nat
        /\ cx \in Int /\ cz \in Int
    BY <2>6
  <2>8. \/ Lq >= Lp + Wp + PlantGap \/ Lp >= Lq + Wq + PlantGap
        \/ Nq >= Np + Dp + ZoneGap \/ Np >= Nq + Dq + ZoneGap
    BY <2>4, <2>5
  <2>9. /\ zones[p].x = 2 * Lp + Wp - cx /\ zones[p].z = 2 * Np + Dp - cz
        /\ zones[p].width = Wp /\ zones[p].depth = Dp
        /\ zones[q].x = 2 * Lq + Wq - cx /\ zones[q].z = 2 * Nq + Dq - cz
        /\ zones[q].width = Wq /\ zones[q].depth = Dq
    BY <2>2 DEF LieBetween
  <2> HIDE DEF Lp, Wp, Np, Dp, Lq, Wq, Nq, Dq, cx, cz
  <2> QED
    BY <2>7, <2>8, <2>9 DEF Apart, PlantGap, ZoneGap
<1>5. ASSUME NEW k \in DOMAIN at
      PROVE  /\ at[k] \in PlacesOf(at) /\ Rank(at, k) \in Nat
             /\ Columns(Cardinality(Zone(at, at[k]))) \in Nat \ {0}
             /\ zones[at[k]].x \in Int /\ zones[at[k]].z \in Int
             /\ zones[at[k]].width \in Nat /\ zones[at[k]].depth \in Nat
             /\ cells[k].x \in Int /\ cells[k].z \in Int
             /\ Within(cells[k].x, Spacing, zones[at[k]].x, zones[at[k]].width)
             /\ Within(cells[k].z, Spacing, zones[at[k]].z, zones[at[k]].depth)
             /\ cells[k].x = zones[at[k]].x + (2 * (Rank(at, k) % Columns(Cardinality(Zone(at, at[k])))) + 1
                                               - Columns(Cardinality(Zone(at, at[k])))) * Spacing
             /\ cells[k].z = zones[at[k]].z
                             + (2 * (Rank(at, k) \div Columns(Cardinality(Zone(at, at[k])))) + 1) * Spacing
                             - zones[at[k]].depth
  <2> DEFINE p == at[k]
  <2> DEFINE n == Cardinality(Zone(at, p))
  <2> DEFINE c == Columns(n)
  <2> DEFINE r == RowsFor(n)
  <2> DEFINE rank == Rank(at, k)
  <2>1. p \in PlacesOf(at) /\ DOMAIN at # {}
    BY DEF PlacesOf
  <2>2. n \in Nat \ {0} /\ rank \in Nat /\ rank < n
    BY <2>1, ZonesAre
  <2>3. c \in Nat \ {0} /\ r \in Nat \ {0} /\ n <= c * r
    <3> HIDE DEF n
    <3> QED
      BY <2>2, ColumnsAre, RowsAre
  <2>4. rank < c * r
    <3> DEFINE m == c * r
    <3>1. m \in Nat /\ n <= m
      BY <2>3
    <3> HIDE DEF m, n, c, r, rank
    <3>2. rank < m
      BY <2>2, <3>1
    <3> QED
      BY <3>2 DEF m
  <2>5. /\ PlantWidth(at, p[1]) \in Nat /\ PlantWidth(at, p[1]) >= Spacing * c
        /\ Depth(at, p) \in Nat /\ Depth(at, p) = Spacing * r
        /\ Left(at, p) \in Nat /\ Near(at, p) \in Nat
    BY <1>2, <2>1
  <2>6. /\ zones[p].x \in Int /\ zones[p].z \in Int
        /\ zones[p].width = PlantWidth(at, p[1]) /\ zones[p].depth = Depth(at, p)
    <3>1. PICK left \in Int, right \in Int, near \in Int, far \in Int :
            LieBetween(zones, at, left, right, near, far)
      BY <1>1, <2>1, ZonesLie
    <3> HIDE DEF p, c, r
    <3> QED
      BY <2>1, <2>5, <3>1 DEF LieBetween
  <2>7. /\ cells[k].x = zones[p].x + (2 * (rank % c) + 1 - c) * Spacing
        /\ cells[k].z = zones[p].z + (2 * (rank \div c) + 1) * Spacing - zones[p].depth
    BY <1>1 DEF Cell
  <2> DEFINE x == zones[p].x
  <2> DEFINE z == zones[p].z
  <2> DEFINE w == zones[p].width
  <2>8. /\ x \in Int /\ z \in Int /\ w \in Nat /\ w >= Spacing * c /\ zones[p].depth = Spacing * r
        /\ cells[k].x = x + (2 * (rank % c) + 1 - c) * Spacing
        /\ cells[k].z = z + (2 * (rank \div c) + 1) * Spacing - Spacing * r
    BY <2>5, <2>6, <2>7
  <2> HIDE DEF n, c, r, rank, x, z, w
  <2>9. /\ cells[k].x \in Int /\ cells[k].z \in Int
        /\ Within(cells[k].x, Spacing, x, w) /\ Within(cells[k].z, Spacing, z, Spacing * r)
    BY <2>2, <2>3, <2>4, <2>8, CellIs
  <2> QED
    BY <2>1, <2>2, <2>3, <2>5, <2>6, <2>7, <2>8, <2>9 DEF x, z, w, c, n, rank
<1>6. ASSUME NEW j \in DOMAIN at, NEW k \in DOMAIN at, j # k
      PROVE  \/ Apart(cells[j].x, Spacing, cells[k].x, Spacing)
             \/ Apart(cells[j].z, Spacing, cells[k].z, Spacing)
  <2>1. CASE at[j] # at[k]
    <3>1. Spacing \in Int
      BY DEF Spacing
    <3>2. CASE Apart(zones[at[j]].x, zones[at[j]].width, zones[at[k]].x, zones[at[k]].width)
      <4>1. /\ zones[at[j]].x \in Int /\ zones[at[j]].width \in Int /\ zones[at[k]].x \in Int /\ zones[at[k]].width \in Int
            /\ cells[j].x \in Int /\ cells[k].x \in Int
            /\ Within(cells[j].x, Spacing, zones[at[j]].x, zones[at[j]].width)
            /\ Within(cells[k].x, Spacing, zones[at[k]].x, zones[at[k]].width)
        BY <1>5
      <4> QED
        BY <3>1, <3>2, <4>1, PartsKeepApart
    <3>3. CASE Apart(zones[at[j]].z, zones[at[j]].depth, zones[at[k]].z, zones[at[k]].depth)
      <4>1. /\ zones[at[j]].z \in Int /\ zones[at[j]].depth \in Int /\ zones[at[k]].z \in Int /\ zones[at[k]].depth \in Int
            /\ cells[j].z \in Int /\ cells[k].z \in Int
            /\ Within(cells[j].z, Spacing, zones[at[j]].z, zones[at[j]].depth)
            /\ Within(cells[k].z, Spacing, zones[at[k]].z, zones[at[k]].depth)
        BY <1>5
      <4> QED
        BY <3>1, <3>3, <4>1, PartsKeepApart
    <3> QED
      BY <1>4, <1>5, <2>1, <3>2, <3>3
  <2>2. CASE at[j] = at[k]
    <3> DEFINE c == Columns(Cardinality(Zone(at, at[k])))
    <3> DEFINE x == zones[at[k]].x
    <3> DEFINE d == zones[at[k]].depth
    <3> DEFINE z == zones[at[k]].z - d
    <3> DEFINE a == Rank(at, j)
    <3> DEFINE b == Rank(at, k)
    <3>1. a \in Nat /\ b \in Nat /\ a # b /\ c \in Nat \ {0} /\ x \in Int /\ z \in Int
      BY <1>5, <1>6, <2>2, ZonesAre
    <3>2. /\ cells[j].x = x + (2 * (a % c) + 1 - c) * Spacing /\ cells[k].x = x + (2 * (b % c) + 1 - c) * Spacing
      BY <1>5, <2>2
    <3>3. /\ cells[j].z = z + (2 * (a \div c) + 1) * Spacing /\ cells[k].z = z + (2 * (b \div c) + 1) * Spacing
      <4>1. /\ cells[j].z = zones[at[k]].z + (2 * (a \div c) + 1) * Spacing - d
            /\ cells[k].z = zones[at[k]].z + (2 * (b \div c) + 1) * Spacing - d
        BY <1>5, <2>2
      <4>2. zones[at[k]].z \in Int /\ d \in Int /\ z = zones[at[k]].z - d
        BY <1>5
      <4> DEFINE e == (2 * (a \div c) + 1) * Spacing
      <4> DEFINE f == (2 * (b \div c) + 1) * Spacing
      <4>3. e \in Int /\ f \in Int
        <5>1. a \div c \in Int /\ b \div c \in Int
          BY <3>1, Division
        <5> HIDE DEF a, b, c
        <5> QED
          BY <5>1 DEF Spacing
      <4>4. cells[j].z = zones[at[k]].z + e - d /\ cells[k].z = zones[at[k]].z + f - d
        BY <4>1
      <4> HIDE DEF e, f, z, d, a, b, c
      <4>5. cells[j].z = z + e /\ cells[k].z = z + f
        BY <4>2, <4>3, <4>4
      <4> QED
        BY <4>5 DEF e, f
    <3> HIDE DEF a, b, c, x, z, d
    <3> QED
      BY <3>1, <3>2, <3>3, CellsOfAZone
  <2> QED
    BY <2>1, <2>2
<1>7. ASSUME DOMAIN at # {}
      PROVE  /\ Min({zones[p].x - zones[p].width : p \in DOMAIN zones})
                  = -Max({zones[p].x + zones[p].width : p \in DOMAIN zones})
             /\ Min({zones[p].z - zones[p].depth : p \in DOMAIN zones})
                  = -Max({zones[p].z + zones[p].depth : p \in DOMAIN zones})
  <2>1. PICK left \in Int, right \in Int, near \in Int, far \in Int :
          LieBetween(zones, at, left, right, near, far)
    BY <1>1, <1>7, ZonesLie
  <2>2. \A p \in PlacesOf(at) :
          /\ Left(at, p) \in Int /\ PlantWidth(at, p[1]) \in Int
          /\ Near(at, p) \in Int /\ Depth(at, p) \in Int
    BY <1>2
  <2>3. Min({zones[p].x - zones[p].width : p \in PlacesOf(at)}) = left - right
    <3> DEFINE ends == {zones[p].x - zones[p].width : p \in PlacesOf(at)}
    <3>1. \A p \in PlacesOf(at) :
            /\ zones[p].x - zones[p].width \in Int /\ zones[p].x - zones[p].width >= left - right
            /\ Left(at, p) = left => zones[p].x - zones[p].width = left - right
      <4> SUFFICES ASSUME NEW p \in PlacesOf(at)
                   PROVE  /\ zones[p].x - zones[p].width \in Int /\ zones[p].x - zones[p].width >= left - right
                          /\ Left(at, p) = left => zones[p].x - zones[p].width = left - right
        OBVIOUS
      <4>1. Left(at, p) \in Int /\ PlantWidth(at, p[1]) \in Int
        BY <2>2
      <4>2. /\ zones[p].x = 2 * Left(at, p) + PlantWidth(at, p[1]) - (left + right)
            /\ zones[p].width = PlantWidth(at, p[1])
            /\ left <= Left(at, p) /\ Left(at, p) + PlantWidth(at, p[1]) <= right
        BY <2>1 DEF LieBetween
      <4> QED
        BY <2>1, <4>1, <4>2
    <3>2. ends \in SUBSET Int /\ left - right \in ends /\ \A y \in ends : left - right <= y
      BY <2>1, <3>1 DEF LieBetween
    <3> HIDE DEF ends
    <3>3. Min(ends) = left - right
      BY <3>2, MinIs
    <3> QED
      BY <3>3 DEF ends
  <2>4. Max({zones[p].x + zones[p].width : p \in PlacesOf(at)}) = right - left
    <3> DEFINE ends == {zones[p].x + zones[p].width : p \in PlacesOf(at)}
    <3>1. \A p \in PlacesOf(at) :
            /\ zones[p].x + zones[p].width \in Int /\ zones[p].x + zones[p].width <= right - left
            /\ Left(at, p) + PlantWidth(at, p[1]) = right => zones[p].x + zones[p].width = right - left
      <4> SUFFICES ASSUME NEW p \in PlacesOf(at)
                   PROVE  /\ zones[p].x + zones[p].width \in Int /\ zones[p].x + zones[p].width <= right - left
                          /\ Left(at, p) + PlantWidth(at, p[1]) = right => zones[p].x + zones[p].width = right - left
        OBVIOUS
      <4>1. Left(at, p) \in Int /\ PlantWidth(at, p[1]) \in Int
        BY <2>2
      <4>2. /\ zones[p].x = 2 * Left(at, p) + PlantWidth(at, p[1]) - (left + right)
            /\ zones[p].width = PlantWidth(at, p[1])
            /\ left <= Left(at, p) /\ Left(at, p) + PlantWidth(at, p[1]) <= right
        BY <2>1 DEF LieBetween
      <4> QED
        BY <2>1, <4>1, <4>2
    <3>2. ends \in SUBSET Int /\ right - left \in ends /\ \A y \in ends : right - left >= y
      BY <2>1, <3>1 DEF LieBetween
    <3> HIDE DEF ends
    <3>3. Max(ends) = right - left
      BY <3>2, MaxIs
    <3> QED
      BY <3>3 DEF ends
  <2>5. Min({zones[p].z - zones[p].depth : p \in PlacesOf(at)}) = near - far
    <3> DEFINE ends == {zones[p].z - zones[p].depth : p \in PlacesOf(at)}
    <3>1. \A p \in PlacesOf(at) :
            /\ zones[p].z - zones[p].depth \in Int /\ zones[p].z - zones[p].depth >= near - far
            /\ Near(at, p) = near => zones[p].z - zones[p].depth = near - far
      <4> SUFFICES ASSUME NEW p \in PlacesOf(at)
                   PROVE  /\ zones[p].z - zones[p].depth \in Int /\ zones[p].z - zones[p].depth >= near - far
                          /\ Near(at, p) = near => zones[p].z - zones[p].depth = near - far
        OBVIOUS
      <4>1. Near(at, p) \in Int /\ Depth(at, p) \in Int
        BY <2>2
      <4>2. /\ zones[p].z = 2 * Near(at, p) + Depth(at, p) - (near + far)
            /\ zones[p].depth = Depth(at, p)
            /\ near <= Near(at, p) /\ Near(at, p) + Depth(at, p) <= far
        BY <2>1 DEF LieBetween
      <4> QED
        BY <2>1, <4>1, <4>2
    <3>2. ends \in SUBSET Int /\ near - far \in ends /\ \A y \in ends : near - far <= y
      BY <2>1, <3>1 DEF LieBetween
    <3> HIDE DEF ends
    <3>3. Min(ends) = near - far
      BY <3>2, MinIs
    <3> QED
      BY <3>3 DEF ends
  <2>6. Max({zones[p].z + zones[p].depth : p \in PlacesOf(at)}) = far - near
    <3> DEFINE ends == {zones[p].z + zones[p].depth : p \in PlacesOf(at)}
    <3>1. \A p \in PlacesOf(at) :
            /\ zones[p].z + zones[p].depth \in Int /\ zones[p].z + zones[p].depth <= far - near
            /\ Near(at, p) + Depth(at, p) = far => zones[p].z + zones[p].depth = far - near
      <4> SUFFICES ASSUME NEW p \in PlacesOf(at)
                   PROVE  /\ zones[p].z + zones[p].depth \in Int /\ zones[p].z + zones[p].depth <= far - near
                          /\ Near(at, p) + Depth(at, p) = far => zones[p].z + zones[p].depth = far - near
        OBVIOUS
      <4>1. Near(at, p) \in Int /\ Depth(at, p) \in Int
        BY <2>2
      <4>2. /\ zones[p].z = 2 * Near(at, p) + Depth(at, p) - (near + far)
            /\ zones[p].depth = Depth(at, p)
            /\ near <= Near(at, p) /\ Near(at, p) + Depth(at, p) <= far
        BY <2>1 DEF LieBetween
      <4> QED
        BY <2>1, <4>1, <4>2
    <3>2. ends \in SUBSET Int /\ far - near \in ends /\ \A y \in ends : far - near >= y
      BY <2>1, <3>1 DEF LieBetween
    <3> HIDE DEF ends
    <3>3. Max(ends) = far - near
      BY <3>2, MaxIs
    <3> QED
      BY <3>3 DEF ends
  <2>7. left - right = -(right - left) /\ near - far = -(far - near)
    BY <2>1
  <2> QED
    BY <1>3, <2>3, <2>4, <2>5, <2>6, <2>7
<1>8. ASSUME NEW k \in DOMAIN at
      PROVE  Nearest(at, cells, cells[k].x + 1, cells[k].z - 1, 21) = {k}
  <2>1. StandsClear(at, cells, k)
    BY <1>5, <1>6 DEF StandsClear
  <2> QED
    BY <2>1, ClickFindsDevice
<1> QED
  BY <1>3, <1>4, <1>5, <1>6, <1>7, <1>8 DEF LayoutIsSound, zones, cells

-----------------------------------------------------------------------------
\* The floor shown while no layout is due: zones and cells that keep apart, cells
\* in their zones, about the middle, and a click near a device that finds it, for
\* every number of rows and places and every width (plant_layout.cpp).
THEOREM FloorIsSound == Spec => []SceneIsSound
<1>1. ASSUME DevicesInv, FloorIsCurrent PROVE SceneIsSound
  <2> SUFFICES ASSUME view = "floor", ~sceneTimer PROVE LayoutIsSound(scene.at)
    BY DEF SceneIsSound
  <2>1. scene.at = [k \in Shown \cup DOMAIN Others |-> IF k \in Shown THEN place[k] ELSE Others[k]]
    BY <1>1 DEF FloorIsCurrent, SceneOf
  <2>2. Shown \subseteq Keys /\ place \in [Keys -> Places]
    BY <1>1, ShownAreKeys DEF DevicesInv, TypeOK
  <2>3. IsFiniteSet(Shown)
    BY <2>2, DeviceAssumption, FS_Subset
  <2>4. IsFiniteSet(Shown \cup DOMAIN Others)
    BY <2>3, OthersAssumption, FS_Union
  <2>5. /\ Keys \subseteq Nat /\ Places \subseteq Nat \X Nat /\ DOMAIN Others \subseteq Nat
        /\ \A k \in DOMAIN Others : Others[k] \in Nat \X Nat
    BY DeviceAssumption, OthersAssumption
  <2>6. IsPlan(scene.at)
    BY <2>1, <2>2, <2>4, <2>5 DEF IsPlan
  <2> QED
    BY <2>6, LayoutOfAPlan
<1> QED
  BY <1>1, PageInvariant, FloorFollowsRows, PTL
=============================================================================
