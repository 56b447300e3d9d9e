---------------------------- MODULE DeviceFilter ----------------------------
(***************************************************************************)
(* The filtered views of the device model and the numbers the devices page *)
(* binds to them (device_filter_model.cpp, DeviceTreePanel.qml).  The      *)
(* filters do not know of each other or of the floor view, so the model    *)
(* follows one of them: the one of the whole plant, the one of a section   *)
(* of the card tree, which exists while its section does, or no filter and *)
(* the floor view instead.                                                 *)
(***************************************************************************)
EXTENDS DeviceModel

CONSTANT Searches       \* the sets of keys that a search text can match

Everything == <<0, 0>>
TheFloor == <<0, 1>>

ASSUME FilterAssumption ==
    /\ {Everything, TheFloor} \cap Places = {}
    /\ Searches \subseteq SUBSET Keys

VARIABLES
    followed,   \* Everything, the place of the section, or TheFloor
    search,     \* the keys that match panel.searchText
    groups,     \* panel.groups: the places that have a section
    filter      \* members: the rows of the proxy; cached: critical_; dirty:
                \* critical_dirty_; timer: is recount_timer_ active?; shown: what the
                \* bindings to criticalCount show; healthy: count and criticalCount as
                \* healthyPct last read them

filterVars == <<followed, search, groups, filter>>

Absent == [members |-> {}, cached |-> 0, dirty |-> FALSE, timer |-> FALSE,
           shown |-> 0, healthy |-> <<0, 0>>]

Exists(g) == followed = Everything \/ followed \in g

\* filterAcceptsRow.
Accepted(keys, at, found) ==
    IF followed = Everything THEN keys ELSE {k \in keys : at[k] = followed /\ k \in found}

Critical(keys, stat) == Cardinality({k \in keys : stat[k] = "critical"})

\* criticalCount: counts when something changed since the last count.
Refreshed(f, stat) ==
    IF f.dirty THEN [f EXCEPT !.cached = Critical(f.members, stat), !.dirty = FALSE] ELSE f

\* Mutant: a recount that is due already is not asked for again.
ScheduledOnce(f) == IF f.timer THEN f ELSE [f EXCEPT !.dirty = TRUE, !.timer = TRUE]

\* schedule_recount.
Scheduled(f) == [f EXCEPT !.dirty = TRUE, !.timer = TRUE]

\* healthyPct reads count and, unless that is 0, criticalCount.
HealthyRead(f, stat) ==
    IF followed # Everything THEN f
    ELSE IF f.members = {} THEN [f EXCEPT !.healthy = <<0, 0>>]
    ELSE LET g == Refreshed(f, stat) IN
            [g EXCEPT !.healthy = <<Cardinality(g.members), g.cached>>]

\* rowsInserted of the proxy: countChanged first, then the recount is asked for.
AfterInsert(f, k, stat) ==
    Scheduled(HealthyRead([f EXCEPT !.members = @ \cup {k}], stat))

\* dataChanged of the source: rows may leave, enter or change in the proxy.
AfterChange(f, keys, accepted) ==
    LET members == (f.members \ keys) \cup (keys \cap accepted) IN
        IF keys \cap (members \cup f.members) = {} THEN f
        ELSE Scheduled([f EXCEPT !.members = members])

\* A section's filter is made with its section. The binding to criticalCount may
\* be evaluated before those of the place and of the source are.
Created(keys, at, found, stat) ==
    LET members == Accepted(keys, at, found) IN
    {[members |-> members, cached |-> n, dirty |-> TRUE, timer |-> TRUE,
      shown |-> n, healthy |-> <<0, 0>>] :
        n \in {0, Critical(keys, stat), Critical(members, stat)}}

\* Mutant: the signature is the number of places.
RebuildGroupsByNumber ==
    groups' = LET places == {place'[k] : k \in Shown'} IN
                IF Cardinality(places) = Cardinality(groups) THEN groups ELSE places

\* rebuildGroups.
RebuildGroups == groups' = {place'[k] : k \in Shown'}

\* All sections are made anew when the groups change.
Resectioned(f) ==
    IF groups' = groups \/ followed = Everything THEN filter' = f
    ELSE IF Exists(groups') THEN filter' \in Created(Shown', place', search, status')
    ELSE filter' = Absent

\* A row was inserted: the proxies hear of it before countChanged of the model.
FilterInserts(k) ==
    /\ RebuildGroups
    /\ Resectioned(IF Exists(groups) /\ k \in Accepted({k}, place', search)
                   THEN AfterInsert(filter, k, status') ELSE filter)
    /\ UNCHANGED <<followed, search>>

\* Rows changed.
FilterChanges(keys) ==
    /\ filter' = IF Exists(groups)
                 THEN AfterChange(filter, keys, Accepted(keys, place', search)) ELSE filter
    /\ UNCHANGED <<followed, search, groups>>

-----------------------------------------------------------------------------
\* setSearch: the text of the search field changed.
FilterSearches(found) ==
    LET members == Accepted(Shown, place, found) IN
    /\ search' = found
    /\ filter' = IF ~Exists(groups) \/ members = filter.members THEN filter
                 ELSE Scheduled([filter EXCEPT !.members = members])
    /\ UNCHANGED <<followed, groups>>

\* recount: the timer of 0 ms fired. What is bound to criticalCount is evaluated
\* only if the count differs from the one taken last.
Recount ==
    LET f == Refreshed(filter, status)
        g == [f EXCEPT !.timer = FALSE]
    IN  /\ filter.timer
        /\ filter' = IF f.cached = filter.cached THEN g
                     ELSE [(IF filter.healthy[1] > 0 THEN HealthyRead(g, status) ELSE g)
                              EXCEPT !.shown = f.cached]
        /\ UNCHANGED <<followed, search, groups, modelVars>>

\* The timer of 2 s.
GroupsTick ==
    /\ UNCHANGED modelVars
    /\ UNCHANGED <<followed, search>>
    /\ RebuildGroups
    /\ Resectioned(filter)

\* QML evaluates the bindings of a new page in no order that is promised; the
\* numbers of the whole plant are taken to be right once they all are.
FilterInit ==
    /\ followed \in Places \cup {Everything, TheFloor}
    /\ search = Keys
    /\ groups = {place[k] : k \in Shown}
    /\ IF followed = Everything
       THEN LET n == Critical(Shown, status) IN
            filter = [members |-> Shown, cached |-> n, dirty |-> FALSE, timer |-> FALSE,
                      shown |-> n, healthy |-> <<Cardinality(Shown), n>>]
       ELSE IF followed \in groups THEN filter \in Created(Shown, place, Keys, status)
       ELSE filter = Absent

-----------------------------------------------------------------------------
\* A proxy holds the rows it would accept, whatever the signals told it
\* (device_filter_model.h:15-18).
MembersFollowRows ==
    filter.members = IF Exists(groups) THEN Accepted(Shown, place, search) ELSE {}

\* The count is due whenever it may be wrong, HEALTHY is what was counted last, and
\* so is the number of a section.
NumbersAgree ==
    /\ filter.dirty => filter.timer
    /\ ~filter.dirty => filter.cached = Critical(filter.members, status)
    /\ IF followed = Everything
       THEN /\ filter.healthy = <<Cardinality(filter.members), filter.cached>>
            /\ filter.members = {} => filter.cached = 0
       ELSE filter.shown = filter.cached

\* When no recount is due, the HEALTHY number is that of the rows, and a section's
\* pill counts its critical rows, after bursts of any length.
CountsAreRight ==
    LET n == Critical(filter.members, status) IN
    ~filter.timer =>
        IF followed = Everything THEN filter.healthy = <<Cardinality(filter.members), n>>
        ELSE filter.shown = n

\* README.md:22: "A KPI strip covers sensors, healthy %, critical count and floors":
\* when no recount is due the CRITICAL number is the one of the rows.
CriticalKpiIsRight ==
    followed = Everything /\ ~filter.timer => filter.shown = Critical(filter.members, status)
=============================================================================
