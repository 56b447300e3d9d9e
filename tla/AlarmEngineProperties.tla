----------------------- MODULE AlarmEngineProperties -----------------------
(***************************************************************************)
(* What the alarm engine promises about the readings it polls and the      *)
(* alarms it writes.                                                       *)
(***************************************************************************)
EXTENDS AlarmEngine

Messages == Templates \cup {ConditionPhrase(c) : c \in Conditions}
AlarmRow == [reading : 1..MaxReadingId, by : Rule, ref : Nat, message : Messages]

\* Every variable stays in the set of values the code can give it.
TypeOK ==
    /\ readings \subseteq Reading
    /\ nextReading \in 1..(MaxReadingId + 1)
    /\ rules \subseteq Rule
    /\ nextRule \in Nat \ {0}
    /\ alarms \in Seq(AlarmRow)
    /\ fk \in {"noaction", "setnull"}
    /\ tx \in [step : {"none", "detached", "deleted"}, rule : Nat, held : SUBSET Nat]
    /\ pc \in PCs
    /\ lastId \in Nat \cup {NoCursor}
    /\ cached \subseteq Rule
    /\ batch \subseteq Reading
    /\ IF pc = "write" THEN row \in Reading ELSE row = NoReading
    /\ todo \subseteq Rule
    /\ seedLeft \in Seq(SeedRule)
    /\ lost \subseteq {"store", "reader"}
    /\ faults \in 0..MaxFaults
    /\ starts \in 0..MaxStarts
    /\ start \in Nat \cup {NoCursor}
    /\ evaluated \subseteq 1..MaxReadingId
    /\ steady \subseteq Rule
    /\ initialLoad \in BOOLEAN

\* One reading raises at most one alarm per rule, over every poll, failed
\* query, reload, crash and restart (main.cpp:119-162: the cursor only moves
\* over rows that were evaluated, and a restart begins above all of them).
NoDuplicateAlarm ==
    \A i, j \in DOMAIN alarms :
        i # j => \/ alarms[i].reading # alarms[j].reading
                 \/ alarms[i].by.id # alarms[j].by.id

\* Between the id a process started from and its cursor no committed reading
\* was left unevaluated (reading_cursor.h: a row that commits late must not be
\* skipped).
CursorSkipsNothing ==
    lastId # NoCursor =>
        /\ start # NoCursor /\ start <= lastId
        /\ \A r \in readings : start < r.id /\ r.id <= lastId => r.id \in evaluated

\* A reading that was in the table when the process started is never evaluated
\* by it, whatever failed on the way to the cursor (main.cpp:121-123: "we retry
\* next poll instead of replaying history from id 0").
NoHistoryReplay ==
    [][\A id \in evaluated' \ evaluated : id \notin before]_vars

\* The comparison evaluate makes, as a relation between numbers.
Breached(by, value) ==
    <<by.condition, IF value > by.threshold THEN "above"
                    ELSE IF value = by.threshold THEN "at" ELSE "below">>
        \in {<<"gt", "above">>, <<"gte", "above">>, <<"gte", "at">>, <<"eq", "at">>,
             <<"lte", "at">>, <<"lte", "below">>, <<"lt", "below">>}

\* Every alarm has a committed reading of its rule's own stream behind it that
\* breaches that rule.
AlarmsAreJustified ==
    \A i \in DOMAIN alarms :
        \E r \in readings : /\ r.id = alarms[i].reading
                            /\ r.stream = alarms[i].by.stream
                            /\ Breached(alarms[i].by, r.value)

\* What the engine has written is well formed and was called for.
AlarmsInv == TypeOK /\ AlarmsAreJustified

\* A rule that has been in the table, unchanged, since a process that could
\* read it started has raised an alarm for every reading the cursor of that
\* process has passed and that breaches it, unless the INSERT itself failed.
\* Reloads that fail, rules edited meanwhile and deletes of other rules make
\* no difference (main.cpp:136-140).
SteadyRuleMissesNothing ==
    initialLoad /\ lastId # NoCursor =>
        \A r \in readings, by \in steady :
            /\ start < r.id /\ r.id <= lastId
            /\ r.stream = by.stream /\ Breached(by, r.value)
            => \/ \E i \in DOMAIN alarms : alarms[i].reading = r.id /\ alarms[i].by.id = by.id
               \/ <<r.id, by.id>> \in dropped

\* The rule column of an alarm names an existing rule or is NULL: deleting a
\* rule that has fired detaches its alarms, and only those.
AlarmsReferToRules ==
    \A i \in DOMAIN alarms :
        \/ alarms[i].ref = alarms[i].by.id /\ alarms[i].by.id \in Ids(rules)
        \/ alarms[i].ref = 0 /\ alarms[i].by.id \notin Ids(rules)

\* History is kept: no step removes or rewrites an alarm; it may only append
\* one or null the reference of existing ones.
AlarmHistoryIsKept ==
    [][\A i \in DOMAIN alarms :
         /\ i \in DOMAIN alarms'
         /\ alarms'[i].ref \in {0, alarms[i].ref}
         /\ [alarms'[i] EXCEPT !.ref = 0] = [alarms[i] EXCEPT !.ref = 0]]_vars

\* The engine implements the ordered poll: each committed reading above the
\* starting cursor is handed to the evaluator once, in id order.  The cursor
\* of the abstract consumer moves when a row is evaluated, last_id only after
\* its alarms are written.
PollCursor == IF pc = "write" THEN row.id ELSE lastId
Poller == INSTANCE OrderedPoll WITH
            log <- Ids(readings), cursor <- PollCursor, delivered <- evaluated
ImplementsOrderedPoll == Poller!Spec

-----------------------------------------------------------------------------
(* Why they hold: the invariant that every step preserves.                  *)

UniqueIds(rows) == \A r, s \in rows : r.id = s.id => r = s

\* Serial ids: both sequences are ahead of the rows they numbered and of the
\* cursor, and no two rows, in the tables or in the engine's copies, share one.
IdsAreSerial ==
    /\ \A r \in readings : r.id < nextReading
    /\ \A r \in rules : r.id < nextRule
    /\ lastId # NoCursor => lastId < nextReading
    /\ UniqueIds(readings) /\ UniqueIds(rules) /\ UniqueIds(cached)

\* Where in main the engine is decides which of its variables are in use.
ControlState ==
    /\ pc \in {"reload", "fetch", "row", "write"} => lastId # NoCursor
    /\ pc \notin {"sleep", "reload", "fetch", "row", "write"} => lastId = NoCursor
    /\ pc \notin {"row", "write"} => batch = {}
    /\ pc # "write" => todo = {}
    /\ pc = "write" => /\ First(row, batch)
                       /\ row.id \in evaluated
                       /\ todo \subseteq cached

\* The fetched rows are exactly the committed rows above last_id that were
\* committed before any other.
BatchIsNext ==
    /\ batch \subseteq readings
    /\ \A b \in batch : lastId < b.id
    /\ \A b \in batch, r \in readings : lastId < r.id /\ r.id <= b.id => r \in batch

\* Nothing above the cursor has been evaluated.
EvaluatedIsBehind ==
    /\ evaluated \subseteq Ids(readings)
    /\ PollCursor # NoCursor => \A id \in evaluated : id <= PollCursor

\* An alarm comes from an evaluated reading; the rules still to be written for
\* the current one have not been.
AlarmsAreBehind ==
    /\ \A i \in DOMAIN alarms : alarms[i].reading \in evaluated
    /\ pc = "write" => \A i \in DOMAIN alarms :
                          alarms[i].reading = row.id => alarms[i].by.id \notin Ids(todo)

\* The strengthening of NoDuplicateAlarm and CursorSkipsNothing that every
\* step preserves (main.cpp:125-168 with the two id sequences of the schema).
PollInv ==
    /\ IdsAreSerial
    /\ ControlState
    /\ BatchIsNext
    /\ EvaluatedIsBehind
    /\ AlarmsAreBehind
    /\ CursorSkipsNothing
    /\ NoDuplicateAlarm

-----------------------------------------------------------------------------
(* Liveness.  The engine's only thread keeps running while the process      *)
(* lives, and PostgreSQL ends every transaction.  MaxFaults makes transient *)
(* failures finite; a lost connection or the end of the process is excused. *)

FairSpec ==
    /\ Spec
    /\ WF_vars(Startup) /\ WF_vars(Poll)
    /\ WF_vars(DeleteRow \/ DeleteCommit \/ DeleteRollback)

Excused == pc = "down" \/ lost # {}

\* Every reading that is committed while the engine polls is evaluated, also when
\* its cursor could not be read at startup (main.cpp:125-134); one that was in the
\* table when the process started need not be, nor one that a late cursor was
\* found above.
ReadingsAreEvaluated ==
    \A id \in 1..MaxReadingId :
        (pc = "sleep" /\ id \in Ids(readings))
            ~> (id \in evaluated \/ (lastId # NoCursor /\ id <= start) \/ Excused)

-----------------------------------------------------------------------------
(* What comments, help texts and the README say and the code does not do.   *)

\* rule_reload.h:14-16: "a failed load keeps the previous set so a transient
\* query error does not disable alarming for the readings about to be
\* evaluated".  When the initial load is the one that fails, the previous set
\* is the empty one it left behind.
TransientErrorKeepsAlarming ==
    pc = "write" /\ lost = {} => Ids(steady) \subseteq Ids(cached)

\* main.cpp:47 "--seed  Insert default rules if empty".
SeedsOnlyIfEmpty ==
    [][pc = "seedCheck" /\ pc' = "seed" => rules = {}]_vars

\* rule_evaluator.cpp:48-49: the descriptive template is a fallback for "a rule
\* [that] has no message configured".
ConfiguredMessageIsUsed ==
    \A i \in DOMAIN alarms : \A r \in rules :
        r.id = alarms[i].by.id /\ r.template # NoTemplate => alarms[i].message = r.template

\* alarm_store.cpp:193-195: "Detaching the history explicitly works under
\* either schema".
DetachingAllowsDelete ==
    [][tx.step = "detached" /\ tx' = NoTx => faults' > faults]_vars
=============================================================================
