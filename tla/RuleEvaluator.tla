--------------------------- MODULE RuleEvaluator ---------------------------
(***************************************************************************)
(* The pure part of the alarm engine: what a rule is, when it matches a    *)
(* reading, when it is breached, and which message an alarm carries.       *)
(* Numbers are integers: a rule only ever compares a value with its        *)
(* threshold, so the order of the two is all that is kept of the doubles.  *)
(* A stream stands for the pair (device_id, sensor).                       *)
(***************************************************************************)
EXTENDS Integers

Conditions == {"gt", "lt", "gte", "lte", "eq"}
Severities == {"info", "warning", "critical"}

\* condition_from_string: any text that is not one of the others is "gt".
ConditionFromString(s) == IF s \in Conditions THEN s ELSE "gt"

\* severity_from_string: any text that is not one of the others is "warning".
SeverityFromString(s) == IF s \in Severities THEN s ELSE "warning"

Matches(rule, reading) == rule.stream = reading.stream

\* Mutant: "gt" also holds at the threshold.
EvaluateGtAtThreshold(rule, value) ==
    \/ rule.condition \in {"gt", "gte"} /\ value >= rule.threshold
    \/ rule.condition = "lt"  /\ value < rule.threshold
    \/ rule.condition = "lte" /\ value <= rule.threshold
    \/ rule.condition = "eq"  /\ value = rule.threshold

Evaluate(rule, value) ==
    \/ rule.condition = "gt"  /\ value > rule.threshold
    \/ rule.condition = "lt"  /\ value < rule.threshold
    \/ rule.condition = "gte" /\ value >= rule.threshold
    \/ rule.condition = "lte" /\ value <= rule.threshold
    \/ rule.condition = "eq"  /\ value = rule.threshold

ConditionPhrase(condition) ==
    CASE condition \in {"gt", "gte"} -> "exceeded threshold"
      [] condition \in {"lt", "lte"} -> "below threshold"
      [] condition = "eq"            -> "reached threshold"

\* A template is its wording; the placeholders every template may use are
\* filled in the same way for all of them and are left out.
NoTemplate == ""
DefaultMessageTemplate(rule) == ConditionPhrase(rule.condition)

FormatMessage(rule) ==
    IF rule.template = NoTemplate THEN DefaultMessageTemplate(rule) ELSE rule.template

\* The rules evaluate_all turns into alarms for one reading.
Firing(rules, reading) ==
    {r \in rules : Matches(r, reading) /\ Evaluate(r, reading.value)}
=============================================================================
