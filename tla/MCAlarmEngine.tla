--------------------------- MODULE MCAlarmEngine ---------------------------
(* Small instances of the alarm engine for TLC.                             *)
EXTENDS AlarmEngineProperties

CONSTANTS s1, s2

MCWords == Conditions \cup Severities \cup {"between", "loud"}
MCTemplates == {NoTemplate, "high", "critical"}

Body(stream, condition, threshold, severity) ==
    [stream |-> stream, condition |-> condition, threshold |-> threshold,
     severity |-> severity]

\* One ordinary body and one whose condition and severity are not known words.
MCBodies == {Body(s1, "gt", 1, "critical"), Body(s1, "between", 2, "loud")}
MCOneBody == {Body(s1, "gte", 1, "critical")}
MCEveryCondition == {Body(s1, c, 1, "info") : c \in Conditions}

MCDefaults == <<[stream |-> s1, condition |-> "gt", threshold |-> 1,
                 severity |-> "warning", template |-> "high"]>>
MCTwoDefaults == MCDefaults \o
    <<[stream |-> s1, condition |-> "gt", threshold |-> 2,
       severity |-> "critical", template |-> "critical"]>>
MCNoDefaults == <<>>
MCNoBodies == {}
=============================================================================
