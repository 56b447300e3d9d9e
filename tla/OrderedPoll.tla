---------------------------- MODULE OrderedPoll ----------------------------
(***************************************************************************)
(* What a poll by serial id promises.  A log grows only above its greatest *)
(* id; a consumer attaches at the end of the log and from there on is      *)
(* handed every later id once, in order, without a gap, for as long as it  *)
(* stays attached.  An id it was handed is never handed out again, not     *)
(* even after it detached and attached again.                              *)
(***************************************************************************)
EXTENDS Integers

CONSTANT NoCursor

VARIABLES
    log,        \* committed ids
    cursor,     \* the last id the consumer is past, or NoCursor
    delivered   \* ids handed to the consumer

Init == log = {} /\ cursor = NoCursor /\ delivered = {}

Commit ==
    /\ log \subseteq log'
    /\ \A new \in log' \ log, old \in log : old < new
    /\ UNCHANGED <<cursor, delivered>>

Attach ==
    /\ cursor = NoCursor
    /\ cursor' \in {0} \cup log
    /\ \A id \in log : id <= cursor'
    /\ UNCHANGED <<log, delivered>>

Deliver(id) ==
    /\ cursor # NoCursor
    /\ id > cursor
    /\ id \notin delivered
    /\ \A other \in log : other <= cursor \/ id <= other
    /\ cursor' = id
    /\ delivered' = delivered \cup {id}
    /\ UNCHANGED log

Detach ==
    /\ cursor # NoCursor
    /\ cursor' = NoCursor
    /\ UNCHANGED <<log, delivered>>

Next == Commit \/ Attach \/ (\E id \in log : Deliver(id)) \/ Detach

Spec == Init /\ [][Next]_<<log, cursor, delivered>>
=============================================================================
