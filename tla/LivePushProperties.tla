------------------------ MODULE LivePushProperties ------------------------
(***************************************************************************)
(* What a WebSocket client is sent.                                        *)
(***************************************************************************)
EXTENDS LivePush

\* Every variable stays in the set of values the code can give it.
TypeOK ==
    /\ committed \in [Streams -> SUBSET Nat] /\ recent \in [Streams -> SUBSET Nat]
    /\ nextId \in [Streams -> Nat] /\ outside \in [Streams -> SUBSET Nat]
    /\ \A s \in Streams : committed[s] \subseteq Ids(s) /\ nextId[s] \in 1..(MaxId(s) + 1)
    /\ cursor \in [Streams -> Nat \cup {NoCursor}]
    /\ since \in [Clients -> [Streams -> Nat \cup {NoCursor}]]
    /\ polled \in [Clients -> [Streams -> Seq(Nat)]]
    /\ alive \in BOOLEAN /\ dbUp \in BOOLEAN
    /\ mqtt \in {"down", "subscribed"}
    /\ bridge \in Seq(Ids("readings")) /\ arrived \subseteq Ids("readings")
    /\ joined \subseteq Clients
    /\ direct \in [Clients -> SUBSET Ids("readings")]
    /\ faults \in 0..MaxFaults

\* From the cursor a connection joined at, or the first one found after that,
\* the poll sends it every committed row up to the cursor, once and in order,
\* whatever statement failed in between (device_service.h:48-51).
EachRowOnceInOrder ==
    \A c \in joined, s \in Streams :
        since[c][s] # NoCursor =>
            /\ cursor[s] # NoCursor
            /\ polled[c][s] \in InOrder({id \in committed[s] :
                                           since[c][s] < id /\ id <= cursor[s]})

\* The invariant of the push: typed, and a client's log is what its cursors say.
PushInv == TypeOK /\ EachRowOnceInOrder

\* No client is sent a row that lay before the catch-up window when the cursor
\* was found (device_service.h:54-55: a failed lookup must not replay history).
NoHistoryReplay ==
    \A c \in joined, s \in Streams : ToSet(polled[c][s]) \cap outside[s] = {}

\* While the database connection lives, every row is passed by the cursor in
\* the end: a lookup that failed is made again, and so is a poll.
EveryRowIsPassed ==
    \A s \in Streams : \A id \in Ids(s) :
        (dbUp /\ id \in committed[s])
            ~> (~dbUp \/ (cursor[s] # NoCursor /\ id <= cursor[s]))

-----------------------------------------------------------------------------
\* device_service.h:50-51: "delivered once, and a row already delivered is not
\* sent again".
DeliveredOnce ==
    \A c \in joined : ToSet(polled[c]["readings"]) \cap direct[c] = {}
=============================================================================
