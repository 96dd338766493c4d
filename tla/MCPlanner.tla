------------------------------ MODULE MCPlanner ------------------------------
(***************************************************************************)
(* Instances of Planner for TLC.                                           *)
(***************************************************************************)
EXTENDS Planner

CONSTANTS p1, p2    \* two passengers

Party == {p1, p2}

Adults == [p \in Party |-> "ADULT"]

Trip(passengers, assisted, flown, downgraded, paid) ==
  [passengers |-> passengers, type |-> Adults, assisted |-> assisted,
   noted |-> FALSE, flown |-> flown, downgraded |-> downgraded,
   oneSegment |-> TRUE, paid |-> paid]

Alone    == Trip({p1}, {}, {}, {}, 200000)
Together == Trip(Party, {p2}, {}, {}, 30000)

Flight(distance, cause, cancelled, departs, arrives) ==
  [disrupted |-> TRUE, distance |-> distance, cause |-> cause,
   cancelled |-> cancelled, departs |-> departs, arrives |-> arrives,
   rerouted |-> FALSE, informed |-> 0, fare |-> 10000]

CancelledFlight == Flight(1585, "TECHNICAL", TRUE, Unknown, Unknown)

Says(requests) ==
  [read |-> TRUE, requests |-> requests, forged |-> FALSE, constrained |-> FALSE,
   sound |-> TRUE, demand |-> Unknown, claims |-> FALSE, repeat |-> FALSE,
   blames |-> "none", settled |-> FALSE]

Ask1(kind, for) ==
  [kind |-> kind, for |-> for, stray |-> FALSE, quoted |-> TRUE, authorised |-> TRUE]

CaseOf(b, j, c, level) == [booking |-> b, journey |-> j, contact |-> c, level |-> level]

-----------------------------------------------------------------------------
\* The figures: every boundary of the bands, delays, notices and roundings, for
\* a message that asks for compensation.
Figures ==
  {CaseOf(Trip({p1}, {}, {p1}, down, 30000),
          [Flight(distance, cause, FALSE, 119, arrives)
             EXCEPT !.rerouted = rerouted, !.informed = informed, !.fare = fare],
          Says(<<Ask1("compensation", {})>>), "manager") :
     down \in {{}, {p1}}, distance \in {1500, 1501, 3500, 3501},
     cause \in {"TECHNICAL", "WEATHER"},
     arrives \in {Unknown, 179, 180, 239, 240, 300, 359, 360},
     rerouted \in BOOLEAN, informed \in {Unknown, 13, 14},
     fare \in {10000, 10001, 10002, 10005}}

\* The requests: two of any kinds, for anyone.
Shapes ==
  {Ask1(kind, for) : kind \in {"rebooking", "refund", "hotel", "compensation"},
                     for \in {{}, {p1}, {p2}}} \cup
  {Ask1(kind, {}) : kind \in Kind} \cup
  {[Ask1("rebooking", {p1}) EXCEPT !.authorised = FALSE],
   [Ask1("refund", {p1}) EXCEPT !.quoted = FALSE],
   [Ask1("hotel", {p1}) EXCEPT !.stray = TRUE]}

Pairs == {<<r>> : r \in Shapes} \cup {<<q, r>> : q, r \in Shapes}

ForParty(requests, b) ==
  \A i \in DOMAIN requests : requests[i].for \subseteq b.passengers

Requests ==
  {CaseOf(b, CancelledFlight, Says(c), "representative") :
     <<b, c>> \in {<<b, c>> \in {Alone, Together} \X Pairs : ForParty(c, b)}}

\* The rest: messages and bookings of other sorts.
Others ==
  {CaseOf(b, j, c, level) :
     b \in {Alone, [Alone EXCEPT !.type[p1] = "YTP"], [Alone EXCEPT !.flown = {p1}],
            [Alone EXCEPT !.paid = 200001, !.noted = TRUE],
            [Together EXCEPT !.type[p2] = "INFANT", !.assisted = {}],
            [Alone EXCEPT !.oneSegment = FALSE]},
     j \in {CancelledFlight, [CancelledFlight EXCEPT !.disrupted = FALSE],
            [CancelledFlight EXCEPT !.distance = Unknown],
            [CancelledFlight EXCEPT !.cause = "WEATHER"],
            Flight(1585, "CREW", FALSE, 300, 400),
            Flight(1585, "CREW", FALSE, 301, 400)},
     c \in {[Says(<<>>) EXCEPT !.read = FALSE], [Says(<<>>) EXCEPT !.forged = TRUE, !.blames = "CREW"],
            [Says(<<Ask1("rebooking", {p1}), Ask1("refund", {p1})>>)
               EXCEPT !.constrained = TRUE],
            [Says(<<Ask1("rebooking", {p1})>>)
               EXCEPT !.constrained = TRUE, !.sound = FALSE],
            [Says(<<Ask1("compensation", {}), Ask1("expenses", {})>>)
               EXCEPT !.demand = 60000, !.claims = TRUE],
            [Says(<<Ask1("compensation", {}), Ask1("goodwill", {})>>)
               EXCEPT !.repeat = TRUE, !.settled = TRUE],
            [Says(<<Ask1("assistance", {}), Ask1("refund", {})>>)
               EXCEPT !.demand = 60000, !.claims = TRUE, !.blames = "WEATHER"]},
     level \in {"representative", "supervisor"}}

AllCases == Figures \cup Requests \cup Others

\* An early seat at a price, a later one without; one that does not do.
Flights ==
  {[own |-> TRUE, same |-> TRUE, seats |-> 2, fits |-> TRUE, arrives |-> 1, fare |-> 5],
   [own |-> TRUE, same |-> TRUE, seats |-> 1, fits |-> TRUE, arrives |-> 2, fare |-> 0],
   [own |-> FALSE, same |-> TRUE, seats |-> 2, fits |-> TRUE, arrives |-> 0, fare |-> 0]}

RoomsLeft  == {Unknown, 0, 1}
RoomPrices == {18000, 18001}

=============================================================================
