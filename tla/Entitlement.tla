----------------------------- MODULE Entitlement -----------------------------
(***************************************************************************)
(* What a booking is owed, worked out twice: by the entitlement service of *)
(* the operations API (ops_server.calculate_entitlement) and again by the  *)
(* desk (policy.cross_check_entitlement), which may not replace the        *)
(* service's figure but refers a case on which the two disagree.  Then     *)
(* what the desk may do about it: the authority table of policy.py.        *)
(*                                                                         *)
(* Money is in pence.  A journey is what the operational record holds of   *)
(* the affected segment, a booking who travels and what was paid.          *)
(***************************************************************************)
EXTENDS Integers, FiniteSets

Unknown == -1    \* a figure that the record does not hold

Cause == {"TECHNICAL", "CREW", "WEATHER"}
Extraordinary == {"WEATHER"}
PassengerType == {"ADULT", "INFANT", "YTP"}

Journey ==
  [disrupted : BOOLEAN, distance : Nat \cup {Unknown}, cause : Cause,
   cancelled : BOOLEAN, departs : Nat \cup {Unknown},  \* delays in minutes
   arrives : Nat \cup {Unknown}, rerouted : BOOLEAN,
   informed : Nat \cup {Unknown},                      \* days before
   fare : Nat]                                         \* of the segment

Standard    == [A |-> 22000, B |-> 35000, C |-> 52000]
ReduceBelow == [A |-> 240, B |-> 300, C |-> 360]
CareFrom    == [A |-> 120, B |-> 180, C |-> 240]
Percent     == [A |-> 30, B |-> 50, C |-> 75]

Band(distance) ==
  IF distance <= 1500 THEN "A" ELSE IF distance <= 3500 THEN "B" ELSE "C"

-----------------------------------------------------------------------------
(* The service: calculate_entitlement                                      *)

Compensation(j) ==
  IF j.cause \in Extraordinary THEN [status |-> "NOT_PAYABLE", amount |-> 0]
  ELSE IF j.arrives = Unknown THEN [status |-> "INSUFFICIENT_DATA", amount |-> 0]
  ELSE IF j.arrives < 180 THEN [status |-> "NOT_PAYABLE", amount |-> 0]
  ELSE [status |-> "PAYABLE",
        amount |-> LET band == Band(j.distance)
                   IN  IF j.rerouted /\ j.arrives < ReduceBelow[band]
                       THEN Standard[band] \div 2 ELSE Standard[band]]

CareTriggered(j) ==
  \/ j.cancelled
  \/ j.departs # Unknown /\ j.departs >= CareFrom[Band(j.distance)]

\* A share of the fare in whole pence, half a penny going up or down.
ShareUp(fare, percent)   == (fare * percent + 50) \div 100
ShareDown(fare, percent) == (fare * percent + 49) \div 100

\* round(pct * seg_fare, 2) of binary floats: a half penny may go either way.
Shares(j) ==
  LET percent == Percent[Band(j.distance)]
  IN  {ShareUp(j.fare, percent), ShareDown(j.fare, percent)}

Seated(b) == {p \in b.passengers : b.type[p] # "INFANT"}

NotAssessed(status) ==
  [status |-> status, band |-> "none", extraordinary |-> FALSE, comp |-> "none",
   amount |-> 0, care |-> FALSE, share |-> 0, total |-> 0]

\* The answers the service may give for a booking and its journey.
Service(b, j) ==
  IF ~j.disrupted THEN {NotAssessed("NO_DISRUPTION_RECORDED")}
  ELSE IF j.distance = Unknown THEN {NotAssessed("INSUFFICIENT_DATA")}
  ELSE {[status |-> "ASSESSED", band |-> Band(j.distance),
         extraordinary |-> j.cause \in Extraordinary,
         comp |-> Compensation(j).status, amount |-> Compensation(j).amount,
         care |-> CareTriggered(j), share |-> share,
         total |-> Compensation(j).amount * Cardinality(Seated(b))
                   + share * Cardinality(b.downgraded)] : share \in Shares(j)}

-----------------------------------------------------------------------------
(* The desk: cross_check_entitlement, a derivation of its own              *)

BandForDistance(distance) ==
  IF distance <= 1500 THEN "A" ELSE IF distance <= 3500 THEN "B" ELSE "C"

ExpectedStatus(j) ==
  IF j.cause \in Extraordinary \/ j.informed >= 14 THEN "NOT_PAYABLE"
  ELSE IF j.arrives = Unknown THEN "INSUFFICIENT_DATA"
  ELSE IF j.arrives < 180 THEN "NOT_PAYABLE" ELSE "PAYABLE"

\* Mutant: the reduction also at the limit.
ExpectedAmountAt(j) ==
  LET band == BandForDistance(j.distance)
  IN  IF ExpectedStatus(j) # "PAYABLE" THEN 0
      ELSE IF j.rerouted /\ j.arrives <= ReduceBelow[band]
           THEN Standard[band] \div 2 ELSE Standard[band]

ExpectedAmount(j) ==
  LET band == BandForDistance(j.distance)
  IN  IF ExpectedStatus(j) # "PAYABLE" THEN 0
      ELSE IF j.rerouted /\ j.arrives < ReduceBelow[band]
           THEN Standard[band] \div 2 ELSE Standard[band]

\* Decimal arithmetic, ROUND_HALF_UP.
ExpectedShare(j) == ShareUp(j.fare, Percent[BandForDistance(j.distance)])

Agrees(b, j, s) ==
  s.status = "ASSESSED" =>
    /\ s.band = BandForDistance(j.distance)
    /\ s.extraordinary = (j.cause \in Extraordinary)
    /\ s.comp = ExpectedStatus(j)
    /\ (IF s.comp = "PAYABLE" THEN s.amount ELSE 0) = ExpectedAmount(j)
    /\ b.downgraded # {} => s.share = ExpectedShare(j)

-----------------------------------------------------------------------------
(* What the desk may do: the authority table                               *)

Level == {"representative", "supervisor", "manager"}
Rank  == [representative |-> 0, supervisor |-> 1, manager |-> 2]

Permits(operating, required) == Rank[operating] >= Rank[required]

\* An option of another carrier is never booked, at any level.
MayRebook(option, level) ==
  /\ option.own
  /\ (option.same /\ option.fare = 0) \/ Permits(level, "supervisor")

MayRefund(amount, level) == amount <= 200000 \/ Permits(level, "supervisor")

MayLodge(rooms, rate, level) ==
  /\ rooms # Unknown /\ rooms > 0 /\ rate > 0
  /\ rate <= 18000 \/ Permits(level, "supervisor")

\* No level may pay statutory compensation.
MayCompensate(amount, level) == FALSE

=============================================================================
