------------------------------ MODULE Remedies ------------------------------
(***************************************************************************)
(* The vocabulary of the write path: what a proposed remedy is, what the   *)
(* operations API keeps of it, and the two notions of "the same thing" the *)
(* executor works with.                                                    *)
(*                                                                         *)
(* A remedy is a record                                                    *)
(*   kind    rebooking, hotel, compensation, refund, goodwill, escalation  *)
(*   event   the disruption event (disruption_scope)                       *)
(*   people  the passengers it is for                                      *)
(*   detail  what the write log shows of it: flight and date, station and  *)
(*           night, amount, or queue and referral key                      *)
(*   tag     what only the fingerprint sees: cabin, blocking clause        *)
(* The whole record is its fingerprint.  One booking is modelled: every    *)
(* query of the journal and of the write log is filtered by booking.       *)
(***************************************************************************)

Kinds == {"rebooking", "hotel", "compensation", "refund", "goodwill", "escalation"}

\* executor.EXECUTION_ORDER: money follows the journey, the referral comes last.
ExecutionOrder == [rebooking |-> 0, hotel |-> 1, compensation |-> 2,
                   refund |-> 3, goodwill |-> 4, escalation |-> 5]

\* Kinds whose write keeps the passengers and whose benefit is per passenger.
PerPassenger == {"rebooking", "refund", "hotel"}

\* Kinds whose write carries an amount and no event.
MoneyKinds == {"compensation", "goodwill", "refund"}

\* Prefix of the identifiers the operations API gives to a kind.
IdPrefix == [rebooking |-> "RBK", hotel |-> "HTL", compensation |-> "CMP",
             refund |-> "RFD", goodwill |-> "GWP", escalation |-> "ESC"]

IsReferral(r) == r.kind = "escalation"

(***************************************************************************)
(* journal.benefit_keys_for: compensation and goodwill once per event,     *)
(* refund and rebooking once per passenger and event, a hotel once per     *)
(* passenger, station, night and event; a referral consumes no benefit.    *)
(***************************************************************************)
BenefitKeys(r) ==
  IF r.kind \in {"compensation", "goodwill"} THEN {<<r.kind, r.event>>}
  ELSE IF r.kind \in {"refund", "rebooking"}
    THEN {<<r.kind, r.event, p>> : p \in r.people}
  ELSE IF r.kind = "hotel"
    THEN {<<r.kind, r.event, r.detail, p>> : p \in r.people}
  ELSE {}

\* Mutant: the amount, flight or night is not compared.
EquivalentKindOnly(w, r) == w.kind = r.kind

(***************************************************************************)
(* executor._matcher_for: the equivalence the write log can decide.  It    *)
(* never sees the event nor the tag, and a payment's passengers are not    *)
(* compared.                                                               *)
(***************************************************************************)
Equivalent(w, r) ==
  /\ w.kind = r.kind
  /\ w.detail = r.detail
  /\ r.kind \in PerPassenger => w.people = r.people

\* Mutant: another amount is taken for another benefit.
OverlapsSameDetail(w, r) == w.kind = r.kind /\ w.detail = r.detail

(***************************************************************************)
(* The overlap scan of _execute_one: a write of the same kind, for the     *)
(* same station and night if it is a hotel, touching one of the            *)
(* passengers if the kind is per passenger.                                *)
(***************************************************************************)
Overlaps(w, r) ==
  /\ w.kind = r.kind
  /\ r.kind = "hotel" => w.detail = r.detail
  /\ r.kind \in PerPassenger => (w.people = {} \/ w.people \cap r.people # {})
=============================================================================
