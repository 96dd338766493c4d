-------------------------- MODULE MCRemedyExecutor --------------------------
(* Small instances of RemedyExecutor for TLC. *)
EXTENDS RemedyExecutor

Remedy(kind, event, people, detail, tag) ==
  [kind |-> kind, event |-> event, people |-> people, detail |-> detail, tag |-> tag]

Comp(event, amount) == Remedy("compensation", event, {"p1", "p2"}, amount, "-")
Referral(clause) == Remedy("escalation", "E1", {}, "supervisor", clause)

Rebooking(event, people, flight) == Remedy("rebooking", event, people, flight, "Y")
Hotel(event, people, night) == Remedy("hotel", event, people, night, "-")

\* A party of two: one passenger alone, then both on another flight, and a
\* referral.
Party == {Rebooking("E1", {"p1"}, "XA101"), Rebooking("E1", {"p1", "p2"}, "XA103"),
          Referral("S12.2")}

\* Two events whose amounts differ; the other desk pays one of them, in full or
\* in part.
TwoEvents     == {Comp("E1", 250), Comp("E2", 400)}
OtherPayments == {Comp("E1", 250), Comp("E1", 100)}

\* Two events with the same amount.
EqualAmounts == {Comp("E1", 250), Comp("E2", 250)}

OneHotel == {Hotel("E1", {"p1"}, "LGW-06")}
=============================================================================
