------------------------------- MODULE Planner -------------------------------
(***************************************************************************)
(* How a plan is made of one message (planner.Planner.plan, with           *)
(* pipeline._gather_facts before it): the facts are read, what concerns    *)
(* the whole booking comes first, then the live requests one by one, then  *)
(* what only all of them together show, and last whether the message and   *)
(* the record name the same cause.                                         *)
(*                                                                         *)
(* A plan is what later stages act on: proposals, referrals, answers and   *)
(* questions to the passenger.  Each remembers the request it came from,   *)
(* 0 for none.                                                             *)
(***************************************************************************)
EXTENDS Entitlement, Sequences

CONSTANTS
  Passengers,
  Cases,     \* the cases to plan: booking, journey, contact, level of the desk
  Options,   \* flights that the inventory may offer
  Rooms,     \* rooms that a station may have left
  Rates      \* and their price

Kind == {"rebooking", "refund", "compensation", "hotel", "expenses", "goodwill",
         "assistance", "lost property", "out of scope", "other"}

\* A live request: for whom, whether it names a stranger, whether its quote is
\* in the message, whether it lets the desk book.
Request == [kind : Kind, for : SUBSET Passengers, stray : BOOLEAN,
            quoted : BOOLEAN, authorised : BOOLEAN]

Booking == [passengers : SUBSET Passengers, type : [Passengers -> PassengerType],
            assisted : SUBSET Passengers,    \* with a declared requirement
            noted : BOOLEAN,                 \* special_requests
            flown : SUBSET Passengers, downgraded : SUBSET Passengers,
            oneSegment : BOOLEAN, paid : Nat]

Contact == [read : BOOLEAN,       \* the extraction succeeded
            requests : Seq(Request),
            forged : BOOLEAN,     \* it claims authority over the handling
            constrained : BOOLEAN, sound : BOOLEAN,   \* preferences
            demand : Nat \cup {Unknown}, claims : BOOLEAN,
            repeat : BOOLEAN,     \* goodwill paid before
            blames : Cause \cup {"none"},   \* the cause it claims
            settled : BOOLEAN]    \* compensation paid on this booking before

Case == [booking : Booking, journey : Journey, contact : Contact, level : Level]

ASSUME CasesAssumption ==
  /\ Cases \subseteq Case
  /\ \A c \in Cases :
       /\ Seated(c.booking) # {}   \* an infant does not travel alone
       /\ c.booking.downgraded \subseteq c.booking.passengers
       /\ \A i \in DOMAIN c.contact.requests :   \* match_passengers
            c.contact.requests[i].for \subseteq c.booking.passengers
  /\ IsFiniteSet(Passengers)
  /\ Options \subseteq [own : BOOLEAN, same : BOOLEAN, seats : Nat, fits : BOOLEAN,
                        arrives : Nat, fare : Nat]
  /\ Rooms \subseteq Nat \cup {Unknown} /\ Rates \subseteq Nat

VARIABLES
  case,        \* the inputs, which planning leaves alone
  facts,       \* what could be read of the journey
  pc, next,    \* the stage, and the request at hand
  handled,     \* kinds of request seen
  disposed,    \* requests with an entry in request_dispositions
  proposals, handovers, answers, asks

vars == <<case, facts, pc, next, handled, disposed, proposals, handovers, answers,
          asks>>

booking == case.booking
journey == case.journey
contact == case.contact

Nothing == [service |-> NotAssessed("none"), agrees |-> TRUE, flight |-> FALSE,
            history |-> FALSE]

Queue  == {"GENERAL", "SUPERVISOR", "SPECIAL_ASSISTANCE", "YTP", "LOST_PROPERTY",
           "OPS_LIAISON"}
Clause == {"S3.1", "S4.2", "S4.4", "S4.5", "S5.2", "S6.1", "S6.3", "S6.4", "S7.3", "S8.2",
           "S10.4", "S11", "S12.1", "S12.4", "S13.2", "S14.4", "S15.6",
           "unread", "flown", "price", "night", "voucher"}

Item(queue, clause, from) == [queue |-> queue, clause |-> clause, from |-> from]

Proposal(kind, who, allowed, amount) ==
  [kind |-> kind, for |-> who, state |-> IF allowed THEN "proposed" ELSE "blocked",
   amount |-> amount, from |-> next]

\* What a step adds to the plan.
Add(P, H, A, Q) ==
  /\ proposals' = proposals \cup P /\ handovers' = handovers \cup H
  /\ answers' = answers \cup A /\ asks' = asks \cup Q

Init ==
  /\ case \in Cases
  /\ facts = Nothing /\ pc = "facts" /\ next = 0
  /\ handled = {} /\ disposed = {}
  /\ proposals = {} /\ handovers = {} /\ answers = {} /\ asks = {}

-----------------------------------------------------------------------------
(* The facts: pipeline._gather_facts                                       *)

\* Each read but that of the booking may fail, and the planner goes on.
GatherFacts ==
  /\ pc = "facts"
  /\ \E service \in Service(booking, journey) \cup {NotAssessed("SERVICE_ERROR")},
        flight, history \in BOOLEAN :
       /\ flight => journey.disrupted
       /\ facts' = [service |-> service, flight |-> flight, history |-> history,
                    agrees |-> Agrees(booking, journey, service)]
  /\ pc' = "open"
  /\ UNCHANGED <<case, next, handled, disposed, proposals, handovers, answers, asks>>

Repeat  == facts.history /\ contact.repeat
Settled == facts.history /\ contact.settled
Cancelled == facts.flight /\ journey.cancelled
Departs == IF facts.flight THEN journey.departs ELSE Unknown

-----------------------------------------------------------------------------
(* Compensation: _plan_compensation                                        *)

Unassessable ==
  \/ facts.service.status = "INSUFFICIENT_DATA"
  \/ facts.service.comp = "INSUFFICIENT_DATA"

Owed == facts.service.total > 0

\* Who is to be paid: all who sit, or only those who were downgraded.
Payees ==
  {p \in booking.passengers : \/ facts.service.amount > 0 /\ p \in Seated(booking)
                              \/ facts.service.share > 0 /\ p \in booking.downgraded}

\* What assessing compensation adds, with the referrals H of the same step.
Compensate(H) ==
  LET s == facts.service
      allowed == MayCompensate(s.total, case.level)
  IN  IF s.status = "NO_DISRUPTION_RECORDED" THEN Add({}, H, {next}, {})
      ELSE IF Unassessable
        THEN Add({}, H \cup {Item("GENERAL", "S5.2", next)}, {}, {})
      ELSE IF s.comp = "NOT_PAYABLE" /\ ~Owed THEN Add({}, H, {next}, {})
      ELSE IF ~Owed \/ ~facts.agrees THEN Add({}, H, {}, {})
      ELSE IF Settled THEN Add({}, H, {next}, {})
      ELSE Add({Proposal("compensation", Payees, allowed, s.total)},
               H \cup (IF allowed THEN {} ELSE {Item("SUPERVISOR", "S12.1", next)}),
               {}, {})

-----------------------------------------------------------------------------
(* Before the requests: plan                                               *)

Forgery == IF contact.forged THEN {Item("SUPERVISOR", "S12.4", 0)} ELSE {}
Dispute == IF facts.agrees THEN {} ELSE {Item("SUPERVISOR", "S10.4", 0)}
Young   == {p \in booking.passengers : booking.type[p] = "YTP"}

\* pipeline._add_cause_dispute_referral, when planning is over: the record's
\* cause, of the flight or of the service, against the one that is claimed.
CauseDispute ==
  IF /\ facts.flight \/ facts.service.status = "ASSESSED"
     /\ contact.blames \notin {"none", journey.cause}
  THEN {Item("OPS_LIAISON", "S3.1", 0)} ELSE {}

\* No extraction: what is owed is still assessed.
Unread ==
  /\ pc = "open" /\ ~contact.read
  /\ Compensate({Item("GENERAL", "unread", 0)})
  /\ pc' = "done"
  /\ UNCHANGED <<case, facts, next, handled, disposed>>

BlockEverythingForYTP ==
  /\ pc = "open" /\ contact.read /\ Young # {}
  /\ Add({}, Forgery \cup {Item("YTP", "S13.2", 0)} \cup CauseDispute, {}, {})
  /\ pc' = "done"
  /\ UNCHANGED <<case, facts, next, handled, disposed>>

Open ==
  /\ pc = "open" /\ contact.read /\ Young = {}
  /\ Add({}, Forgery \cup Dispute, {}, {})
  /\ pc' = "requests" /\ next' = 1
  /\ UNCHANGED <<case, facts, handled, disposed>>

-----------------------------------------------------------------------------
(* One request: _dispatch                                                  *)

Current == contact.requests[next]

AtRequest == pc = "requests" /\ next <= Len(contact.requests)

\* The request at hand is of this kind, and its turn is over with this step.
Dispatch(kinds) ==
  /\ AtRequest /\ Current.kind \in kinds
  /\ next' = next + 1 /\ pc' = pc
  /\ handled' = handled \cup {Current.kind} /\ disposed' = disposed \cup {next}
  /\ UNCHANGED <<case, facts>>

Refer(queue, clause) == Add({}, {Item(queue, clause, next)}, {}, {})
Answer               == Add({}, {}, {next}, {})

\* Mutant: what was asked for is dropped.
AskNothing == Add({}, {}, {}, {})

Ask == Add({}, {}, {}, {next})

\* _resolve_request_passengers: who is named, or the only passenger.
Named    == Current.for # {} \/ Current.stray

\* Mutant: a request that names nobody is for everybody.
ResolvedToAll == Named => Current.for # {} /\ ~Current.stray

Resolved == IF Named THEN Current.for # {} /\ ~Current.stray
            ELSE Cardinality(booking.passengers) = 1

\* Mutant: whoever the desk has heard of.
WhoKnown == IF Named THEN Current.for ELSE Passengers

Who == IF Named THEN Current.for ELSE booking.passengers

\* A second compensation request adds nothing: the first was for the booking.
SkipHandled ==
  /\ AtRequest /\ Current.kind = "compensation" /\ "compensation" \in handled
  /\ next' = next + 1
  /\ UNCHANGED <<case, facts, pc, handled, disposed, proposals, handovers, answers,
                 asks>>

AskUnverified ==
  /\ Dispatch({"rebooking", "refund", "hotel"}) /\ ~Current.quoted
  /\ Ask

Simple ==
  \/ Dispatch({"other"}) /\ Answer
  \/ Dispatch({"expenses"}) /\ Refer("SUPERVISOR", "S4.4")
  \/ Dispatch({"goodwill"}) /\ Refer("SUPERVISOR", "S11")
  \/ Dispatch({"lost property"}) /\ Refer("LOST_PROPERTY", "S15.6")
  \/ Dispatch({"out of scope"}) /\ Refer("GENERAL", "S15.6")

Declared == booking.assisted # {} \/ booking.noted

Assistance ==
  /\ Dispatch({"assistance"})
  /\ IF Declared THEN Refer("SPECIAL_ASSISTANCE", "S14.4") ELSE Answer

\* Mutant: assessed with every request for it.
AssessCompensationAgain == Dispatch({"compensation"}) /\ Compensate({})

AssessCompensation ==
  /\ "compensation" \notin handled
  /\ Dispatch({"compensation"})
  /\ Compensate({})

-----------------------------------------------------------------------------
(* Re-routing: _plan_rebooking                                             *)

Rebooking == Dispatch({"rebooking"}) /\ Current.quoted

MayChange == Cancelled \/ Departs > 300

NothingToRebook ==
  /\ Rebooking /\ ~(journey.disrupted /\ MayChange)
  /\ Refer("GENERAL", "S6.1")

Changing == Rebooking /\ journey.disrupted /\ MayChange

AskWhomToRebook == Changing /\ ~Resolved /\ Ask

\* Those with a booked assistance are referred; the others go on.
Escorted == Who \cap booking.assisted
Movable  == Who \ booking.assisted
Escorts  == IF Escorted = {} THEN {} ELSE {Item("SPECIAL_ASSISTANCE", "S14.4", next)}

NobodyMovable ==
  /\ Changing /\ Resolved /\ Movable = {}
  /\ Add({}, Escorts, {}, {})

Moving == Changing /\ Resolved /\ Movable # {}

AskConsent ==
  /\ Moving /\ ~Current.authorised
  /\ Add({}, Escorts, {}, {next})

Rebookings ==
  {i \in DOMAIN contact.requests : contact.requests[i].kind = "rebooking"}

\* Preferences are of the contact, not of a request.
Assignable == contact.constrained => contact.sound /\ Cardinality(Rebookings) = 1

PreferencesUnclear ==
  /\ Moving /\ Current.authorised /\ ~Assignable
  /\ Add({}, Escorts \cup {Item("SUPERVISOR", "S6.4", next)}, {}, {})

Searching == Moving /\ Current.authorised /\ Assignable

\* select_option over the rows of all searched origins; an origin whose
\* inventory is unavailable has none.
Passing(rows) ==
  {o \in rows : o.own /\ o.same /\ o.seats >= Cardinality(Movable) /\ o.fits}

Earliest(rows) ==
  {o \in rows : \A q \in rows : \/ o.arrives < q.arrives
                                \/ o.arrives = q.arrives /\ o.fare <= q.fare}

\* _plan_partner_fallback: looked at, never booked.
NoOwnOption ==
  /\ Searching
  /\ \E rows \in SUBSET Options : Passing(rows) = {}
  /\ Add({}, Escorts \cup {Item("SUPERVISOR", "S8.2", next)}, {}, {})

ProposeRebooking ==
  /\ Searching
  /\ \E rows \in SUBSET Options : \E chosen \in Earliest(Passing(rows)) :
       LET allowed == MayRebook(chosen, case.level)
       IN  Add({Proposal("rebooking", Movable, allowed, chosen.fare)},
               Escorts \cup
                 (IF allowed THEN {} ELSE {Item("SUPERVISOR", "S6.3", next)}), {}, {})

-----------------------------------------------------------------------------
(* Refund: _plan_refund                                                    *)

Refund == Dispatch({"refund"}) /\ Current.quoted

RefundDue == Cancelled \/ Departs >= 300

RefundNotDue == Refund /\ ~RefundDue /\ Answer
AskWhomToRefund == Refund /\ RefundDue /\ ~Resolved /\ Ask

HasFlown == Who \cap booking.flown # {}

\* The price is in the record of one passenger on one segment only.
Priced == Cardinality(booking.passengers) = 1 /\ booking.oneSegment

RefundUnclear ==
  /\ Refund /\ RefundDue /\ Resolved
  /\ \/ HasFlown /\ Refer("SUPERVISOR", "flown")
     \/ ~HasFlown /\ ~Priced /\ Refer("SUPERVISOR", "price")

\* Nothing is referred when the refund is blocked.
ProposeRefund ==
  /\ Refund /\ RefundDue /\ Resolved /\ ~HasFlown /\ Priced
  /\ Add({Proposal("refund", Who, MayRefund(booking.paid, case.level),
                   booking.paid)}, {}, {}, {})

-----------------------------------------------------------------------------
(* Hotel: _plan_hotel                                                      *)

Hotel == Dispatch({"hotel"}) /\ Current.quoted

HotelNotDue == Hotel /\ ~facts.service.care /\ Answer
AskWhomToLodge == Hotel /\ facts.service.care /\ ~Resolved /\ Ask

Lodging == Hotel /\ facts.service.care /\ Resolved

\* The night is unknown, a voucher covers some of them, or there is no
\* allocation.
LodgingUnclear ==
  /\ Lodging
  /\ \/ Refer("GENERAL", "night")
     \/ Refer("SUPERVISOR", "voucher")
     \/ Refer("SUPERVISOR", "S4.5")

AlreadyLodged == Lodging /\ Answer

\* Mutant: a room that may not be given is not referred.
ProposeHotelOnly ==
  /\ Lodging
  /\ \E rooms \in Rooms, rate \in Rates :
       Add({Proposal("hotel", Who, MayLodge(rooms, rate, case.level), rate)}, {}, {}, {})

ProposeHotel ==
  /\ Lodging
  /\ \E rooms \in Rooms, rate \in Rates :
       LET allowed == MayLodge(rooms, rate, case.level)
       IN  Add({Proposal("hotel", Who, allowed, rate)},
               IF allowed THEN {} ELSE {Item("SUPERVISOR", "S4.2", next)}, {}, {})

-----------------------------------------------------------------------------
(* After the requests: plan                                                *)

Of(kind) == {p \in proposals : p.kind = kind}

\* Mutant: a refund looks only at the re-routings before it.
ConflictingBefore ==
  {p \in Of("rebooking") : \E q \in Of("refund") :
     p.for \cap q.for # {} /\ p.from < q.from}

\* Re-routings and refunds of the same passenger, whatever their state.
Conflicting ==
  {p \in Of("rebooking") : \E q \in Of("refund") : p.for \cap q.for # {}} \cup
  {q \in Of("refund") : \E p \in Of("rebooking") : p.for \cap q.for # {}}

ResolveConflicts ==
  /\ pc = "requests" /\ next > Len(contact.requests)
  /\ proposals' = (proposals \ Conflicting)
                  \cup {[p EXCEPT !.state = "blocked"] : p \in Conflicting}
  /\ handovers' = handovers \cup
       (IF Conflicting = {} THEN {} ELSE {Item("SUPERVISOR", "S7.3", 0)})
  /\ pc' = "unasked" /\ next' = 0
  /\ UNCHANGED <<case, facts, handled, disposed, answers, asks>>

\* Compensation nobody asked for.
AssessUnasked ==
  /\ pc = "unasked"
  /\ IF "compensation" \in handled THEN Add({}, {}, {}, {}) ELSE Compensate({})
  /\ pc' = "demand"
  /\ UNCHANGED <<case, facts, next, handled, disposed>>

Asked(kinds) ==
  \E i \in DOMAIN contact.requests : contact.requests[i].kind \in kinds

OverDemand ==
  /\ contact.demand # Unknown /\ contact.demand > facts.service.total
  /\ ~Asked({"expenses"})

Disputes == contact.claims \/ Asked({"compensation", "goodwill"})

\* _check_discretionary_demand
Discretion ==
  IF /\ \A h \in handovers : h.clause # "S11"
     /\ Disputes /\ (OverDemand \/ Repeat)
  THEN {Item("SUPERVISOR", "S11", next)} ELSE {}

CheckDemand ==
  /\ pc = "demand"
  /\ Add({}, Discretion \cup CauseDispute, {}, {})
  /\ pc' = "done"
  /\ UNCHANGED <<case, facts, next, handled, disposed>>

-----------------------------------------------------------------------------
OneRequest ==
  \/ SkipHandled \/ AskUnverified \/ Simple \/ Assistance \/ AssessCompensation
  \/ NothingToRebook \/ AskWhomToRebook \/ NobodyMovable \/ AskConsent
  \/ PreferencesUnclear \/ NoOwnOption \/ ProposeRebooking
  \/ RefundNotDue \/ AskWhomToRefund \/ RefundUnclear \/ ProposeRefund
  \/ HotelNotDue \/ AskWhomToLodge \/ LodgingUnclear \/ AlreadyLodged \/ ProposeHotel

Next ==
  \/ GatherFacts \/ Unread \/ BlockEverythingForYTP \/ Open
  \/ OneRequest
  \/ ResolveConflicts \/ AssessUnasked \/ CheckDemand

Spec == Init /\ [][Next]_vars

-----------------------------------------------------------------------------
(* Properties                                                              *)

\* Every variable has its type (the fields of Plan and CaseFacts).
TypeOK ==
  /\ case \in Case
  /\ facts.service \in
       [status : {"none", "ASSESSED", "NO_DISRUPTION_RECORDED",
                  "INSUFFICIENT_DATA", "SERVICE_ERROR"},
        band : {"none", "A", "B", "C"}, extraordinary : BOOLEAN,
        comp : {"none", "PAYABLE", "NOT_PAYABLE", "INSUFFICIENT_DATA"},
        amount : Nat, care : BOOLEAN, share : Nat, total : Nat]
  /\ facts.agrees \in BOOLEAN /\ facts.flight \in BOOLEAN /\ facts.history \in BOOLEAN
  /\ pc \in {"facts", "open", "requests", "unasked", "demand", "done"}
  /\ next \in Nat
  /\ handled \subseteq Kind /\ disposed \subseteq DOMAIN contact.requests
  /\ proposals \subseteq
       [kind : {"rebooking", "refund", "compensation", "hotel"},
        for : SUBSET booking.passengers, state : {"proposed", "blocked"},
        amount : Nat, from : Nat]
  /\ handovers \subseteq [queue : Queue, clause : Clause, from : Nat]
  /\ answers \subseteq Nat /\ asks \subseteq Nat

Proposed(kind) == {p \in Of(kind) : p.state = "proposed"}

\* The desk and the service disagree for two reasons only: 14 days' notice,
\* which the service does not look at, or half a penny of the fare's share; and
\* with such notice they do disagree, so that nothing is paid unseen
\* (policy.cross_check_entitlement, ops_server.calculate_entitlement).
Notice == /\ journey.informed >= 14 /\ journey.cause \notin Extraordinary
          /\ journey.arrives = Unknown \/ journey.arrives >= 180
HalfAPenny == /\ booking.downgraded # {}
              /\ (journey.fare * Percent[Band(journey.distance)]) % 100 = 50
DisagreementHasAReason ==
  /\ ~facts.agrees => Notice \/ HalfAPenny
  /\ facts.service.status = "ASSESSED" /\ Notice => ~facts.agrees

\* Nobody is both re-routed and refunded, in whatever order and form the
\* requests came (planner.plan, S7.3).
ElectionsDoNotConflict ==
  pc \in {"unasked", "demand", "done"} =>
    \A p \in Proposed("rebooking"), q \in Proposed("refund") : p.for \cap q.for = {}

\* A remedy is proposed for those who asked for it and no others, from words
\* that are in the message; none for a booking with a young traveller, no seat
\* without consent or for those whose assistance cannot move
\* (_dispatch, _resolve_request_passengers, _plan_rebooking).
OnlyForThoseWhoAsked ==
  \A p \in proposals : p.state = "proposed" =>
    /\ Young = {} /\ p.from # 0
    /\ LET r == contact.requests[p.from]
       IN  /\ r.quoted /\ r.kind = p.kind /\ ~r.stray
           /\ p.for \subseteq r.for \/ (r.for = {} /\ Cardinality(booking.passengers) = 1)
           /\ p.kind = "rebooking" =>
                r.authorised /\ p.for \cap booking.assisted = {}

TakenUp(i) == \/ i \in answers \cup asks
              \/ \E x \in proposals : x.from = i
              \/ \E x \in handovers : x.from = i

\* No live request vanishes: a proposal, a referral, an answer or a question
\* came of it.  Compensation may be covered by an earlier request, or held back
\* by the dispute with the service; when the service failed it does vanish
\* (planner.plan, request_dispositions).
EveryRequestIsTakenUp ==
  pc = "done" /\ contact.read /\ Young = {} =>
    \A i \in DOMAIN contact.requests :
      \/ TakenUp(i)
      \/ /\ contact.requests[i].kind = "compensation"
         /\ \/ \E j \in disposed : j < i /\ contact.requests[j].kind = "compensation"
            \/ ~facts.agrees /\ \E h \in handovers : h.clause = "S10.4"
            \/ facts.service.status = "SERVICE_ERROR"

\* Compensation is assessed once for the booking, asked for or not, and whether
\* or not the message could be read (planner.plan, _plan_compensation).
CompensationIsAssessedOnce ==
  LET times == Cardinality(Of("compensation"))
               + Cardinality({h \in handovers : h.clause = "S5.2"})
               + Cardinality({i \in answers :
                    i # 0 => contact.requests[i].kind = "compensation"})
  IN  pc = "done" /\ (contact.read => Young = {}) =>
        /\ times <= 1
        /\ times = 1 \/ ~facts.agrees \/ facts.service.status = "SERVICE_ERROR"

\* What the desk may not do itself is put before a person: a blocked remedy has
\* a referral of its request, or of its conflict (planner._plan_rebooking,
\* _plan_hotel, _plan_compensation; a refund has none).
BlockedIsReferred ==
  pc = "done" =>
    \A p \in proposals :
      p.state = "blocked" /\ p.kind # "refund" =>
        \E h \in handovers : h.queue = "SUPERVISOR" /\
           (h.from = p.from \/ h.clause = "S7.3")

=============================================================================
