---------------------------- MODULE PlannerProofs ----------------------------
(***************************************************************************)
(* What a plan owes, for any cases, passengers and inventory.              *)
(*                                                                         *)
(* The argument.  The figures are compared by cases of the band and of the *)
(* delay.  Each branch of a request adds to the plan a set of proposals    *)
(* and referrals that is sound by itself (Sound), which AddKeeps carries   *)
(* over to the whole plan; only the resolution of conflicts changes what   *)
(* is there, and it only blocks.  That the referrals and answers only grow *)
(* (Kept) is what keeps a request accounted for once its turn is over.     *)
(* Compensation is counted by what an assessment may come to (CInv): none  *)
(* of it before its turn, one of it after, and every other step aside.     *)
(***************************************************************************)
EXTENDS Planner, FiniteSetTheorems, TLAPS

Served == facts.service \in Service(booking, journey) \cup {NotAssessed("SERVICE_ERROR")}

FactsOK ==
  /\ facts.agrees = Agrees(booking, journey, facts.service)
  /\ Served

ServiceType ==
  [status : {"none", "ASSESSED", "NO_DISRUPTION_RECORDED",
             "INSUFFICIENT_DATA", "SERVICE_ERROR"},
   band : {"none", "A", "B", "C"}, extraordinary : BOOLEAN,
   comp : {"none", "PAYABLE", "NOT_PAYABLE", "INSUFFICIENT_DATA"},
   amount : Nat, care : BOOLEAN, share : Nat, total : Nat]

-----------------------------------------------------------------------------
(* The inputs and the figures                                              *)

\* What the assumption on the cases says of the one at hand.
LEMMA Given ==
  ASSUME case \in Cases
  PROVE  /\ case \in Case
         /\ booking.passengers \subseteq Passengers /\ IsFiniteSet(booking.passengers)
         /\ booking.paid \in Nat
         /\ booking.downgraded \subseteq booking.passengers
         /\ Seated(booking) # {} /\ IsFiniteSet(Seated(booking))
         /\ journey \in Journey
         /\ contact.requests \in Seq(Request)
         /\ \A i \in DOMAIN contact.requests :
              /\ contact.requests[i] \in Request
              /\ contact.requests[i].for \subseteq booking.passengers
<1>1. case \in Case BY CasesAssumption
<1>2. /\ booking \in Booking /\ journey \in Journey /\ contact \in Contact
  BY <1>1 DEF Case, booking, journey, contact
<1>3. booking.passengers \subseteq Passengers /\ booking.paid \in Nat
  BY <1>2 DEF Booking
<1>4. IsFiniteSet(booking.passengers)
  BY <1>3, CasesAssumption, FS_Subset
<1>5. IsFiniteSet(Seated(booking))
  BY <1>4, FS_Subset DEF Seated
<1>6. contact.requests \in Seq(Request)
  BY <1>2 DEF Contact
<1>7. \A i \in DOMAIN contact.requests : contact.requests[i] \in Request
  BY <1>6
<1> QED BY <1>1, <1>2, <1>3, <1>4, <1>5, <1>6, <1>7, CasesAssumption DEF booking, contact

\* There are three bands, and the tables hold a figure for each.
LEMMA Bands ==
  ASSUME NEW d \in Int
  PROVE  Band(d) \in {"A", "B", "C"} /\ BandForDistance(d) = Band(d)
BY DEF Band, BandForDistance

\* The figures of the tables, and half of them, in pence.
LEMMA Tables ==
  ASSUME NEW b \in {"A", "B", "C"}
  PROVE  /\ Standard[b] \in {22000, 35000, 52000}
         /\ Standard[b] \div 2 \in {11000, 17500, 26000}
         /\ ReduceBelow[b] \in Nat /\ CareFrom[b] \in Nat
         /\ Percent[b] \in {30, 50, 75}
BY DEF Standard, ReduceBelow, CareFrom, Percent

\* Half a penny goes up or down, and nothing else tells the two apart.
LEMMA HalfPenny ==
  ASSUME NEW fare \in Nat, NEW percent \in {30, 50, 75}
  PROVE  /\ ShareUp(fare, percent) \in Nat /\ ShareDown(fare, percent) \in Nat
         /\ ShareUp(fare, percent) # ShareDown(fare, percent) =>
              (fare * percent) % 100 = 50
BY DEF ShareUp, ShareDown

\* Compensation is a positive amount where it is payable and none elsewhere.
LEMMA CompensationFigure ==
  ASSUME NEW j \in Journey
  PROVE  /\ Compensation(j).status \in {"PAYABLE", "NOT_PAYABLE", "INSUFFICIENT_DATA"}
         /\ Compensation(j).amount \in Nat
         /\ Compensation(j).status = "PAYABLE" => Compensation(j).amount > 0
         /\ Compensation(j).status # "PAYABLE" => Compensation(j).amount = 0
<1>1. j.distance \in Int BY DEF Journey, Unknown
<1> QED BY <1>1, Bands, Tables DEF Compensation

\* The service's answers have their type, and what is payable is positive.
LEMMA ServiceFigures ==
  ASSUME case \in Cases, Served
  PROVE  /\ facts.service \in ServiceType
         /\ facts.service.status # "none"
         /\ facts.service.status # "ASSESSED" =>
              facts.service = NotAssessed(facts.service.status)
         /\ facts.service.status = "ASSESSED" =>
              /\ facts.service.comp # "none"
              /\ facts.service.comp = "PAYABLE" => facts.service.total > 0
<1> DEFINE s == facts.service
<1>1. ASSUME NEW why \in {"NO_DISRUPTION_RECORDED", "INSUFFICIENT_DATA", "SERVICE_ERROR"},
             s = NotAssessed(why)
      PROVE  s \in ServiceType /\ s.status = why
  BY <1>1 DEF NotAssessed, ServiceType
<1>2. ASSUME s \notin {NotAssessed("NO_DISRUPTION_RECORDED"),
                     NotAssessed("INSUFFICIENT_DATA"), NotAssessed("SERVICE_ERROR")}
      PROVE  /\ s \in ServiceType /\ s.status = "ASSESSED" /\ s.comp # "none"
             /\ s.comp = "PAYABLE" => s.total > 0
  <2> DEFINE j == journey
             comp == Compensation(j)
             seats == Cardinality(Seated(booking))
             down == Cardinality(booking.downgraded)
  <2>1. PICK share \in Shares(j) :
          s = [status |-> "ASSESSED", band |-> Band(j.distance),
               extraordinary |-> j.cause \in Extraordinary,
               comp |-> comp.status, amount |-> comp.amount,
               care |-> CareTriggered(j), share |-> share,
               total |-> comp.amount * seats + share * down]
    BY <1>2 DEF Served, Service
  <2>2. j \in Journey BY Given
  <2>3. j.distance \in Int /\ j.fare \in Nat /\ j.cancelled \in BOOLEAN
    BY <2>2 DEF Journey, Unknown
  <2>4. share \in Nat
    <3> DEFINE percent == Percent[Band(j.distance)]
    <3>1. percent \in {30, 50, 75} BY <2>3, Bands, Tables
    <3>2. share \in {ShareUp(j.fare, percent), ShareDown(j.fare, percent)}
      BY <2>1 DEF Shares
    <3> HIDE DEF percent
    <3> QED BY <2>3, <3>1, <3>2, HalfPenny
  <2>5. seats \in Nat \ {0}
    BY Given, FS_CardinalityType, FS_EmptySet
  <2>6. down \in Nat
    BY Given, FS_Subset, FS_CardinalityType
  <2>7. comp.amount \in Nat /\ (comp.status = "PAYABLE" => comp.amount > 0)
        /\ comp.status \in {"PAYABLE", "NOT_PAYABLE", "INSUFFICIENT_DATA"}
    BY <2>2, CompensationFigure
  <2>8. share * down \in Nat /\ comp.amount * seats \in Nat
        /\ (comp.amount > 0 => comp.amount * seats > 0)
    <3> HIDE DEF comp, seats, down
    <3>1. \A x, y \in Nat : x * y \in Nat OBVIOUS
    <3>2. \A x, y \in Nat : x > 0 /\ y > 0 => x * y > 0 OBVIOUS
    <3> QED BY <2>4, <2>5, <2>6, <2>7, <3>1, <3>2
  <2>9. comp.amount * seats + share * down \in Nat
        /\ (comp.amount > 0 => comp.amount * seats + share * down > 0)
    <3> HIDE DEF comp, seats, down
    <3> QED BY <2>8
  <2>10. CareTriggered(j) \in BOOLEAN BY <2>3 DEF CareTriggered
  <2>11. Band(j.distance) \in {"A", "B", "C"} BY <2>3, Bands
  <2> QED
    <3> HIDE DEF comp, seats, down, j
    <3> QED BY <2>1, <2>4, <2>7, <2>9, <2>10, <2>11 DEF ServiceType
<1> QED BY <1>1, <1>2

\* Without such notice the desk expects what the service computes; with it the
\* service computes what the desk does not expect.
LEMMA BothDerivations ==
  ASSUME case \in Cases
  PROVE  /\ ~Notice => /\ Compensation(journey).status = ExpectedStatus(journey)
                       /\ Compensation(journey).amount = ExpectedAmount(journey)
         /\ Notice => Compensation(journey).status # ExpectedStatus(journey)
<1>1. journey \in Journey BY Given
<1>2. /\ journey.distance \in Int /\ journey.arrives \in Int /\ journey.informed \in Int
      /\ journey.arrives # Unknown => journey.arrives \in Nat
  BY <1>1 DEF Journey, Unknown
<1>3. BandForDistance(journey.distance) = Band(journey.distance)
  BY <1>2, Bands
<1> QED BY <1>2, <1>3 DEF Compensation, ExpectedStatus, ExpectedAmount, Notice

\* The answers disagree for the two reasons only.
LEMMA Disagreement ==
  ASSUME case \in Cases, FactsOK
  PROVE  DisagreementHasAReason
<1> DEFINE s == facts.service
           percent == Percent[Band(journey.distance)]
<1>1. CASE s.status # "ASSESSED"
  BY <1>1 DEF FactsOK, Agrees, DisagreementHasAReason
<1>2. CASE s.status = "ASSESSED"
  <2>1. PICK share \in {ShareUp(journey.fare, percent), ShareDown(journey.fare, percent)} :
          s = [status |-> "ASSESSED", band |-> Band(journey.distance),
               extraordinary |-> journey.cause \in Extraordinary,
               comp |-> Compensation(journey).status,
               amount |-> Compensation(journey).amount,
               care |-> CareTriggered(journey), share |-> share,
               total |-> Compensation(journey).amount * Cardinality(Seated(booking))
                         + share * Cardinality(booking.downgraded)]
    BY <1>2 DEF FactsOK, Served, Service, NotAssessed, Shares
  <2>2. journey \in Journey BY Given
  <2>3. journey.distance \in Int /\ journey.fare \in Nat
    BY <2>2 DEF Journey, Unknown
  <2>4. percent \in {30, 50, 75} /\ BandForDistance(journey.distance) = Band(journey.distance)
    BY <2>3, Bands, Tables
  <2>5. ExpectedShare(journey) = ShareUp(journey.fare, percent)
    BY <2>4 DEF ExpectedShare
  <2>6. share # ExpectedShare(journey) => (journey.fare * percent) % 100 = 50
    <3> HIDE DEF percent
    <3> QED BY <2>1, <2>3, <2>4, <2>5, HalfPenny
  <2>7. facts.agrees <=>
          /\ Compensation(journey).status = ExpectedStatus(journey)
          /\ (IF Compensation(journey).status = "PAYABLE"
              THEN Compensation(journey).amount ELSE 0) = ExpectedAmount(journey)
          /\ booking.downgraded # {} => share = ExpectedShare(journey)
    <3>1. /\ s.band = Band(journey.distance)
          /\ s.comp = Compensation(journey).status
          /\ s.amount = Compensation(journey).amount /\ s.share = share
      BY <2>1
    <3>2. s.extraordinary = (journey.cause \in Extraordinary)
      <4> DEFINE ext == journey.cause \in Extraordinary
      <4>1. ext \in BOOLEAN OBVIOUS
      <4>2. s.extraordinary = ext
        <5>1. s = [status |-> "ASSESSED", band |-> Band(journey.distance),
               extraordinary |-> ext,
               comp |-> Compensation(journey).status,
               amount |-> Compensation(journey).amount,
               care |-> CareTriggered(journey), share |-> share,
               total |-> Compensation(journey).amount * Cardinality(Seated(booking))
                         + share * Cardinality(booking.downgraded)]
          BY <2>1
        <5> HIDE DEF ext
        <5> QED BY <4>1, <5>1
      <4> QED BY <4>2
    <3>3. Agrees(booking, journey, s) <=>
            /\ s.comp = ExpectedStatus(journey)
            /\ (IF s.comp = "PAYABLE" THEN s.amount ELSE 0) = ExpectedAmount(journey)
            /\ booking.downgraded # {} => s.share = ExpectedShare(journey)
      BY <1>2, <2>4, <3>1, <3>2, Zenon DEF Agrees
    <3>4. facts.agrees = Agrees(booking, journey, s) BY DEF FactsOK
    <3> QED BY <3>1, <3>3, <3>4
  <2>8. Compensation(journey).status # "PAYABLE" => Compensation(journey).amount = 0
    BY <2>2, CompensationFigure
  <2> QED BY <2>6, <2>7, <2>8, BothDerivations DEF DisagreementHasAReason, HalfAPenny
<1> QED BY <1>1, <1>2

-----------------------------------------------------------------------------
(* What a step adds                                                        *)

Remedy == {"rebooking", "refund", "compensation", "hotel"}

ProposalType ==
  [kind : Remedy, for : SUBSET booking.passengers, state : {"proposed", "blocked"},
   amount : Nat, from : Nat]

ItemType == [queue : Queue, clause : Clause, from : Nat]

\* A proposed remedy was asked for by those it is for.
Wanted(p) ==
  p.state = "proposed" =>
    /\ Young = {} /\ p.from # 0
    /\ LET r == contact.requests[p.from]
       IN  /\ r.quoted /\ r.kind = p.kind /\ ~r.stray
           /\ p.for \subseteq r.for \/ (r.for = {} /\ Cardinality(booking.passengers) = 1)
           /\ p.kind = "rebooking" =>
                r.authorised /\ p.for \cap booking.assisted = {}

\* A blocked remedy has a referral among these.
Backed(p, H) ==
  p.state = "blocked" /\ p.kind # "refund" =>
    \E h \in H : h.queue = "SUPERVISOR" /\ (h.from = p.from \/ h.clause = "S7.3")

Sound(P, H, A, Q) ==
  /\ P \subseteq ProposalType /\ H \subseteq ItemType /\ A \subseteq Nat /\ Q \subseteq Nat
  /\ \A p \in P : Wanted(p) /\ Backed(p, H)

PlanOK == Sound(proposals, handovers, answers, asks)

\* These speak of request n.
Touches(P, H, A, Q, n) ==
  \/ n \in A \cup Q
  \/ \E x \in P : x.from = n
  \/ \E x \in H : x.from = n

\* The plan stays sound, and what was taken up stays so.
Kept == PlanOK' /\ (\A i : TakenUp(i) => TakenUp(i)') /\ handovers \subseteq handovers'

\* A sound addition keeps the plan sound and takes up what it speaks of.
LEMMA AddKeeps ==
  ASSUME PlanOK, UNCHANGED case, NEW P, NEW H, NEW A, NEW Q,
         Add(P, H, A, Q), Sound(P, H, A, Q)
  PROVE  Kept /\ \A n : Touches(P, H, A, Q, n) => TakenUp(n)'
<1>1. /\ proposals' = proposals \cup P /\ handovers' = handovers \cup H
      /\ answers' = answers \cup A /\ asks' = asks \cup Q
  BY DEF Add
<1>2. /\ booking' = booking /\ contact' = contact
  BY DEF booking, contact
<1>3. Young' = Young BY <1>2 DEF Young
<1>4. ProposalType' = ProposalType BY <1>2 DEF ProposalType
<1>5. \A p : Wanted(p)' <=> Wanted(p) BY <1>2, <1>3 DEF Wanted
<1>6. \A p : Backed(p, handovers) \/ Backed(p, H) => Backed(p, handovers')
  BY <1>1 DEF Backed
<1>7. PlanOK'
  <2>1. /\ proposals' \subseteq ProposalType' /\ handovers' \subseteq ItemType
        /\ answers' \subseteq Nat /\ asks' \subseteq Nat
    BY <1>1, <1>4 DEF PlanOK, Sound
  <2>2. \A p \in proposals' : Wanted(p)' /\ Backed(p, handovers')
    BY <1>1, <1>5, <1>6 DEF PlanOK, Sound
  <2> QED BY <2>1, <2>2 DEF PlanOK, Sound, ItemType, Queue, Clause, Backed
<1>8. \A i : TakenUp(i) \/ Touches(P, H, A, Q, i) => TakenUp(i)'
  BY <1>1 DEF TakenUp, Touches
<1> QED BY <1>1, <1>7, <1>8 DEF Kept

\* Referrals and proposals are what they are built from.
LEMMA ItemTyped ==
  ASSUME NEW queue \in Queue, NEW clause \in Clause, NEW n \in Nat
  PROVE  /\ Item(queue, clause, n) \in ItemType
         /\ Item(queue, clause, n).queue = queue
         /\ Item(queue, clause, n).from = n
BY DEF Item, ItemType

\* A proposal carries the request at hand, and is blocked where not allowed.
LEMMA ProposalTyped ==
  ASSUME NEW kind \in Remedy, NEW who \in SUBSET booking.passengers,
         NEW allowed \in BOOLEAN, NEW amount \in Nat, next \in Nat
  PROVE  /\ Proposal(kind, who, allowed, amount) \in ProposalType
         /\ Proposal(kind, who, allowed, amount).kind = kind
         /\ Proposal(kind, who, allowed, amount).for = who
         /\ Proposal(kind, who, allowed, amount).from = next
         /\ Proposal(kind, who, allowed, amount).state = "proposed" => allowed
         /\ Proposal(kind, who, allowed, amount).state = "blocked" => ~allowed
BY DEF Proposal, ProposalType

-----------------------------------------------------------------------------
(* Compensation                                                            *)

\* Assessing compensation keeps the plan sound, proposes compensation only, and
\* comes to something unless the service failed or is disputed.
LEMMA CompensateKeeps ==
  ASSUME case \in Cases, FactsOK, PlanOK, UNCHANGED case, next \in Nat,
         NEW H \in SUBSET ItemType, Compensate(H)
  PROVE  /\ Kept
         /\ \A n : n = next => \/ TakenUp(n)'
                               \/ ~facts.agrees \/ facts.service.status = "SERVICE_ERROR"
         /\ \A p \in proposals' : p \in proposals \/ p.kind = "compensation"
         /\ handovers \cup H \subseteq handovers'
<1> DEFINE s == facts.service
           money == Proposal("compensation", Payees, MayCompensate(s.total, case.level),
                             s.total)
           item == Item("SUPERVISOR", "S12.1", next)
           late == Item("GENERAL", "S5.2", next)
           Result(P, I, A) == /\ Add(P, H \cup I, A, {})
                              /\ P \subseteq {money} /\ I \subseteq {item, late}
                              /\ P # {} => item \in I
                              /\ A \subseteq {next}
<1>1. /\ s \in ServiceType /\ s.status # "none"
      /\ s.status # "ASSESSED" => s = NotAssessed(s.status)
      /\ s.status = "ASSESSED" => s.comp # "none" /\ (s.comp = "PAYABLE" => s.total > 0)
  BY ServiceFigures DEF FactsOK
<1>2. ~MayCompensate(s.total, case.level) BY DEF MayCompensate
<1>3. /\ item \in ItemType /\ item.queue = "SUPERVISOR" /\ item.from = next
      /\ late \in ItemType /\ late.from = next
  BY ItemTyped DEF Queue, Clause
<1>4. /\ money \in ProposalType /\ money.kind = "compensation" /\ money.from = next
      /\ money.state # "proposed"
  <2>1. s.total \in Nat BY <1>1 DEF ServiceType
  <2>2. Payees \in SUBSET booking.passengers BY DEF Payees
  <2>3. money = Proposal("compensation", Payees, FALSE, s.total) BY DEF MayCompensate
  <2>4. money = [kind |-> "compensation", for |-> Payees, state |-> "blocked",
                 amount |-> s.total, from |-> next]
    BY <2>3 DEF Proposal
  <2> HIDE DEF money
  <2> QED BY <2>1, <2>2, <2>4 DEF ProposalType, Remedy
<1>5. ASSUME NEW P, NEW I, NEW A, Result(P, I, A)
      PROVE  /\ Kept /\ \A n : Touches(P, H \cup I, A, {}, n) => TakenUp(n)'
             /\ \A p \in proposals' : p \in proposals \/ p.kind = "compensation"
             /\ handovers \cup H \subseteq handovers'
  <2>1. \A p \in P : Wanted(p) /\ Backed(p, H \cup I)
    BY <1>3, <1>4, <1>5 DEF Wanted, Backed
  <2>2. Sound(P, H \cup I, A, {})
    BY <1>3, <1>4, <1>5, <2>1 DEF Sound
  <2> HIDE DEF money, item, late
  <2>3. Add(P, H \cup I, A, {}) BY <1>5
  <2> QED BY <1>4, <1>5, <2>2, <2>3, AddKeeps DEF Add
<1>6. \/ Result({}, {}, {next}) \/ Result({}, {late}, {}) \/ Result({money}, {item}, {})
      \/ Result({}, {}, {}) /\ (~facts.agrees \/ s.status = "SERVICE_ERROR")
  <2>1. Owed \/ s.status = "NO_DISRUPTION_RECORDED" \/ Unassessable
        \/ s.comp = "NOT_PAYABLE" \/ s.status = "SERVICE_ERROR"
    BY <1>1 DEF Owed, Unassessable, ServiceType
  <2>2. H \cup {} = H OBVIOUS
  <2> HIDE DEF money, item, late
  <2> QED BY <1>2, <2>1, <2>2 DEF Compensate, money, item, late
<1>7. /\ \A P, I, A : next \in A => Touches(P, H \cup I, A, {}, next)
      /\ Touches({}, H \cup {late}, {}, {}, next)
      /\ Touches({money}, H \cup {item}, {}, {}, next)
  <2> HIDE DEF money, item, late
  <2> QED BY <1>3, <1>4 DEF Touches
<1> HIDE DEF Result, money, item, late
<1> QED BY <1>5, <1>6, <1>7

-----------------------------------------------------------------------------
(* The requests                                                            *)

Ready ==
  /\ case \in Cases /\ FactsOK /\ PlanOK
  /\ next \in Nat \ {0} /\ Young = {}

TakesUp == \A n : n = next => TakenUp(n)'

\* The request at hand is one of the contact's.
LEMMA AtTurn ==
  ASSUME Ready, AtRequest
  PROVE  /\ next \in DOMAIN contact.requests
         /\ Current \in Request /\ Current.for \subseteq booking.passengers
<1>1. contact.requests \in Seq(Request) BY Given DEF Ready
<1>2. next \in DOMAIN contact.requests BY <1>1 DEF Ready, AtRequest
<1> QED BY <1>2, Given DEF Ready, Current

\* Steps that propose nothing.
LEMMA Saying ==
  ASSUME Ready, UNCHANGED case, NEW H \in SUBSET ItemType, NEW A \in SUBSET {next},
         NEW Q \in SUBSET {next}, Add({}, H, A, Q),
         next \in A \cup Q \/ \E x \in H : x.from = next
  PROVE  Kept /\ TakesUp
<1>1. Sound({}, H, A, Q) BY DEF Sound, Ready
<1>2. Touches({}, H, A, Q, next) BY DEF Touches
<1> QED BY <1>1, <1>2, AddKeeps DEF Ready, TakesUp

\* Steps that propose a remedy for those who asked.
LEMMA Proposing ==
  ASSUME Ready, AtRequest, UNCHANGED case,
         NEW kind \in {"rebooking", "refund", "hotel"},
         NEW who \in SUBSET booking.passengers, NEW allowed \in BOOLEAN,
         NEW amount \in Nat, NEW H \in SUBSET ItemType,
         Current.kind = kind, Current.quoted, ~Current.stray,
         who \subseteq Current.for \/ (Current.for = {}
                                       /\ Cardinality(booking.passengers) = 1),
         kind = "rebooking" => Current.authorised /\ who \cap booking.assisted = {},
         \/ allowed \/ kind = "refund"
         \/ \E h \in H : h.queue = "SUPERVISOR" /\ h.from = next,
         Add({Proposal(kind, who, allowed, amount)}, H, {}, {})
  PROVE  Kept /\ TakesUp
<1> DEFINE p == Proposal(kind, who, allowed, amount)
<1>1. next \in Nat /\ next # 0 /\ Young = {} BY DEF Ready
<1>2. /\ p \in ProposalType /\ p.kind = kind /\ p.for = who /\ p.from = next
      /\ p.state = "proposed" => allowed
      /\ p.state = "blocked" => ~allowed
  BY <1>1, ProposalTyped DEF Remedy
<1> HIDE DEF p
<1>3. Wanted(p) BY <1>1, <1>2 DEF Wanted, Current
<1>4. Backed(p, H) BY <1>2 DEF Backed
<1>5. Sound({p}, H, {}, {}) BY <1>2, <1>3, <1>4 DEF Sound
<1>6. Touches({p}, H, {}, {}, next) BY <1>2 DEF Touches
<1>7. Add({p}, H, {}, {}) BY DEF p
<1> QED BY <1>5, <1>6, <1>7, AddKeeps DEF Ready, TakesUp

\* Whom a request is for.
LEMMA WhoIsMeant ==
  ASSUME Ready, AtRequest, Resolved
  PROVE  /\ Who \subseteq booking.passengers /\ ~Current.stray
         /\ \/ Who \subseteq Current.for
            \/ Current.for = {} /\ Cardinality(booking.passengers) = 1
BY AtTurn DEF Resolved, Who, Named

\* The referral of those with a booked assistance.
LEMMA EscortsTyped == Ready => Escorts \subseteq ItemType
BY ItemTyped DEF Escorts, Ready, Queue, Clause

\* A step for one request, compensation aside, keeps the plan and takes the
\* request up.
LEMMA SayingStep ==
  ASSUME Ready,
         \/ AskUnverified \/ Simple \/ Assistance
         \/ NothingToRebook \/ AskWhomToRebook \/ NobodyMovable \/ AskConsent
         \/ PreferencesUnclear \/ NoOwnOption
         \/ RefundNotDue \/ AskWhomToRefund \/ RefundUnclear
         \/ HotelNotDue \/ AskWhomToLodge \/ LodgingUnclear \/ AlreadyLodged
  PROVE  Kept /\ TakesUp
<1>1. next \in Nat BY DEF Ready
<1>2. UNCHANGED case
  BY DEF AskUnverified, Simple, Assistance, NothingToRebook, AskWhomToRebook,
         NobodyMovable, AskConsent, PreferencesUnclear, NoOwnOption, RefundNotDue,
         AskWhomToRefund, RefundUnclear, HotelNotDue, AskWhomToLodge, LodgingUnclear,
         AlreadyLodged, Dispatch, Rebooking, Changing, Moving, Searching, Refund, Hotel,
         Lodging
<1>3. ASSUME Answer \/ Ask PROVE Kept /\ TakesUp
  BY <1>2, <1>3, Saying DEF Answer, Ask
<1>4. ASSUME NEW queue \in Queue, NEW clause \in Clause, Refer(queue, clause)
      PROVE  Kept /\ TakesUp
  BY <1>1, <1>2, <1>4, ItemTyped, Saying DEF Refer
<1>5. ASSUME NEW queue \in Queue, NEW clause \in Clause,
             Add({}, Escorts \cup {Item(queue, clause, next)}, {}, {})
      PROVE  Kept /\ TakesUp
  BY <1>1, <1>2, <1>5, ItemTyped, EscortsTyped, Saying
<1>6. ASSUME Add({}, Escorts, {}, {next}) PROVE Kept /\ TakesUp
  BY <1>2, <1>6, EscortsTyped, Saying
<1>7. CASE NobodyMovable
  <2>1. Add({}, Escorts, {}, {}) BY <1>7 DEF NobodyMovable
  <2>2. AtRequest /\ Resolved /\ Movable = {}
    BY <1>7 DEF NobodyMovable, Changing, Rebooking, Dispatch
  <2>3. Who # {}
    <3>1. CASE Named BY <2>2, <3>1 DEF Resolved, Who
    <3>2. CASE ~Named
      <4>1. booking.passengers # {} BY Given DEF Seated, Ready
      <4> QED BY <3>2, <4>1 DEF Who
    <3> QED BY <3>1, <3>2
  <2>4. Escorted # {} BY <2>2, <2>3 DEF Escorted, Movable
  <2>5. Escorts = {Item("SPECIAL_ASSISTANCE", "S14.4", next)}
    BY <2>4 DEF Escorts
  <2>6. Item("SPECIAL_ASSISTANCE", "S14.4", next).from = next BY DEF Item
  <2> QED BY <1>2, <2>1, <2>5, <2>6, EscortsTyped, Saying
<1>8. /\ {"GENERAL", "SUPERVISOR", "SPECIAL_ASSISTANCE", "LOST_PROPERTY"} \subseteq Queue
      /\ {"S4.2", "S4.4", "S4.5", "S6.1", "S6.4", "S8.2", "S11", "S14.4", "S15.6",
          "flown", "price", "night", "voucher"} \subseteq Clause
  BY DEF Queue, Clause
<1>9. CASE AskUnverified \/ AskWhomToRebook \/ AskWhomToRefund \/ AskWhomToLodge
           \/ RefundNotDue \/ HotelNotDue \/ AlreadyLodged
  BY <1>3, <1>9 DEF AskUnverified, AskWhomToRebook, AskWhomToRefund, AskWhomToLodge,
                    RefundNotDue, HotelNotDue, AlreadyLodged
<1>10. CASE Simple \/ Assistance \/ NothingToRebook \/ RefundUnclear \/ LodgingUnclear
  BY <1>3, <1>4, <1>8, <1>10 DEF Simple, Assistance, NothingToRebook, RefundUnclear,
                                 LodgingUnclear
<1>11. CASE AskConsent BY <1>6, <1>11 DEF AskConsent
<1>12. CASE PreferencesUnclear \/ NoOwnOption
  BY <1>5, <1>8, <1>12 DEF PreferencesUnclear, NoOwnOption
<1> QED BY <1>7, <1>9, <1>10, <1>11, <1>12

\* So does a step that proposes a remedy.
LEMMA ProposingStep ==
  ASSUME Ready, ProposeRebooking \/ ProposeRefund \/ ProposeHotel
  PROVE  Kept /\ TakesUp
<1>1. next \in Nat BY DEF Ready
<1>2. CASE ProposeRebooking
  <2>1. PICK rows \in SUBSET Options : \E chosen \in Earliest(Passing(rows)) :
          LET allowed == MayRebook(chosen, case.level)
          IN  Add({Proposal("rebooking", Movable, allowed, chosen.fare)},
                  Escorts \cup
                    (IF allowed THEN {} ELSE {Item("SUPERVISOR", "S6.3", next)}), {}, {})
    BY <1>2 DEF ProposeRebooking
  <2>2. PICK chosen \in Earliest(Passing(rows)) :
          LET allowed == MayRebook(chosen, case.level)
          IN  Add({Proposal("rebooking", Movable, allowed, chosen.fare)},
                  Escorts \cup
                    (IF allowed THEN {} ELSE {Item("SUPERVISOR", "S6.3", next)}), {}, {})
    BY <2>1
  <2> DEFINE allowed == MayRebook(chosen, case.level)
             H == Escorts \cup
                    (IF allowed THEN {} ELSE {Item("SUPERVISOR", "S6.3", next)})
  <2>3. Add({Proposal("rebooking", Movable, allowed, chosen.fare)}, H, {}, {})
    BY <2>2
  <2>4. chosen.fare \in Nat
    BY CasesAssumption DEF Earliest, Passing
  <2>5. /\ AtRequest /\ UNCHANGED case /\ Current.kind = "rebooking" /\ Current.quoted
        /\ Resolved /\ Current.authorised
    BY <1>2 DEF ProposeRebooking, Searching, Moving, Changing, Rebooking, Dispatch
  <2>6. Movable \subseteq Who /\ Movable \cap booking.assisted = {}
    BY DEF Movable
  <2>7. allowed \in BOOLEAN BY DEF MayRebook
  <2>8. H \subseteq ItemType /\ (~allowed => \E h \in H : h.queue = "SUPERVISOR"
                                                          /\ h.from = next)
    BY <1>1, ItemTyped, EscortsTyped DEF Queue, Clause
  <2> HIDE DEF allowed, H
  <2>9. Movable \in SUBSET booking.passengers BY <2>5, <2>6, WhoIsMeant
  <2>10. /\ ~Current.stray
         /\ Movable \subseteq Current.for \/ (Current.for = {}
                                              /\ Cardinality(booking.passengers) = 1)
    BY <2>5, <2>6, WhoIsMeant
  <2> QED BY <2>3, <2>4, <2>5, <2>6, <2>7, <2>8, <2>9, <2>10, Proposing
<1>3. CASE ProposeRefund
  <2> DEFINE allowed == MayRefund(booking.paid, case.level)
  <2>1. Add({Proposal("refund", Who, allowed, booking.paid)}, {}, {}, {})
    BY <1>3 DEF ProposeRefund
  <2>2. /\ AtRequest /\ UNCHANGED case /\ Current.kind = "refund" /\ Current.quoted
        /\ Resolved
    BY <1>3 DEF ProposeRefund, Refund, Dispatch
  <2>3. booking.paid \in Nat BY Given DEF Ready
  <2>4. allowed \in BOOLEAN BY DEF MayRefund, Permits
  <2> HIDE DEF allowed
  <2>5. Who \in SUBSET booking.passengers BY <2>2, WhoIsMeant
  <2> QED BY <2>1, <2>2, <2>3, <2>4, <2>5, WhoIsMeant, Proposing
<1>4. CASE ProposeHotel
  <2>1. PICK rooms \in Rooms, rate \in Rates :
          LET allowed == MayLodge(rooms, rate, case.level)
          IN  Add({Proposal("hotel", Who, allowed, rate)},
                  IF allowed THEN {} ELSE {Item("SUPERVISOR", "S4.2", next)}, {}, {})
    BY <1>4 DEF ProposeHotel
  <2> DEFINE allowed == MayLodge(rooms, rate, case.level)
             H == IF allowed THEN {} ELSE {Item("SUPERVISOR", "S4.2", next)}
  <2>2. Add({Proposal("hotel", Who, allowed, rate)}, H, {}, {}) BY <2>1
  <2>3. /\ AtRequest /\ UNCHANGED case /\ Current.kind = "hotel" /\ Current.quoted
        /\ Resolved
    BY <1>4 DEF ProposeHotel, Lodging, Hotel, Dispatch
  <2>4. rate \in Nat BY CasesAssumption
  <2>5. allowed \in BOOLEAN BY DEF MayLodge
  <2>6. H \subseteq ItemType /\ (~allowed => \E h \in H : h.queue = "SUPERVISOR"
                                                          /\ h.from = next)
    BY <1>1, ItemTyped DEF Queue, Clause
  <2> HIDE DEF allowed, H
  <2>7. Who \in SUBSET booking.passengers BY <2>3, WhoIsMeant
  <2> QED BY <2>2, <2>3, <2>4, <2>5, <2>6, <2>7, WhoIsMeant, Proposing
<1> QED BY <1>2, <1>3, <1>4

\* What every step for a request leaves alone and moves on.
LEMMA RequestFrame ==
  ASSUME OneRequest
  PROVE  /\ AtRequest /\ UNCHANGED <<case, facts, pc>> /\ next' = next + 1
         /\ \/ SkipHandled /\ UNCHANGED <<handled, disposed>>
            \/ /\ handled' = handled \cup {Current.kind}
               /\ disposed' = disposed \cup {next}
BY DEF OneRequest, SkipHandled, AskUnverified, Simple, Assistance, AssessCompensation,
       NothingToRebook, AskWhomToRebook, NobodyMovable, AskConsent, PreferencesUnclear,
       NoOwnOption, ProposeRebooking, RefundNotDue, AskWhomToRefund, RefundUnclear,
       ProposeRefund, HotelNotDue, AskWhomToLodge, LodgingUnclear, AlreadyLodged,
       ProposeHotel, Rebooking, Changing, Moving, Searching, Refund, Hotel, Lodging,
       Dispatch

\* Any step for a request keeps the plan; what is not taken up is compensation,
\* which was handled before, is disputed or could not be assessed.
LEMMA RequestKeeps ==
  ASSUME Ready, OneRequest
  PROVE  /\ Kept
         /\ \A n : n = next =>
              \/ TakenUp(n)'
              \/ /\ Current.kind = "compensation"
                 /\ \/ SkipHandled
                    \/ ~facts.agrees \/ facts.service.status = "SERVICE_ERROR"
<1>1. CASE SkipHandled
  <2>1. Add({}, {}, {}, {}) BY <1>1 DEF SkipHandled, Add
  <2>2. Sound({}, {}, {}, {}) BY DEF Sound
  <2> QED BY <1>1, <2>1, <2>2, AddKeeps DEF Ready, SkipHandled
<1>2. CASE AssessCompensation
  <2>1. Compensate({}) /\ UNCHANGED case /\ Current.kind = "compensation"
    BY <1>2 DEF AssessCompensation, Dispatch
  <2>2. {} \in SUBSET ItemType OBVIOUS
  <2>3. next \in Nat /\ case \in Cases /\ FactsOK /\ PlanOK BY DEF Ready
  <2> QED BY <2>1, <2>2, <2>3, CompensateKeeps
<1>3. CASE ~SkipHandled /\ ~AssessCompensation
  BY <1>3, SayingStep, ProposingStep DEF OneRequest, TakesUp
<1> QED BY <1>1, <1>2, <1>3
-----------------------------------------------------------------------------
(* The plan as a whole                                                     *)

\* The inductive invariant: facts are read once, nothing is planned before, and
\* what is planned is sound at every stage.
IInv ==
  /\ case \in Cases
  /\ facts.flight \in BOOLEAN /\ facts.history \in BOOLEAN
  /\ IF pc = "facts" THEN facts = Nothing ELSE FactsOK
  /\ pc \in {"facts", "open", "requests", "unasked", "demand", "done"}
  /\ next \in Nat
  /\ handled \subseteq Kind /\ disposed \subseteq DOMAIN contact.requests
  /\ PlanOK
  /\ pc \in {"facts", "open"} => proposals = {} /\ handled = {} /\ disposed = {}
  /\ pc = "requests" => next # 0 /\ Young = {}

\* The plan with nothing in it is sound.
LEMMA Initially == Init => IInv
<1> SUFFICES ASSUME Init PROVE IInv OBVIOUS
<1>1. PlanOK BY DEF Init, PlanOK, Sound
<1> QED BY <1>1 DEF Init, IInv, Nothing

\* Steps that add to the plan and leave the requests alone.
LEMMA Adding ==
  ASSUME IInv, UNCHANGED <<case, facts, handled, disposed>>, Kept,
         pc # "facts", next' \in Nat, pc' \in {"requests", "unasked", "demand", "done"},
         pc' = "requests" => next' # 0 /\ Young = {}
  PROVE  IInv'
<1>1. /\ booking' = booking /\ journey' = journey /\ contact' = contact
  BY DEF IInv, booking, journey, contact
<1>2. Young' = Young BY <1>1 DEF Young
<1>3. FactsOK' BY <1>1 DEF IInv, FactsOK, Served
<1>4. case' \in Cases /\ facts'.flight \in BOOLEAN /\ facts'.history \in BOOLEAN
      /\ handled' \subseteq Kind /\ disposed' \subseteq DOMAIN contact'.requests
  BY <1>1 DEF IInv
<1>5. PlanOK' BY DEF Kept
<1> QED BY <1>2, <1>3, <1>4, <1>5 DEF IInv

\* Reading the facts leaves the plan empty.
LEMMA GatherKeeps == IInv /\ GatherFacts => IInv'
<1> SUFFICES ASSUME IInv, GatherFacts PROVE IInv' OBVIOUS
<1>1. PICK service \in Service(booking, journey) \cup {NotAssessed("SERVICE_ERROR")},
           flight \in BOOLEAN, history \in BOOLEAN :
        facts' = [service |-> service, flight |-> flight, history |-> history,
                  agrees |-> Agrees(booking, journey, service)]
  BY DEF GatherFacts
<1>2. /\ pc = "facts" /\ pc' = "open"
      /\ UNCHANGED <<case, next, handled, disposed, proposals, handovers, answers, asks>>
  BY DEF GatherFacts
<1>3. booking' = booking /\ journey' = journey /\ contact' = contact
  BY <1>2 DEF booking, journey, contact
<1>4. FactsOK' /\ facts'.flight \in BOOLEAN /\ facts'.history \in BOOLEAN
  <2> DEFINE ag == Agrees(booking, journey, service)
  <2>1. facts' = [service |-> service, flight |-> flight, history |-> history,
                  agrees |-> ag]
    BY <1>1
  <2>2. ag \in BOOLEAN BY DEF Agrees
  <2>3. facts'.service = service /\ facts'.agrees = ag
        /\ facts'.flight = flight /\ facts'.history = history
    <3> HIDE DEF ag
    <3> QED BY <2>1, <2>2
  <2>4. Served' BY <1>3, <2>3 DEF Served
  <2> QED BY <1>3, <2>3, <2>4 DEF FactsOK
<1>5. Add({}, {}, {}, {}) /\ Sound({}, {}, {}, {}) BY <1>2 DEF Add, Sound
<1>6. PlanOK' BY <1>2, <1>5, AddKeeps DEF IInv, Kept
<1>7. case' \in Cases /\ next' \in Nat /\ handled' = {} /\ disposed' = {}
      /\ proposals' = {}
  BY <1>2 DEF IInv
<1> QED BY <1>2, <1>4, <1>6, <1>7 DEF IInv

\* What comes before the requests and after them.
LEMMA OpeningKeeps ==
  ASSUME IInv, Unread \/ BlockEverythingForYTP \/ Open
  PROVE  IInv' /\ Kept
<1>1. /\ case \in Cases /\ FactsOK /\ PlanOK /\ next \in Nat /\ pc # "facts"
      /\ UNCHANGED <<case, facts, handled, disposed>>
  BY DEF IInv, Unread, BlockEverythingForYTP, Open
<1>2. /\ Forgery \cup {Item("YTP", "S13.2", 0)} \cup CauseDispute \subseteq ItemType
      /\ Forgery \cup Dispute \subseteq ItemType
      /\ {Item("GENERAL", "unread", 0)} \subseteq ItemType
  BY ItemTyped DEF Forgery, Dispute, CauseDispute, Queue, Clause
<1>3. \A H \in SUBSET ItemType : Sound({}, H, {}, {}) BY DEF Sound
<1>4. Kept
  <2>1. CASE Unread
    <3>1. Compensate({Item("GENERAL", "unread", 0)}) BY <2>1 DEF Unread
    <3> QED BY <1>1, <1>2, <3>1, CompensateKeeps
  <2>2. CASE BlockEverythingForYTP
    <3>1. Add({}, Forgery \cup {Item("YTP", "S13.2", 0)} \cup CauseDispute, {}, {})
      BY <2>2 DEF BlockEverythingForYTP
    <3> QED BY <1>1, <1>2, <1>3, <3>1, AddKeeps
  <2>3. CASE Open
    <3>1. Add({}, Forgery \cup Dispute, {}, {}) BY <2>3 DEF Open
    <3> QED BY <1>1, <1>2, <1>3, <3>1, AddKeeps
  <2> QED BY <2>1, <2>2, <2>3
<1>5. /\ next' \in Nat /\ pc' \in {"requests", "done"}
      /\ pc' = "requests" => next' # 0 /\ Young = {}
  BY <1>1 DEF Unread, BlockEverythingForYTP, Open
<1> QED BY <1>1, <1>4, <1>5, Adding

\* After the requests only compensation is added.
LEMMA ClosingKeeps ==
  ASSUME IInv, AssessUnasked \/ CheckDemand
  PROVE  /\ IInv' /\ Kept
         /\ \A p \in proposals' : p \in proposals \/ p.kind = "compensation"
<1>1. /\ case \in Cases /\ FactsOK /\ PlanOK /\ next \in Nat /\ pc # "facts"
      /\ UNCHANGED <<case, facts, next, handled, disposed>>
      /\ pc' \in {"demand", "done"}
  BY DEF IInv, AssessUnasked, CheckDemand
<1>2. ASSUME NEW H \in SUBSET ItemType, Add({}, H, {}, {})
      PROVE  Kept /\ proposals' = proposals
  <2>1. Sound({}, H, {}, {}) BY DEF Sound
  <2> QED BY <1>1, <1>2, <2>1, AddKeeps DEF Add
<1>3. Kept /\ \A p \in proposals' : p \in proposals \/ p.kind = "compensation"
  <2>1. CASE Add({}, {}, {}, {}) BY <1>2, <2>1
  <2>2. CASE Add({}, Discretion \cup CauseDispute, {}, {})
    <3>1. Discretion \cup CauseDispute \in SUBSET ItemType
      BY <1>1, ItemTyped DEF Discretion, CauseDispute, Queue, Clause
    <3> QED BY <1>2, <2>2, <3>1
  <2>3. CASE Compensate({})
    <3>1. {} \in SUBSET ItemType OBVIOUS
    <3> QED BY <1>1, <2>3, <3>1, CompensateKeeps
  <2> QED BY <2>1, <2>2, <2>3 DEF AssessUnasked, CheckDemand
<1> QED BY <1>1, <1>3, Adding

\* Each request leaves the plan sound.
LEMMA RequestStep ==
  ASSUME IInv, OneRequest
  PROVE  IInv' /\ Ready
<1>1. /\ AtRequest /\ UNCHANGED <<case, facts, pc>> /\ next' = next + 1
      /\ \/ UNCHANGED <<handled, disposed>>
         \/ /\ handled' = handled \cup {Current.kind}
            /\ disposed' = disposed \cup {next}
  BY RequestFrame
<1>2. pc = "requests" BY <1>1 DEF AtRequest
<1>3. Ready BY <1>2 DEF IInv, Ready
<1>4. Kept BY <1>3, RequestKeeps
<1>5. /\ booking' = booking /\ journey' = journey /\ contact' = contact
  BY <1>1 DEF booking, journey, contact
<1>6. Young' = {} BY <1>3, <1>5 DEF Young, Ready
<1>7. FactsOK' BY <1>1, <1>3, <1>5 DEF Ready, FactsOK, Served
<1>8. Current.kind \in Kind /\ next \in DOMAIN contact.requests
  BY <1>1, <1>3, AtTurn DEF Request
<1>9. handled' \subseteq Kind /\ disposed' \subseteq DOMAIN contact'.requests
  BY <1>1, <1>5, <1>8 DEF IInv
<1>10. next' \in Nat \ {0} BY <1>1, <1>3 DEF Ready
<1>11. case' \in Cases /\ facts'.flight \in BOOLEAN /\ facts'.history \in BOOLEAN
       /\ pc' = "requests"
  BY <1>1, <1>2 DEF IInv
<1>12. PlanOK' BY <1>4 DEF Kept
<1> QED BY <1>3, <1>6, <1>7, <1>9, <1>10, <1>11, <1>12 DEF IInv

Disjoint ==
  \A p \in Proposed("rebooking"), q \in Proposed("refund") : p.for \cap q.for = {}

\* The resolution of conflicts only blocks, refers what it blocks, and leaves
\* none.
LEMMA ResolvingKeeps ==
  ASSUME IInv, ResolveConflicts
  PROVE  IInv' /\ Kept /\ Disjoint'
<1> DEFINE held(p) == [p EXCEPT !.state = "blocked"]
           C == Conflicting
           item == Item("SUPERVISOR", "S7.3", 0)
<1>1. /\ proposals' = (proposals \ C) \cup {held(p) : p \in C}
      /\ handovers' = handovers \cup (IF C = {} THEN {} ELSE {item})
      /\ UNCHANGED <<case, facts, handled, disposed, answers, asks>>
      /\ pc = "requests" /\ pc' = "unasked" /\ next' = 0
  BY DEF ResolveConflicts
<1>2. booking' = booking /\ contact' = contact
  BY <1>1 DEF booking, contact
<1>3. ProposalType' = ProposalType /\ Young' = Young
  BY <1>2 DEF ProposalType, Young
<1>4. C \subseteq proposals /\ proposals \subseteq ProposalType
  BY DEF Conflicting, Of, IInv, PlanOK, Sound
<1>5. \A p \in C : /\ held(p) \in ProposalType /\ held(p).state = "blocked"
                   /\ held(p).from = p.from
  BY <1>4 DEF ProposalType
<1>6. item \in ItemType /\ item.queue = "SUPERVISOR" /\ item.clause = "S7.3"
  <2>1. item = [queue |-> "SUPERVISOR", clause |-> "S7.3", from |-> 0] BY DEF Item
  <2> HIDE DEF item
  <2> QED BY <2>1 DEF ItemType, Queue, Clause
<1> HIDE DEF item, C, held
<1>7. PlanOK'
  <2>1. /\ proposals' \subseteq ProposalType /\ handovers' \subseteq ItemType
        /\ answers' \subseteq Nat /\ asks' \subseteq Nat
    BY <1>1, <1>4, <1>5, <1>6 DEF IInv, PlanOK, Sound
  <2>2. \A p \in proposals \ C : Wanted(p)' /\ Backed(p, handovers')
    BY <1>1, <1>2, <1>3 DEF IInv, PlanOK, Sound, Wanted, Backed
  <2>3. \A p \in C : Wanted(held(p))' /\ Backed(held(p), handovers')
    BY <1>1, <1>5, <1>6 DEF Wanted, Backed
  <2>4. \A p \in proposals' : Wanted(p)' /\ Backed(p, handovers')
    BY <1>1, <2>2, <2>3
  <2> QED BY <1>3, <2>1, <2>4 DEF PlanOK, Sound, Backed, ItemType, Queue, Clause
<1>8. ASSUME NEW i, TakenUp(i) PROVE TakenUp(i)'
  <2>1. CASE i \in answers \cup asks BY <1>1, <2>1 DEF TakenUp
  <2>2. CASE \E x \in handovers : x.from = i BY <1>1, <2>2 DEF TakenUp
  <2>3. ASSUME NEW x \in proposals, x.from = i PROVE TakenUp(i)'
    <3>1. x \in proposals' \/ (x \in C /\ held(x) \in proposals') BY <1>1
    <3>2. \E y \in proposals' : y.from = i BY <1>5, <2>3, <3>1
    <3> QED BY <3>2 DEF TakenUp
  <2> QED BY <1>8, <2>1, <2>2, <2>3 DEF TakenUp
<1>9. Kept BY <1>1, <1>7, <1>8 DEF Kept
<1>10. Disjoint'
  <2> SUFFICES ASSUME NEW p \in proposals', NEW q \in proposals',
                      p.kind = "rebooking", p.state = "proposed",
                      q.kind = "refund", q.state = "proposed"
               PROVE  p.for \cap q.for = {}
    BY DEF Disjoint, Proposed, Of
  <2>1. p \in proposals \ C /\ q \in proposals \ C
    BY <1>1, <1>5
  <2> QED BY <2>1 DEF C, Conflicting, Of
<1> QED BY <1>1, <1>9, <1>10, Adding DEF IInv

\* Every step keeps the invariant.
LEMMA NextKeeps == IInv /\ [Next]_vars => IInv'
<1> SUFFICES ASSUME IInv, [Next]_vars PROVE IInv' OBVIOUS
<1>1. CASE GatherFacts BY <1>1, GatherKeeps
<1>2. CASE Unread \/ BlockEverythingForYTP \/ Open BY <1>2, OpeningKeeps
<1>3. CASE OneRequest BY <1>3, RequestStep
<1>4. CASE ResolveConflicts BY <1>4, ResolvingKeeps
<1>5. CASE AssessUnasked \/ CheckDemand BY <1>5, ClosingKeeps
<1>6. CASE UNCHANGED vars
  BY <1>6 DEF vars, IInv, FactsOK, Served, PlanOK, Sound, Wanted, Backed,
              ProposalType, ItemType, Queue, Clause, Young, booking, journey, contact
<1> QED BY <1>1, <1>2, <1>3, <1>4, <1>5, <1>6 DEF Next

-----------------------------------------------------------------------------
(* The theorems                                                            *)

\* The invariant always holds.
LEMMA Invariant == Spec => []IInv
BY Initially, NextKeeps, PTL DEF Spec

\* Every variable has its type (the fields of Plan and CaseFacts, planner.py).
THEOREM PlannerTypeCorrect == Spec => []TypeOK
<1>1. ASSUME IInv PROVE TypeOK
  <2>1. case \in Case BY <1>1, CasesAssumption DEF IInv
  <2>2. facts.service \in ServiceType /\ facts.agrees \in BOOLEAN
    <3>1. CASE pc = "facts"
      <4>1. facts = Nothing BY <1>1, <3>1 DEF IInv
      <4>2. facts.service = NotAssessed("none") /\ facts.agrees = TRUE
        BY <4>1 DEF Nothing
      <4>3. NotAssessed("none") \in ServiceType BY DEF NotAssessed, ServiceType
      <4> QED BY <4>2, <4>3
    <3>2. CASE pc # "facts"
      <4>1. FactsOK /\ case \in Cases BY <1>1, <3>2 DEF IInv
      <4>2. facts.service \in ServiceType BY <4>1, ServiceFigures DEF FactsOK
      <4> DEFINE ag == Agrees(booking, journey, facts.service)
      <4>3. ag \in BOOLEAN BY DEF Agrees
      <4>4. facts.agrees = ag BY <4>1 DEF FactsOK
      <4> HIDE DEF ag
      <4> QED BY <4>2, <4>3, <4>4
    <3> QED BY <3>1, <3>2
  <2> QED BY <1>1, <2>1, <2>2
          DEF IInv, TypeOK, ServiceType, PlanOK, Sound, ProposalType, ItemType, Remedy
<1> QED BY <1>1, Invariant, PTL

\* The service and the desk disagree on what is owed for the two reasons only
\* (ops_server.calculate_entitlement, policy.cross_check_entitlement).
THEOREM DisagreementHasAReasonHolds == Spec => []DisagreementHasAReason
<1>1. ASSUME IInv PROVE DisagreementHasAReason
  <2>1. CASE pc = "facts"
    BY <1>1, <2>1 DEF IInv, Nothing, NotAssessed, DisagreementHasAReason
  <2>2. CASE pc # "facts" BY <1>1, <2>2, Disagreement DEF IInv
  <2> QED BY <2>1, <2>2
<1> QED BY <1>1, Invariant, PTL

\* A remedy is proposed for those who asked for it and no others
\* (planner._resolve_request_passengers and the branches of _dispatch).
THEOREM OnlyForThoseWhoAskedHolds == Spec => []OnlyForThoseWhoAsked
<1>1. IInv => OnlyForThoseWhoAsked
  BY DEF IInv, PlanOK, Sound, Wanted, OnlyForThoseWhoAsked
<1> QED BY <1>1, Invariant, PTL

\* What the desk may not do itself is put before a person, a refund aside
\* (planner._plan_rebooking, _plan_hotel, _plan_compensation).
THEOREM BlockedIsReferredHolds == Spec => []BlockedIsReferred
<1>1. IInv => BlockedIsReferred
  BY DEF IInv, PlanOK, Sound, Backed, BlockedIsReferred
<1> QED BY <1>1, Invariant, PTL

\* Nobody is both re-routed and refunded (planner.plan, the S7.3 pass).
THEOREM ElectionsDoNotConflictHolds == Spec => []ElectionsDoNotConflict
<1> DEFINE EInv == pc \in {"unasked", "demand", "done"} => Disjoint
<1>1. Init => EInv BY DEF Init
<1>2. ASSUME IInv, EInv, [Next]_vars PROVE EInv'
  <2>1. CASE GatherFacts BY <2>1 DEF GatherFacts
  <2>2. ASSUME \A p \in proposals' : p \in proposals \/ p.kind = "compensation", Disjoint
        PROVE  Disjoint'
    BY <2>2 DEF Disjoint, Proposed, Of
  <2>3. proposals = {} => Disjoint BY DEF Disjoint, Proposed, Of
  <2>4. CASE Unread
    <3>1. /\ proposals = {} /\ case \in Cases /\ FactsOK /\ PlanOK /\ next \in Nat
          /\ UNCHANGED case /\ Compensate({Item("GENERAL", "unread", 0)})
      BY <1>2, <2>4 DEF IInv, Unread
    <3>2. {Item("GENERAL", "unread", 0)} \in SUBSET ItemType
      BY ItemTyped DEF Queue, Clause
    <3> QED BY <2>2, <2>3, <3>1, <3>2, CompensateKeeps
  <2>5. CASE BlockEverythingForYTP
    BY <1>2, <2>2, <2>3, <2>5 DEF IInv, BlockEverythingForYTP, Add
  <2>6. CASE Open BY <2>6 DEF Open
  <2>7. CASE OneRequest BY <2>7, RequestFrame DEF AtRequest
  <2>8. CASE ResolveConflicts BY <1>2, <2>8, ResolvingKeeps
  <2>9. CASE AssessUnasked \/ CheckDemand
    BY <1>2, <2>2, <2>9, ClosingKeeps DEF AssessUnasked, CheckDemand
  <2>10. CASE UNCHANGED vars
    BY <1>2, <2>10 DEF vars, Disjoint, Proposed, Of
  <2> QED BY <1>2, <2>1, <2>4, <2>5, <2>6, <2>7, <2>8, <2>9, <2>10 DEF Next
<1>3. EInv => ElectionsDoNotConflict BY DEF Disjoint, ElectionsDoNotConflict
<1> QED BY <1>1, <1>2, <1>3, Invariant, PTL DEF Spec

-----------------------------------------------------------------------------
(* No request vanishes                                                     *)

\* What may become of a request.
Accounted(i) ==
  \/ TakenUp(i)
  \/ /\ contact.requests[i].kind = "compensation"
     /\ \/ \E j \in disposed : j < i /\ contact.requests[j].kind = "compensation"
        \/ ~facts.agrees /\ \E h \in handovers : h.clause = "S10.4"
        \/ facts.service.status = "SERVICE_ERROR"

AllAccounted == \A i \in DOMAIN contact.requests : Accounted(i)

\* The requests before the one at hand are accounted for; compensation handled
\* is that of one of them, and a dispute has been referred.
AInv ==
  /\ pc = "requests" =>
       /\ \A i \in DOMAIN contact.requests : i < next => Accounted(i)
       /\ \A j \in disposed : j < next
       /\ "compensation" \in handled =>
            \E j \in disposed : contact.requests[j].kind = "compensation"
       /\ ~facts.agrees => \E h \in handovers : h.clause = "S10.4"
  /\ \/ pc \in {"unasked", "demand"}
     \/ pc = "done" /\ contact.read /\ Young = {}
     => AllAccounted

\* What is accounted for stays so.
LEMMA StaysAccounted ==
  ASSUME Kept, UNCHANGED <<case, facts>>, disposed \subseteq disposed',
         NEW i, Accounted(i)
  PROVE  Accounted(i)'
<1>1. contact' = contact BY DEF contact
<1>2. TakenUp(i) => TakenUp(i)' BY DEF Kept
<1>3. handovers \subseteq handovers' BY DEF Kept
<1> QED BY <1>1, <1>2, <1>3 DEF Accounted

\* The request at hand is accounted for with its step.
LEMMA RequestAccounted ==
  ASSUME IInv, AInv, OneRequest
  PROVE  AInv'
<1>1. /\ AtRequest /\ UNCHANGED <<case, facts, pc>> /\ next' = next + 1
      /\ \/ SkipHandled /\ UNCHANGED <<handled, disposed>>
         \/ /\ handled' = handled \cup {Current.kind}
            /\ disposed' = disposed \cup {next}
  BY RequestFrame
<1>2. Ready BY RequestStep
<1>3. next \in Nat \ {0} /\ pc = "requests" /\ contact' = contact
      /\ next \in DOMAIN contact.requests
  BY <1>1, <1>2, AtTurn DEF Ready, AtRequest, contact
<1>4. Kept BY <1>2, RequestKeeps
<1>5. disposed \subseteq disposed' /\ handovers \subseteq handovers'
  BY <1>1, <1>4 DEF Kept
<1>6. \A i \in DOMAIN contact.requests : i < next => Accounted(i)'
  BY <1>1, <1>3, <1>4, <1>5, StaysAccounted DEF AInv
<1>7. ASSUME NEW n, n = next PROVE Accounted(n)'
  <2>1. \/ TakenUp(n)'
        \/ /\ Current.kind = "compensation"
           /\ \/ SkipHandled
              \/ ~facts.agrees \/ facts.service.status = "SERVICE_ERROR"
    BY <1>2, <1>7, RequestKeeps
  <2>2. contact'.requests[n] = Current BY <1>3, <1>7 DEF Current
  <2>3. CASE SkipHandled
    <3>1. "compensation" \in handled /\ Current.kind = "compensation"
      BY <2>3 DEF SkipHandled
    <3>2. PICK j \in disposed : contact.requests[j].kind = "compensation"
      BY <1>3, <3>1 DEF AInv
    <3>3. j < n /\ j \in disposed' BY <1>3, <1>5, <1>7, <3>2 DEF AInv
    <3> QED BY <1>3, <2>2, <3>1, <3>2, <3>3 DEF Accounted
  <2>4. CASE Current.kind = "compensation"
             /\ (~facts.agrees \/ facts.service.status = "SERVICE_ERROR")
    <3>1. ~facts'.agrees => \E h \in handovers' : h.clause = "S10.4"
      BY <1>1, <1>3, <1>5 DEF AInv
    <3> QED BY <1>1, <2>2, <2>4, <3>1 DEF Accounted
  <2>5. CASE TakenUp(n)' BY <2>5 DEF Accounted
  <2> QED BY <2>1, <2>3, <2>4, <2>5
<1>8. DOMAIN contact.requests \subseteq Nat
  <2>1. contact.requests \in Seq(Request) BY Given DEF IInv
  <2> QED BY <2>1
<1>9. ASSUME NEW i \in DOMAIN contact'.requests, i < next' PROVE Accounted(i)'
  <2>1. i < next \/ i = next BY <1>1, <1>3, <1>8, <1>9
  <2> QED BY <1>3, <1>6, <1>7, <2>1
<1>10. ASSUME NEW j \in disposed' PROVE j < next'
  <2>1. j \in disposed \/ j = next BY <1>1
  <2>2. j \in disposed => j < next /\ j \in Nat BY <1>3, <1>8 DEF AInv, IInv
  <2> QED BY <1>1, <1>3, <2>1, <2>2
<1>11. "compensation" \in handled' =>
         \E j \in disposed' : contact'.requests[j].kind = "compensation"
  BY <1>1, <1>3, <1>5 DEF AInv, Current
<1>12. ~facts'.agrees => \E h \in handovers' : h.clause = "S10.4"
  BY <1>1, <1>3, <1>5 DEF AInv
<1> QED BY <1>1, <1>3, <1>9, <1>10, <1>11, <1>12 DEF AInv

\* So with every other step.
LEMMA AccountingKeeps ==
  ASSUME IInv, AInv, [Next]_vars
  PROVE  AInv'
<1>1. ASSUME Kept, UNCHANGED <<case, facts, disposed>>, AllAccounted
      PROVE  AllAccounted'
  <2>1. contact' = contact BY <1>1 DEF contact
  <2>2. \A i : Accounted(i) => Accounted(i)' BY <1>1, StaysAccounted
  <2> QED BY <1>1, <2>1, <2>2 DEF AllAccounted
<1>2. UNCHANGED case => contact' = contact /\ Young' = Young
  BY DEF contact, booking, Young
<1>3. CASE GatherFacts BY <1>3 DEF GatherFacts, AInv
<1>4. CASE Unread BY <1>2, <1>4 DEF Unread, AInv
<1>5. CASE BlockEverythingForYTP BY <1>2, <1>5 DEF BlockEverythingForYTP, AInv
<1>6. CASE Open
  <2>1. /\ pc' = "requests" /\ next' = 1 /\ disposed = {} /\ handled = {}
        /\ UNCHANGED <<case, facts, handled, disposed>>
        /\ handovers' = handovers \cup (Forgery \cup Dispute)
    BY <1>6 DEF Open, IInv, Add
  <2>2. DOMAIN contact.requests \subseteq Nat \ {0}
    <3>1. contact.requests \in Seq(Request) BY Given DEF IInv
    <3> QED BY <3>1
  <2>3. ~facts.agrees => \E h \in handovers' : h.clause = "S10.4"
    <3>1. Item("SUPERVISOR", "S10.4", 0).clause = "S10.4" BY DEF Item
    <3>2. ~facts.agrees => Item("SUPERVISOR", "S10.4", 0) \in Dispute BY DEF Dispute
    <3> QED BY <2>1, <3>1, <3>2
  <2>4. \A i \in Nat \ {0} : ~(i < 1) OBVIOUS
  <2> QED BY <1>2, <2>1, <2>2, <2>3, <2>4 DEF AInv
<1>7. CASE OneRequest BY <1>7, RequestAccounted
<1>8. CASE ResolveConflicts
  <2>1. /\ pc = "requests" /\ pc' = "unasked" /\ next > Len(contact.requests)
        /\ UNCHANGED <<case, facts, disposed>>
    BY <1>8 DEF ResolveConflicts
  <2>2. \A i \in DOMAIN contact.requests : i < next
    <3>1. contact.requests \in Seq(Request) /\ next \in Nat BY Given DEF IInv
    <3> QED BY <2>1, <3>1
  <2>3. AllAccounted BY <2>1, <2>2 DEF AInv, AllAccounted
  <2> QED BY <1>1, <1>8, <2>1, <2>3, ResolvingKeeps DEF AInv
<1>9. CASE AssessUnasked \/ CheckDemand
  <2>1. /\ pc \in {"unasked", "demand"} /\ pc' \in {"demand", "done"}
        /\ UNCHANGED <<case, facts, disposed>>
    BY <1>9 DEF AssessUnasked, CheckDemand
  <2> QED BY <1>1, <1>9, <2>1, ClosingKeeps DEF AInv
<1>10. CASE UNCHANGED vars
  BY <1>2, <1>10 DEF vars, AInv, AllAccounted, Accounted, TakenUp, Young
<1> QED BY <1>3, <1>4, <1>5, <1>6, <1>7, <1>8, <1>9, <1>10 DEF Next

\* No live request vanishes (planner.plan and _dispatch).
THEOREM EveryRequestIsTakenUpHolds == Spec => []EveryRequestIsTakenUp
<1>1. Init => AInv BY DEF Init, AInv
<1>2. IInv /\ AInv /\ [Next]_vars => AInv' BY AccountingKeeps
<1>3. AInv => EveryRequestIsTakenUp
  BY DEF AInv, AllAccounted, Accounted, EveryRequestIsTakenUp
<1> QED BY <1>1, <1>2, <1>3, Invariant, PTL DEF Spec

-----------------------------------------------------------------------------
(* Compensation is assessed once                                           *)

\* The three things an assessment may come to.
Paid   == Of("compensation")
Waits  == {h \in handovers : h.clause = "S5.2"}
Denied == {i \in answers : i # 0 => contact.requests[i].kind = "compensation"}

Nowhere == Paid = {} /\ Waits = {} /\ Denied = {}

Once ==
  \E x : \/ Paid = {x} /\ Waits = {} /\ Denied = {}
         \/ Paid = {} /\ Waits = {x} /\ Denied = {}
         \/ Paid = {} /\ Waits = {} /\ Denied = {x}

Excused == ~facts.agrees \/ facts.service.status = "SERVICE_ERROR"

\* It has come to nothing before it was made, and to one of them afterwards.
CInv ==
  /\ pc \in {"facts", "open", "unasked"} => next = 0
  /\ pc \in {"facts", "open"} => handovers = {} /\ answers = {}
  /\ pc \in {"requests", "unasked"} =>
       IF "compensation" \in handled THEN Once \/ (Nowhere /\ Excused) ELSE Nowhere
  /\ \/ pc = "demand"
     \/ pc = "done" /\ (contact.read => Young = {})
     => Once \/ (Nowhere /\ Excused)

\* An assessment comes to one thing, unless the service failed or is disputed.
LEMMA Assessing ==
  ASSUME case \in Cases, FactsOK, UNCHANGED <<case, facts>>, Nowhere,
         next # 0 => contact.requests[next].kind = "compensation",
         NEW H, \A h \in H : h.clause # "S5.2", Compensate(H)
  PROVE  Once' \/ (Nowhere' /\ Excused')
<1> DEFINE s == facts.service
           money == Proposal("compensation", Payees, MayCompensate(s.total, case.level),
                             s.total)
           item == Item("SUPERVISOR", "S12.1", next)
           late == Item("GENERAL", "S5.2", next)
<1>1. /\ s \in ServiceType /\ s.status # "none"
      /\ s.status # "ASSESSED" => s = NotAssessed(s.status)
      /\ s.status = "ASSESSED" => s.comp # "none" /\ (s.comp = "PAYABLE" => s.total > 0)
  BY ServiceFigures DEF FactsOK
<1>2. contact' = contact /\ (Excused' <=> Excused) BY DEF contact, Excused
<1>3. item.clause # "S5.2" /\ late.clause = "S5.2" /\ money.kind = "compensation"
  BY DEF Item, Proposal
<1>4. \/ Add({}, H, {next}, {})
      \/ Add({}, H \cup {late}, {}, {})
      \/ Add({money}, H \cup {item}, {}, {})
      \/ (Add({}, H, {}, {}) /\ Excused)
  <2>1. Owed \/ s.status = "NO_DISRUPTION_RECORDED" \/ Unassessable
        \/ s.comp = "NOT_PAYABLE" \/ s.status = "SERVICE_ERROR"
    BY <1>1 DEF Owed, Unassessable, ServiceType
  <2>2. ~MayCompensate(s.total, case.level) BY DEF MayCompensate
  <2> HIDE DEF money, item, late
  <2> QED BY <2>1, <2>2 DEF Compensate, Excused, money, item, late
<1> HIDE DEF money, item, late
<1>5. CASE Add({}, H, {next}, {})
  <2>1. Paid' = {} /\ Waits' = {} /\ Denied' = {next}
    BY <1>2, <1>5 DEF Add, Paid, Of, Waits, Denied, Nowhere
  <2> QED BY <2>1 DEF Once
<1>6. CASE Add({}, H \cup {late}, {}, {})
  <2>1. Paid' = {} /\ Waits' = {late} /\ Denied' = {}
    BY <1>2, <1>3, <1>6 DEF Add, Paid, Of, Waits, Denied, Nowhere
  <2> QED BY <2>1 DEF Once
<1>7. CASE Add({money}, H \cup {item}, {}, {})
  <2>1. Paid' = {money} /\ Waits' = {} /\ Denied' = {}
    BY <1>2, <1>3, <1>7 DEF Add, Paid, Of, Waits, Denied, Nowhere
  <2> QED BY <2>1 DEF Once
<1>8. CASE Add({}, H, {}, {}) /\ Excused
  BY <1>2, <1>8 DEF Add, Paid, Of, Waits, Denied, Nowhere
<1> QED BY <1>4, <1>5, <1>6, <1>7, <1>8

\* An addition that is none of the three.
Aside ==
  /\ proposals \subseteq proposals' /\ handovers \subseteq handovers'
  /\ answers \subseteq answers'
  /\ \A p \in proposals' \ proposals : p.kind # "compensation"
  /\ \A h \in handovers' \ handovers : h.clause # "S5.2"
  /\ \A i \in answers' \ answers : i # 0 /\ contact.requests[i].kind # "compensation"

LEMMA Elsewhere ==
  ASSUME UNCHANGED <<case, facts>>, Aside
  PROVE  /\ Nowhere => Nowhere'
         /\ Once => Once'
         /\ (Excused' <=> Excused)
<1>1. contact' = contact BY DEF contact
<1>2. Paid' = Paid /\ Waits' = Waits /\ Denied' = Denied
  BY <1>1 DEF Aside, Paid, Of, Waits, Denied
<1> QED BY <1>2 DEF Nowhere, Once, Excused

\* A request for anything else, or for compensation again, does not assess it.
LEMMA OtherRequests ==
  ASSUME Ready, OneRequest, ~AssessCompensation
  PROVE  Aside /\ (SkipHandled \/ Current.kind # "compensation")
<1>1. CASE SkipHandled BY <1>1 DEF SkipHandled, Aside
<1>2. CASE ~SkipHandled
  <2>1. Current.kind # "compensation"
    BY <1>2 DEF OneRequest, AskUnverified, Simple, Assistance, NothingToRebook,
      AskWhomToRebook, NobodyMovable, AskConsent, PreferencesUnclear, NoOwnOption,
      ProposeRebooking, RefundNotDue, AskWhomToRefund, RefundUnclear, ProposeRefund,
      HotelNotDue, AskWhomToLodge, LodgingUnclear, AlreadyLodged, ProposeHotel,
      Rebooking, Changing, Moving, Searching, Refund, Hotel, Lodging, Dispatch
  <2> SUFFICES Aside BY <2>1
  <2>2. ASSUME NEW P, NEW H, NEW A, NEW Q, Add(P, H, A, Q), A \subseteq {next},
               \A p \in P : p.kind # "compensation", \A h \in H : h.clause # "S5.2"
        PROVE  Aside
    BY <2>1, <2>2 DEF Add, Aside, Ready, Current
  <2>3. \A q, c, n : Item(q, c, n).clause = c BY DEF Item
  <2>4. \A k, w, a, m : Proposal(k, w, a, m).kind = k BY DEF Proposal
  <2>5. \A h \in Escorts : h.clause # "S5.2" BY <2>3 DEF Escorts
  <2>6. CASE Answer \/ Ask
    BY <2>2, <2>6 DEF Answer, Ask
  <2>7. ASSUME NEW q, NEW c, c # "S5.2",
               Refer(q, c) \/ Add({}, Escorts \cup {Item(q, c, next)}, {}, {})
        PROVE  Aside
    <3>1. \A h \in Escorts \cup {Item(q, c, next)} : h.clause # "S5.2"
      BY <2>3, <2>5, <2>7
    <3>2. CASE Refer(q, c) BY <2>2, <3>1, <3>2 DEF Refer
    <3>3. CASE Add({}, Escorts \cup {Item(q, c, next)}, {}, {}) BY <2>2, <3>1, <3>3
    <3> QED BY <2>7, <3>2, <3>3
  <2>8. CASE NobodyMovable \/ AskConsent
    <3>1. Add({}, Escorts, {}, {}) \/ Add({}, Escorts, {}, {next})
      BY <2>8 DEF NobodyMovable, AskConsent
    <3> QED BY <2>2, <2>5, <3>1
  <2>9. ASSUME NEW k, k # "compensation", NEW w, NEW a, NEW m, NEW H, NEW c,
               c # "S5.2", H \subseteq Escorts \cup {Item("SUPERVISOR", c, next)},
               Add({Proposal(k, w, a, m)}, H, {}, {})
        PROVE  Aside
    BY <2>2, <2>3, <2>4, <2>5, <2>9
  <2>10. CASE ProposeRebooking
    <3>1. PICK rows \in SUBSET Options : \E chosen \in Earliest(Passing(rows)) :
            LET allowed == MayRebook(chosen, case.level)
            IN  Add({Proposal("rebooking", Movable, allowed, chosen.fare)},
                    Escorts \cup
                      (IF allowed THEN {} ELSE {Item("SUPERVISOR", "S6.3", next)}), {}, {})
      BY <2>10 DEF ProposeRebooking
    <3>2. PICK chosen \in Earliest(Passing(rows)) :
            LET allowed == MayRebook(chosen, case.level)
            IN  Add({Proposal("rebooking", Movable, allowed, chosen.fare)},
                    Escorts \cup
                      (IF allowed THEN {} ELSE {Item("SUPERVISOR", "S6.3", next)}), {}, {})
      BY <3>1
    <3> QED BY <2>9, <3>2
  <2>11. CASE ProposeRefund
    BY <2>9, <2>11 DEF ProposeRefund
  <2>12. CASE ProposeHotel
    <3>1. PICK rooms \in Rooms, rate \in Rates :
            LET allowed == MayLodge(rooms, rate, case.level)
            IN  Add({Proposal("hotel", Who, allowed, rate)},
                    IF allowed THEN {} ELSE {Item("SUPERVISOR", "S4.2", next)}, {}, {})
      BY <2>12 DEF ProposeHotel
    <3> QED BY <2>9, <3>1
  <2>13. CASE AskUnverified \/ AskWhomToRebook \/ AskWhomToRefund \/ AskWhomToLodge
              \/ RefundNotDue \/ HotelNotDue \/ AlreadyLodged
    BY <2>6, <2>13 DEF AskUnverified, AskWhomToRebook, AskWhomToRefund, AskWhomToLodge,
                       RefundNotDue, HotelNotDue, AlreadyLodged
  <2>14. CASE Simple \/ Assistance \/ NothingToRebook \/ RefundUnclear \/ LodgingUnclear
    BY <2>6, <2>7, <2>14 DEF Simple, Assistance, NothingToRebook, RefundUnclear,
                             LodgingUnclear
  <2>15. CASE PreferencesUnclear \/ NoOwnOption
    BY <2>7, <2>15 DEF PreferencesUnclear, NoOwnOption
  <2> QED BY <1>2, <2>8, <2>10, <2>11, <2>12, <2>13, <2>14, <2>15 DEF OneRequest
<1> QED BY <1>1, <1>2

\* Every step keeps the count.
LEMMA CountKeeps ==
  ASSUME IInv, CInv, [Next]_vars
  PROVE  CInv'
<1>1. \A q, c, n : Item(q, c, n).clause = c BY DEF Item
<1>2. proposals = {} => Paid = {} BY DEF Paid, Of
<1>3. handovers = {} /\ answers = {} => Waits = {} /\ Denied = {}
  BY DEF Waits, Denied
<1>4. CASE GatherFacts
  BY <1>4 DEF GatherFacts, CInv
<1>5. CASE Unread
  <2> DEFINE H == {Item("GENERAL", "unread", 0)}
  <2>1. /\ pc = "open" /\ pc' = "done" /\ Compensate(H)
        /\ UNCHANGED <<case, facts, next, handled, disposed>>
    BY <1>5 DEF Unread
  <2>2. \A h \in H : h.clause # "S5.2" BY <1>1
  <2> HIDE DEF H
  <2>3. next = 0 /\ case \in Cases /\ FactsOK BY <2>1 DEF IInv, CInv
  <2>4. Nowhere BY <1>2, <1>3, <2>1 DEF Nowhere, IInv, CInv
  <2>5. Once' \/ (Nowhere' /\ Excused') BY <2>1, <2>2, <2>3, <2>4, Assessing
  <2> QED BY <2>1, <2>5 DEF CInv
<1>6. CASE BlockEverythingForYTP
  BY <1>6 DEF BlockEverythingForYTP, CInv, Young, contact, booking
<1>7. CASE Open
  <2>1. /\ pc = "open" /\ pc' = "requests" /\ UNCHANGED <<case, facts, handled>>
        /\ proposals' = proposals \cup {} /\ answers' = answers \cup {}
        /\ handovers' = handovers \cup (Forgery \cup Dispute)
    BY <1>7 DEF Open, Add
  <2>2. Aside BY <1>1, <2>1 DEF Aside, Forgery, Dispute
  <2>3. Nowhere /\ handled = {} BY <1>2, <1>3, <2>1 DEF Nowhere, IInv, CInv
  <2> QED BY <2>1, <2>2, <2>3, Elsewhere DEF CInv
<1>8. CASE OneRequest
  <2>1. /\ AtRequest /\ UNCHANGED <<case, facts, pc>>
        /\ \/ SkipHandled /\ UNCHANGED handled
           \/ handled' = handled \cup {Current.kind}
    BY <1>8, RequestFrame
  <2>2. Ready /\ pc = "requests" BY <1>8, <2>1, RequestStep DEF AtRequest
  <2>3. CASE AssessCompensation
    <3>1. /\ "compensation" \notin handled /\ Current.kind = "compensation"
          /\ handled' = handled \cup {Current.kind} /\ Compensate({})
      BY <2>3 DEF AssessCompensation, Dispatch
    <3>2. Nowhere BY <2>2, <3>1 DEF CInv
    <3>3. Once' \/ (Nowhere' /\ Excused')
      BY <2>1, <2>2, <3>1, <3>2, Assessing DEF Ready, Current
    <3> QED BY <2>1, <2>2, <3>1, <3>3 DEF CInv
  <2>4. CASE ~AssessCompensation
    <3>1. Aside /\ (SkipHandled \/ Current.kind # "compensation")
      BY <1>8, <2>2, <2>4, OtherRequests
    <3>2. "compensation" \in handled' <=> "compensation" \in handled
      BY <2>1, <3>1 DEF SkipHandled
    <3> QED BY <2>1, <2>2, <3>1, <3>2, Elsewhere DEF CInv
  <2> QED BY <2>3, <2>4
<1>9. CASE ResolveConflicts
  <2>1. /\ pc = "requests" /\ pc' = "unasked" /\ next' = 0
        /\ UNCHANGED <<case, facts, handled, answers>>
        /\ handovers' = handovers \cup
             (IF Conflicting = {} THEN {} ELSE {Item("SUPERVISOR", "S7.3", 0)})
        /\ proposals' = (proposals \ Conflicting)
                        \cup {[p EXCEPT !.state = "blocked"] : p \in Conflicting}
    BY <1>9 DEF ResolveConflicts
  <2>2. \A p \in Conflicting : p \in ProposalType /\ p.kind # "compensation"
    BY DEF Conflicting, Of, IInv, PlanOK, Sound
  <2>3. \A p \in Conflicting : [p EXCEPT !.state = "blocked"].kind = p.kind
    BY <2>2 DEF ProposalType
  <2>4. Paid' = Paid BY <2>1, <2>2, <2>3 DEF Paid, Of
  <2>5. Waits' = Waits /\ Denied' = Denied
    BY <1>1, <2>1 DEF Waits, Denied, contact
  <2> QED BY <2>1, <2>4, <2>5 DEF CInv, Once, Nowhere, Excused
<1>10. CASE AssessUnasked
  <2>1. /\ pc = "unasked" /\ pc' = "demand"
        /\ UNCHANGED <<case, facts, next, handled>>
        /\ IF "compensation" \in handled THEN Add({}, {}, {}, {}) ELSE Compensate({})
    BY <1>10 DEF AssessUnasked
  <2>2. CASE "compensation" \in handled
    <3>1. Aside BY <2>1, <2>2 DEF Aside, Add
    <3> QED BY <2>1, <2>2, <3>1, Elsewhere DEF CInv
  <2>3. CASE "compensation" \notin handled
    <3>1. Nowhere BY <2>1, <2>3 DEF CInv
    <3>2. next = 0 /\ case \in Cases /\ FactsOK BY <2>1 DEF IInv, CInv
    <3>3. Once' \/ (Nowhere' /\ Excused') BY <2>1, <2>3, <3>1, <3>2, Assessing
    <3> QED BY <2>1, <3>3 DEF CInv
  <2> QED BY <2>2, <2>3
<1>11. CASE CheckDemand
  <2>1. /\ pc = "demand" /\ pc' = "done" /\ UNCHANGED <<case, facts>>
        /\ Add({}, Discretion \cup CauseDispute, {}, {})
    BY <1>11 DEF CheckDemand
  <2>2. Aside BY <1>1, <2>1 DEF Aside, Add, Discretion, CauseDispute
  <2> QED BY <2>1, <2>2, Elsewhere DEF CInv
<1>12. CASE UNCHANGED vars
  BY <1>12 DEF vars, CInv, Once, Nowhere, Excused, Paid, Of, Waits, Denied, Young,
               contact, booking
<1> QED BY <1>4, <1>5, <1>6, <1>7, <1>8, <1>9, <1>10, <1>11, <1>12 DEF Next

\* Compensation is assessed once for a booking, asked for or not
\* (planner.plan, _plan_compensation).
THEOREM CompensationIsAssessedOnceHolds == Spec => []CompensationIsAssessedOnce
<1>1. Init => CInv BY DEF Init, CInv
<1>2. IInv /\ CInv /\ [Next]_vars => CInv' BY CountKeeps
<1>3. ASSUME CInv PROVE CompensationIsAssessedOnce
  <2>1. Cardinality({}) = 0 /\ \A x : Cardinality({x}) = 1
    BY FS_EmptySet, FS_Singleton
  <2>2. Once => Cardinality(Paid) + Cardinality(Waits) + Cardinality(Denied) = 1
    BY <2>1 DEF Once
  <2>3. Nowhere => Cardinality(Paid) + Cardinality(Waits) + Cardinality(Denied) = 0
    BY <2>1 DEF Nowhere
  <2> QED BY <1>3, <2>2, <2>3
          DEF CInv, Excused, CompensationIsAssessedOnce, Paid, Waits, Denied
<1> QED BY <1>1, <1>2, <1>3, Invariant, PTL DEF Spec
=============================================================================
