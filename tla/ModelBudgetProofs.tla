------------------------- MODULE ModelBudgetProofs -------------------------
(***************************************************************************)
(* The accounting of ModelBudget for any amounts, any number of calls,     *)
(* cases, runs and crashes.                                                *)
(*                                                                         *)
(* The argument.  While a call is under way its reservation is part of the *)
(* unresolved total and neither ceiling is passed (InFlight); what it may  *)
(* be charged is set against that reservation and the overrun (Covered).   *)
(* When it ends, either the reservation is exchanged for the cost, or it   *)
(* stays and covers the charge.                                            *)
(***************************************************************************)
EXTENDS ModelBudget, TLAPS

Calling == pc \in {"sent", "answered"}

InFlight ==
  Calling =>
    /\ reserved \in Reservations
    /\ reserved <= spent.unresolved /\ spent.open >= 1
    /\ reserved <= spentRun.unresolved /\ spentRun.open >= 1
    /\ Committed(spent) <= SessionCeiling /\ Committed(spentRun) <= RunCeiling
    /\ pc = "answered" => cost <= reserved + Overrun

Covered ==
  billed + (IF Calling THEN reserved + Overrun ELSE 0)
    <= Committed(spent) + (IF pc = "answered" THEN cost ELSE 0) + Overrun * spent.open

\* How many requests a case may have made by now.
CallsOK ==
  pc \in {"admit", "sent", "answered", "judge"} =>
    calls <= (IF purpose = "extraction" THEN 0 ELSE 2) + attempt
             + (IF pc = "admit" THEN 0 ELSE 1)

RowsOK == caseUsage + (IF Calling THEN 1 ELSE 0) <= calls

BInv == /\ TypeOK /\ WithinCeilings
        /\ InFlight /\ Covered /\ CallsOK /\ RowsOK

-----------------------------------------------------------------------------
\* The slack grows by one overrun with each call whose usage is not known.
LEMMA Slack ==
  ASSUME NEW n \in Nat
  PROVE  Overrun * n \in Nat /\ Overrun * (n + 1) = Overrun * n + Overrun
BY AmountsAssumption

\* Reserving and settling move the totals as amounts do.
LEMMA HoldTotals ==
  ASSUME NEW t \in Totals, NEW r \in Nat
  PROVE  /\ Hold(t, r) \in Totals
         /\ Hold(t, r).cost = t.cost /\ Hold(t, r).unresolved = t.unresolved + r
         /\ Hold(t, r).open = t.open + 1
         /\ Committed(Hold(t, r)) = Committed(t) + r
BY DEF Hold, Totals, Committed

LEMMA SettledTotals ==
  ASSUME NEW t \in Totals, NEW r \in Nat, NEW c \in Nat, r <= t.unresolved, t.open >= 1
  PROVE  /\ Settled(t, r, c) \in Totals
         /\ Settled(t, r, c).open + 1 = t.open
         /\ Committed(Settled(t, r, c)) + r = Committed(t) + c
BY DEF Settled, Totals, Committed

\* The end of parse() leaves the amounts alone and no call under way.
LEMMA EndParseFacts ==
  ASSUME NEW ok \in BOOLEAN, NEW rows \in Nat, EndParse(ok, rows), TypeOK
  PROVE  /\ \/ pc' = "record" /\ UNCHANGED <<purpose, attempt>>
            \/ /\ pc' = "admit" /\ purpose = "extraction" /\ purpose' = "narration"
               /\ attempt' = 0
         /\ reported' \in Nat
BY DEF EndParse, TypeOK

-----------------------------------------------------------------------------
\* It holds when nothing is spent.
LEMMA InitB == Init => BInv
<1> SUFFICES ASSUME Init PROVE BInv
  OBVIOUS
<1>1. Nothing \in Totals /\ Committed(Nothing) = 0 /\ Nothing.open = 0
  BY DEF Nothing, Totals, Committed
<1>2. Overrun \in Nat /\ Overrun * 0 = 0
  BY AmountsAssumption
<1>3. TypeOK
  <2>1. 0 \in 0..MaxCalls /\ 0 \in Nat BY CallsAssumption
  <2>2. spent \in Totals /\ spentRun \in Totals BY <1>1 DEF Init
  <2> QED BY <2>1, <2>2 DEF Init, TypeOK
<1>4. WithinCeilings /\ InFlight /\ CallsOK /\ RowsOK
  BY <1>1, AmountsAssumption DEF Init, WithinCeilings, InFlight, CallsOK, RowsOK, Calling
<1>5. Covered
  BY <1>1, <1>2 DEF Init, Covered, Calling
<1> QED BY <1>3, <1>4, <1>5 DEF BInv

\* Steps between two calls.
LEMMA QuietStep ==
  ASSUME BInv, StartRun \/ BeginCase \/ DeadlinePasses \/ CaseAborts \/ WriteRecord
               \/ Repair \/ UNCHANGED vars
  PROVE  BInv'
<1> USE DEF BInv
<1>1. CASE StartRun
  <2>1. Nothing \in Totals /\ Committed(Nothing) = 0 BY DEF Nothing, Totals, Committed
  <2>2. spentRun' = Nothing /\ UNCHANGED <<spent, billed, caseVars, reserved, cost>>
        /\ pc = "off" /\ pc' = "between"
    BY <1>1 DEF StartRun
  <2>3. Committed(spent)' = Committed(spent) /\ Committed(spentRun)' = 0
    BY <2>1, <2>2 DEF Committed
  <2>4. TypeOK' BY <2>1, <2>2 DEF TypeOK, caseVars
  <2>5. WithinCeilings' BY <2>3, AmountsAssumption DEF WithinCeilings
  <2>6. InFlight' /\ CallsOK' /\ RowsOK'
    BY <2>2 DEF InFlight, CallsOK, RowsOK, Calling, caseVars
  <2>7. Covered' BY <2>2, <2>3 DEF Covered, Calling
  <2> QED BY <2>4, <2>5, <2>6, <2>7
<1>2. CASE BeginCase
  <2>1. /\ pc = "between" /\ pc' = "admit" /\ purpose' = "extraction" /\ attempt' = 0
        /\ calls' = 0 /\ late' = FALSE /\ caseUsage' = 0 /\ reported' = 0
        /\ unstated' = FALSE
        /\ UNCHANGED <<spent, spentRun, billed, reserved, cost>>
    BY <1>2 DEF BeginCase, ledger
  <2>2. 0 \in 0..MaxCalls /\ 0 \in Nat BY CallsAssumption
  <2>3. TypeOK' BY <2>1, <2>2 DEF TypeOK
  <2>4. WithinCeilings' /\ InFlight' /\ Covered' /\ CallsOK' /\ RowsOK'
    BY <2>1 DEF WithinCeilings, InFlight, Covered, CallsOK, RowsOK, Calling, Committed
  <2> QED BY <2>3, <2>4
<1>3. CASE DeadlinePasses
  BY <1>3 DEF DeadlinePasses, ledger, TypeOK, WithinCeilings, InFlight, Covered, CallsOK,
              RowsOK, Calling
<1>4. CASE CaseAborts
  BY <1>4 DEF CaseAborts, caseVars, ledger, TypeOK, WithinCeilings, InFlight, Covered,
              CallsOK, RowsOK, Calling
<1>5. CASE WriteRecord
  BY <1>5 DEF WriteRecord, caseVars, ledger, TypeOK, WithinCeilings, InFlight, Covered,
              CallsOK, RowsOK, Calling
<1>6. CASE Repair
  BY <1>6 DEF Repair, ledger, TypeOK, WithinCeilings, InFlight, Covered, CallsOK, RowsOK,
              Calling
<1>7. CASE UNCHANGED vars
  BY <1>7 DEF vars, caseVars, ledger, TypeOK, WithinCeilings, InFlight, Covered, CallsOK,
              RowsOK, Calling
<1> QED BY <1>1, <1>2, <1>3, <1>4, <1>5, <1>6, <1>7

\* A call is admitted only if both ceilings hold with its reservation.
LEMMA ReserveStep ==
  ASSUME BInv, NEW r \in Reservations, Reserve(r)
  PROVE  BInv'
<1> USE DEF BInv
<1>1. r \in Nat /\ spent \in Totals /\ spentRun \in Totals /\ spent.open \in Nat
  BY AmountsAssumption DEF TypeOK, Totals
<1>2. /\ pc = "admit" /\ pc' = "sent" /\ reserved' = r /\ calls < MaxCalls
      /\ calls' = calls + 1 /\ Affordable(r)
      /\ spent' = Hold(spent, r) /\ spentRun' = Hold(spentRun, r)
      /\ UNCHANGED <<billed, purpose, attempt, late, cost, caseUsage, reported, unstated>>
  BY DEF Reserve
<1>3. TypeOK' BY <1>1, <1>2, HoldTotals, CallsAssumption DEF TypeOK
<1>4. /\ Committed(spent)' = Committed(spent) + r
      /\ Committed(spentRun)' = Committed(spentRun) + r
      /\ spent'.unresolved >= r /\ spentRun'.unresolved >= r
      /\ spent'.open = spent.open + 1 /\ spentRun'.open >= 1
  <2>1. Committed(spent)' = Committed(spent') /\ Committed(spentRun)' = Committed(spentRun')
    BY DEF Committed
  <2>2. /\ spent'.unresolved = spent.unresolved + r /\ spent'.open = spent.open + 1
        /\ spentRun'.unresolved = spentRun.unresolved + r
        /\ spentRun'.open = spentRun.open + 1
    BY <1>1, <1>2, HoldTotals
  <2>3. Committed(spent') = Committed(spent) + r /\ Committed(spentRun') = Committed(spentRun) + r
    BY <1>1, <1>2, HoldTotals
  <2>4. /\ spent.unresolved \in Nat /\ spentRun.unresolved \in Nat
        /\ spent.open \in Nat /\ spentRun.open \in Nat
    BY <1>1 DEF Totals
  <2> QED BY <1>1, <2>1, <2>2, <2>3, <2>4
<1>5. Committed(spent) + r <= SessionCeiling /\ Committed(spentRun) + r <= RunCeiling
  BY <1>2 DEF Affordable
<1>6. Committed(spent) \in Nat /\ Committed(spentRun) \in Nat
  BY <1>1 DEF Committed, Totals
<1>7. WithinCeilings' /\ InFlight'
  BY <1>1, <1>2, <1>4, <1>5, <1>6, AmountsAssumption
     DEF WithinCeilings, InFlight, Calling
<1>8. Covered'
  <2>1. billed <= Committed(spent) + Overrun * spent.open
    BY <1>1, <1>2, <1>6, AmountsAssumption, Slack DEF Covered, Calling, TypeOK
  <2>2. /\ Overrun * spent'.open = Overrun * spent.open + Overrun
        /\ Overrun * spent.open \in Nat
    BY <1>1, <1>4, Slack
  <2> QED BY <1>1, <1>2, <1>4, <1>6, <2>1, <2>2, AmountsAssumption
          DEF Covered, Calling, TypeOK
<1>9. CallsOK' /\ RowsOK'
  BY <1>2 DEF CallsOK, RowsOK, Calling, TypeOK
<1> QED BY <1>3, <1>7, <1>8, <1>9

\* A call that ends without a usable usage keeps its reservation.
LEMMA KeptStep ==
  ASSUME BInv, NEW c \in Charges(reserved),
         UsageMissing(c) \/ CallFails(c) \/ UsageInconsistent(c)
  PROVE  BInv'
<1> USE DEF BInv
<1>1. /\ pc = "sent" /\ billed' = billed + c /\ UNCHANGED <<ledger, reserved, cost, calls, late>>
      /\ caseUsage' \in {caseUsage, caseUsage + 1}
      /\ reported' \in Nat /\ unstated' \in BOOLEAN
      /\ \/ pc' \in {"judge", "record"} /\ UNCHANGED <<purpose, attempt>>
         \/ /\ pc' = "admit" /\ purpose = "extraction" /\ purpose' = "narration"
            /\ attempt' = 0
  <2>1. caseUsage \in Nat /\ caseUsage + 1 \in Nat BY CallsAssumption DEF TypeOK
  <2> QED BY <2>1, EndParseFacts 
          DEF UsageMissing, CallFails, UsageInconsistent, Omits, TypeOK
<1>2. c \in Nat /\ c <= reserved + Overrun /\ reserved \in Nat
  BY <1>1, AmountsAssumption DEF Charges, TypeOK
<1>3. /\ spent \in Totals /\ Committed(spent) \in Nat /\ billed \in Nat
      /\ Overrun * spent.open \in Nat /\ Overrun \in Nat
  BY AmountsAssumption, Slack DEF TypeOK, Totals, Committed
<1>4. RowsOK' /\ CallsOK'
  <2>1. calls \in Nat /\ caseUsage \in Nat /\ attempt \in {0, 1}
        /\ purpose \in {"extraction", "narration"}
    BY CallsAssumption DEF TypeOK
  <2>2. RowsOK'
    <3>1. caseUsage + 1 <= calls BY <1>1 DEF RowsOK, Calling
    <3>2. (caseUsage' = caseUsage \/ caseUsage' = caseUsage + 1) /\ calls' = calls
      BY <1>1
    <3>3. pc' \notin {"sent", "answered"} BY <1>1
    <3>4. (IF Calling THEN 1 ELSE 0)' = 0 BY <3>3 DEF Calling
    <3>5. CASE caseUsage' = caseUsage BY <2>1, <3>1, <3>2, <3>4, <3>5 DEF RowsOK
    <3>6. CASE caseUsage' = caseUsage + 1 BY <2>1, <3>1, <3>2, <3>4, <3>6 DEF RowsOK
    <3> QED BY <3>2, <3>5, <3>6
  <2>3. CallsOK' BY <1>1, <2>1 DEF CallsOK
  <2> QED BY <2>2, <2>3
<1>5. TypeOK'
  BY <1>1, <1>2, <1>3, <1>4, CallsAssumption DEF TypeOK, ledger, RowsOK, Calling
<1>6. WithinCeilings' /\ InFlight'
  BY <1>1 DEF WithinCeilings, InFlight, Calling, ledger, Committed
<1>7. Covered'
  <2>1. billed + reserved + Overrun <= Committed(spent) + Overrun * spent.open
    BY <1>1, <1>2, <1>3 DEF Covered, Calling
  <2>2. /\ Committed(spent)' = Committed(spent)
        /\ Overrun * spent'.open = Overrun * spent.open
    BY <1>1 DEF ledger, Committed
  <2> QED BY <1>1, <1>2, <1>3, <2>1, <2>2 DEF Covered, Calling
<1> QED BY <1>4, <1>5, <1>6, <1>7

\* An answer is charged before it is recorded.
LEMMA AnsweredStep ==
  ASSUME BInv, NEW c \in Charges(reserved), Answered(c)
  PROVE  BInv'
<1> USE DEF BInv
<1>1. /\ pc = "sent" /\ pc' = "answered" /\ billed' = billed + c /\ cost' = c
      /\ UNCHANGED <<ledger, caseVars, reserved>>
  BY DEF Answered
<1>2. c \in Nat /\ c <= reserved + Overrun /\ reserved \in Nat
  BY <1>1, AmountsAssumption DEF Charges, TypeOK
<1>3. /\ spent \in Totals /\ Committed(spent) \in Nat /\ billed \in Nat
      /\ Overrun * spent.open \in Nat /\ Overrun \in Nat
  BY AmountsAssumption, Slack DEF TypeOK, Totals, Committed
<1>4. RowsOK' /\ CallsOK' BY <1>1 DEF RowsOK, CallsOK, Calling, caseVars
<1>5. TypeOK' BY <1>1, <1>2, <1>3 DEF TypeOK, ledger, caseVars
<1>6. WithinCeilings' /\ InFlight'
  BY <1>1, <1>2 DEF WithinCeilings, InFlight, Calling, ledger, Committed
<1>7. Covered'
  <2>1. billed + reserved + Overrun <= Committed(spent) + Overrun * spent.open
    BY <1>1, <1>2, <1>3 DEF Covered, Calling
  <2>2. /\ Committed(spent)' = Committed(spent)
        /\ Overrun * spent'.open = Overrun * spent.open
    BY <1>1 DEF ledger, Committed
  <2> QED BY <1>1, <1>2, <1>3, <2>1, <2>2 DEF Covered, Calling
<1> QED BY <1>4, <1>5, <1>6, <1>7

\* The reservation is exchanged for the cost.
LEMMA SettleStep ==
  ASSUME BInv, Settle
  PROVE  BInv'
<1> USE DEF BInv
<1>1. /\ pc = "answered" /\ pc' = "judge" /\ caseUsage' = caseUsage + 1
      /\ spent' = Settled(spent, reserved, cost)
      /\ spentRun' = Settled(spentRun, reserved, cost)
      /\ UNCHANGED <<billed, purpose, attempt, calls, late, reserved, cost, reported, unstated>>
  BY DEF Settle
<1>2. /\ reserved \in Nat /\ cost \in Nat /\ cost <= reserved + Overrun
      /\ reserved <= spent.unresolved /\ spent.open >= 1
      /\ reserved <= spentRun.unresolved /\ spentRun.open >= 1
      /\ Committed(spent) <= SessionCeiling /\ Committed(spentRun) <= RunCeiling
  BY <1>1 DEF InFlight, Calling, TypeOK
<1>3. spent \in Totals /\ spentRun \in Totals /\ billed \in Nat /\ Overrun \in Nat
  BY AmountsAssumption DEF TypeOK
<1>4. /\ spent' \in Totals /\ spentRun' \in Totals
      /\ spent'.open + 1 = spent.open
      /\ Committed(spent)' + reserved = Committed(spent) + cost
      /\ Committed(spentRun)' + reserved = Committed(spentRun) + cost
  <2>1. Committed(spent)' = Committed(spent') /\ Committed(spentRun)' = Committed(spentRun')
    BY DEF Committed
  <2> QED BY <1>1, <1>2, <1>3, <2>1, SettledTotals
<1>5. /\ Committed(spent) \in Nat /\ Committed(spentRun) \in Nat
      /\ Committed(spent)' \in Nat /\ Committed(spentRun)' \in Nat
  BY <1>3, <1>4 DEF Committed, Totals
<1>6. RowsOK' /\ CallsOK'
  BY <1>1, CallsAssumption DEF RowsOK, CallsOK, Calling, TypeOK
<1>7. TypeOK'
  BY <1>1, <1>4, <1>6, CallsAssumption DEF TypeOK, RowsOK, Calling
<1>8. WithinCeilings' /\ InFlight'
  BY <1>1, <1>2, <1>3, <1>4, <1>5, AmountsAssumption DEF WithinCeilings, InFlight, Calling
<1>9. Covered'
  <2>1. billed + reserved + Overrun <= Committed(spent) + cost + Overrun * spent.open
    BY <1>1, <1>2, <1>3, <1>5 DEF Covered, Calling
  <2>2. /\ Overrun * spent.open = Overrun * spent'.open + Overrun
        /\ Overrun * spent'.open \in Nat
    BY <1>4, Slack DEF Totals
  <2> QED BY <1>1, <1>2, <1>3, <1>4, <1>5, <2>1, <2>2 DEF Covered, Calling
<1> QED BY <1>6, <1>7, <1>8, <1>9

\* A verdict or a refusal spends nothing.
LEMMA VerdictStep ==
  ASSUME BInv, Refuse \/ Accept \/ GiveUp
  PROVE  BInv'
<1> USE DEF BInv
<1>1. /\ pc \in {"admit", "judge"} /\ reported' \in Nat /\ unstated' \in BOOLEAN
      /\ UNCHANGED <<ledger, billed, calls, late, reserved, cost, caseUsage>>
      /\ \/ pc' = "record" /\ UNCHANGED <<purpose, attempt>>
         \/ /\ pc' = "admit" /\ purpose = "extraction" /\ purpose' = "narration"
            /\ attempt' = 0
  <2>1. caseUsage \in Nat BY CallsAssumption DEF TypeOK
  <2> QED BY <2>1, EndParseFacts DEF Refuse, Accept, GiveUp, Omits, TypeOK
<1>2. TypeOK' BY <1>1 DEF TypeOK, ledger
<1>3. WithinCeilings' /\ InFlight' /\ Covered'
  BY <1>1 DEF WithinCeilings, InFlight, Covered, Calling, ledger, Committed
<1>4. RowsOK' /\ CallsOK'
  BY <1>1, CallsAssumption DEF RowsOK, CallsOK, Calling, TypeOK
<1> QED BY <1>2, <1>3, <1>4

\* A process that ends leaves its reservation behind.
LEMMA EndRunStep ==
  ASSUME BInv, EndRun
  PROVE  BInv'
<1> USE DEF BInv
<1>1. PICK c \in (IF pc = "sent" THEN Charges(reserved) ELSE {0}) : billed' = billed + c
  BY DEF EndRun
<1>2. pc # "off" /\ pc' = "off" /\ UNCHANGED <<ledger, caseVars, reserved, cost>>
  BY DEF EndRun
<1>3. /\ spent \in Totals /\ Committed(spent) \in Nat /\ billed \in Nat
      /\ Overrun * spent.open \in Nat /\ Overrun \in Nat
      /\ reserved \in Nat /\ cost \in Nat
  BY AmountsAssumption, Slack DEF TypeOK, Totals, Committed
<1>4. c \in Nat /\ (pc = "sent" => c <= reserved + Overrun) /\ (pc # "sent" => c = 0)
  BY <1>1, <1>3 DEF Charges
<1>5. TypeOK' BY <1>1, <1>2, <1>3, <1>4 DEF TypeOK, ledger, caseVars
<1>6. WithinCeilings' /\ InFlight' /\ RowsOK' /\ CallsOK'
  BY <1>2, CallsAssumption
     DEF WithinCeilings, InFlight, RowsOK, CallsOK, Calling, ledger, caseVars, Committed,
         TypeOK
<1>7. Covered'
  <2>1. billed + c <= Committed(spent) + Overrun * spent.open
    BY <1>3, <1>4 DEF Covered, Calling, InFlight
  <2>2. /\ Committed(spent)' = Committed(spent)
        /\ Overrun * spent'.open = Overrun * spent.open
    BY <1>2 DEF ledger, Committed
  <2> QED BY <1>1, <1>2, <1>3, <1>4, <2>1, <2>2 DEF Covered, Calling
<1> QED BY <1>5, <1>6, <1>7

\* Every step preserves it.
LEMMA NextB == BInv /\ [Next]_vars => BInv'
<1> SUFFICES ASSUME BInv, [Next]_vars PROVE BInv'
  OBVIOUS
<1> QED BY QuietStep, ReserveStep, KeptStep, AnsweredStep, SettleStep, VerdictStep,
           EndRunStep
        DEF Next

\* The reachable states of the accounting satisfy the inductive invariant.
THEOREM BudgetInvariance == Spec => []BInv
<1> QED BY InitB, NextB, PTL DEF Spec

-----------------------------------------------------------------------------
\* Every variable has its type; no total goes below zero.
THEOREM BudgetTypeCorrect == Spec => []TypeOK
<1>1. BInv => TypeOK BY DEF BInv
<1> QED BY <1>1, BudgetInvariance, PTL

\* Neither ceiling is passed by more than the overrun of one call, over any
\* number of calls, cases, runs and crashes (LLMClient._admit).
THEOREM WithinCeilingsHolds == Spec => []WithinCeilings
<1>1. BInv => WithinCeilings BY DEF BInv
<1> QED BY <1>1, BudgetInvariance, PTL

\* What the provider charged is covered by the ledger at all times
\* (LLMClient.parse: reserve, send, settle).
THEOREM BilledIsCoveredHolds == Spec => []BilledIsCovered
<1>1. BInv => BilledIsCovered
  <2> SUFFICES ASSUME BInv PROVE BilledIsCovered
    OBVIOUS
  <2>1. /\ Committed(spent) \in Nat /\ billed \in Nat /\ Overrun * spent.open \in Nat
        /\ Overrun \in Nat /\ reserved \in Nat /\ cost \in Nat
    BY AmountsAssumption, Slack DEF BInv, TypeOK, Totals, Committed
  <2> QED BY <2>1 DEF BInv, Covered, InFlight, Calling, BilledIsCovered
<1> QED BY <1>1, BudgetInvariance, PTL

\* The two together bound the bill: over any number of runs and crashes the
\* provider charges the ceiling of the session and one overrun for each call
\* whose usage was never read, and one for the last (_admit, reserve_usage).
BillBounded == billed <= SessionCeiling + Overrun * (spent.open + 1)

THEOREM BillIsBounded == Spec => []BillBounded
<1>1. BInv /\ WithinCeilings /\ BilledIsCovered => BillBounded
  <2> SUFFICES ASSUME BInv, WithinCeilings, BilledIsCovered PROVE BillBounded
    OBVIOUS
  <2>1. spent \in Totals /\ billed \in Nat BY DEF BInv, TypeOK
  <2>2. spent.open \in Nat /\ Committed(spent) \in Nat BY <2>1 DEF Totals, Committed
  <2>3. /\ Overrun * spent.open \in Nat
        /\ Overrun * (spent.open + 1) = Overrun * spent.open + Overrun
    BY <2>2, Slack
  <2> QED BY <2>1, <2>2, <2>3, AmountsAssumption
          DEF WithinCeilings, BilledIsCovered, BillBounded
<1> QED BY <1>1, BudgetInvariance, WithinCeilingsHolds, BilledIsCoveredHolds, PTL

\* If no call costs more than was reserved for it, the bill never passes the
\* ceiling of the session, whatever crashed and whatever was never answered.
THEOREM CeilingIsTheBill ==
  ASSUME Overrun = 0
  PROVE  Spec => [](billed <= SessionCeiling)
<1>1. BInv /\ BillBounded => billed <= SessionCeiling
  BY AmountsAssumption DEF BInv, TypeOK, Totals, BillBounded
<1> QED BY <1>1, BudgetInvariance, BillIsBounded, PTL

\* A repaired extraction leaves the narration its call.
THEOREM NarrationHasItsCallHolds == Spec => []NarrationHasItsCall
<1>1. BInv => NarrationHasItsCall
  BY CallsAssumption DEF BInv, CallsOK, NarrationHasItsCall, TypeOK
<1> QED BY <1>1, BudgetInvariance, PTL

\* What the record may state by now: the call in hand is not in it yet.
ReportedOK ==
  pc \notin {"off", "between"} =>
    /\ purpose = "extraction" => reported = 0
    /\ reported + (IF pc \in {"sent", "answered", "judge"} THEN 1 ELSE 0) <= calls

\* And what it does state, if nothing was left out: all rows of an extraction
\* that may yet fail are at hand, and a first narration adds the one it makes.
StatedOK ==
  pc \notin {"off", "between"} /\ ~unstated =>
    /\ purpose = "extraction" =>
         /\ pc # "record" => caseUsage + (IF Calling THEN 1 ELSE 0) = calls
         /\ attempt = 0 => calls = (IF pc \in {"admit", "record"} THEN 0 ELSE 1)
    /\ purpose = "narration" /\ attempt = 0 =>
         reported + (IF pc \in {"sent", "answered", "judge"} THEN 1 ELSE 0) = calls
    /\ pc = "record" => reported = calls

\* Every step preserves them.
LEMMA ReportedStep ==
  BInv /\ ReportedOK /\ StatedOK /\ [Next]_vars => ReportedOK' /\ StatedOK'
<1> SUFFICES ASSUME BInv, ReportedOK, StatedOK, [Next]_vars
             PROVE  ReportedOK' /\ StatedOK'
  OBVIOUS
<1> USE DEF ReportedOK, StatedOK, Calling, caseVars, ledger
<1>1. /\ calls \in Nat /\ caseUsage \in Nat /\ reported \in Nat
      /\ purpose \in {"extraction", "narration"} /\ attempt \in {0, 1}
      /\ unstated \in BOOLEAN /\ RowsOK
  BY CallsAssumption DEF BInv, TypeOK
<1>2. CASE StartRun \/ BeginCase \/ WriteRecord \/ EndRun
  BY <1>1, <1>2 DEF StartRun, BeginCase, WriteRecord, EndRun
<1>3. CASE DeadlinePasses \/ UNCHANGED vars
  BY <1>1, <1>3 DEF DeadlinePasses, vars
<1>4. CASE CaseAborts
  BY <1>1, <1>4 DEF CaseAborts
<1>5. CASE Repair
  BY <1>1, <1>5 DEF Repair
<1>6. CASE \E r \in Reservations : Reserve(r)
  BY <1>1, <1>6 DEF Reserve
<1>7. CASE Refuse
  <2>1. ~unstated' => ~unstated /\ ~(purpose = "narration" /\ attempt = 1) BY <1>7 DEF Refuse, Omits
  <2>2. ReportedOK' BY <1>1, <1>7 DEF Refuse, EndParse, RowsOK
  <2>3. StatedOK' BY <1>1, <1>7, <2>1 DEF Refuse, EndParse, RowsOK
  <2> QED BY <2>2, <2>3
<1>8. CASE Accept
  <2>1. ~unstated' => ~unstated /\ attempt # 1 BY <1>8 DEF Accept, Omits
  <2>2. ReportedOK' BY <1>1, <1>8 DEF Accept, EndParse, RowsOK
  <2>3. StatedOK' BY <1>1, <1>8, <2>1 DEF Accept, EndParse, RowsOK
  <2> QED BY <2>2, <2>3
<1>9. CASE GiveUp
  <2>1. ~unstated' => ~unstated /\ purpose # "narration" BY <1>9 DEF GiveUp, Omits
  <2>2. ReportedOK' BY <1>1, <1>9 DEF GiveUp, EndParse, RowsOK
  <2>3. StatedOK' BY <1>1, <1>9, <2>1 DEF GiveUp, EndParse, RowsOK
  <2> QED BY <2>2, <2>3
<1>10. CASE Settle
  BY <1>1, <1>10 DEF Settle
<1>11. CASE \E c \in Charges(reserved) : Answered(c) \/ UsageMissing(c)
  BY <1>1, <1>11 DEF Answered, UsageMissing
<1>12. CASE \E c \in Charges(reserved) : CallFails(c)
  <2>1. PICK c \in Charges(reserved) : CallFails(c) BY <1>12
  <2>2. ~unstated' => ~unstated /\ purpose # "narration" BY <2>1 DEF CallFails, Omits
  <2>3. ReportedOK' BY <1>1, <2>1 DEF CallFails, EndParse, RowsOK
  <2>4. StatedOK' BY <1>1, <2>1, <2>2 DEF CallFails, EndParse, RowsOK
  <2> QED BY <2>3, <2>4
<1>13. CASE \E c \in Charges(reserved) : UsageInconsistent(c)
  <2>1. PICK c \in Charges(reserved) : UsageInconsistent(c) BY <1>13
  <2>2. unstated' = TRUE BY <2>1 DEF UsageInconsistent, Omits
  <2>3. ReportedOK' BY <1>1, <2>1 DEF UsageInconsistent, EndParse, RowsOK
  <2>4. StatedOK' BY <1>1, <2>1, <2>2 DEF UsageInconsistent, EndParse, RowsOK
  <2> QED BY <2>3, <2>4
<1> QED BY <1>2, <1>3, <1>4, <1>5, <1>6, <1>7, <1>8, <1>9, <1>10, <1>11, <1>12, <1>13
        DEF Next

\* A case record states the usage of all its requests and of no other, whichever
\* call failed, but for what the code is known to leave out (run_case).
THEOREM UsageIsStatedHolds == Spec => []UsageIsStated
<1>1. Init => ReportedOK /\ StatedOK BY DEF Init, ReportedOK, StatedOK
<1>2. BInv /\ ReportedOK /\ StatedOK => UsageIsStated
  BY DEF BInv, TypeOK, ReportedOK, StatedOK, UsageIsStated
<1> QED BY <1>1, <1>2, ReportedStep, BudgetInvariance, PTL DEF Spec
=============================================================================
