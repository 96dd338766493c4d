----------------------------- MODULE ModelBudget -----------------------------
(***************************************************************************)
(* The money spent on the language model: LLMClient.parse, the usage ledger *)
(* of the journal it reserves in before it sends, the two calls a case      *)
(* makes (extraction, then narration) and the usage the case record states. *)
(*                                                                         *)
(* Amounts are natural numbers (micro-dollars in the code, where both the  *)
(* reservation and the cost are quantized to them before they are stored). *)
(* The rows of model_usage are kept as the totals the code reads from them *)
(* (usage_totals): a row is only ever settled by the call that wrote it,   *)
(* so the row of the call in progress is the only one told apart.          *)
(* What the provider charges is added when the call ends, however it ends. *)
(***************************************************************************)
EXTENDS Naturals

CONSTANTS
  Reservations,     \* what a call may reserve (reserve_for)
  Overrun,          \* how much more than reserved a call may turn out to cost
  SessionCeiling,   \* --session-ceiling-usd, for everything in the journal
  RunCeiling,       \* --run-ceiling-usd
  MaxCalls          \* MAX_MODEL_REQUESTS_PER_CASE

ASSUME AmountsAssumption ==
  /\ Reservations \subseteq Nat \ {0}
  /\ Overrun \in Nat /\ SessionCeiling \in Nat /\ RunCeiling \in Nat
ASSUME CallsAssumption == MaxCalls \in Nat /\ MaxCalls >= 3

VARIABLES
  spent,      \* usage_totals of the whole journal
  spentRun,   \* usage_totals of the run in progress
  billed,     \* what the provider charged in all
  pc, purpose, attempt, calls, late,   \* the case in progress
  reserved,   \* the reservation of the call in progress
  cost,       \* the cost in the answer not yet recorded
  caseUsage,  \* rows of case_usage
  reported,   \* rows of model_usage in the case record
  unstated    \* history: the case left the usage of a request out of its record

ledger   == <<spent, spentRun>>
caseVars == <<purpose, attempt, calls, late, caseUsage, reported, unstated>>
vars     == <<ledger, billed, pc, caseVars, reserved, cost>>

Nothing == [cost |-> 0, unresolved |-> 0, open |-> 0]

\* committed_spend: the calculated cost plus the unresolved upper bounds.
Committed(totals) == totals.cost + totals.unresolved

Init ==
  /\ spent = Nothing /\ spentRun = Nothing /\ billed = 0
  /\ pc = "off" /\ purpose = "extraction" /\ attempt = 0 /\ calls = 0 /\ late = FALSE
  /\ reserved = 0 /\ cost = 0 /\ caseUsage = 0 /\ reported = 0 /\ unstated = FALSE

\* What a call that reserved r may be charged.
Charges(r) == 0..(r + Overrun)

-----------------------------------------------------------------------------
\* A run has an id of its own: nothing is spent on it yet.
StartRun ==
  /\ pc = "off" /\ pc' = "between"
  /\ spentRun' = Nothing
  /\ UNCHANGED <<spent, billed, caseVars, reserved, cost>>

BeginCase ==
  /\ pc = "between" /\ pc' = "admit"
  /\ purpose' = "extraction" /\ attempt' = 0 /\ calls' = 0 /\ late' = FALSE
  /\ caseUsage' = 0 /\ reported' = 0 /\ unstated' = FALSE
  /\ UNCHANGED <<ledger, billed, reserved, cost>>

DeadlinePasses ==
  /\ pc \notin {"off", "between"} /\ ~late
  /\ late' = TRUE
  /\ UNCHANGED <<ledger, billed, pc, purpose, attempt, calls, reserved, cost, caseUsage,
                 reported, unstated>>

\* Mutant: a failed extraction adds nothing either.
EndParseForgets(ok, rows) ==
  /\ reported' = IF ok THEN reported + 1 ELSE reported
  /\ IF purpose = "extraction"
     THEN purpose' = "narration" /\ attempt' = 0 /\ pc' = "admit"
     ELSE pc' = "record" /\ UNCHANGED <<purpose, attempt>>

\* The end of parse(), and what the case does of it: the usage of a successful
\* call joins the record, of a failed extraction all of case_usage does, and of
\* a failed narration nothing.  The narration follows the extraction.
EndParse(ok, rows) ==
  /\ reported' = IF ok THEN reported + 1
                 ELSE IF purpose = "extraction" THEN reported + rows
                 ELSE reported
  /\ IF purpose = "extraction"
     THEN purpose' = "narration" /\ attempt' = 0 /\ pc' = "admit"
     ELSE pc' = "record" /\ UNCHANGED <<purpose, attempt>>

\* What the end of a call is known to leave out of the record.
Omits(b) == unstated' = (unstated \/ b)

\* Mutant: only the cost of settled calls counts against the ceilings.
AffordableOnCost(r) ==
  /\ spent.cost + r <= SessionCeiling
  /\ spentRun.cost + r <= RunCeiling

\* _admit: both ceilings, with the unresolved reservations counted in full.
Affordable(r) ==
  /\ Committed(spent) + r <= SessionCeiling
  /\ Committed(spentRun) + r <= RunCeiling

Hold(totals, r) ==
  [cost |-> totals.cost, unresolved |-> totals.unresolved + r, open |-> totals.open + 1]

Settled(totals, r, c) ==
  [cost |-> totals.cost + c, unresolved |-> totals.unresolved - r, open |-> totals.open - 1]

\* Admitted: the reservation is on disk before the request is sent.
Reserve(r) ==
  /\ pc = "admit" /\ calls < MaxCalls /\ ~late
  /\ Affordable(r)
  /\ spent' = Hold(spent, r) /\ spentRun' = Hold(spentRun, r)
  /\ reserved' = r /\ calls' = calls + 1
  /\ pc' = "sent"
  /\ UNCHANGED <<billed, purpose, attempt, late, cost, caseUsage,
                 reported, unstated>>

\* The request limit, the input cap, the deadline or a ceiling.
Refuse ==
  /\ pc = "admit"
  /\ EndParse(FALSE, caseUsage)
  /\ Omits(purpose = "narration" /\ attempt = 1)
  /\ UNCHANGED <<ledger, billed, calls, late, reserved, cost, caseUsage>>

\* The answer arrives with its usage.
Answered(c) ==
  /\ pc = "sent" /\ c \in Charges(reserved)
  /\ billed' = billed + c /\ cost' = c
  /\ pc' = "answered"
  /\ UNCHANGED <<ledger, caseVars, reserved>>

\* Mutant: the answer is recorded more than once.
SettleRepeats ==
  /\ pc = "answered" /\ caseUsage < MaxCalls
  /\ spent' = Settled(spent, reserved, cost)
  /\ spentRun' = Settled(spentRun, reserved, cost)
  /\ caseUsage' = caseUsage + 1
  /\ UNCHANGED <<billed, pc, purpose, attempt, calls, late, reserved, cost, reported, unstated>>

\* settle_usage: the row of the reservation takes the cost.
Settle ==
  /\ pc = "answered"
  /\ spent' = Settled(spent, reserved, cost)
  /\ spentRun' = Settled(spentRun, reserved, cost)
  /\ caseUsage' = caseUsage + 1
  /\ pc' = "judge"
  /\ UNCHANGED <<billed, purpose, attempt, calls, late, reserved, cost, reported, unstated>>

\* The answer has no usage object: the reservation stays.
UsageMissing(c) ==
  /\ pc = "sent" /\ c \in Charges(reserved)
  /\ billed' = billed + c
  /\ caseUsage' = caseUsage + 1
  /\ pc' = "judge"
  /\ UNCHANGED <<ledger, purpose, attempt, calls, late, reserved, cost, reported, unstated>>

\* Mutant: a call that failed is written off as costing nothing.
CallFailsForFree(c) ==
  /\ pc = "sent" /\ c \in Charges(reserved)
  /\ billed' = billed + c
  /\ spent' = Settled(spent, reserved, 0) /\ spentRun' = Settled(spentRun, reserved, 0)
  /\ caseUsage' = caseUsage + 1
  /\ EndParse(FALSE, caseUsage + 1)
  /\ Omits(purpose = "narration")
  /\ UNCHANGED <<calls, late, reserved, cost>>

\* The call raises, by its timeout or otherwise: it may have been charged.
CallFails(c) ==
  /\ pc = "sent" /\ c \in Charges(reserved)
  /\ billed' = billed + c
  /\ caseUsage' = caseUsage + 1
  /\ EndParse(FALSE, caseUsage + 1)
  /\ Omits(purpose = "narration")
  /\ UNCHANGED <<ledger, calls, late, reserved, cost>>

\* cost_from_usage rejects the token counts and raises: no row of case_usage.
UsageInconsistent(c) ==
  /\ pc = "sent" /\ c \in Charges(reserved)
  /\ billed' = billed + c
  /\ EndParse(FALSE, caseUsage)
  /\ Omits(TRUE)
  /\ UNCHANGED <<ledger, calls, late, reserved, cost, caseUsage>>

Accept ==
  /\ pc = "judge"
  /\ EndParse(TRUE, 0)
  /\ Omits(attempt = 1)
  /\ UNCHANGED <<ledger, billed, calls, late, reserved, cost, caseUsage>>

\* Mutant: as many repairs as the request limit allows.
RepairAgain ==
  /\ pc = "judge" /\ pc' = "admit"
  /\ UNCHANGED <<ledger, billed, caseVars, reserved, cost>>

\* Incomplete, refused or not matching the schema: one repair.
Repair ==
  /\ pc = "judge" /\ attempt = 0
  /\ attempt' = 1 /\ pc' = "admit"
  /\ UNCHANGED <<ledger, billed, purpose, calls, late, reserved, cost, caseUsage,
                 reported, unstated>>

GiveUp ==
  /\ pc = "judge" /\ attempt = 1
  /\ EndParse(FALSE, caseUsage)
  /\ Omits(purpose = "narration")
  /\ UNCHANGED <<ledger, billed, calls, late, reserved, cost, caseUsage>>

\* An exception outside the two calls ends the case without its next call.
CaseAborts ==
  /\ pc = "admit" /\ attempt = 0
  /\ pc' = "record"
  /\ UNCHANGED <<ledger, billed, caseVars, reserved, cost>>

WriteRecord ==
  /\ pc = "record" /\ pc' = "between"
  /\ UNCHANGED <<ledger, billed, caseVars, reserved, cost>>

\* The process ends, or is killed; a request under way may still be charged.
EndRun ==
  /\ pc # "off" /\ pc' = "off"
  /\ \E c \in IF pc = "sent" THEN Charges(reserved) ELSE {0} : billed' = billed + c
  /\ UNCHANGED <<ledger, caseVars, reserved, cost>>

Next ==
  \/ StartRun \/ BeginCase \/ DeadlinePasses
  \/ \E r \in Reservations : Reserve(r)
  \/ Refuse
  \/ \E c \in Charges(reserved) :
       Answered(c) \/ UsageMissing(c) \/ CallFails(c) \/ UsageInconsistent(c)
  \/ Settle \/ Accept \/ Repair \/ GiveUp
  \/ CaseAborts \/ WriteRecord \/ EndRun

Spec == Init /\ [][Next]_vars

-----------------------------------------------------------------------------
(* Properties                                                              *)

Totals == [cost : Nat, unresolved : Nat, open : Nat]

\* Every variable has its type; in particular no total ever goes below zero.
TypeOK ==
  /\ spent \in Totals /\ spentRun \in Totals /\ billed \in Nat
  /\ pc \in {"off", "between", "admit", "sent", "answered", "judge", "record"}
  /\ purpose \in {"extraction", "narration"} /\ attempt \in {0, 1}
  /\ calls \in 0..MaxCalls /\ late \in BOOLEAN
  /\ reserved \in Nat /\ cost \in Nat
  /\ caseUsage \in 0..MaxCalls /\ reported \in Nat /\ unstated \in BOOLEAN

\* What the provider charged is in the ledger, whatever became of the answers
\* and of the processes that asked: only a call whose usage was never read can
\* be charged more than the ledger says, and by its overrun only.
BilledIsCovered == billed <= Committed(spent) + Overrun * spent.open

\* Neither ceiling is passed by more than the overrun of one call, over any
\* number of calls, cases and runs.
WithinCeilings ==
  /\ Committed(spent) <= SessionCeiling + Overrun
  /\ Committed(spentRun) <= RunCeiling + Overrun

\* A repaired extraction leaves the narration its call (MAX_MODEL_REQUESTS_PER_CASE
\* is shared by the two and "includes the single permitted schema repair").
NarrationHasItsCall ==
  (pc = "admit" /\ purpose = "narration" /\ attempt = 0) => calls < MaxCalls

\* The record states the usage of every request of the case and of no other,
\* whichever call failed and after how many tries, unless the answer came after a
\* repair, the narration failed or the counts of an answer were rejected: what
\* the code leaves out then is a finding (pipeline.run_case).
UsageIsStated ==
  pc = "record" => reported <= calls /\ (unstated \/ reported = calls)
=============================================================================
