-------------------------- MODULE CasePipelineProofs --------------------------
(***************************************************************************)
(* A case for any plans, limits and number of runs over its message.       *)
(*                                                                         *)
(* The argument.  What ordinary requests spent is at most what is not      *)
(* reserved (Budget).  In the second pass each group of hand-overs is      *)
(* still to be dealt with, or in the API, or its failure is in the report  *)
(* (Referred): a duplicate rests on the log that was read, which never     *)
(* shows more than there is (LogOK).  What the report says of a remedy is  *)
(* so (ResultsOK), and what it says of the undone ones was added to the    *)
(* hand-overs before the second pass (Reported).  That every case ends     *)
(* rests on a measure of what it still has to do, further below.           *)
(***************************************************************************)
EXTENDS CasePipeline, FiniteSetTheorems, WellFoundedInduction, TLAPS

Budget == /\ used <= Ordinary + drawn
          /\ refused => drawn >= Reserved

\* Where a case stands at each point of its program.
Placed ==
  /\ pc \in {"idle", "identity", "facts", "plan"} => pass = 1
  /\ pc = "idle" => ~dry
  /\ pc \in {"decide", "refresh", "write", "sent"} => current \in todo
  /\ pc \in {"refresh", "write"} => pass = 1
  /\ pc = "reply" => pass = 2
  /\ pc = "record" => pass # 1
  /\ pc \in {"reply", "record"} => todo = {}

KeysOf(R) == {<<g.queue, g.scope>> : g \in R}

LogOK == audit.keys \subseteq KeysOf(open)

ReportOK ==
  /\ pass = 1 => receipts = {}
  /\ "would" \in receipts => dry
  /\ receipts \cap {"succeeded", "unnamed", "duplicate"} # {} => open # {}

Raised(g) == \E o \in open : o.queue = g.queue /\ o.scope = g.scope

Referred ==
  pass = 2 /\ ~dry /\ receipts \cap Undone = {} =>
    \A g \in Groups(handovers, CaseScope) : g \in todo \/ Raised(g)

ResultsOK ==
  \A r \in Remedies :
    /\ results[r] \in {"succeeded", "duplicate"} => r \in performed
    /\ results[r] = "would" => dry

Reported == pass = 2 => FromExecution \subseteq handovers

IInv == /\ TypeOK /\ Budget /\ Placed /\ LogOK /\ ReportOK /\ Referred
        /\ ResultsOK /\ Reported

-----------------------------------------------------------------------------
(* The operators                                                           *)

LEMMA GroupsTyped ==
  ASSUME NEW H \in SUBSET HandoverItem, NEW s \in Scope
  PROVE  Groups(H, s) \in SUBSET Referral
<1> SUFFICES ASSUME NEW g \in Groups(H, s) PROVE g \in Referral
  OBVIOUS
<1>1. PICK it \in H :
        g = [queue |-> Route(H, it), scope |-> s,
             clauses |-> {i.clause : i \in {j \in H : Route(H, j) = Route(H, it)}}]
  BY DEF Groups
<1>2. Route(H, it) \in Queue
  BY QueuesAssumption DEF Route, HandoverItem
<1>3. {i.clause : i \in {j \in H : Route(H, j) = Route(H, it)}} \in SUBSET Clause
  BY DEF HandoverItem
<1> QED BY <1>1, <1>2, <1>3 DEF Referral

LEMMA ScopesTyped == TypeOK => CaseScope \in Scope /\ RecoveryScope \in Scope
BY DEF TypeOK, CaseScope, RecoveryScope, Scope

LEMMA ItemsTyped ==
  /\ Unidentified \in HandoverItem /\ Undated \in HandoverItem
  /\ Stopped \in HandoverItem /\ FromExecution \in SUBSET HandoverItem
<1>1. \A q \in Queue, c \in Clause : Item(q, c) \in HandoverItem
  BY DEF Item, HandoverItem
<1>2. {"identity", "no date", "stopped", "gate", "uncertain", "rejected"}
        \subseteq Clause
  BY DEF Clause
<1>3. "SUPERVISOR" \in Queue /\ "GENERAL" \in Queue BY QueuesAssumption
<1>4. Unidentified \in HandoverItem /\ Undated \in HandoverItem
        /\ Stopped \in HandoverItem
  BY <1>1, <1>2, <1>3 DEF Unidentified, Undated, Stopped
<1>5. FromExecution \in SUBSET HandoverItem
  BY <1>1, <1>2, <1>3 DEF FromExecution
<1> QED BY <1>4, <1>5

AuditType == [known : BOOLEAN, keys : SUBSET (Queue \X Scope)]

LEMMA UnreadTyped == Unread \in AuditType /\ Unread.keys = {}
BY DEF Unread, AuditType

LEMMA OrdinaryType == Ordinary \in Nat /\ Ordinary + Reserved = AttemptLimit
BY AttemptsAssumption DEF Ordinary

LEMMA ReadKeeps ==
  ASSUME TypeOK, Budget, NEW result, Read(result)
  PROVE  used' \in Nat /\ drawn' = drawn /\ used' <= Ordinary + drawn
<1>1. PICK spent \in 0..ReadTries :
        used' = used + spent /\ (spent > 0 => used' <= Ordinary)
  BY DEF Read
<1>2. drawn' = drawn BY DEF Read
<1> QED BY <1>1, <1>2, AttemptsAssumption, OrdinaryType DEF TypeOK, Budget

LEMMA DrawKeeps ==
  ASSUME TypeOK, Budget, Draw
  PROVE  /\ used' \in Nat /\ drawn' \in Nat /\ drawn' >= drawn
         /\ used' <= Ordinary + drawn'
BY OrdinaryType DEF Draw, TypeOK, Budget

LEMMA ReadLogKeeps ==
  ASSUME TypeOK, Budget, ReadLog
  PROVE  /\ used' \in Nat /\ drawn' \in Nat /\ drawn' >= drawn
         /\ used' <= Ordinary + drawn'
         /\ audit' \in AuditType
         /\ audit'.keys \subseteq KeysOf(open)
<1>1. KeysOf(open) \in SUBSET (Queue \X Scope)
  BY DEF KeysOf, TypeOK, Referral
<1>2. Log \in AuditType /\ Log.keys = KeysOf(open)
  BY <1>1 DEF Log, KeysOf, AuditType
<1>3. audit' \in AuditType /\ audit'.keys \subseteq KeysOf(open)
  BY <1>2, UnreadTyped DEF ReadLog
<1>4. CASE Draw BY <1>3, <1>4, DrawKeeps
<1>5. CASE UNCHANGED budgetVars BY <1>3, <1>5 DEF budgetVars, TypeOK, Budget
<1> QED BY <1>4, <1>5 DEF ReadLog

\* An exception leads to the recovery pass, or out of it.
LEMMA AbandonKeeps ==
  ASSUME TypeOK, ReportOK, NEW item \in HandoverItem, Abandon(item)
  PROVE  /\ pass' = 3 /\ pc' \in {"next", "record"}
         /\ pc' = "record" => todo' = {}
         /\ handovers' \subseteq HandoverItem /\ todo' \subseteq Referral
<1>1. CASE pass = 3 BY <1>1 DEF Abandon, TypeOK
<1>2. CASE pass # 3
  <2>1. handovers' \in SUBSET HandoverItem BY <1>2 DEF Abandon, TypeOK
  <2>2. todo' \in SUBSET Referral
    BY <1>2, <2>1, ScopesTyped, GroupsTyped DEF Abandon
  <2> QED BY <1>2, <2>1, <2>2 DEF Abandon
<1> QED BY <1>1, <1>2

-----------------------------------------------------------------------------
LEMMA InitP == Init => IInv
<1> SUFFICES ASSUME Init PROVE IInv
  OBVIOUS
<1>1. TypeOK
  <2>1. audit \in AuditType BY UnreadTyped DEF Init
  <2>2. results \in [Remedies -> {"none", "preblocked", "blocked", "duplicate",
                                 "would", "succeeded", "failed", "unknown"}]
    BY DEF Init
  <2>3. pass \in 1..3 /\ todo = {} BY DEF Init
  <2> QED BY <2>1, <2>2, <2>3 DEF Init, TypeOK, AuditType
<1>2. Budget BY OrdinaryType DEF Init, Budget
<1>3. Placed /\ LogOK /\ ReportOK BY DEF Init, Placed, LogOK, ReportOK, Unread
<1>4. Referred /\ ResultsOK /\ Reported BY DEF Init, Referred, ResultsOK, Reported
<1> QED BY <1>1, <1>2, <1>3, <1>4 DEF IInv

\* A new case starts from nothing.
LEMMA NewCaseKeeps ==
  ASSUME IInv, NewCase, pc' = "idle", pass' = 1, dry' = FALSE, handovers' = {},
         todo' = {}, UNCHANGED <<durableVars, runs>>
  PROVE  IInv'
<1> USE DEF NewCase, durableVars, IInv
<1>1. TypeOK'
  <2>1. audit' \in AuditType BY UnreadTyped
  <2>2. results' \in [Remedies -> {"none", "preblocked", "blocked", "duplicate",
                                  "would", "succeeded", "failed", "unknown"}]
    OBVIOUS
  <2>3. pass' \in 1..3 /\ todo' = {} OBVIOUS
  <2> QED BY <2>1, <2>2, <2>3 DEF TypeOK, AuditType
<1>2. Budget' BY OrdinaryType DEF Budget
<1>3. Placed' /\ LogOK' /\ ReportOK' BY DEF Placed, LogOK, ReportOK, Unread
<1>4. Referred' /\ ResultsOK' /\ Reported'
  BY DEF Referred, ResultsOK, Reported
<1> QED BY <1>1, <1>2, <1>3, <1>4

\* A step that leaves the passes alone.
LEMMA Aside ==
  ASSUME IInv,
         UNCHANGED <<pass, handovers, facts, confirmed, dry, todo, receipts, open,
                     results, performed>>
  PROVE  Referred' /\ ResultsOK' /\ Reported' /\ ReportOK'
<1>1. Groups(handovers, CaseScope)' = Groups(handovers, CaseScope)
  BY DEF CaseScope, RecoveryScope
<1>2. FromExecution' = FromExecution BY DEF FromExecution, Having, Item
<1> QED BY <1>1, <1>2 DEF IInv, Referred, Raised, ResultsOK, Reported, ReportOK, Undone
-----------------------------------------------------------------------------
(* Before the plan, and the exceptions                                     *)

LEMMA StartCaseStep ==
  ASSUME IInv, NEW d \in BOOLEAN, StartCase(d)
  PROVE  IInv'
<1> USE DEF IInv, StartCase, budgetVars, caseVars, durableVars, reportVars
<1>1. TypeOK' BY DEF TypeOK
<1>2. Budget' BY DEF Budget
<1>3. Placed' /\ LogOK' BY DEF Placed, LogOK
<1>4. Referred' /\ Reported' BY DEF Placed, Referred, Reported
<1>5. ResultsOK' /\ ReportOK'
  BY DEF Placed, ResultsOK, ReportOK
<1> QED BY <1>1, <1>2, <1>3, <1>4, <1>5

LEMMA DeadlinePassesStep ==
  ASSUME IInv, DeadlinePasses
  PROVE  IInv'
<1> USE DEF IInv, DeadlinePasses, budgetVars, caseVars, durableVars, reportVars
<1>1. TypeOK' BY DEF TypeOK
<1>2. Budget' BY DEF Budget
<1>3. Placed' /\ LogOK' BY DEF Placed, LogOK
<1>4. Referred' /\ ResultsOK' /\ Reported' /\ ReportOK' BY Aside
<1> QED BY <1>1, <1>2, <1>3, <1>4

\* What an exception leaves behind, and what was spent when it was raised.
LEMMA AbandonStep ==
  ASSUME IInv, NEW item \in HandoverItem, Abandon(item),
         used' \in Nat, drawn' = drawn, used' <= Ordinary + drawn,
         UNCHANGED <<late, reads, caseVars, current, audit, reportVars,
                     durableVars, refused, runs>>
  PROVE  IInv'
<1> USE DEF IInv, budgetVars, caseVars, durableVars, reportVars
<1>0. /\ pass' = 3 /\ pc' \in {"next", "record"}
      /\ pc' = "record" => todo' = {}
      /\ handovers' \subseteq HandoverItem /\ todo' \subseteq Referral
  BY AbandonKeeps
<1>1. TypeOK' BY <1>0 DEF TypeOK
<1>2. Budget' BY <1>0 DEF Budget
<1>3. Placed' /\ LogOK' BY <1>0 DEF Placed, LogOK
<1>4. ReportOK' BY <1>0 DEF ReportOK
<1>5. Referred' /\ ResultsOK' /\ Reported'
  BY <1>0 DEF Referred, ResultsOK, Reported
<1> QED BY <1>1, <1>2, <1>3, <1>4, <1>5

LEMMA InterruptStep ==
  ASSUME IInv, Interrupt
  PROVE  IInv'
BY ItemsTyped, AbandonStep DEF Interrupt, IInv, TypeOK, Budget, budgetVars

LEMMA DateUnknownStep ==
  ASSUME IInv, DateUnknown
  PROVE  IInv'
BY ItemsTyped, AbandonStep DEF DateUnknown, IInv, TypeOK, Budget, budgetVars

LEMMA ReadRaisesStep ==
  ASSUME IInv, NEW result, ReadRaises(result)
  PROVE  IInv'
BY ItemsTyped, AbandonStep, ReadKeeps DEF ReadRaises, IInv

LEMMA CaseEnds ==
  ASSUME IInv, Killed \/ CaseRecorded
  PROVE  IInv'
BY NewCaseKeeps DEF Killed, CaseRecorded, durableVars

LEMMA IdentityReadStep ==
  ASSUME IInv, NEW result, IdentityRead(result)
  PROVE  IInv'
<1> USE DEF IInv, IdentityRead, budgetVars, caseVars, durableVars, reportVars
<1>0. /\ confirmed' \in BOOLEAN
      /\ pc' \in {"identity", "facts"} /\ reads' \in {0, reads + 1}
  OBVIOUS
<1>1. TypeOK' BY <1>0, ReadKeeps DEF TypeOK
<1>2. Budget' BY ReadKeeps DEF Budget
<1>3. Placed' /\ LogOK' BY DEF Placed, LogOK
<1>4. Referred' /\ ResultsOK' /\ Reported' /\ ReportOK'
  BY DEF Placed, Referred, ResultsOK, Reported, ReportOK
<1> QED BY <1>1, <1>2, <1>3, <1>4

LEMMA FactsReadStep ==
  ASSUME IInv, NEW result, FactsRead(result)
  PROVE  IInv'
<1> USE DEF IInv, FactsRead, budgetVars, caseVars, durableVars, reportVars
<1>1. TypeOK' BY ReadKeeps DEF TypeOK
<1>2. Budget' BY ReadKeeps DEF Budget
<1>3. Placed' /\ LogOK' BY DEF Placed, LogOK
<1>4. Referred' /\ ResultsOK' /\ Reported' /\ ReportOK' BY Aside
<1> QED BY <1>1, <1>2, <1>3, <1>4

LEMMA FactsGatheredStep ==
  ASSUME IInv, FactsGathered
  PROVE  IInv'
<1> USE DEF IInv, FactsGathered, budgetVars, caseVars, durableVars, reportVars
<1>1. TypeOK' BY DEF TypeOK
<1>2. Budget' BY DEF Budget
<1>3. Placed' /\ LogOK' BY DEF Placed, LogOK
<1>4. Referred' /\ ResultsOK' /\ Reported' /\ ReportOK'
  BY DEF Placed, Referred, ResultsOK, Reported, ReportOK
<1> QED BY <1>1, <1>2, <1>3, <1>4

LEMMA IdentityNotConfirmedStep ==
  ASSUME IInv, IdentityNotConfirmed
  PROVE  IInv'
<1> USE DEF IInv, IdentityNotConfirmed, budgetVars, caseVars, durableVars, reportVars
<1>1. TypeOK' BY ItemsTyped DEF TypeOK
<1>2. Budget' BY DEF Budget
<1>3. Placed' /\ LogOK' BY DEF Placed, LogOK
<1>4. Referred' /\ ResultsOK' /\ Reported' /\ ReportOK'
  BY DEF Placed, Referred, ResultsOK, Reported, ReportOK
<1> QED BY <1>1, <1>2, <1>3, <1>4

LEMMA PlanReadStep ==
  ASSUME IInv, NEW result, PlanRead(result)
  PROVE  IInv'
<1> USE DEF IInv, PlanRead, budgetVars, caseVars, durableVars, reportVars
<1>0. /\ used' \in Nat /\ drawn' \in Nat /\ drawn' >= drawn
      /\ used' <= Ordinary + drawn'
  <2>1. CASE Read(result) BY <2>1, ReadKeeps DEF TypeOK
  <2>2. CASE Draw BY <2>2, DrawKeeps
  <2> QED BY <2>1, <2>2
<1>1. TypeOK' BY <1>0 DEF TypeOK
<1>2. Budget' BY <1>0, AttemptsAssumption DEF TypeOK, Budget
<1>3. Placed' /\ LogOK' BY DEF Placed, LogOK
<1>4. Referred' /\ ResultsOK' /\ Reported' /\ ReportOK' BY Aside
<1> QED BY <1>1, <1>2, <1>3, <1>4

LEMMA PlannedStep ==
  ASSUME IInv, NEW p \in Plans, Planned(p)
  PROVE  IInv'
<1> USE DEF IInv, Planned, budgetVars, caseVars, durableVars, reportVars
<1>1. TypeOK' BY PlansAssumption DEF Placed, TypeOK
<1>2. Budget' BY DEF Budget
<1>3. Placed' /\ LogOK' BY DEF Placed, LogOK
<1>4. Referred' /\ ResultsOK' /\ Reported' /\ ReportOK'
  BY DEF Placed, Referred, ResultsOK, Reported, ReportOK
<1> QED BY <1>1, <1>2, <1>3, <1>4
-----------------------------------------------------------------------------
(* The remedies                                                            *)

Outcome == {"blocked", "duplicate", "would", "succeeded", "failed", "unknown"}

RowType == [of : Referral, state : {"attempted", "succeeded"}]

\* Attempts spent by whatever way.
Spent == /\ used' \in Nat /\ drawn' \in Nat /\ drawn' >= drawn
         /\ used' <= Ordinary + drawn'

AuditRead == audit' \in AuditType /\ audit'.keys \subseteq KeysOf(open)

LEMMA NothingSpent == IInv /\ UNCHANGED budgetVars => Spent
BY DEF IInv, TypeOK, Budget, Spent, budgetVars

LEMMA NothingRead == IInv /\ UNCHANGED audit => AuditRead
BY DEF IInv, TypeOK, LogOK, AuditRead, AuditType

\* A remedy that is dealt with.
LEMMA RemedyReported ==
  ASSUME IInv, pass = 1, current \in todo, NEW x \in Outcome, ReportRemedy(x),
         x \in {"succeeded", "duplicate"} => current \in performed,
         x = "would" => dry,
         Spent, AuditRead, held' \in BOOLEAN, unsettled' \subseteq Remedies,
         UNCHANGED <<open, performed, rows, refused>>
  PROVE  IInv'
<1> USE DEF IInv, ReportRemedy, Settled, caseVars
<1>1. current \in Remedies BY DEF TypeOK
<1>2. TypeOK'
  <2>1. results' \in [Remedies -> {"none", "preblocked", "blocked", "duplicate",
                                  "would", "succeeded", "failed", "unknown"}]
    BY DEF TypeOK, Outcome
  <2>2. audit' \in [known : BOOLEAN, keys : SUBSET (Queue \X Scope)]
    BY DEF AuditRead, AuditType
  <2> QED BY <2>1, <2>2 DEF TypeOK, Spent
<1>3. Budget' BY AttemptsAssumption DEF Budget, Spent, TypeOK
<1>4. Placed' /\ LogOK' BY DEF Placed, LogOK, AuditRead, KeysOf
<1>5. ReportOK' /\ Referred' /\ Reported' BY DEF ReportOK, Referred, Reported
<1>6. ResultsOK'
  <2> SUFFICES ASSUME NEW r \in Remedies
               PROVE  /\ results'[r] \in {"succeeded", "duplicate"} => r \in performed
                      /\ results'[r] = "would" => dry
    BY DEF ResultsOK
  <2>1. results'[r] = IF r = current THEN x ELSE results[r] BY DEF TypeOK
  <2> QED BY <2>1 DEF ResultsOK
<1> QED BY <1>2, <1>3, <1>4, <1>5, <1>6

\* The outcomes that depend on what was read before the write.
LEMMA RemedySkippedStep ==
  ASSUME IInv, RemedySkipped
  PROVE  IInv'
<1> USE DEF RemedySkipped, durableVars
<1>1. Spent /\ AuditRead BY NothingSpent, NothingRead
<1>2. /\ pass = 1 /\ current \in todo
      /\ held' \in BOOLEAN /\ unsettled' \subseteq Remedies
  BY DEF IInv, Placed, TypeOK
<1>3. CASE current \in performed /\ ReportRemedy("duplicate")
  BY <1>1, <1>2, <1>3, RemedyReported DEF Outcome
<1>4. CASE ReportRemedy("blocked")
  BY <1>1, <1>2, <1>4, RemedyReported DEF Outcome
<1> QED BY <1>3, <1>4

LEMMA RefreshFailsStep ==
  ASSUME IInv, NEW result, RefreshFails(result)
  PROVE  IInv'
<1> USE DEF RefreshFails, durableVars
<1>1. Spent BY ReadKeeps DEF IInv, TypeOK, Spent
<1>2. /\ pass = 1 /\ current \in todo
      /\ held' \in BOOLEAN /\ unsettled' \subseteq Remedies
  BY DEF IInv, Placed, TypeOK
<1> QED BY <1>1, <1>2, NothingRead, RemedyReported DEF Outcome

LEMMA RemedyWouldExecuteStep ==
  ASSUME IInv, RemedyWouldExecute
  PROVE  IInv'
<1> USE DEF RemedyWouldExecute, durableVars
<1>1. /\ pass = 1 /\ current \in todo
      /\ held' \in BOOLEAN /\ unsettled' \subseteq Remedies
  BY DEF IInv, Placed, TypeOK
<1> QED BY <1>1, NothingSpent, NothingRead, RemedyReported DEF Outcome

LEMMA RemedyNotSentStep ==
  ASSUME IInv, RemedyNotSent
  PROVE  IInv'
<1> USE DEF RemedyNotSent, durableVars
<1>1. Spent BY OrdinaryType DEF IInv, TypeOK, Budget, Spent
<1>2. /\ pass = 1 /\ current \in todo
      /\ held' \in BOOLEAN /\ unsettled' \subseteq Remedies
  BY DEF IInv, Placed, TypeOK
<1> QED BY <1>1, <1>2, NothingRead, RemedyReported DEF Outcome

LEMMA RemedyAnsweredStep ==
  ASSUME IInv, RemedyAnswered
  PROVE  IInv'
<1> USE DEF RemedyAnswered
<1>1. /\ pass = 1 /\ current \in todo
      /\ held' \in BOOLEAN /\ unsettled' \subseteq Remedies
  BY DEF IInv, Placed, TypeOK
<1>2. Spent /\ AuditRead BY NothingSpent, NothingRead
<1>3. CASE current \in performed
  BY <1>1, <1>2, <1>3, RemedyReported DEF Outcome
<1>4. CASE current \notin performed
  BY <1>1, <1>2, <1>4, RemedyReported DEF Outcome
<1> QED BY <1>3, <1>4

LEMMA RemedyReconciledStep ==
  ASSUME IInv, RemedyReconciled
  PROVE  IInv'
<1> USE DEF RemedyReconciled
<1>1. /\ pass = 1 /\ current \in todo
      /\ held' \in BOOLEAN /\ unsettled' \subseteq Remedies
  BY DEF IInv, Placed, TypeOK
<1>2. Spent /\ AuditRead BY ReadLogKeeps DEF IInv, Spent, AuditRead
<1>3. CASE current \in performed /\ ReportRemedy("succeeded")
  BY <1>1, <1>2, <1>3, RemedyReported DEF Outcome
<1>4. CASE ReportRemedy("unknown")
  BY <1>1, <1>2, <1>4, RemedyReported DEF Outcome
<1> QED BY <1>3, <1>4

LEMMA ConsultStep ==
  ASSUME IInv, NEW x \in todo, Consult(x)
  PROVE  IInv'
<1> USE DEF IInv, Consult, budgetVars, caseVars, durableVars, reportVars
<1>0. Spent /\ AuditRead
  <2>1. CASE UNCHANGED <<budgetVars, audit>>
    BY <2>1, NothingSpent, NothingRead
  <2>2. CASE ReadLog BY <2>2, ReadLogKeeps DEF Spent, AuditRead
  <2> QED BY <2>1, <2>2
<1>1. TypeOK' BY <1>0 DEF TypeOK, Spent, AuditRead, AuditType
<1>2. Budget' BY <1>0, AttemptsAssumption DEF Budget, Spent, TypeOK
<1>3. Placed' /\ LogOK' BY <1>0 DEF Placed, LogOK, AuditRead, KeysOf
<1>4. Referred' /\ ResultsOK' /\ Reported' /\ ReportOK' BY Aside
<1> QED BY <1>1, <1>2, <1>3, <1>4

LEMMA RemedyProceedsStep ==
  ASSUME IInv, RemedyProceeds
  PROVE  IInv'
<1> USE DEF IInv, RemedyProceeds, budgetVars, caseVars, durableVars, reportVars
<1>1. TypeOK' BY DEF TypeOK
<1>2. Budget' BY DEF Budget
<1>3. Placed' /\ LogOK' BY DEF Placed, LogOK, KeysOf
<1>4. Referred' /\ ResultsOK' /\ Reported' /\ ReportOK' BY Aside
<1> QED BY <1>1, <1>2, <1>3, <1>4

LEMMA RefreshedStep ==
  ASSUME IInv, Refreshed
  PROVE  IInv'
<1> USE DEF IInv, Refreshed, budgetVars, caseVars, durableVars, reportVars
<1>1. TypeOK' BY ReadKeeps DEF TypeOK
<1>2. Budget' BY ReadKeeps DEF Budget
<1>3. Placed' /\ LogOK' BY DEF Placed, LogOK, KeysOf
<1>4. Referred' /\ ResultsOK' /\ Reported' /\ ReportOK' BY Aside
<1> QED BY <1>1, <1>2, <1>3, <1>4

LEMMA SendRemedyStep ==
  ASSUME IInv, SendRemedy
  PROVE  IInv'
<1> USE DEF IInv, SendRemedy, budgetVars, caseVars, durableVars, reportVars
<1>0. pass = 1 /\ current \in Remedies BY DEF Placed, TypeOK
<1>1. TypeOK' BY <1>0 DEF TypeOK
<1>2. Budget' BY OrdinaryType DEF Budget, TypeOK
<1>3. Placed' /\ LogOK' BY DEF Placed, LogOK, KeysOf
<1>4. ReportOK' /\ Referred' /\ Reported'
  BY <1>0 DEF ReportOK, Referred, Reported
<1>5. ResultsOK' BY DEF ResultsOK
<1> QED BY <1>1, <1>2, <1>3, <1>4, <1>5

-----------------------------------------------------------------------------
(* The referrals                                                           *)

Receipt == Outcome \cup {"unnamed"}

\* A referral that is dealt with.
LEMMA ReferralReported ==
  ASSUME IInv, pass # 1, current \in todo, NEW x \in Receipt, ReportReferral(x),
         x \in {"succeeded", "unnamed", "duplicate"} => Raised(current),
         x = "would" => dry,
         Spent, AuditRead, held' \in BOOLEAN, rows' \subseteq RowType,
         refused' \in BOOLEAN, refused' => drawn' >= Reserved,
         UNCHANGED <<open, performed, unsettled>>
  PROVE  IInv'
<1> USE DEF IInv, ReportReferral, Settled, caseVars
<1>1. TypeOK'
  <2>1. receipts' \subseteq Receipt BY DEF TypeOK, Receipt, Outcome
  <2>2. audit' \in [known : BOOLEAN, keys : SUBSET (Queue \X Scope)]
    BY DEF AuditRead, AuditType
  <2> QED BY <2>1, <2>2 DEF TypeOK, Spent, Receipt, Outcome, RowType
<1>2. Budget' BY DEF Budget, Spent
<1>3. Placed' /\ LogOK' BY DEF Placed, LogOK, AuditRead, KeysOf
<1>4. ReportOK' BY DEF ReportOK, Raised
<1>5. Referred'
  <2> SUFFICES ASSUME pass = 2, ~dry, receipts' \cap Undone = {},
                      NEW g \in Groups(handovers, CaseScope)
               PROVE  g \in todo' \/ Raised(g)
    BY DEF Referred, Raised, CaseScope, RecoveryScope, Undone
  <2>1. g \in todo \/ Raised(g) BY DEF Referred
  <2>2. Raised(current) BY DEF Undone, Receipt, Outcome
  <2> QED BY <2>1, <2>2
<1>6. ResultsOK' /\ Reported'
  BY DEF ResultsOK, Reported, FromExecution, Having, Item
<1> QED BY <1>1, <1>2, <1>3, <1>4, <1>5, <1>6

\* What every referral step leaves as it was, or has already established.
LEMMA AtReferral ==
  ASSUME IInv, pc \in {"decide", "sent"}, pass # 1
  PROVE  /\ current \in todo /\ current \in Referral /\ held \in BOOLEAN
         /\ rows \subseteq RowType /\ refused \in BOOLEAN
         /\ refused => drawn >= Reserved
BY DEF IInv, TypeOK, Placed, Budget, RowType

LEMMA ReferralOpenAlreadyStep ==
  ASSUME IInv, ReferralOpenAlready
  PROVE  IInv'
<1> USE DEF ReferralOpenAlready, durableVars
<1>1. Spent /\ AuditRead /\ drawn' = drawn
  BY NothingSpent, NothingRead DEF budgetVars
<1>2. Raised(current) BY DEF IInv, LogOK, KeysOf, Raised
<1> QED BY <1>1, <1>2, AtReferral, ReferralReported DEF Receipt, Outcome

LEMMA ReferralBlockedStep ==
  ASSUME IInv, ReferralBlocked
  PROVE  IInv'
<1> USE DEF ReferralBlocked, durableVars
<1>1. Spent /\ AuditRead /\ drawn' = drawn
  BY NothingSpent, NothingRead DEF budgetVars
<1> QED BY <1>1, AtReferral, ReferralReported DEF Receipt, Outcome

LEMMA ReferralWouldExecuteStep ==
  ASSUME IInv, ReferralWouldExecute
  PROVE  IInv'
<1> USE DEF ReferralWouldExecute, durableVars
<1>1. Spent /\ AuditRead /\ drawn' = drawn
  BY NothingSpent, NothingRead DEF budgetVars
<1> QED BY <1>1, AtReferral, ReferralReported DEF Receipt, Outcome, MayRefer

LEMMA ReferralNotSentStep ==
  ASSUME IInv, ReferralNotSent
  PROVE  IInv'
<1> USE DEF ReferralNotSent, durableVars
<1>1. Spent /\ AuditRead /\ drawn' = drawn
  BY NothingSpent, NothingRead DEF budgetVars
<1>2. drawn >= Reserved
  BY OrdinaryType, AttemptsAssumption DEF IInv, Budget, TypeOK
<1> QED BY <1>1, <1>2, AtReferral, ReferralReported DEF Receipt, Outcome, MayRefer

LEMMA SendReferralStep ==
  ASSUME IInv, SendReferral
  PROVE  IInv'
<1> USE DEF IInv, SendReferral, MayRefer, budgetVars, caseVars, durableVars, reportVars
<1>0. /\ current \in Referral
      /\ used' \in Nat /\ drawn' \in Nat /\ drawn' >= drawn
      /\ used' <= Ordinary + drawn'
  BY AtReferral, DrawKeeps
<1>1. TypeOK'
  <2>1. rows' \subseteq RowType BY <1>0 DEF TypeOK, RowType, Row
  <2> QED BY <1>0, <2>1 DEF TypeOK, RowType
<1>2. Budget' BY <1>0, AttemptsAssumption DEF Budget, TypeOK
<1>3. open \subseteq open' OBVIOUS
<1>4. Placed' /\ LogOK' BY <1>3 DEF Placed, LogOK, KeysOf
<1>5. ReportOK' BY <1>3 DEF ReportOK
<1>6. Groups(handovers, CaseScope)' = Groups(handovers, CaseScope)
  BY DEF CaseScope, RecoveryScope
<1>7. Referred' BY <1>3, <1>6 DEF Referred, Raised, Undone
<1>8. ResultsOK' /\ Reported'
  BY DEF ResultsOK, Reported, FromExecution, Having, Item
<1> QED BY <1>1, <1>2, <1>4, <1>5, <1>7, <1>8

\* The row of a referral that succeeded.
LEMMA RowsSettled ==
  ASSUME NEW R \in SUBSET RowType, NEW g \in Referral
  PROVE  (R \ RowsOf(g)) \cup {Row(g, "succeeded")} \in SUBSET RowType
BY DEF RowType, Row

LEMMA ReferralAnsweredStep ==
  ASSUME IInv, ReferralAnswered
  PROVE  IInv'
<1> USE DEF ReferralAnswered
<1>1. Spent /\ AuditRead /\ drawn' = drawn
  BY NothingSpent, NothingRead DEF budgetVars
<1>2. rows' \subseteq RowType BY AtReferral, RowsSettled
<1>3. CASE current \in open
  <2>1. Raised(current) BY <1>3 DEF Raised
  <2>2. PICK x \in {"succeeded", "unnamed"} : ReportReferral(x) BY <1>3
  <2> QED BY <1>1, <1>2, <1>3, <2>1, <2>2, AtReferral, ReferralReported DEF Receipt, Outcome
<1>4. CASE current \notin open
  BY <1>1, <1>2, <1>4, AtReferral, ReferralReported DEF Receipt, Outcome
<1> QED BY <1>3, <1>4

LEMMA ReferralReconciledStep ==
  ASSUME IInv, ReferralReconciled
  PROVE  IInv'
<1> USE DEF ReferralReconciled
<1>1. Spent /\ AuditRead BY ReadLogKeeps DEF IInv, Spent, AuditRead
<1>2. refused => drawn' >= Reserved
  BY <1>1, AtReferral, AttemptsAssumption DEF Spent, IInv, TypeOK
<1>3. rows' \subseteq RowType BY AtReferral, RowsSettled
<1>4. CASE audit'.known /\ <<current.queue, current.scope>> \in audit'.keys
  <2>1. Raised(current) BY <1>1, <1>4 DEF AuditRead, KeysOf, Raised
  <2>2. ReportReferral("succeeded") /\ UNCHANGED held BY <1>4
  <2> QED BY <1>1, <1>2, <1>3, <2>1, <2>2, AtReferral, ReferralReported DEF Receipt, Outcome
<1>5. CASE ~(audit'.known /\ <<current.queue, current.scope>> \in audit'.keys)
  <2>1. ReportReferral("unknown") /\ held' = TRUE BY <1>5
  <2> QED BY <1>1, <1>2, <1>3, <2>1, AtReferral, ReferralReported DEF Receipt, Outcome
<1> QED BY <1>4, <1>5

-----------------------------------------------------------------------------
(* The ends                                                                *)

LEMMA ReadbackKeeps ==
  ASSUME IInv, Readback
  PROVE  Spent /\ AuditRead
<1>1. CASE ReadLog BY <1>1, ReadLogKeeps DEF IInv, Spent, AuditRead
<1>2. CASE UNCHANGED <<budgetVars, audit>> BY <1>2, NothingSpent, NothingRead
<1> QED BY <1>1, <1>2 DEF Readback

LEMMA EndRemediesStep ==
  ASSUME IInv, EndRemedies
  PROVE  IInv'
<1> USE DEF IInv, EndRemedies, budgetVars, caseVars, durableVars, reportVars
<1>0. Spent /\ AuditRead BY ReadbackKeeps
<1>1. TypeOK'
  <2>1. handovers' \in SUBSET HandoverItem BY ItemsTyped DEF TypeOK
  <2>2. todo' \in SUBSET Referral BY <2>1, ScopesTyped, GroupsTyped
  <2>3. pass' = 2 /\ pass' \in 1..3 /\ pc' = pc OBVIOUS
  <2>4. audit' \in [known : BOOLEAN, keys : SUBSET (Queue \X Scope)]
    BY <1>0 DEF AuditRead, AuditType
  <2>5. UNCHANGED <<late, reads, caseVars, reportVars, durableVars, refused, runs>>
    OBVIOUS
  <2> HIDE DEF EndRemedies
  <2> QED BY <1>0, <2>1, <2>2, <2>3, <2>4, <2>5 DEF TypeOK, Spent
<1>2. Budget' BY <1>0, AttemptsAssumption DEF Budget, Spent, TypeOK
<1>3. Placed' /\ LogOK' BY <1>0 DEF Placed, LogOK, AuditRead, KeysOf
<1>4. ReportOK' BY DEF ReportOK
<1>5. CaseScope' = CaseScope BY DEF CaseScope
<1>6. Referred' BY <1>5 DEF Referred
<1>7. ResultsOK' /\ Reported'
  BY DEF ResultsOK, Reported, FromExecution, Having, Item
<1> QED BY <1>1, <1>2, <1>3, <1>4, <1>6, <1>7

LEMMA EndReferralsStep ==
  ASSUME IInv, EndReferrals
  PROVE  IInv'
<1> USE DEF IInv, EndReferrals, budgetVars, caseVars, durableVars, reportVars
<1>0. Spent /\ AuditRead BY ReadbackKeeps
<1>1. TypeOK' BY <1>0 DEF TypeOK, Spent, AuditRead, AuditType
<1>2. Budget' BY <1>0, AttemptsAssumption DEF Budget, Spent, TypeOK
<1>3. Placed' /\ LogOK' BY <1>0 DEF Placed, LogOK, AuditRead, KeysOf, TypeOK
<1>4. Referred' /\ ResultsOK' /\ Reported' /\ ReportOK' BY Aside
<1> QED BY <1>1, <1>2, <1>3, <1>4

LEMMA ReplyDraftedStep ==
  ASSUME IInv, ReplyDrafted
  PROVE  IInv'
<1> USE DEF IInv, ReplyDrafted, budgetVars, caseVars, durableVars, reportVars
<1>1. TypeOK' BY DEF TypeOK
<1>2. Budget' BY DEF Budget
<1>3. Placed' /\ LogOK' BY DEF Placed, LogOK, KeysOf
<1>4. Referred' /\ ResultsOK' /\ Reported' /\ ReportOK' BY Aside
<1> QED BY <1>1, <1>2, <1>3, <1>4

-----------------------------------------------------------------------------
(* The invariant                                                           *)

LEMMA Unchanged ==
  ASSUME IInv, UNCHANGED vars
  PROVE  IInv'
<1> USE DEF IInv, vars, caseVars, durableVars, reportVars
<1>1. TypeOK' BY DEF TypeOK
<1>2. Budget' BY DEF Budget
<1>3. Placed' /\ LogOK' BY DEF Placed, LogOK, KeysOf
<1>4. Referred' /\ ResultsOK' /\ Reported' /\ ReportOK' BY Aside
<1> QED BY <1>1, <1>2, <1>3, <1>4

LEMMA NextP == IInv /\ [Next]_vars => IInv'
<1> SUFFICES ASSUME IInv, [Next]_vars PROVE IInv'
  OBVIOUS
<1>1. CASE UNCHANGED vars BY <1>1, Unchanged
<1>2. CASE \E d \in BOOLEAN : StartCase(d) BY <1>2, StartCaseStep
<1>3. CASE DateUnknown \/ Interrupt \/ Killed \/ DeadlinePasses
  BY <1>3, DateUnknownStep, InterruptStep, CaseEnds, DeadlinePassesStep
<1>4. CASE Progress
  <2>1. CASE IdentityNotConfirmed \/ FactsGathered
    BY <2>1, IdentityNotConfirmedStep, FactsGatheredStep
  <2>2. ASSUME NEW result \in ReadResult,
               \/ IdentityRead(result) \/ ReadRaises(result) \/ FactsRead(result)
               \/ PlanRead(result) \/ RefreshFails(result)
        PROVE  IInv'
    BY <2>2, IdentityReadStep, ReadRaisesStep, FactsReadStep, PlanReadStep,
       RefreshFailsStep
  <2>3. CASE \E p \in Plans : Planned(p) BY <2>3, PlannedStep
  <2>4. CASE \E x \in todo : Consult(x) BY <2>4, ConsultStep
  <2>5. CASE \/ RemedySkipped \/ RemedyProceeds \/ Refreshed \/ RemedyWouldExecute
             \/ RemedyNotSent \/ SendRemedy \/ RemedyAnswered \/ RemedyReconciled
    BY <2>5, RemedySkippedStep, RemedyProceedsStep, RefreshedStep,
       RemedyWouldExecuteStep, RemedyNotSentStep, SendRemedyStep,
       RemedyAnsweredStep, RemedyReconciledStep
  <2>6. CASE \/ ReferralOpenAlready \/ ReferralBlocked \/ ReferralWouldExecute
             \/ ReferralNotSent \/ SendReferral \/ ReferralAnswered
             \/ ReferralReconciled
    BY <2>6, ReferralOpenAlreadyStep, ReferralBlockedStep, ReferralWouldExecuteStep,
       ReferralNotSentStep, SendReferralStep, ReferralAnsweredStep,
       ReferralReconciledStep
  <2>7. CASE EndRemedies \/ EndReferrals \/ ReplyDrafted \/ CaseRecorded
    BY <2>7, EndRemediesStep, EndReferralsStep, ReplyDraftedStep, CaseEnds
  <2> QED BY <1>4, <2>1, <2>2, <2>3, <2>4, <2>5, <2>6, <2>7 DEF Progress
<1> QED BY <1>1, <1>2, <1>3, <1>4 DEF Next

LEMMA InvariantP == Spec => []IInv
BY InitP, NextP, PTL DEF Spec

\* Every variable of the pipeline keeps its type, for any plans and limits.
THEOREM PipelineTypeCorrect == Spec => []TypeOK
<1>1. IInv => TypeOK BY DEF IInv
<1> QED BY <1>1, InvariantP, PTL

\* A referral is refused only after the reserve was drawn in full: what ordinary
\* requests spend never touches it.
THEOREM ReserveIsKept == Spec => []OrdinaryLeavesTheReserve
<1>1. IInv => OrdinaryLeavesTheReserve BY DEF IInv, Budget, OrdinaryLeavesTheReserve
<1> QED BY <1>1, InvariantP, PTL

\* A case that does not call itself failed has its referrals in the API, for any
\* number of runs over the message.
THEOREM HandoverReachesTheDeskHolds == Spec => []HandoverReachesTheDesk
<1>1. ASSUME IInv PROVE HandoverReachesTheDesk
  <2> USE <1>1 DEF IInv
  <2> SUFFICES ASSUME pc = "record", ~dry, handovers # {}, Status # "failed"
               PROVE  IF pass = 3 THEN open # {}
                      ELSE \A g \in Groups(handovers, CaseScope) : Raised(g)
    BY DEF HandoverReachesTheDesk, Raised
  <2>1. CASE pass = 3
    BY <2>1 DEF Status, RecoveryStatus, ReportOK
  <2>2. CASE pass # 3
    <3>1. pass = 2 BY <2>2 DEF Placed, TypeOK
    <3>2. receipts \cap Undone = {} BY <3>1 DEF Status, DetermineStatus
    <3> QED BY <3>1, <3>2 DEF Referred, Placed
  <2> QED BY <2>1, <2>2
<1> QED BY <1>1, InvariantP, PTL

\* A case that asks nobody to act left nothing behind.
THEOREM QuietEndMeansSettledHolds == Spec => []QuietEndMeansSettled
<1>1. ASSUME IInv PROVE QuietEndMeansSettled
  <2> USE <1>1 DEF IInv
  <2> SUFFICES ASSUME pc = "record", ~dry, Status \in {"resolved", "needs_clarification"}
               PROVE  /\ \A r \in Remedies :
                           results[r] \in {"none", "preblocked"} \/ r \in performed
                      /\ Status = "resolved" => Having("preblocked") = {}
    BY DEF QuietEndMeansSettled
  <2>1. pass = 2
    <3>1. RecoveryStatus \notin {"resolved", "needs_clarification"}
      BY DEF RecoveryStatus
    <3> QED BY <3>1 DEF Status, Placed, TypeOK
  <2>2. /\ Status = DetermineStatus
        /\ DetermineStatus \in {"resolved", "needs_clarification"}
    BY <2>1 DEF Status
  <2>3. ForPassenger = {} BY <2>2 DEF DetermineStatus
  <2>4. \A result \in {"blocked", "unknown", "failed"} : Having(result) = {}
    <3>1. FromExecution \subseteq handovers BY <2>1 DEF Reported
    <3>2. \A it \in FromExecution : ~it.internal BY DEF FromExecution, Item
    <3>3. FromExecution = {} BY <2>3, <3>1, <3>2 DEF ForPassenger
    <3> QED BY <3>3 DEF FromExecution
  <2>5. ASSUME NEW r \in Remedies
        PROVE  results[r] \in {"none", "preblocked"} \/ r \in performed
    <3>1. results[r] \notin {"blocked", "unknown", "failed"} BY <2>4 DEF Having
    <3> QED BY <3>1 DEF TypeOK, ResultsOK
  <2>6. Status = "resolved" => Having("preblocked") = {}
    <3>1. DetermineStatus = "resolved" => Outstanding = {}
      BY <2>3, TypeOK DEF DetermineStatus, TypeOK
    <3> QED BY <2>2, <3>1 DEF Outstanding, Having
  <2> QED BY <2>5, <2>6
<1> QED BY <1>1, InvariantP, PTL

-----------------------------------------------------------------------------
(* Routing                                                                 *)

Others(Q)  == Q \ {"SUPERVISOR"}
Pred(Q, q) == {p \in Others(Q) : Before(p, q)}
Routes(H)  == {Route(H, it) : it \in H}

\* Before orders the queues.
LEMMA BeforeOrder ==
  ASSUME NEW p \in Queue, NEW q \in Queue, NEW r \in Queue
  PROVE  /\ ~Before(p, p)
         /\ Before(p, q) /\ Before(q, r) => Before(p, r)
         /\ p # q => Before(p, q) \/ Before(q, p)
BY QueuesAssumption DEF Before

LEMMA PredFinite ==
  ASSUME NEW Q \in SUBSET Queue, NEW q
  PROVE  IsFiniteSet(Pred(Q, q)) /\ Cardinality(Pred(Q, q)) \in Nat
<1>1. Pred(Q, q) \in SUBSET Queue BY DEF Pred, Others
<1> QED BY <1>1, QueuesAssumption, FS_Subset, FS_CardinalityType

\* An earlier queue has fewer before it.
LEMMA PredGrows ==
  ASSUME NEW Q \in SUBSET Queue, NEW p \in Others(Q), NEW q \in Others(Q), Before(p, q)
  PROVE  Cardinality(Pred(Q, p)) < Cardinality(Pred(Q, q))
<1>1. p \in Queue /\ q \in Queue BY DEF Others
<1>2. Pred(Q, p) \subseteq Pred(Q, q)
  BY <1>1, BeforeOrder DEF Pred, Others
<1>3. p \in Pred(Q, q) /\ p \notin Pred(Q, p) BY <1>1, BeforeOrder DEF Pred
<1>4. Pred(Q, p) \in SUBSET Pred(Q, q) /\ Pred(Q, p) # Pred(Q, q) BY <1>2, <1>3
<1>5. /\ Cardinality(Pred(Q, p)) <= Cardinality(Pred(Q, q))
      /\ Cardinality(Pred(Q, p)) # Cardinality(Pred(Q, q))
  BY <1>4, PredFinite, FS_Subset
<1> QED BY <1>5, PredFinite

\* Of too many queues, at most MaxEscalations - 1 keep a referral of their own.
LEMMA KeepBound ==
  ASSUME NEW Q \in SUBSET Queue, Cardinality(Q) > MaxEscalations
  PROVE  IsFiniteSet(Keep(Q)) /\ Cardinality(Keep(Q)) <= MaxEscalations - 1
<1> DEFINE K == {q \in Others(Q) : Cardinality(Pred(Q, q)) < MaxEscalations - 1}
           f == [q \in K |-> Cardinality(Pred(Q, q))]
           T == 0 .. (MaxEscalations - 2)
<1>1. Keep(Q) = K
  <2>1. IsFiniteSet(Q) /\ Cardinality(Q) \in Nat
    BY QueuesAssumption, FS_Subset, FS_CardinalityType
  <2>2. ~(Cardinality(Q) <= MaxEscalations) BY <2>1, AttemptsAssumption
  <2> QED BY <2>2 DEF Keep, Pred, Others
<1>2. f \in [K -> T]
  <2> SUFFICES ASSUME NEW q \in K PROVE Cardinality(Pred(Q, q)) \in T
    OBVIOUS
  <2> QED BY PredFinite, AttemptsAssumption
<1>3. \A p, q \in K : f[p] = f[q] => p = q
  <2> SUFFICES ASSUME NEW p \in K, NEW q \in K, p # q PROVE f[p] # f[q]
    OBVIOUS
  <2>1. p \in Queue /\ q \in Queue BY DEF Others
  <2>2. Before(p, q) \/ Before(q, p) BY <2>1, BeforeOrder
  <2>3. \/ Cardinality(Pred(Q, p)) < Cardinality(Pred(Q, q))
        \/ Cardinality(Pred(Q, q)) < Cardinality(Pred(Q, p))
    BY <2>2, PredGrows
  <2> QED BY <2>3, PredFinite
<1>4. f \in Injection(K, T)
  BY <1>2, <1>3 DEF Injection, IsInjective
<1>5. IsFiniteSet(T) /\ Cardinality(T) = MaxEscalations - 1
  BY AttemptsAssumption, FS_Interval
<1> HIDE DEF K, f, T
<1> QED BY <1>1, <1>4, <1>5, FS_Injection

\* There are at most MaxEscalations routes.
LEMMA RoutesBound ==
  ASSUME NEW H \in SUBSET HandoverItem
  PROVE  IsFiniteSet(Routes(H)) /\ Cardinality(Routes(H)) <= MaxEscalations
<1> DEFINE Q == QueuesOf(H)
<1>1. Q \in SUBSET Queue BY DEF QueuesOf, HandoverItem
<1>2. IsFiniteSet(Q) /\ Cardinality(Q) \in Nat
  BY <1>1, QueuesAssumption, FS_Subset, FS_CardinalityType
<1>3. CASE Cardinality(Q) <= MaxEscalations
  <2>1. Routes(H) \in SUBSET Q BY <1>3 DEF Routes, Route, Keep, QueuesOf
  <2>2. IsFiniteSet(Routes(H)) /\ Cardinality(Routes(H)) <= Cardinality(Q)
    BY <2>1, <1>2, FS_Subset
  <2>3. Cardinality(Routes(H)) \in Nat BY <2>2, FS_CardinalityType
  <2> QED BY <1>2, <1>3, <2>2, <2>3, AttemptsAssumption
<1>4. CASE Cardinality(Q) > MaxEscalations
  <2> DEFINE S == Keep(Q) \cup {"SUPERVISOR"}
  <2>1. Routes(H) \in SUBSET S BY DEF Routes, Route
  <2>2. IsFiniteSet(Keep(Q)) /\ Cardinality(Keep(Q)) <= MaxEscalations - 1
    BY <1>1, <1>4, KeepBound
  <2>3. Cardinality(Keep(Q)) \in Nat BY <2>2, FS_CardinalityType
  <2>4. IsFiniteSet(S) /\ Cardinality(S) <= MaxEscalations
    BY <2>2, <2>3, AttemptsAssumption, FS_AddElement
  <2>5. IsFiniteSet(Routes(H)) /\ Cardinality(Routes(H)) <= Cardinality(S)
    BY <2>1, <2>4, FS_Subset
  <2>6. Cardinality(Routes(H)) \in Nat /\ Cardinality(S) \in Nat
    BY <2>4, <2>5, FS_CardinalityType
  <2> QED BY <2>4, <2>5, <2>6, AttemptsAssumption
<1> QED BY <1>2, <1>3, <1>4, AttemptsAssumption

\* The referral of queue q, and that the referrals are those of the routes.
GroupOf(H, s, q) ==
  [queue |-> q, scope |-> s,
   clauses |-> {it.clause : it \in {i \in H : Route(H, i) = q}}]

LEMMA GroupsAreRoutes ==
  ASSUME NEW H, NEW s
  PROVE  /\ \A g \in Groups(H, s) :
              g.queue \in Routes(H) /\ g = GroupOf(H, s, g.queue)
         /\ \A q \in Routes(H) : GroupOf(H, s, q) \in Groups(H, s)
<1>1. Groups(H, s) = {GroupOf(H, s, q) : q \in Routes(H)}
  BY DEF Groups, GroupOf, Routes
<1>2. \A q : GroupOf(H, s, q).queue = q BY DEF GroupOf
<1> QED BY <1>1, <1>2

\* So are there referrals: a queue has one.
LEMMA GroupsBound ==
  ASSUME NEW H \in SUBSET HandoverItem, NEW s
  PROVE  IsFiniteSet(Groups(H, s)) /\ Cardinality(Groups(H, s)) <= MaxEscalations
<1> DEFINE G == Groups(H, s)
           f == [g \in G |-> g.queue]
<1>1. f \in [G -> Routes(H)] BY GroupsAreRoutes
<1>2. \A g, h \in G : f[g] = f[h] => g = h
  <2> SUFFICES ASSUME NEW g \in G, NEW h \in G, g.queue = h.queue
               PROVE  g = h
    OBVIOUS
  <2> QED BY GroupsAreRoutes
<1>3. f \in Injection(G, Routes(H))
  BY <1>1, <1>2 DEF Injection, IsInjective
<1>4. IsFiniteSet(Routes(H)) /\ Cardinality(Routes(H)) <= MaxEscalations
  BY RoutesBound
<1> HIDE DEF f, G
<1>5. IsFiniteSet(G) /\ Cardinality(G) <= Cardinality(Routes(H))
  BY <1>3, <1>4, FS_Injection
<1>6. Cardinality(G) \in Nat /\ Cardinality(Routes(H)) \in Nat
  BY <1>4, <1>5, FS_CardinalityType
<1> QED BY <1>4, <1>5, <1>6, AttemptsAssumption DEF G

\* An urgent queue keeps its referral if the urgent ones alone do.
LEMMA UrgentKept ==
  ASSUME NEW Q \in SUBSET Queue, Cardinality(Q \cap Urgent) < MaxEscalations,
         NEW q \in Q \cap Urgent
  PROVE  q \in Keep(Q)
<1> DEFINE U == Q \cap Urgent
<1>1. IsFiniteSet(U) /\ Cardinality(U) \in Nat
  <2>1. U \in SUBSET Queue OBVIOUS
  <2> QED BY <2>1, QueuesAssumption, FS_Subset, FS_CardinalityType
<1>2. q \in Queue /\ q \in Others(Q) /\ q \in U BY DEF Others, Urgent
<1>3. Pred(Q, q) \in SUBSET (U \ {q})
  <2> SUFFICES ASSUME NEW p \in Pred(Q, q) PROVE p \in U \ {q}
    OBVIOUS
  <2>1. p \in Q /\ p \in Queue /\ Before(p, q) BY DEF Pred, Others
  <2>2. p # q BY <2>1, <1>2, BeforeOrder
  <2>3. p \in Urgent BY <2>1 DEF Before
  <2> QED BY <2>1, <2>2, <2>3
<1>4. IsFiniteSet(U \ {q}) /\ Cardinality(U \ {q}) = Cardinality(U) - 1
  BY <1>1, <1>2, FS_RemoveElement
<1>5. Cardinality(Pred(Q, q)) <= Cardinality(U \ {q})
  BY <1>3, <1>4, FS_Subset
<1>6. Cardinality(Pred(Q, q)) < MaxEscalations - 1
  BY <1>1, <1>4, <1>5, PredFinite, AttemptsAssumption
<1> QED BY <1>2, <1>6 DEF Keep, Pred, Others

\* Routing loses nothing, keeps the limit and does not push out an urgent queue.
THEOREM EveryItemIsRoutedHolds == Spec => []EveryItemIsRouted
<1>1. ASSUME IInv PROVE EveryItemIsRouted
  <2> DEFINE groups == Groups(handovers, CaseScope)
             urgent == QueuesOf(handovers) \cap Urgent
  <2>1. handovers \in SUBSET HandoverItem BY <1>1 DEF IInv, TypeOK
  <2>2. Cardinality(groups) <= MaxEscalations BY <2>1, GroupsBound
  <2>3. ASSUME NEW it \in handovers
        PROVE  \E g \in groups : it.clause \in g.clauses
    <3> DEFINE g == GroupOf(handovers, CaseScope, Route(handovers, it))
    <3>1. Route(handovers, it) \in Routes(handovers) BY DEF Routes
    <3>2. g \in groups BY <3>1, GroupsAreRoutes
    <3>3. it.clause \in g.clauses BY DEF GroupOf
    <3> QED BY <3>2, <3>3
  <2>4. ASSUME Cardinality(urgent) < MaxEscalations, NEW q \in urgent
        PROVE  \E g \in groups : g.queue = q
    <3>1. QueuesOf(handovers) \in SUBSET Queue
      BY <2>1 DEF QueuesOf, HandoverItem
    <3>2. q \in Keep(QueuesOf(handovers)) BY <2>4, <3>1, UrgentKept
    <3>3. PICK it \in handovers : it.queue = q BY <2>4 DEF QueuesOf
    <3>4. Route(handovers, it) = q BY <3>2, <3>3 DEF Route
    <3>5. q \in Routes(handovers) BY <3>3, <3>4 DEF Routes
    <3>6. GroupOf(handovers, CaseScope, q) \in groups
      BY <3>5, GroupsAreRoutes
    <3>7. GroupOf(handovers, CaseScope, q).queue = q BY DEF GroupOf
    <3> QED BY <3>6, <3>7
  <2> QED BY <2>2, <2>3, <2>4 DEF EveryItemIsRouted
<1> QED BY <1>1, InvariantP, PTL

-----------------------------------------------------------------------------
(* Every case ends.                                                        *)
(*                                                                         *)
(* Left measures what a case still has to do: the phases left, the         *)
(* proposals left in this pass, the stages left of the one at hand, with   *)
(* the reads a stage may still make.  Each step of the case, and an        *)
(* exception, makes it smaller in a well-founded order (ProgressStep,      *)
(* RaiseGetsOn); the clock leaves it alone.  Until there is a record a     *)
(* case always has a next step (CaseNeverStuck), whatever is left of its   *)
(* attempts.                                                               *)

\* A plan is finite, a read is tried at least once, the facts need two reads
\* and the planner has an answer.
Provided ==
  /\ IsFiniteSet(Remedies) /\ Plans # {}
  /\ IdentityReads \in Nat /\ PlanReads \in Nat /\ RefreshReads \in Nat
  /\ FactReads \in Nat /\ FactReads >= 2
  /\ ReadTries # 0

Busy == pc \notin {"idle", "record"}

Phase ==
  CASE pass = 1 /\ pc = "identity" -> 6
    [] pass = 1 /\ pc = "facts" -> 5
    [] pass = 1 /\ pc = "plan" -> 4
    [] pass = 1 /\ pc \notin {"identity", "facts", "plan"} -> 3
    [] pass = 2 /\ pc # "reply" -> 2
    [] pass = 2 /\ pc = "reply" -> 1
    [] OTHER -> 0

\* The reads left of n.
Togo(n) == IF reads < n THEN n - reads ELSE 0

Stage ==
  CASE pc = "identity" -> Togo(IdentityReads)
    [] pc = "facts" -> Togo(FactReads)
    [] pc = "plan" -> Togo(PlanReads)
    [] pc = "next" -> 5 + RefreshReads
    [] pc = "decide" -> 4 + RefreshReads
    [] pc = "refresh" -> 3 + Togo(RefreshReads)
    [] pc = "write" -> 2
    [] pc = "sent" -> 1
    [] OTHER -> 0

Measure == Nat \X (Nat \X Nat)
Left    == <<Phase, <<Cardinality(todo), Stage>>>>

\* The lexicographic order of measures.
Less  == OpToRel(<, Nat)
Order == LexPairOrdering(Less, LexPairOrdering(Less, Less, Nat, Nat), Nat, Nat \X Nat)
Below(m) == SetLessThan(m, Order, Measure)

\* There is no infinite descent.
LEMMA OrderIsWellFounded == IsWellFoundedOn(Order, Measure)
<1>1. IsWellFoundedOn(Less, Nat)
  BY NatLessThanWellFounded DEF Less
<1>2. IsWellFoundedOn(LexPairOrdering(Less, Less, Nat, Nat), Nat \X Nat)
  BY <1>1, WFLexPairOrdering
<1> QED BY <1>1, <1>2, WFLexPairOrdering DEF Order, Measure

\* The order, spelled out.
LEMMA BelowMeans ==
  ASSUME NEW a \in Nat, NEW b \in Nat, NEW c \in Nat,
         NEW d \in Nat, NEW e \in Nat, NEW f \in Nat,
         a < d \/ (a = d /\ (b < e \/ (b = e /\ c < f)))
  PROVE  <<a, <<b, c>>>> \in Below(<<d, <<e, f>>>>)
<1>1. \A x, y \in Nat : <<x, y>> \in Less <=> x < y
  BY DEF Less, OpToRel
<1> DEFINE Inner == LexPairOrdering(Less, Less, Nat, Nat)
<1>2. b < e \/ (b = e /\ c < f) => <<<<b, c>>, <<e, f>>>> \in Inner
  BY <1>1 DEF LexPairOrdering
<1> HIDE DEF Inner
<1>3. <<<<a, <<b, c>>>>, <<d, <<e, f>>>>>> \in LexPairOrdering(Less, Inner, Nat, Nat \X Nat)
  BY <1>1, <1>2 DEF LexPairOrdering
<1> QED BY <1>3 DEF Below, SetLessThan, Order, Inner, Measure

\* A pass has finitely many proposals to deal with.
TodoFinite == IsFiniteSet(todo)

LEMMA TodoFiniteStep ==
  ASSUME Provided, IInv, TodoFinite, [Next]_vars
  PROVE  TodoFinite'
<1>1. IInv' /\ (pc = "plan" => pass = 1) BY NextP DEF IInv, Placed
<1>2. CASE pass' = 1
  <2>1. todo' \in SUBSET Remedies BY <1>1, <1>2 DEF IInv, TypeOK
  <2> QED BY <2>1, FS_Subset DEF Provided, TodoFinite
<1>3. ASSUME NEW s, todo' = Groups(handovers', s) PROVE TodoFinite'
  <2>1. handovers' \in SUBSET HandoverItem BY <1>1 DEF IInv, TypeOK
  <2> QED BY <1>3, <2>1, GroupsBound DEF TodoFinite
<1>4. CASE todo' \in SUBSET todo
  BY <1>4, FS_Subset DEF TodoFinite
<1>5. ASSUME NEW item, Abandon(item) PROVE TodoFinite'
  <2>1. todo' = {} \/ todo' = Groups(handovers', RecoveryScope) BY <1>5 DEF Abandon
  <2> QED BY <1>3, <1>4, <2>1
<1>6. CASE \E p \in Plans : Planned(p) BY <1>1, <1>2, <1>6 DEF Planned
<1>7. CASE EndRemedies BY <1>3, <1>7 DEF EndRemedies
<1>8. CASE \E result \in ReadResult : ReadRaises(result) BY <1>5, <1>8 DEF ReadRaises
<1>9. CASE DateUnknown \/ Interrupt BY <1>5, <1>9 DEF DateUnknown, Interrupt
<1>10. CASE \/ \E d \in BOOLEAN : StartCase(d)
            \/ Killed \/ DeadlinePasses \/ UNCHANGED vars \/ CaseRecorded
  BY <1>4, <1>10 DEF StartCase, Killed, DeadlinePasses, CaseRecorded, vars
<1>11. CASE \/ IdentityNotConfirmed \/ FactsGathered
            \/ \E result \in ReadResult :
                 IdentityRead(result) \/ FactsRead(result) \/ PlanRead(result)
            \/ \E x \in todo : Consult(x)
            \/ RemedyProceeds \/ Refreshed \/ SendRemedy \/ SendReferral
            \/ EndReferrals \/ ReplyDrafted
  <2>1. todo' = todo
    BY <1>11 DEF IdentityNotConfirmed, FactsGathered, IdentityRead, FactsRead, PlanRead,
       Consult, RemedyProceeds, Refreshed, SendRemedy, SendReferral, EndReferrals,
       ReplyDrafted
  <2> QED BY <1>4, <2>1
<1>12. CASE Settled BY <1>4, <1>12 DEF Settled
<1>13. CASE \/ \E result \in ReadResult : RefreshFails(result)
            \/ RemedySkipped \/ RemedyWouldExecute \/ RemedyNotSent
            \/ RemedyAnswered \/ RemedyReconciled
  BY <1>12, <1>13 DEF RefreshFails, RemedySkipped, RemedyWouldExecute, RemedyNotSent,
     RemedyAnswered, RemedyReconciled, ReportRemedy
<1>14. CASE \/ ReferralOpenAlready \/ ReferralBlocked \/ ReferralWouldExecute
            \/ ReferralNotSent \/ ReferralAnswered \/ ReferralReconciled
  BY <1>12, <1>14 DEF ReferralOpenAlready, ReferralBlocked, ReferralWouldExecute,
     ReferralNotSent, ReferralAnswered, ReferralReconciled, ReportReferral
<1> QED BY <1>6, <1>7, <1>8, <1>9, <1>10, <1>11, <1>13, <1>14 DEF Next, Progress

-----------------------------------------------------------------------------
(* The measure                                                             *)

LEMMA LeftTyped ==
  ASSUME Provided, IInv, TodoFinite
  PROVE  /\ Phase \in Nat /\ Cardinality(todo) \in Nat /\ Stage \in Nat
         /\ Left \in Measure
<1>1. Phase \in Nat BY DEF Phase
<1>2. Cardinality(todo) \in Nat BY FS_CardinalityType DEF TodoFinite
<1>3. \A n \in Nat : Togo(n) \in Nat BY DEF Togo, IInv, TypeOK
<1>4. Stage \in Nat BY <1>3 DEF Stage, Provided
<1> QED BY <1>1, <1>2, <1>4 DEF Left, Measure

LEMMA LeftTypedNext ==
  ASSUME Provided
  PROVE  IInv' /\ TodoFinite' =>
           (Phase \in Nat)' /\ (Cardinality(todo) \in Nat)' /\ (Stage \in Nat)'
<1>1. IInv /\ TodoFinite => Phase \in Nat /\ Cardinality(todo) \in Nat /\ Stage \in Nat
  BY LeftTyped
<1> QED BY <1>1, PTL

\* The three ways in which a step gets on: with the proposal at hand, with the
\* pass, or with the case.
LEMMA StageGetsOn ==
  ASSUME Provided, IInv, TodoFinite, IInv', TodoFinite',
         Phase' = Phase, UNCHANGED todo, Stage' < Stage
  PROVE  Left' \in Below(Left)
<1>1. /\ Phase \in Nat /\ Cardinality(todo) \in Nat /\ Stage \in Nat /\ Stage' \in Nat
  BY LeftTyped, LeftTypedNext
<1>2. Left' = <<Phase, <<Cardinality(todo), Stage'>>>> BY DEF Left
<1> HIDE DEF Stage, Phase
<1> QED BY <1>1, <1>2, BelowMeans DEF Left

LEMMA PassGetsOn ==
  ASSUME Provided, IInv, TodoFinite, IInv', TodoFinite',
         Phase' = Phase, current \in todo, todo' = todo \ {current}
  PROVE  Left' \in Below(Left)
<1>1. /\ Phase \in Nat /\ Cardinality(todo) \in Nat /\ Stage \in Nat /\ Stage' \in Nat
  BY LeftTyped, LeftTypedNext
<1>2. /\ Cardinality(todo \ {current}) = Cardinality(todo) - 1
      /\ Cardinality(todo \ {current}) \in Nat
  <2>1. IsFiniteSet(todo \ {current}) BY FS_Subset DEF TodoFinite
  <2> QED BY <1>1, <2>1, FS_RemoveElement, FS_CardinalityType DEF TodoFinite
<1>3. Left' = <<Phase, <<Cardinality(todo \ {current}), Stage'>>>> BY DEF Left
<1> HIDE DEF Stage, Phase
<1> QED BY <1>1, <1>2, <1>3, BelowMeans DEF Left

LEMMA CaseGetsOn ==
  ASSUME Provided, IInv, TodoFinite, IInv', TodoFinite', Phase' < Phase
  PROVE  Left' \in Below(Left)
<1>1. /\ Phase \in Nat /\ Cardinality(todo) \in Nat /\ Stage \in Nat
      /\ Phase' \in Nat /\ Cardinality(todo') \in Nat /\ Stage' \in Nat
  BY LeftTyped, LeftTypedNext
<1>2. Left' = <<Phase', <<Cardinality(todo'), Stage'>>>> BY DEF Left
<1> HIDE DEF Stage, Phase
<1> QED BY <1>1, <1>2, BelowMeans DEF Left

-----------------------------------------------------------------------------
(* The steps                                                               *)

Ends   == pc \in {"idle", "record"}
GetsOn == Busy' /\ Left' \in Below(Left)

\* An exception ends the case or begins its recovery, from which there is only
\* one way.
LEMMA AbandonGetsOn ==
  ASSUME Provided, IInv, TodoFinite, IInv', TodoFinite', Busy,
         NEW item, Abandon(item)
  PROVE  Ends' \/ GetsOn
<1>1. CASE pass = 3 BY <1>1 DEF Abandon, Ends
<1>2. CASE pass # 3
  <2>1. pass \in {1, 2} BY <1>2 DEF IInv, TypeOK
  <2>2. pass' = 3 /\ pc' = "next" BY <1>2 DEF Abandon
  <2>3. Phase' = 0 BY <2>2 DEF Phase
  <2>4. Phase > 0 BY <2>1 DEF Phase
  <2>5. Busy' BY <2>2 DEF Busy
  <2> QED BY <2>3, <2>4, <2>5, CaseGetsOn DEF GetsOn
<1> QED BY <1>1, <1>2

LEMMA RaiseGetsOn ==
  ASSUME Provided, IInv, TodoFinite, Busy, Interrupt \/ DateUnknown
  PROVE  Ends' \/ GetsOn
<1>1. IInv' /\ TodoFinite' BY NextP, TodoFiniteStep DEF Next
<1> QED BY <1>1, AbandonGetsOn DEF Interrupt, DateUnknown

\* A stage before the first pass makes a read less or gives way to the next.
LEMMA StagesGetOn ==
  ASSUME Provided, IInv, TodoFinite, IInv', TodoFinite', NEW result \in ReadResult,
         NEW p \in Plans,
         \/ IdentityNotConfirmed \/ FactsGathered \/ IdentityRead(result)
         \/ FactsRead(result) \/ PlanRead(result) \/ Planned(p)
  PROVE  GetsOn
<1>1. /\ pc \in {"identity", "facts", "plan"} /\ pass = 1 /\ pass' = 1
      /\ reads \in Nat
  BY DEF IdentityNotConfirmed, FactsGathered, IdentityRead, FactsRead, PlanRead,
     Planned, IInv, TypeOK, Placed
<1>2. CASE /\ pc' = pc /\ UNCHANGED todo /\ reads' = reads + 1
           /\ \/ pc = "identity" /\ reads < IdentityReads
              \/ pc = "facts" /\ reads < FactReads
              \/ pc = "plan" /\ reads < PlanReads
  <2>1. Phase' = Phase BY <1>1, <1>2 DEF Phase
  <2>2. \A n \in Nat : reads < n => Togo(n)' < Togo(n) BY <1>1, <1>2 DEF Togo
  <2>3. Stage' < Stage BY <1>2, <2>2 DEF Stage, Provided
  <2>4. Busy' BY <1>1, <1>2 DEF Busy
  <2> QED BY <1>2, <2>1, <2>3, <2>4, StageGetsOn DEF GetsOn
<1>3. CASE \/ pc = "identity" /\ pc' \in {"facts", "next"}
           \/ pc = "facts" /\ pc' = "plan"
           \/ pc = "plan" /\ pc' = "next"
  <2>1. Phase' < Phase BY <1>1, <1>3 DEF Phase
  <2>2. Busy' BY <1>3 DEF Busy
  <2> QED BY <2>1, <2>2, CaseGetsOn DEF GetsOn
<1> QED BY <1>2, <1>3 DEF IdentityNotConfirmed, FactsGathered, IdentityRead, FactsRead,
        PlanRead, Planned

\* A proposal that is dealt with is one less.
LEMMA SettledGetsOn ==
  ASSUME Provided, IInv, TodoFinite, IInv', TodoFinite', Settled, UNCHANGED pass,
         pc \in {"decide", "refresh", "write", "sent"}
  PROVE  GetsOn
<1>1. current \in todo BY DEF IInv, Placed
<1>2. Phase' = Phase /\ Busy' BY DEF Phase, Busy, Settled
<1> QED BY <1>1, <1>2, PassGetsOn DEF Settled, GetsOn

\* On its way a proposal goes from stage to stage, the reading of a
\* precondition from page to page.
LEMMA ProposalGetsOn ==
  ASSUME Provided, IInv, TodoFinite, IInv', TodoFinite',
         \/ \E x \in todo : Consult(x)
         \/ RemedyProceeds \/ Refreshed \/ SendRemedy \/ SendReferral
  PROVE  GetsOn
<1>1. /\ UNCHANGED <<todo, pass>> /\ reads \in Nat
      /\ \/ pc = "next" /\ pc' = "decide"
         \/ pc = "decide" /\ pc' \in {"refresh", "write", "sent"} /\ reads' = reads
         \/ pc = "refresh" /\ pc' \in {"refresh", "write"} /\ reads < RefreshReads
            /\ reads' = reads + 1
         \/ pc = "write" /\ pc' = "sent"
  BY DEF Consult, RemedyProceeds, Refreshed, SendRemedy, SendReferral, IInv, TypeOK
<1>2. Phase' = Phase /\ Busy' BY <1>1 DEF Phase, Busy
<1>3. /\ RefreshReads \in Nat /\ Togo(RefreshReads) \in Nat
      /\ Togo(RefreshReads) <= RefreshReads
  BY <1>1 DEF Togo, Provided
<1>4. reads' = reads => Togo(RefreshReads)' = Togo(RefreshReads)
  BY DEF Togo
<1>5. reads' = reads + 1 /\ reads < RefreshReads =>
        Togo(RefreshReads)' < Togo(RefreshReads) /\ Togo(RefreshReads)' \in Nat
  BY <1>1, <1>3 DEF Togo
<1> HIDE DEF Togo
<1>6. Stage' < Stage BY <1>1, <1>3, <1>4, <1>5 DEF Stage
<1> QED BY <1>1, <1>2, <1>6, StageGetsOn DEF GetsOn

\* The end of a pass, and the reply, leave fewer phases.
LEMMA PhasesGetOn ==
  ASSUME Provided, IInv, TodoFinite, IInv', TodoFinite',
         EndRemedies \/ EndReferrals \/ ReplyDrafted \/ CaseRecorded
  PROVE  Ends' \/ GetsOn
<1>1. CASE EndRemedies
  <2>1. pc = "next" /\ pc' = "next" /\ pass = 1 /\ pass' = 2 BY <1>1 DEF EndRemedies
  <2>2. Phase = 3 /\ Phase' = 2 /\ Busy' BY <2>1 DEF Phase, Busy
  <2> QED BY <2>2, CaseGetsOn DEF GetsOn
<1>2. CASE EndReferrals
  <2>1. /\ pc = "next" /\ pass' = pass
        /\ \/ pass = 2 /\ pc' = "reply"
           \/ pc' = "record"
    BY <1>2 DEF EndReferrals
  <2>2. CASE pc' = "record" BY <2>2 DEF Ends
  <2>3. CASE pass = 2 /\ pc' = "reply"
    <3>1. Phase = 2 /\ Phase' = 1 /\ Busy' BY <2>1, <2>3 DEF Phase, Busy
    <3> QED BY <3>1, CaseGetsOn DEF GetsOn
  <2> QED BY <2>1, <2>2, <2>3
<1>3. CASE ReplyDrafted \/ CaseRecorded
  BY <1>3 DEF ReplyDrafted, CaseRecorded, Ends
<1> QED BY <1>1, <1>2, <1>3

\* Every step of a case ends it or leaves it less to do.
LEMMA ProgressStep ==
  ASSUME Provided, IInv, TodoFinite, Busy, Progress
  PROVE  Ends' \/ GetsOn
<1>1. IInv' /\ TodoFinite' BY NextP, TodoFiniteStep DEF Next
<1>2. CASE IdentityNotConfirmed \/ FactsGathered
  <2>1. PICK p \in Plans : TRUE BY DEF Provided
  <2>2. "ok" \in ReadResult BY DEF ReadResult
  <2> QED BY <1>1, <1>2, <2>1, <2>2, StagesGetOn
<1>3. ASSUME NEW result \in ReadResult,
             \/ IdentityRead(result) \/ ReadRaises(result) \/ FactsRead(result)
             \/ PlanRead(result) \/ RefreshFails(result)
      PROVE  Ends' \/ GetsOn
  <2>1. PICK p \in Plans : TRUE BY DEF Provided
  <2>2. CASE IdentityRead(result) \/ FactsRead(result) \/ PlanRead(result)
    BY <1>1, <2>1, <2>2, StagesGetOn
  <2>3. CASE ReadRaises(result) BY <1>1, <2>3, AbandonGetsOn DEF ReadRaises
  <2>4. CASE RefreshFails(result)
    BY <1>1, <2>4, SettledGetsOn DEF RefreshFails, ReportRemedy
  <2> QED BY <1>3, <2>2, <2>3, <2>4
<1>4. CASE \E p \in Plans : Planned(p)
  <2>1. "ok" \in ReadResult BY DEF ReadResult
  <2> QED BY <1>1, <1>4, <2>1, StagesGetOn
<1>5. CASE \/ \E x \in todo : Consult(x)
           \/ RemedyProceeds \/ Refreshed \/ SendRemedy \/ SendReferral
  BY <1>1, <1>5, ProposalGetsOn
<1>6. CASE RemedySkipped \/ RemedyWouldExecute \/ RemedyNotSent
  BY <1>1, <1>6, SettledGetsOn DEF RemedySkipped, RemedyWouldExecute, RemedyNotSent,
     ReportRemedy
<1>7. CASE RemedyAnswered \/ RemedyReconciled
  BY <1>1, <1>7, SettledGetsOn DEF RemedyAnswered, RemedyReconciled, ReportRemedy
<1>8. CASE \/ ReferralOpenAlready \/ ReferralBlocked \/ ReferralWouldExecute
           \/ ReferralNotSent
  BY <1>1, <1>8, SettledGetsOn DEF ReferralOpenAlready, ReferralBlocked,
     ReferralWouldExecute, ReferralNotSent, ReportReferral
<1>9. CASE ReferralAnswered \/ ReferralReconciled
  BY <1>1, <1>9, SettledGetsOn DEF ReferralAnswered, ReferralReconciled, ReportReferral
<1>10. CASE EndRemedies \/ EndReferrals \/ ReplyDrafted \/ CaseRecorded
  BY <1>1, <1>10, PhasesGetOn
<1> QED BY <1>2, <1>3, <1>4, <1>5, <1>6, <1>7, <1>8, <1>9, <1>10 DEF Progress

\* The clock and the death of the process add nothing to what a case has to do.
LEMMA ClockStep ==
  ASSUME Busy, NEW d, StartCase(d) \/ Killed \/ DeadlinePasses \/ UNCHANGED vars
  PROVE  Ends' \/ (Busy' /\ Left' = Left)
<1>1. CASE StartCase(d) BY <1>1 DEF StartCase, Busy
<1>2. CASE Killed BY <1>2 DEF Killed, Ends
<1>3. CASE DeadlinePasses \/ UNCHANGED vars
  <2>1. UNCHANGED <<pc, pass, reads, todo>> BY <1>3 DEF DeadlinePasses, vars
  <2> QED BY <2>1 DEF Busy, Left, Phase, Stage, Togo
<1> QED BY <1>1, <1>2, <1>3

-----------------------------------------------------------------------------
(* A case always has a next step                                           *)

\* The conditions under which the steps of a case can be taken.
CanStep ==
  \/ pc \in {"identity", "decide", "refresh", "write", "sent", "reply"}
  \/ pc = "facts" /\ (reads >= 2 \/ reads < FactReads)
  \/ pc = "plan" /\ Plans # {}
  \/ pc = "next" /\ todo = {}
  \/ pc = "next" /\ \E x \in todo : \A y \in todo : Place(x) <= Place(y)

\* A case without a record is never without a next step: it gathers its facts
\* within the reads it has, and of the proposals left one comes first
\* (run_case, Executor.execute).
THEOREM CaseNeverStuck ==
  ASSUME Provided
  PROVE  Spec => [](Busy => CanStep)
<1>1. ASSUME IInv, Busy PROVE CanStep
  <2>1. CASE pc = "next" /\ todo # {}
    <3> DEFINE Places == {Place(x) : x \in todo}
    <3>1. \A x \in todo : Place(x) \in Nat
      <4>1. CASE pass = 1
        BY <1>1, <4>1, PlansAssumption DEF Place, IInv, TypeOK
      <4>2. CASE pass # 1
        BY <1>1, <4>2, QueuesAssumption DEF Place, IInv, TypeOK, Referral
      <4> QED BY <4>1, <4>2
    <3>2. Places \in SUBSET Nat /\ Places # {} BY <2>1, <3>1
    <3> HIDE DEF Places
    <3>3. PICK n \in Places : \A m \in Places : ~ (<<m, n>> \in Less)
      BY <3>2, NatLessThanWellFounded, WFMin DEF Less
    <3>4. \A x, y \in Nat : <<x, y>> \in Less <=> x < y BY DEF Less, OpToRel
    <3>5. ASSUME NEW m \in Places PROVE n <= m
      <4>1. m \in Nat /\ n \in Nat /\ ~ (<<m, n>> \in Less) BY <3>2, <3>3
      <4>2. ~ (m < n) BY <3>4, <4>1
      <4> QED BY <4>1, <4>2
    <3>6. PICK x \in todo : Place(x) = n BY <3>3 DEF Places
    <3> QED BY <2>1, <3>5, <3>6 DEF CanStep, Places
  <2>2. CASE pc = "next" /\ todo = {} BY <2>2 DEF CanStep
  <2>3. CASE pc = "facts"
    BY <1>1, <2>3 DEF CanStep, Provided, IInv, TypeOK
  <2>4. CASE pc \in {"identity", "plan", "decide", "refresh", "write", "sent", "reply"}
    BY <2>4 DEF CanStep, Provided
  <2> QED BY <1>1, <2>1, <2>2, <2>3, <2>4 DEF Busy, IInv, TypeOK
<1> QED BY <1>1, InvariantP, PTL

-----------------------------------------------------------------------------
(* From steps to behaviours.  Two things the provers cannot do are         *)
(* hypotheses: that a step whose conditions hold is enabled                *)
(* (ProgressCanStep), and the rule of well-founded descent (Descent),      *)
(* which holds of every behaviour, because Order is well-founded.          *)

ProgressCanStep == CanStep => ENABLED <<Progress>>_vars

Descends(m) == (Busy /\ Left = m) ~> (Ends \/ (Busy /\ Left \in Below(m)))

Descent ==
  (\A m \in Measure : Descends(m)) => ((Busy /\ Left \in Measure) ~> Ends)

LEMMA TodoFiniteHolds == ASSUME Provided PROVE Spec => []TodoFinite
<1>1. Init => TodoFinite BY FS_EmptySet DEF Init, TodoFinite
<1>2. IInv /\ TodoFinite /\ [Next]_vars => TodoFinite' BY TodoFiniteStep
<1> QED BY <1>1, <1>2, InvariantP, PTL DEF Spec

LEMMA MeasureGetsOn ==
  ASSUME Provided, NEW m \in Measure
  PROVE  FairSpec /\ []ProgressCanStep => Descends(m)
<1> DEFINE Here == Busy /\ Left = m
           On   == Ends \/ (Busy /\ Left \in Below(m))
<1>1. IInv /\ TodoFinite /\ Here /\ [Next]_vars => Here' \/ On'
  <2> SUFFICES ASSUME IInv, TodoFinite, Here, [Next]_vars PROVE Here' \/ On'
    OBVIOUS
  <2>1. CASE Progress BY <2>1, ProgressStep DEF GetsOn, Ends
  <2>2. CASE Interrupt \/ DateUnknown BY <2>2, RaiseGetsOn DEF GetsOn, Ends
  <2>3. CASE (\E d \in BOOLEAN : StartCase(d)) \/ Killed \/ DeadlinePasses \/ UNCHANGED vars
    BY <2>3, ClockStep DEF Ends
  <2> QED BY <2>1, <2>2, <2>3 DEF Next
<1>2. IInv /\ TodoFinite /\ Here /\ <<Progress>>_vars => On'
  BY ProgressStep DEF GetsOn, Ends
<1>3. Here => Busy
  OBVIOUS
<1>4. FairSpec => Spec
  BY PTL DEF FairSpec
<1> HIDE DEF Here, On
<1>5. FairSpec /\ []ProgressCanStep => (Here ~> On)
  BY <1>1, <1>2, <1>3, <1>4, CaseNeverStuck, InvariantP, TodoFiniteHolds, PTL
     DEF FairSpec, Spec, ProgressCanStep
<1> QED BY <1>5, PTL DEF Descends, Here, On

\* Whatever a case still has to do, under the fairness of FairSpec it ends or
\* comes to have less to do, for any plans and limits and any answers.
THEOREM CaseDescends ==
  ASSUME Provided
  PROVE  FairSpec /\ []ProgressCanStep => \A m \in Measure : Descends(m)
<1> QED BY MeasureGetsOn

\* A case that was started comes to its record or is killed: no exception, no
\* spent budget and no answer of the API leaves it in between (run_case).
THEOREM EveryCaseLeavesARecordHolds ==
  ASSUME Provided
  PROVE  FairSpec /\ []ProgressCanStep /\ Descent => EveryCaseLeavesARecord
<1>1. IInv /\ TodoFinite /\ pc = "identity" => Busy /\ Left \in Measure
  BY LeftTyped DEF Busy
<1>2. FairSpec => Spec
  BY PTL DEF FairSpec
<1>3. Ends <=> pc \in {"record", "idle"}
  BY DEF Ends
<1> QED BY <1>1, <1>2, <1>3, CaseDescends, InvariantP, TodoFiniteHolds, PTL
        DEF Descent, EveryCaseLeavesARecord
=============================================================================
