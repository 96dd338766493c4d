---------------------------- MODULE CasePipeline ----------------------------
(***************************************************************************)
(* The stages of one case (pipeline.run_case) and the attempts they spend  *)
(* on the operations API (ops_client.OpsClient): identity, facts, plan, a  *)
(* pass over the remedies, a pass over the referrals, the reply, and the   *)
(* recovery pass that any exception leads to.                              *)
(*                                                                         *)
(* The same message may be worked on in several runs.  Between them remain *)
(* the API's write log and the journal, so a later run meets the referrals *)
(* of an earlier one: a referral is known by the message, the queue and    *)
(* the event it is about.                                                  *)
(*                                                                         *)
(* What RemedyExecutor models in detail is one step here: a write to the   *)
(* API is performed when it is sent or never, and the API does not         *)
(* restart.                                                                *)
(***************************************************************************)
EXTENDS Naturals, FiniteSets

CONSTANTS
  Remedies,        \* the remedies a plan may propose, each with its place in
                   \* the order of execution
  Plans,           \* what the planner may decide: remedies proposed, remedies
                   \* blocked from the start, hand-over items, and whether the
                   \* passenger is asked for more
  PlanClauses,     \* the clauses the planner's hand-overs name
  NameRank,        \* queue -> its place in the order of the names
  AttemptLimit,    \* MAX_OPS_ATTEMPTS_PER_CASE
  Reserved,        \* OPS_ATTEMPTS_RESERVED_FOR_HANDOVER
  ReadTries,       \* MAX_READ_ATTEMPTS
  MaxEscalations,  \* MAX_ESCALATIONS_PER_CASE
  IdentityReads, FactReads, PlanReads, RefreshReads,
                   \* bounds: reads of one stage
  MaxRuns          \* bound: runs over the same message

Queue == DOMAIN NameRank

Clause == PlanClauses \cup
  {"identity", "no date", "stopped", "gate", "uncertain", "rejected"}

HandoverItem == [queue : Queue, clause : Clause, internal : BOOLEAN]

ASSUME AttemptsAssumption ==
  /\ AttemptLimit \in Nat /\ Reserved \in Nat /\ Reserved <= AttemptLimit
  /\ ReadTries \in Nat /\ MaxEscalations \in Nat \ {0} /\ MaxRuns \in Nat
ASSUME PlansAssumption ==
  /\ Remedies \subseteq [place : Nat]
  /\ Plans \subseteq
       [proposed : SUBSET Remedies, blocked : SUBSET Remedies, ask : BOOLEAN,
        items : SUBSET HandoverItem]
  /\ \A p \in Plans : p.proposed \cap p.blocked = {}
ASSUME QueuesAssumption ==
  /\ IsFiniteSet(Queue) /\ {"SUPERVISOR", "GENERAL"} \subseteq Queue
  /\ \A q \in Queue : NameRank[q] \in Nat
  /\ \A p, q \in Queue : NameRank[p] = NameRank[q] => p = q

\* Mutant: nothing is kept back.
NothingReserved == AttemptLimit

Ordinary == AttemptLimit - Reserved    \* attempts that any request may use

VARIABLES
  \* the attempt budget of the case (OpsClient)
  used,        \* attempts_used
  late,        \* the case deadline has passed
  \* the locals of run_case
  pc, dry, pass, reads, confirmed, facts, handovers, needs,
  \* the executor
  todo, current, audit, held,
  results,     \* what the report says of each remedy
  receipts,    \* what the report says of the referrals
  \* what outlives the run
  open,        \* referrals in the API's write log
  performed,   \* remedies in the API's write log
  rows,        \* referrals of the journal in an open state
  unsettled,   \* remedies of the journal attempted or unknown
  \* history, for the properties only
  drawn,       \* attempts made with allow_reserve
  refused,     \* a referral was not sent for lack of attempts
  runs

budgetVars   == <<used, drawn>>
caseVars     == <<dry, confirmed, facts, needs>>
durableVars  == <<open, performed, rows, unsettled>>
reportVars   == <<results, receipts, held>>
vars == <<used, late, pc, pass, reads, handovers, caseVars, todo, current,
          audit, reportVars, durableVars, drawn, refused, runs>>

Nothing == [queue |-> "none"]
Unread  == [known |-> FALSE, keys |-> {}]
\* What a referral is about: the event and, with it, the booking.
Scope   == {"event",   \* the disruption the facts name
            "case",    \* "{case_id}:unidentified", no facts
            "bare",    \* "unidentified", no facts in the recovery
            "booked"}  \* the same, of a booking that was confirmed

Item(queue, clause) == [queue |-> queue, clause |-> clause, internal |-> FALSE]
Unidentified == Item("SUPERVISOR", "identity")
Undated      == Item("GENERAL", "no date")
Stopped      == Item("SUPERVISOR", "stopped")

-----------------------------------------------------------------------------
(* Spending attempts                                                       *)

\* _read: up to ReadTries GETs, the first on top of what was spent.  A read
\* that runs out of attempts or time ends in AttemptBudgetExhausted.
Read(result) ==
  /\ \E spent \in 0..ReadTries :
       /\ used' = used + spent
       /\ spent > 0 => used' <= Ordinary
       /\ CASE result \in {"ok", "error"} -> spent > 0 /\ ~late
            [] result = "lost" -> spent = ReadTries /\ ~late
            [] result = "exhausted" ->
                 late \/ (spent < ReadTries /\ used' >= Ordinary)
  /\ UNCHANGED drawn

\* A request that may draw on the reserve, whatever the clock says.
Draw == used < AttemptLimit /\ used' = used + 1 /\ drawn' = drawn + 1

Log == [known |-> TRUE, keys |-> {<<g.queue, g.scope>> : g \in open}]

\* Executor._audit: whatever goes wrong, the run continues without a log.
ReadLog ==
  \/ Draw /\ audit' \in {Unread, Log}
  \/ used >= AttemptLimit /\ audit' = Unread /\ UNCHANGED budgetVars

-----------------------------------------------------------------------------
(* Routing: _build_escalations                                             *)

Urgent == {"YTP", "SPECIAL_ASSISTANCE"}

Before(p, q) ==
  \/ p \in Urgent /\ q \notin Urgent
  \/ (p \in Urgent <=> q \in Urgent) /\ NameRank[p] < NameRank[q]

QueuesOf(H) == {it.queue : it \in H}

\* With too many queues, the first ones but the supervisor keep their own
\* referral.
Keep(Q) ==
  IF Cardinality(Q) <= MaxEscalations THEN Q
  ELSE {q \in Q \ {"SUPERVISOR"} :
          Cardinality({p \in Q \ {"SUPERVISOR"} : Before(p, q)})
            < MaxEscalations - 1}

Route(H, it) ==
  IF it.queue \in Keep(QueuesOf(H)) THEN it.queue ELSE "SUPERVISOR"

\* Mutant: the fourth queue and those after it are not referred.
GroupsKept(H, scope) ==
  {[queue |-> q, scope |-> scope,
    clauses |-> {it.clause : it \in {i \in H : i.queue = q}}] :
     q \in Keep(QueuesOf(H))}

Groups(H, scope) ==
  {[queue |-> q, scope |-> scope,
    clauses |-> {it.clause : it \in {i \in H : Route(H, i) = q}}] :
     q \in {Route(H, it) : it \in H}}

-----------------------------------------------------------------------------
(* Hand-overs from the remedies: _handovers_from_execution                 *)

Having(result) == {r \in Remedies : results[r] = result}

\* Mutant: a remedy whose outcome is unknown asks for nobody.
FromExecutionKnown ==
  {it \in {Item("SUPERVISOR", "gate")}     : Having("blocked") # {}} \cup
  {it \in {Item("SUPERVISOR", "rejected")} : Having("failed") # {}}

FromExecution ==
  {it \in {Item("SUPERVISOR", "gate")}      : Having("blocked") # {}} \cup
  {it \in {Item("SUPERVISOR", "uncertain")} : Having("unknown") # {}} \cup
  {it \in {Item("SUPERVISOR", "rejected")}  : Having("failed") # {}}

-----------------------------------------------------------------------------
(* The status of the case                                                  *)

Done        == {"succeeded", "duplicate"} \cup IF dry THEN {"would"} ELSE {}
Undone      == {"blocked", "failed", "unknown"}
Completed   == {r \in Remedies : results[r] \in Done}
Outstanding == {r \in Remedies : results[r] \in Undone \cup {"preblocked"}}
ForPassenger == {it \in handovers : ~it.internal}

\* Mutant: a referral that was tried is a referral.
DetermineStatusTried ==
  CASE handovers # {} /\ receipts = {} -> "failed"
    [] OTHER -> IF Outstanding # {} THEN "partially_resolved" ELSE "handed_over"

\* _determine_status, after the two passes: every referral was raised, and each
\* that was answered has the identifier the API gave it.
DetermineStatus ==
  CASE handovers # {} /\ (receipts = {} \/ receipts \cap (Undone \cup {"unnamed"}) # {})
         -> "failed"
    [] OTHER ->
  CASE ~confirmed -> "handed_over"
    [] confirmed /\ Completed # {} ->
         IF Outstanding # {} \/ ForPassenger # {} \/ needs
         THEN "partially_resolved" ELSE "resolved"
    [] confirmed /\ Completed = {} ->
         IF ForPassenger # {} THEN "handed_over"
         ELSE IF needs THEN "needs_clarification"
         ELSE IF Outstanding # {} THEN "partially_resolved" ELSE "resolved"

\* After a recovery: any referral of the case that was raised will do.
RecoveryStatus ==
  CASE receipts \cap {"succeeded", "unnamed", "duplicate", "would"} = {} -> "failed"
    [] OTHER ->
       IF Having("succeeded") # {} THEN "partially_resolved" ELSE "handed_over"

Status == IF pass = 3 THEN RecoveryStatus ELSE DetermineStatus

-----------------------------------------------------------------------------
NewCase ==
  /\ used' = 0 /\ late' = FALSE /\ drawn' = 0 /\ refused' = FALSE
  /\ reads' = 0 /\ confirmed' = FALSE /\ facts' = FALSE /\ needs' = FALSE
  /\ current' = Nothing /\ audit' = Unread /\ held' = FALSE
  /\ results' = [r \in Remedies |-> "none"] /\ receipts' = {}

Init ==
  /\ used = 0 /\ late = FALSE /\ drawn = 0 /\ refused = FALSE
  /\ pc = "idle" /\ dry = FALSE /\ pass = 1 /\ reads = 0
  /\ confirmed = FALSE /\ facts = FALSE /\ handovers = {} /\ needs = FALSE
  /\ todo = {} /\ current = Nothing /\ audit = Unread /\ held = FALSE
  /\ results = [r \in Remedies |-> "none"] /\ receipts = {}
  /\ open = {} /\ performed = {} /\ rows = {} /\ unsettled = {}
  /\ runs = 0

-----------------------------------------------------------------------------
(* Exceptions                                                              *)

RecoveryScope ==
  IF facts THEN "event" ELSE IF confirmed THEN "booked" ELSE "bare"

CaseScope ==
  IF pass = 3 THEN RecoveryScope ELSE IF facts THEN "event" ELSE "case"

\* Mutant: the recovery starts over whenever it fails.
AbandonAgain(item) ==
  /\ handovers' = handovers \cup {item}
  /\ pass' = 3 /\ pc' = "next"
  /\ todo' = Groups(handovers', RecoveryScope)

\* The except clauses of run_case, and the one of its recovery pass.
Abandon(item) ==
  IF pass = 3
  THEN /\ pc' = "record" /\ todo' = {} /\ UNCHANGED <<pass, handovers>>
  ELSE /\ handovers' = handovers \cup {item}
       /\ pass' = 3 /\ pc' = "next"
       /\ todo' = Groups(handovers', RecoveryScope)

\* Anything may raise, in any stage: the journal, a malformed answer.
Interrupt ==
  /\ pc \notin {"idle", "record"}
  /\ Abandon(Stopped)
  /\ UNCHANGED <<budgetVars, late, reads, caseVars, current, audit, reportVars,
                 durableVars, refused, runs>>

\* The process ends without a record, as the review desk makes it do after ten
\* minutes.
Killed ==
  /\ pc # "idle"
  /\ pc' = "idle" /\ pass' = 1 /\ dry' = FALSE /\ handovers' = {} /\ todo' = {}
  /\ NewCase
  /\ UNCHANGED <<durableVars, runs>>

\* Later than the first pass no ordinary request is made.
DeadlinePasses ==
  /\ pc # "idle" /\ pass = 1 /\ ~late
  /\ late' = TRUE
  /\ UNCHANGED <<budgetVars, pc, pass, reads, handovers, caseVars, todo, current,
                 audit, reportVars, durableVars, refused, runs>>

-----------------------------------------------------------------------------
(* From the message to the plan                                            *)

StartCase(d) ==
  /\ pc = "idle" /\ runs < MaxRuns
  /\ runs' = runs + 1 /\ dry' = d
  /\ pc' = "identity"
  /\ UNCHANGED <<used, late, pass, reads, handovers, confirmed, facts, needs,
                 todo, current, audit, reportVars, durableVars, drawn, refused>>

\* case_now raises UnknownCaseTime before anything is read.
DateUnknown ==
  /\ pc = "identity" /\ reads = 0
  /\ Abandon(Undated)
  /\ UNCHANGED <<budgetVars, late, reads, caseVars, current, audit, reportVars,
                 durableVars, refused, runs>>

\* resolve_identity: a read the API refuses is noted.  The booking is
\* confirmed, if at all, by the last read.
IdentityRead(result) ==
  /\ pc = "identity" /\ reads < IdentityReads
  /\ result \in {"ok", "error"} /\ Read(result)
  /\ confirmed' \in {FALSE, result = "ok"}
  /\ IF confirmed' THEN pc' = "facts" /\ reads' = 0
                   ELSE pc' = pc /\ reads' = reads + 1
  /\ UNCHANGED <<late, pass, handovers, dry, facts, needs, todo, current, audit,
                 reportVars, durableVars, refused, runs>>

\* Any other failure of a read raises, as does a refusal to read the booking a
\* telephone number led to; while gathering facts only a spent budget does.
ReadRaises(result) ==
  /\ \/ pc = "identity" /\ reads < IdentityReads /\ result # "ok"
     \/ pc = "facts" /\ reads < FactReads /\ result = "exhausted"
  /\ Read(result)
  /\ Abandon(Stopped)
  /\ UNCHANGED <<late, reads, caseVars, current, audit, reportVars,
                 durableVars, refused, runs>>

\* Nobody identified: nothing to execute, the supervisor is asked.
IdentityNotConfirmed ==
  /\ pc = "identity"
  /\ handovers' = {Unidentified} /\ needs' = TRUE
  /\ pc' = "next" /\ reads' = 0
  /\ UNCHANGED <<budgetVars, late, pass, dry, confirmed, facts, todo, current,
                 audit, reportVars, durableVars, refused, runs>>

\* _gather_facts: the entitlement and the history, perhaps the flight and the
\* feed; a failed read leaves a gap.
FactsRead(result) ==
  /\ pc = "facts" /\ reads < FactReads
  /\ result \in {"ok", "error", "lost"} /\ Read(result)
  /\ reads' = reads + 1
  /\ UNCHANGED <<late, pc, pass, handovers, caseVars, todo, current, audit,
                 reportVars, durableVars, refused, runs>>

FactsGathered ==
  /\ pc = "facts" /\ reads >= 2
  /\ facts' = TRUE /\ pc' = "plan" /\ reads' = 0
  /\ UNCHANGED <<budgetVars, late, pass, handovers, dry, confirmed, needs, todo,
                 current, audit, reportVars, durableVars, refused, runs>>

\* InventoryAdapter: nothing raises; the search for a hotel voucher the
\* booking already has reads the write log, for itself only.
PlanRead(result) ==
  /\ pc = "plan" /\ reads < PlanReads
  /\ \/ Read(result)
     \/ result = "ok" /\ Draw
  /\ reads' = reads + 1
  /\ UNCHANGED <<late, pc, pass, handovers, caseVars, todo, current, audit,
                 reportVars, durableVars, refused, runs>>

\* Planner.plan with the hand-overs added to it; what it blocked is reported
\* as it is.
Planned(p) ==
  /\ pc = "plan"
  /\ handovers' = p.items /\ needs' = p.ask
  /\ todo' = p.proposed
  /\ results' = [r \in Remedies |-> IF r \in p.blocked THEN "preblocked" ELSE "none"]
  /\ pc' = "next" /\ reads' = 0
  /\ UNCHANGED <<budgetVars, late, pass, dry, confirmed, facts, current, audit,
                 receipts, held, durableVars, refused, runs>>

-----------------------------------------------------------------------------
(* One proposal of a pass: Executor._execute_one                           *)

\* An unsettled row of the booking, be it a remedy or a referral.
Uncertain ==
  \/ unsettled # {}
  \/ \E j \in rows : j.of.scope \in {"event", "booked"} /\ j.state # "succeeded"

Place(x) == IF pass = 1 THEN x.place ELSE NameRank[x.queue]

\* Proposals go in the order of EXECUTION_ORDER, referrals by queue.  The log
\* is read for the first one, and again while it is unread.
Consult(x) ==
  /\ pc = "next" /\ x \in todo
  /\ \A y \in todo : Place(x) <= Place(y)
  /\ current' = x /\ pc' = "decide"
  /\ IF audit.known THEN UNCHANGED <<budgetVars, audit>> ELSE ReadLog
  /\ UNCHANGED <<late, pass, reads, handovers, caseVars, todo, reportVars,
                 durableVars, refused, runs>>

\* The proposal is dealt with.
Settled ==
  pc' = "next" /\ todo' = todo \ {current} /\ current' = Nothing /\ reads' = 0

\* Mutant: a reconciliation in vain leaves the state that was set for sending.
ReportAttempted(result) ==
  /\ Settled
  /\ results' = [results EXCEPT ![current] =
                   IF result = "unknown" THEN "attempted" ELSE result]
  /\ UNCHANGED <<receipts, late, pass, handovers, caseVars, runs>>

ReportRemedy(result) ==
  /\ Settled
  /\ results' = [results EXCEPT ![current] = result]
  /\ UNCHANGED <<receipts, late, pass, handovers, caseVars, runs>>

ReportReferral(result) ==
  /\ Settled
  /\ receipts' = receipts \cup {result}
  /\ UNCHANGED <<results, late, pass, handovers, caseVars, runs>>

\* The log shows the remedy, or something stops it: another remedy, an open
\* row of the journal, an outcome this run does not know.
RemedySkipped ==
  /\ pc = "decide" /\ pass = 1
  /\ \/ audit.known /\ current \in performed /\ ReportRemedy("duplicate")
     \/ ReportRemedy("blocked")
  /\ UNCHANGED <<budgetVars, audit, held, durableVars, refused>>

MayProceed == audit.known /\ current \notin performed /\ ~held /\ ~Uncertain

\* Some kinds have a precondition to read again; others go on.
RemedyProceeds ==
  /\ pc = "decide" /\ pass = 1 /\ MayProceed
  /\ pc' \in {"refresh", "write"}
  /\ UNCHANGED <<budgetVars, late, pass, reads, handovers, caseVars, todo, current,
                 audit, reportVars, durableVars, refused, runs>>

\* _refresh_precondition: a page may be followed by another.
Refreshed ==
  /\ pc = "refresh" /\ reads < RefreshReads
  /\ Read("ok")
  /\ pc' \in {"refresh", "write"} /\ reads' = reads + 1
  /\ UNCHANGED <<late, pass, handovers, caseVars, todo, current, audit,
                 reportVars, durableVars, refused, runs>>

\* The offer changed or is gone, or could not be read.
RefreshFails(result) ==
  /\ pc = "refresh"
  /\ Read(result)
  /\ ReportRemedy("blocked")
  /\ UNCHANGED <<audit, held, durableVars, refused>>

RemedyWouldExecute ==
  /\ pc = "write" /\ dry
  /\ ReportRemedy("would")
  /\ UNCHANGED <<budgetVars, audit, held, durableVars, refused>>

\* The budget or the deadline refuses the POST.
RemedyNotSent ==
  /\ pc = "write" /\ ~dry
  /\ \/ used >= Ordinary /\ UNCHANGED used
     \/ late /\ used' \in {used, used + 1} /\ (used' > used => used < Ordinary)
  /\ ReportRemedy("failed")
  /\ UNCHANGED <<drawn, audit, held, durableVars, refused>>

\* The intent is in the journal; the API performs the request or does not.
SendRemedy ==
  /\ pc = "write" /\ ~dry /\ used < Ordinary /\ ~late
  /\ used' = used + 1
  /\ unsettled' = unsettled \cup {current}
  /\ performed' \in {performed, performed \cup {current}}
  /\ pc' = "sent"
  /\ UNCHANGED <<drawn, late, pass, reads, handovers, caseVars, todo, current,
                 audit, reportVars, open, rows, refused, runs>>

\* 201 or 4xx.
RemedyAnswered ==
  /\ pc = "sent" /\ pass = 1
  /\ ReportRemedy(IF current \in performed THEN "succeeded" ELSE "failed")
  /\ unsettled' = unsettled \ {current}
  /\ UNCHANGED <<budgetVars, audit, held, open, performed, rows, refused>>

\* 429, 5xx or no answer: the log is read once more, the request not repeated.
RemedyReconciled ==
  /\ pc = "sent" /\ pass = 1
  /\ ReadLog
  /\ IF audit'.known /\ current \in performed
     THEN /\ ReportRemedy("succeeded")
          /\ unsettled' = unsettled \ {current} /\ UNCHANGED held
     ELSE /\ ReportRemedy("unknown")
          /\ held' = TRUE /\ UNCHANGED unsettled
  /\ UNCHANGED <<open, performed, rows, refused>>

-----------------------------------------------------------------------------
(* A referral                                                              *)

Row(g, state) == [of |-> g, state |-> state]
RowsOf(g) == {j \in rows : j.of = g}

\* The log shows a referral with this key, whatever it says.
ReferralOpenAlready ==
  /\ pc = "decide" /\ pass # 1
  /\ audit.known /\ <<current.queue, current.scope>> \in audit.keys
  /\ ReportReferral("duplicate")
  /\ UNCHANGED <<budgetVars, audit, held, durableVars, refused>>

New(g) == audit.known => <<g.queue, g.scope>> \notin audit.keys

\* A row for this very referral that the log does not confirm.
ReferralBlocked ==
  /\ pc = "decide" /\ pass # 1
  /\ New(current) /\ RowsOf(current) # {}
  /\ ReportReferral("blocked")
  /\ UNCHANGED <<budgetVars, audit, held, durableVars, refused>>

MayRefer == pass # 1 /\ New(current) /\ RowsOf(current) = {}

ReferralWouldExecute ==
  /\ pc = "decide" /\ MayRefer /\ dry
  /\ ReportReferral("would")
  /\ UNCHANGED <<budgetVars, audit, held, durableVars, refused>>

ReferralNotSent ==
  /\ pc = "decide" /\ MayRefer /\ ~dry /\ used >= AttemptLimit
  /\ refused' = TRUE
  /\ ReportReferral("failed")
  /\ UNCHANGED <<budgetVars, audit, held, durableVars>>

SendReferral ==
  /\ pc = "decide" /\ MayRefer /\ ~dry
  /\ Draw
  /\ rows' = rows \cup {Row(current, "attempted")}
  /\ open' \in {open, open \cup {current}}
  /\ pc' = "sent"
  /\ UNCHANGED <<late, pass, reads, handovers, caseVars, todo, current, audit,
                 reportVars, performed, unsettled, refused, runs>>

\* A 201 may come without an identifier, its body cut short: "unnamed".
ReferralAnswered ==
  /\ pc = "sent" /\ pass # 1
  /\ IF current \in open
     THEN /\ \E result \in {"succeeded", "unnamed"} : ReportReferral(result)
          /\ rows' = (rows \ RowsOf(current)) \cup {Row(current, "succeeded")}
     ELSE /\ ReportReferral("failed")
          /\ rows' = rows \ RowsOf(current)
  /\ UNCHANGED <<budgetVars, audit, held, open, performed, unsettled, refused>>

\* The row of a request without an answer says unknown, which counts as
\* attempted does.
ReferralReconciled ==
  /\ pc = "sent" /\ pass # 1
  /\ ReadLog
  /\ IF audit'.known /\ <<current.queue, current.scope>> \in audit'.keys
     THEN /\ ReportReferral("succeeded")
          /\ rows' = (rows \ RowsOf(current)) \cup {Row(current, "succeeded")}
          /\ UNCHANGED held
     ELSE /\ ReportReferral("unknown")
          /\ held' = TRUE /\ UNCHANGED rows
  /\ UNCHANGED <<open, performed, unsettled, refused>>

-----------------------------------------------------------------------------
(* The end of a pass, and of the case                                      *)

\* _verify_by_readback looks for every identifier the report holds.
Readback ==
  IF ~dry /\ (Having("succeeded") # {} \/ receipts \cap {"succeeded", "unnamed"} # {})
  THEN ReadLog ELSE UNCHANGED <<budgetVars, audit>>

EndRemedies ==
  /\ pc = "next" /\ todo = {} /\ pass = 1
  /\ Readback
  /\ handovers' = handovers \cup FromExecution
  /\ pass' = 2 /\ todo' = Groups(handovers', CaseScope) /\ UNCHANGED pc
  /\ UNCHANGED <<late, reads, caseVars, current, reportVars, durableVars,
                 refused, runs>>

EndReferrals ==
  /\ pc = "next" /\ todo = {} /\ pass # 1
  /\ Readback
  /\ pc' = IF pass = 2 THEN "reply" ELSE "record"
  /\ UNCHANGED <<late, pass, reads, handovers, caseVars, todo, current,
                 reportVars, durableVars, refused, runs>>

\* By the model or by the template.
ReplyDrafted ==
  /\ pc = "reply"
  /\ pc' = "record"
  /\ UNCHANGED <<budgetVars, late, pass, reads, handovers, caseVars, todo, current,
                 audit, reportVars, durableVars, refused, runs>>

\* The record is written, and begin_case of the next case forgets the rest.
CaseRecorded ==
  /\ pc = "record"
  /\ pc' = "idle" /\ pass' = 1 /\ dry' = FALSE /\ handovers' = {} /\ todo' = {}
  /\ NewCase
  /\ UNCHANGED <<durableVars, runs>>

-----------------------------------------------------------------------------
ReadResult == {"ok", "error", "lost", "exhausted"}

Progress ==
  \/ IdentityNotConfirmed \/ FactsGathered
  \/ \E result \in ReadResult :
       \/ IdentityRead(result) \/ ReadRaises(result) \/ FactsRead(result)
       \/ PlanRead(result) \/ RefreshFails(result)
  \/ \E p \in Plans : Planned(p)
  \/ \E x \in todo : Consult(x)
  \/ RemedySkipped \/ RemedyProceeds \/ Refreshed \/ RemedyWouldExecute
  \/ RemedyNotSent \/ SendRemedy \/ RemedyAnswered \/ RemedyReconciled
  \/ ReferralOpenAlready \/ ReferralBlocked \/ ReferralWouldExecute
  \/ ReferralNotSent \/ SendReferral \/ ReferralAnswered \/ ReferralReconciled
  \/ EndRemedies \/ EndReferrals \/ ReplyDrafted \/ CaseRecorded

Next ==
  \/ Progress
  \/ \E d \in BOOLEAN : StartCase(d)
  \/ DateUnknown \/ Interrupt \/ Killed \/ DeadlinePasses

Spec == Init /\ [][Next]_vars

\* Every call of a case returns: reads and writes have timeouts.
FairSpec == Spec /\ WF_vars(Progress)

-----------------------------------------------------------------------------
(* Properties                                                              *)

Referral == [queue : Queue, scope : Scope, clauses : SUBSET Clause]

\* Every variable has its type (the locals of run_case, OpsClient, Executor).
TypeOK ==
  /\ used \in Nat /\ drawn \in Nat /\ reads \in Nat /\ runs \in Nat
  /\ late \in BOOLEAN /\ dry \in BOOLEAN /\ confirmed \in BOOLEAN
  /\ facts \in BOOLEAN /\ needs \in BOOLEAN /\ held \in BOOLEAN
  /\ refused \in BOOLEAN
  /\ pc \in {"idle", "identity", "facts", "plan", "next", "decide", "refresh",
             "write", "sent", "reply", "record"}
  /\ pass \in 1..3
  /\ handovers \subseteq HandoverItem
  /\ todo \subseteq (IF pass = 1 THEN Remedies ELSE Referral)
  /\ audit \in [known : BOOLEAN, keys : SUBSET (Queue \X Scope)]
  /\ results \in [Remedies -> {"none", "preblocked", "blocked", "duplicate",
                               "would", "succeeded", "failed", "unknown"}]
  /\ receipts \subseteq {"blocked", "duplicate", "would", "succeeded", "unnamed",
                         "failed", "unknown"}
  /\ open \subseteq Referral
  /\ rows \subseteq [of : Referral, state : {"attempted", "succeeded"}]
  /\ performed \subseteq Remedies /\ unsettled \subseteq Remedies

\* A referral is refused for lack of attempts only after the reserve was drawn
\* in full by referrals and readings of the log: what ordinary requests spend
\* never touches it (ops_client._spend_attempt).
OrdinaryLeavesTheReserve == refused => drawn >= Reserved

\* Routing loses nothing: each item of the case is part of a referral, there
\* are at most MaxEscalations, and an urgent queue that could keep a referral
\* of its own has it (pipeline._build_escalations).
EveryItemIsRouted ==
  LET groups == Groups(handovers, CaseScope)
      urgent == QueuesOf(handovers) \cap Urgent
  IN  /\ Cardinality(groups) <= MaxEscalations
      /\ \A it \in handovers : \E g \in groups : it.clause \in g.clauses
      /\ Cardinality(urgent) < MaxEscalations =>
           \A q \in urgent : \E g \in groups : g.queue = q

\* A case that does not call itself failed has its referrals in the API: one
\* per group after the two passes, at least one after a recovery
\* (pipeline._determine_status, the recovery of run_case).
HandoverReachesTheDesk ==
  pc = "record" /\ ~dry /\ handovers # {} /\ Status # "failed" =>
    IF pass = 3 THEN open # {}
    ELSE \A g \in Groups(handovers, CaseScope) :
           \E o \in open : o.queue = g.queue /\ o.scope = g.scope

\* A case that asks nobody to act left nothing behind: every remedy its plan
\* let through is in the API's log, and a resolved case has no other
\* (pipeline._determine_status with _handovers_from_execution).
QuietEndMeansSettled ==
  pc = "record" /\ ~dry =>
    /\ Status \in {"resolved", "needs_clarification"} =>
         \A r \in Remedies : results[r] \in {"none", "preblocked"} \/ r \in performed
    /\ Status = "resolved" => Having("preblocked") = {}

\* A case that was started ends with a record, whatever raises and however
\* the budget stands, unless the process is killed.
EveryCaseLeavesARecord == pc = "identity" ~> pc \in {"record", "idle"}

\* Violated.  A write whose outcome is unknown is put in front of a person
\* (pipeline._handovers_from_execution): a case that does not call itself
\* failed has an open referral that says so.
EveryUnknownIsReferred ==
  pc = "record" /\ ~dry /\ pass = 2 /\ Status # "failed" /\ Having("unknown") # {} =>
    \E o \in open : "uncertain" \in o.clauses

=============================================================================
