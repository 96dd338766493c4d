--------------------------- MODULE RemedyExecutor ---------------------------
(***************************************************************************)
(* The write path of the disruption desk for one booking: the executor of  *)
(* a run, the durable journal it writes ahead to, the operations API that  *)
(* performs the writes, and the network between them.                      *)
(*                                                                         *)
(* One run at a time (journal.Journal holds an OS lock for the life of the *)
(* process), but any number one after the other; a run may crash between   *)
(* any two of its steps, and each durable statement of the journal is a    *)
(* step, since SQLite commits each by itself (isolation_level=None).  A    *)
(* request that was sent may be performed, refused, lost, answered too     *)
(* late, or performed long after the run that sent it is gone.  The        *)
(* operations API loses its memory when it is reset or restarted.          *)
(*                                                                         *)
(* Time: a journal row is stale when it was written before the last reset  *)
(* marker.  Rows carry the number of markers present when they were        *)
(* written, so stale means a smaller number (clocks do not run backwards). *)
(***************************************************************************)
EXTENDS Naturals, FiniteSets, Remedies

CONSTANTS
  Proposals,    \* the remedies and referrals a plan may propose
  Foreign,      \* the remedies another desk may perform on the same booking
  MaxIntents,   \* bound: rows of the journal
  MaxForeign,   \* bound: writes by the other desk
  MaxWipes      \* bound: resets and restarts of the operations API

ASSUME BoundsAssumption ==
  MaxIntents \in Nat /\ MaxForeign \in Nat /\ MaxWipes \in Nat
ASSUME ProposalsAssumption ==
  \A r \in Proposals \cup Foreign : r.kind \in Kinds

Key      == 1..MaxIntents           \* journal keys (action_intents.id)
Other    == 0                       \* author of a write that is not ours
NoRemedy == [kind |-> "none"]
NoReply  == [status |-> "none", id |-> <<>>]
NoId     == <<>>
Unread   == [known |-> FALSE, writes |-> {}]

Open == {"attempted", "unknown", "succeeded"}    \* journal.OPEN_STATES
NoRow == [state |-> "none", fp |-> NoRemedy, id |-> NoId, era |-> 0,
          grants |-> {}, grantState |-> "none"]

VARIABLES
  \* the operations API (memory only)
  writes,     \* the write log of GET /_audit
  seq,        \* State.seq
  \* the network
  wire,       \* journal keys of the requests under way to the API
  reply,      \* the answer to the request the run waits for
  \* the journal (durable)
  journal,    \* action_intents joined with benefit_grants
  nextKey,    \* next action_intents.id
  marker,     \* number of reset_markers
  \* the run that holds the lock
  pc, dry, pass, todo, current, key, audit, held, report,
  \* history, for the properties only
  ledger,     \* every write ever performed
  others,     \* writes performed by the other desk
  wipes       \* resets and restarts so far

apiVars     == <<writes, seq>>
netVars     == <<wire, reply>>
journalVars == <<journal, nextKey, marker>>
runVars     == <<dry, pass, todo, current, key, audit, held, report>>
histVars    == <<ledger, others, wipes>>
vars == <<apiVars, netVars, journalVars, pc, runVars, histVars>>

Idle == "idle"
\* What a run claims of a proposal.  Blocked, failed, unknown and would-execute
\* all claim nothing.
Results == {"none", "duplicate", "succeeded"}
Control == {Idle, "marking", "next", "decide", "intent", "sent", "accepted",
            "refused", "unsure", "settle", "reconcile"}

-----------------------------------------------------------------------------
(* Queries of the journal and of the write log                             *)

Rows == {k \in Key : journal[k].state \in Open}      \* actions_for_booking

Stale(k) == journal[k].era < marker

Unsettled(k) == journal[k].state \in {"attempted", "unknown"}

Prior(r) == {k \in Rows : journal[k].fp = r}         \* find_prior_actions

\* by_id: of the rows with this identifier the last one read wins.
Linked(id) == {k \in Rows : /\ journal[k].id = id /\ id # NoId
                            /\ \A l \in Rows : journal[l].id = id => l <= k}

\* Mutant: only grants that were confirmed count.
GrantedToConfirmedOnly(r) ==
  {k \in Key : /\ journal[k].grantState = "succeeded" /\ ~Stale(k)
               /\ journal[k].grants \cap BenefitKeys(r) # {}}

\* find_benefit_grants: whatever the exact parameters were.
GrantedTo(r) == {k \in Key : /\ journal[k].grantState \in Open
                             /\ ~Stale(k)
                             /\ journal[k].grants \cap BenefitKeys(r) # {}}

ServerEquivalents(r) == {w \in audit.writes : Equivalent(w.remedy, r)}

-----------------------------------------------------------------------------
(* The checks of _execute_one, in its order                                *)

\* The write log already shows this remedy; a payment counts only if the
\* journal ties its identifier to this very fingerprint.
Duplicate(r) ==
  \E w \in ServerEquivalents(r) :
    r.kind \in MoneyKinds => \E k \in Linked(w.id) : journal[k].fp = r

\* A write on the same passengers that the journal does not tie to others.
Overlapped(r) ==
  \E w \in audit.writes :
    /\ Overlaps(w.remedy, r)
    /\ ~\E k \in Linked(w.id) : /\ journal[k].grants # {}
                                /\ journal[k].grants \cap BenefitKeys(r) = {}

\* Mutant: an unknown outcome is remembered by the process, not by the journal.
RemedyBarredInMemory(r) ==
  ~IsReferral(r) /\ (~audit.known \/ Overlapped(r) \/ held)

\* Checks that a referral is exempt from.
RemedyBarred(r) ==
  /\ ~IsReferral(r)
  /\ \/ ~audit.known
     \/ \E k \in Rows : ~Stale(k) /\ Unsettled(k)
     \/ Overlapped(r)
     \/ held

\* Mutant: what the write log does not show has not happened.
PriorBarsUnsettledOnly(r) == \E k \in Prior(r) : Unsettled(k)

\* An earlier row for the same fingerprint that the write log does not show.
PriorBars(r) ==
  \/ \E k \in Prior(r) : Unsettled(k) \/ ~Stale(k)
  \/ Prior(r) # {} /\ ~audit.known

Barred(r) == RemedyBarred(r) \/ GrantedTo(r) # {} \/ PriorBars(r)

\* Kinds with a mutable precondition (seats and fare, rooms and rate).
Refreshed(r) == r.kind \in {"rebooking", "hotel"}

-----------------------------------------------------------------------------
Init ==
  /\ writes = {} /\ seq = 0 /\ wire = {} /\ reply = NoReply
  /\ journal = [k \in Key |-> NoRow] /\ nextKey = 1 /\ marker = 0
  /\ pc = Idle /\ dry = FALSE /\ pass = 1 /\ todo = {}
  /\ current = NoRemedy /\ key = 0 /\ audit = Unread /\ held = FALSE
  /\ report = [r \in Proposals |-> "none"]
  /\ ledger = {} /\ others = 0 /\ wipes = 0

(***************************************************************************)
(* The operations API                                                      *)
(***************************************************************************)
Perform(by, r) ==
  LET w == [by |-> by, remedy |-> r, id |-> <<IdPrefix[r.kind], seq + 1>>,
            epoch |-> wipes]
  IN  /\ seq' = seq + 1
      /\ writes' = writes \cup {w}
      /\ ledger' = ledger \cup {w}

Awaiting(k) == pc = "sent" /\ key = k

\* An answer reaches the run only while it waits for that very request.
Answer(k, status, id) ==
  reply' = IF Awaiting(k) THEN [status |-> status, id |-> id] ELSE reply

\* A POST handler performs the write under STATE.lock and answers 201.
ServerPerforms(k) ==
  /\ k \in wire
  /\ wire' = wire \ {k}
  /\ Perform(k, journal[k].fp)
  /\ Answer(k, "created", <<IdPrefix[journal[k].fp.kind], seq + 1>>)
  /\ UNCHANGED <<journalVars, pc, runVars, others, wipes>>

\* A 4xx refuses; a 429 or a 5xx performs nothing either, but the client
\* cannot know that.
ServerRefuses(k) ==
  /\ k \in wire
  /\ wire' = wire \ {k}
  /\ \E status \in {"refused", "unsure"} : Answer(k, status, NoId)
  /\ UNCHANGED <<apiVars, journalVars, pc, runVars, histVars>>

\* The request never reaches the API.
RequestLost(k) ==
  /\ k \in wire
  /\ wire' = wire \ {k}
  /\ UNCHANGED <<apiVars, reply, journalVars, pc, runVars, histVars>>

\* A colleague at another desk uses the same API.
ForeignWrite(r) ==
  /\ others < MaxForeign
  /\ others' = others + 1
  /\ Perform(Other, r)
  /\ UNCHANGED <<netVars, journalVars, pc, runVars, wipes>>

\* The API process ends and a new one starts: nothing is remembered, and the
\* journal is not told.  A request under way may be lost, or reach the new one.
ServerRestarts ==
  /\ wipes < MaxWipes
  /\ wipes' = wipes + 1
  /\ writes' = {} /\ seq' = 0
  /\ UNCHANGED <<netVars, journalVars, pc, runVars, ledger, others>>

(***************************************************************************)
(* The command line: --reset-ops, under the lock, before any case          *)
(***************************************************************************)
ResetServer ==
  /\ pc = Idle /\ wipes < MaxWipes
  /\ wipes' = wipes + 1
  /\ writes' = {} /\ seq' = 0
  /\ pc' = "marking"
  /\ UNCHANGED <<netVars, journalVars, runVars, ledger, others>>

\* Mutant: the marker is written again and again.
RecordResetRepeats ==
  /\ pc = "marking" /\ marker < MaxWipes + 2
  /\ marker' = marker + 1
  /\ UNCHANGED <<apiVars, netVars, journal, nextKey, pc, runVars, histVars>>

RecordReset ==
  /\ pc = "marking"
  /\ marker' = marker + 1
  /\ pc' = Idle
  /\ UNCHANGED <<apiVars, netVars, journal, nextKey, runVars, histVars>>

(***************************************************************************)
(* A run                                                                   *)
(***************************************************************************)
\* Whatever the process only held in memory.
FreshRun ==
  /\ pass' = 1 /\ current' = NoRemedy /\ key' = 0 /\ reply' = NoReply
  /\ audit' = Unread /\ held' = FALSE
  /\ report' = [r \in Proposals |-> "none"]

RoomFor(P) == nextKey + Cardinality(P) <= MaxIntents + 1

StartRun(P, d) ==
  /\ pc = Idle
  /\ \A r \in P : ~IsReferral(r)
  /\ RoomFor(P)
  /\ FreshRun
  /\ todo' = P /\ dry' = d /\ pc' = "next"
  /\ UNCHANGED <<apiVars, wire, journalVars, histVars>>

\* The process is killed, or ends; the OS releases the lock.
EndProcess ==
  /\ FreshRun
  /\ todo' = {} /\ dry' = FALSE /\ pc' = Idle
  /\ UNCHANGED <<apiVars, wire, journalVars, histVars>>

Crash == pc # Idle /\ EndProcess

\* _audit: the cached log, or else GET /_audit, which may fail.
ReadAudit(refresh) ==
  IF audit.known /\ ~refresh
  THEN audit' = audit
  ELSE \/ audit' = [known |-> TRUE, writes |-> writes]
       \/ audit' = Unread

\* execute: the next proposal in EXECUTION_ORDER; its duplicate detection
\* starts by consulting the write log.
Consult(r) ==
  /\ pc = "next" /\ r \in todo
  /\ \A s \in todo : ExecutionOrder[r.kind] <= ExecutionOrder[s.kind]
  /\ todo' = todo \ {r}
  /\ current' = r
  /\ ReadAudit(FALSE)
  /\ pc' = "decide"
  /\ UNCHANGED <<apiVars, netVars, journalVars, dry, pass, key, held, report, histVars>>

\* _execute_one returns, and its locals are gone.
Conclude(result) ==
  /\ report' = [report EXCEPT ![current] = result]
  /\ current' = NoRemedy /\ key' = 0 /\ reply' = NoReply
  /\ pc' = "next"

SkipDuplicate ==
  /\ pc = "decide" /\ Duplicate(current)
  /\ Conclude("duplicate")
  /\ UNCHANGED <<apiVars, wire, journalVars, dry, pass, todo, audit, held, histVars>>

\* Barred by what is known, or by the precondition re-read just before the write.
Block ==
  /\ pc = "decide" /\ ~Duplicate(current)
  /\ Barred(current) \/ Refreshed(current)
  /\ Conclude("none")
  /\ UNCHANGED <<apiVars, wire, journalVars, dry, pass, todo, audit, held, histVars>>

WouldExecute ==
  /\ pc = "decide" /\ ~Duplicate(current) /\ ~Barred(current)
  /\ dry
  /\ Conclude("none")
  /\ UNCHANGED <<apiVars, wire, journalVars, dry, pass, todo, audit, held, histVars>>

\* Mutant: the dry-run test is missing.
RecordIntentAlways ==
  /\ pc = "decide" /\ ~Duplicate(current) /\ ~Barred(current)
  /\ nextKey \in Key
  /\ journal' = [journal EXCEPT ![nextKey] =
                   [NoRow EXCEPT !.state = "attempted", !.fp = current, !.era = marker]]
  /\ key' = nextKey /\ nextKey' = nextKey + 1
  /\ pc' = "intent"
  /\ UNCHANGED <<apiVars, netVars, marker, dry, pass, todo, current, audit, held,
                 report, histVars>>

\* record_intent: on disk before anything is sent.
RecordIntent ==
  /\ pc = "decide" /\ ~Duplicate(current) /\ ~Barred(current)
  /\ ~dry /\ nextKey \in Key
  /\ journal' = [journal EXCEPT ![nextKey] =
                   [NoRow EXCEPT !.state = "attempted", !.fp = current, !.era = marker]]
  /\ key' = nextKey /\ nextKey' = nextKey + 1
  /\ pc' = "intent"
  /\ UNCHANGED <<apiVars, netVars, marker, dry, pass, todo, current, audit, held,
                 report, histVars>>

\* record_benefit_grants: one committed INSERT per benefit key.
RecordGrant(b) ==
  /\ pc = "intent" /\ b \in BenefitKeys(current) \ journal[key].grants
  /\ journal' = [journal EXCEPT ![key].grants = @ \cup {b},
                               ![key].grantState = "attempted"]
  /\ UNCHANGED <<apiVars, netVars, nextKey, marker, pc, runVars, histVars>>

GrantsRecorded == journal[key].grants = BenefitKeys(current)

\* Mutant: the request leaves before its benefit keys are on disk.
DispatchAtOnce ==
  /\ pc = "intent"
  /\ wire' = wire \cup {key} /\ reply' = NoReply
  /\ pc' = "sent"
  /\ UNCHANGED <<apiVars, journalVars, runVars, histVars>>

\* _write: POST exactly once.
Dispatch ==
  /\ pc = "intent" /\ GrantsRecorded
  /\ wire' = wire \cup {key} /\ reply' = NoReply
  /\ pc' = "sent"
  /\ UNCHANGED <<apiVars, journalVars, runVars, histVars>>

\* The attempt budget or the deadline forbids the POST: "Not sent".
NotSent ==
  /\ pc = "intent" /\ GrantsRecorded
  /\ pc' = "refused"
  /\ UNCHANGED <<apiVars, netVars, journalVars, runVars, histVars>>

Outcome == [created |-> "accepted", refused |-> "refused", unsure |-> "unsure"]

ReceiveReply ==
  /\ pc = "sent" /\ reply.status # "none"
  /\ pc' = Outcome[reply.status]
  /\ UNCHANGED <<apiVars, netVars, journalVars, runVars, histVars>>

\* Mutant: send it again.
TimeoutRetries ==
  /\ pc = "sent"
  /\ wire' = wire \cup {key} /\ reply' = NoReply
  /\ UNCHANGED <<apiVars, journalVars, pc, runVars, histVars>>

\* Mutant: wait for an answer however long it takes.
TimeoutNever ==
  /\ pc = "sent" /\ reply.status # "none"
  /\ pc' = "unsure" /\ reply' = NoReply
  /\ UNCHANGED <<apiVars, wire, journalVars, runVars, histVars>>

\* No usable answer in time; a later one is not read.
Timeout ==
  /\ pc = "sent"
  /\ pc' = "unsure" /\ reply' = NoReply
  /\ UNCHANGED <<apiVars, wire, journalVars, runVars, histVars>>

\* Mutant: no answer is taken for a refusal.
SettledAsFailed == [accepted |-> "succeeded", refused |-> "failed", unsure |-> "failed"]

SettledAs == [accepted |-> "succeeded", refused |-> "failed", unsure |-> "unknown"]

\* update_outcome
SettleIntent ==
  /\ pc \in {"accepted", "refused", "unsure"}
  /\ journal' = [journal EXCEPT ![key].state = SettledAs[pc],
                               ![key].id = IF pc = "accepted" THEN reply.id ELSE NoId]
  /\ pc' = "settle"
  /\ UNCHANGED <<apiVars, netVars, nextKey, marker, runVars, histVars>>

\* update_benefit_state, a statement of its own; it touches no row when the
\* action carries no benefit.
SettleGrants ==
  /\ pc = "settle"
  /\ journal' = [journal EXCEPT ![key].grantState =
                   IF journal[key].grants = {} THEN @ ELSE journal[key].state]
  /\ IF journal[key].state = "unknown"
     THEN pc' = "reconcile" /\ UNCHANGED <<report, current, key, reply>>
     ELSE Conclude(IF journal[key].state = "succeeded" THEN "succeeded" ELSE "none")
  /\ UNCHANGED <<apiVars, wire, nextKey, marker, dry, pass, todo, audit, held, histVars>>

\* _reconcile: look the write up in a fresh log; the last equivalent one is
\* taken for ours.
Reconcile ==
  /\ pc = "reconcile"
  /\ ReadAudit(TRUE)
  /\ LET found == {w \in audit'.writes : Equivalent(w.remedy, current)}
     IN  IF found # {}
         THEN \E w \in found :
                /\ \A v \in found : v.id[2] <= w.id[2]
                /\ reply' = [status |-> "created", id |-> w.id]
                /\ pc' = "accepted"
                /\ UNCHANGED <<held, report, current, key>>
         ELSE Conclude("none") /\ held' = TRUE
  /\ UNCHANGED <<apiVars, wire, journalVars, dry, pass, todo, histVars>>

\* _verify_by_readback, at the end of a pass: once anything was written the log
\* is read again.
Readback ==
  IF ~dry /\ \E r \in Proposals : report[r] = "succeeded"
  THEN ReadAudit(TRUE) ELSE UNCHANGED audit

\* The second pass raises referrals.
SecondPass(E) ==
  /\ pc = "next" /\ pass = 1 /\ todo = {}
  /\ \A r \in E : IsReferral(r)
  /\ RoomFor(E)
  /\ Readback
  /\ todo' = E /\ pass' = 2
  /\ UNCHANGED <<apiVars, netVars, journalVars, pc, dry, current, key, held, report,
                 histVars>>

FinishRun == pc = "next" /\ pass # 1 /\ todo = {} /\ EndProcess

\* An exception leaves run_case at any point: what the proposal at hand had put
\* in the journal stays as it is, and the same executor, with what it knows,
\* raises the referrals of the recovery, of which there is always one.  A pass
\* that had come to its end may have read the log again.  An exception in the
\* recovery ends the run.
Recover(E) ==
  /\ pc \notin {Idle, "marking"} /\ pass # 3
  /\ E # {} /\ \A r \in E : IsReferral(r)
  /\ RoomFor(E)
  /\ todo' = E /\ pass' = 3 /\ pc' = "next"
  /\ current' = NoRemedy /\ key' = 0 /\ reply' = NoReply
  /\ UNCHANGED audit \/ (pc = "next" /\ todo = {} /\ Readback)
  /\ UNCHANGED <<apiVars, wire, journalVars, dry, held, report, histVars>>

-----------------------------------------------------------------------------
Server ==
  \/ \E k \in Key : ServerPerforms(k) \/ ServerRefuses(k) \/ RequestLost(k)
  \/ ServerRestarts
  \/ \E r \in Foreign : ForeignWrite(r)

Run ==
  \/ \E r \in Proposals : Consult(r)
  \/ SkipDuplicate \/ Block \/ WouldExecute \/ RecordIntent
  \/ \E b \in BenefitKeys(current) : RecordGrant(b)
  \/ Dispatch \/ NotSent \/ ReceiveReply \/ Timeout
  \/ SettleIntent \/ SettleGrants \/ Reconcile
  \/ \E E \in SUBSET Proposals : SecondPass(E)
  \/ FinishRun

CommandLine ==
  \/ \E P \in SUBSET Proposals, d \in BOOLEAN : StartRun(P, d)
  \/ ResetServer \/ RecordReset \/ Crash

Next == Server \/ Run \/ CommandLine \/ \E E \in SUBSET Proposals : Recover(E)

Spec == Init /\ [][Next]_vars

\* A process that is not killed takes its next step: every call it makes
\* returns, a POST by its answer or by the client's timeout.
FairSpec == Spec /\ WF_vars(Run)

-----------------------------------------------------------------------------
(* Properties                                                              *)

AllBenefits == UNION {BenefitKeys(r) : r \in Proposals}
Ids == {NoId} \cup ({IdPrefix[k] : k \in Kinds} \X Nat)
States == Open \cup {"none", "failed"}
Row == [state : States, fp : Proposals \cup {NoRemedy}, id : Ids, era : 0..MaxWipes,
        grants : SUBSET AllBenefits, grantState : States]
Write == [by : Key \cup {Other}, remedy : Proposals \cup Foreign, id : Ids,
          epoch : 0..MaxWipes]

\* Every variable has its type: the shape of the journal's rows, of the write
\* log and of the run's own state.
TypeOK ==
  /\ writes \subseteq ledger /\ seq \in Nat
  /\ wire \subseteq Key
  /\ reply \in [status : {"none", "created", "refused", "unsure"}, id : Ids]
  /\ journal \in [Key -> Row]
  /\ nextKey \in 1..(MaxIntents + 1)
  /\ marker \in 0..MaxWipes
  /\ pc \in Control /\ dry \in BOOLEAN /\ pass \in 1..3
  /\ todo \subseteq Proposals
  /\ current \in Proposals \cup {NoRemedy}
  /\ key \in Key \cup {0}
  /\ audit \in [known : BOOLEAN, writes : SUBSET ledger]
  /\ held \in BOOLEAN
  /\ report \in [Proposals -> Results]
  /\ ledger \subseteq Write
  /\ others \in 0..MaxForeign /\ wipes \in 0..MaxWipes
  /\ marker + (IF pc = "marking" THEN 1 ELSE 0) <= wipes

Ours(w) == w.by # Other

\* The era of a write of ours is that of its row, however late it is performed.
SameEra(v, w) == /\ Ours(v) /\ Ours(w)
                 /\ journal[v.by].era = journal[w.by].era

\* S12.2, across runs, crashes, lost answers and late requests: no two writes
\* that this desk sent in one era share a benefit, whatever their amounts, and
\* no intent is ever performed twice.
NoDoubleGrant ==
  \A v, w \in ledger :
    (SameEra(v, w) /\ v # w) =>
      /\ v.by # w.by
      /\ BenefitKeys(v.remedy) \cap BenefitKeys(w.remedy) = {}

\* The same fingerprint is not performed twice in an era.  This is what keeps
\* an unchanged re-run from raising its referral again, since a referral
\* consumes no benefit and does not need the write log to be readable.
NoRepeat ==
  \A v, w \in ledger :
    (SameEra(v, w) /\ v # w) => v.remedy # w.remedy

\* Write-ahead: a request that is under way, or was performed, has its row and
\* all its benefit keys in the journal, still in force, even if the process
\* that sent it died before it could record any outcome.
WriteAhead ==
  \A k \in wire \cup {w.by : w \in {v \in ledger : Ours(v)}} :
    /\ k < nextKey
    /\ journal[k].state \in Open
    /\ journal[k].grants = BenefitKeys(journal[k].fp)
    /\ journal[k].grants # {} => journal[k].grantState \in Open

\* A row marked failed, which frees its benefit for a later attempt, belongs to
\* a request that was not performed and can no longer be.
FailedGrantedNothing ==
  \A k \in Key :
    "failed" \in {journal[k].state, journal[k].grantState} =>
      k \notin wire /\ \A w \in ledger : w.by # k

\* In one era at most one booking or money write has a fate that nobody knows:
\* everything after it is held back until a human reconciles.
OneUnsettledRemedy ==
  \A k, l \in Key :
    (/\ Unsettled(k) /\ ~IsReferral(journal[k].fp)
     /\ Unsettled(l) /\ ~IsReferral(journal[l].fp)
     /\ journal[k].era = journal[l].era) => k = l

\* A dry run leaves the journal alone and sends nothing.
DryRunSendsNothing ==
  [][dry => UNCHANGED <<journal, nextKey>> /\ wire' \subseteq wire]_vars

\* The write path implements OneGrant: the benefit keys on disk are the claims,
\* keys settled as failed are claims given up, and what the API performed, how
\* often and with which benefits, are the grants.
Claimed  == [k \in Key |-> {journal[k].era} \X journal[k].grants]
GivenUp  == {k \in Key : journal[k].grantState = "failed"}
WritesOf(k) == {w \in ledger : w.by = k}
Granted  == [k \in Key |-> Cardinality(WritesOf(k))]
Obtained == [k \in Key |-> UNION {BenefitKeys(w.remedy) : w \in WritesOf(k)}]

Promise == INSTANCE OneGrant WITH
             Requests <- Key, Eras <- 0..MaxWipes, Benefits <- AllBenefits,
             era <- marker, claimed <- Claimed, released <- GivenUp,
             granted <- Granted, obtained <- Obtained
GrantsOnce == Promise!Spec

\* The same remedy for the same event, up to what only the fingerprint sees.
SameRemedy(w, r) == /\ w.kind = r.kind /\ w.event = r.event
                    /\ w.detail = r.detail /\ w.people = r.people

\* What a run reports as done (succeeded, reconciled, or skipped because it
\* already exists) was done for that event: somebody performed this remedy.
ReportedMeansDone ==
  \A r \in Proposals :
    report[r] \in {"succeeded", "duplicate"} =>
      \E w \in ledger : SameRemedy(w.remedy, r)

\* A write whose identifier the API gave to no other.
Identified(w) == \A v \in ledger : v.id = w.id => v = w

\* A remedy that another desk had performed when this run read the write log is
\* not granted again, although the other desk's journal cannot be seen: unless
\* the API, having lost its memory, gave the identifier of that write before or
\* gives it again.
RespectsOthers ==
  [][\A k \in wire' \ wire : \A w \in audit.writes :
       ~Ours(w) /\ Identified(w) =>
         BenefitKeys(w.remedy) \cap BenefitKeys(journal[k].fp) = {}]_vars

\* Under the fairness of FairSpec every run ends, or is killed: no answer that
\* never comes, and no loss of the API's memory, leaves it waiting.
EveryRunEnds == pc = "next" ~> pc = Idle

-----------------------------------------------------------------------------
(* Statements of the code's own comments, and what the code does           *)

\* executor.py: "A rejected write granted nothing, so it must not block a later
\* attempt."  The benefit of a row settled as failed does not stand in the way.
RejectedDoesNotBlock ==
  pc = "decide" => \A k \in GrantedTo(current) : journal[k].state # "failed"
=============================================================================
