------------------------ MODULE RemedyExecutorProofs ------------------------
(***************************************************************************)
(* The safety of the write path for any set of proposals, any number of    *)
(* intents, of resets and of writes by other desks.                        *)
(*                                                                         *)
(* The argument.  None of the properties is inductive as it stands: what   *)
(* the ledger shows at the end was decided when the run read the journal,  *)
(* several steps before the request left and possibly many runs before it  *)
(* was performed.  IInv carries the decision over that distance: the check *)
(* of the benefit keys is remembered as ClaimFree while they are written,  *)
(* then as Exclusive once they are on disk; SentOK says that a request     *)
(* which is under way keeps them in force; LedgerOK ties what was          *)
(* performed back to its row.                                              *)
(*                                                                         *)
(* For what a run reports, Claiming follows the outcome from the answer,   *)
(* or from the log, to the report.  For the other desk, Vetted carries the *)
(* decision from the log to the request; it rests on LinksOK: a row tied   *)
(* to a write is like it, unless its identifier was given twice.  Both     *)
(* speak of events only under a condition on the instance, LogTellsApart:  *)
(* equivalent writes are the same remedy.                                  *)
(***************************************************************************)
EXTENDS RemedyExecutor, FiniteSetTheorems, TLAPS

Sent(k) == k \in wire \/ \E w \in ledger : w.by = k

\* The phases in which the run owns a row of the journal.
Holding == {"intent", "sent", "accepted", "refused", "unsure", "settle", "reconcile"}

\* Keys not yet given out have no row; the others have one, for a proposal.
RowsOK ==
  \A k \in Key :
    /\ k >= nextKey => journal[k] = NoRow
    /\ k < nextKey => journal[k].fp \in Proposals
    /\ journal[k].era <= marker
    /\ journal[k].grants = {} <=> journal[k].grantState = "none"

\* What the run in progress knows of its own row.
RunOK ==
  /\ pc = "decide" => current \in Proposals
  /\ pc \in Holding =>
       /\ key \in Key /\ key < nextKey
       /\ current \in Proposals /\ journal[key].fp = current
       /\ journal[key].era = marker
       /\ journal[key].grants \subseteq BenefitKeys(current)
       /\ journal[key].grantState # "failed"
       /\ pc # "intent" => journal[key].grants = BenefitKeys(current)
       /\ pc # "settle" => Unsettled(key)
       /\ pc = "settle" => journal[key].state \in {"succeeded", "failed", "unknown"}
  /\ (pc \in {"intent", "refused"} \/ (pc = "sent" /\ reply.status = "refused"))
       => ~Sent(key)

\* WriteAhead and FailedGrantedNothing, row by row.
SentOK ==
  \A k \in Key : Sent(k) =>
    /\ k < nextKey
    /\ journal[k].state \in Open
    /\ journal[k].grants = BenefitKeys(journal[k].fp)
    /\ journal[k].grantState # "failed"

\* A request is performed once, for the proposal of its row.
LedgerOK ==
  \A w \in ledger : w.by # Other =>
    /\ w.by \notin wire
    /\ w.remedy = journal[w.by].fp
    /\ \A v \in ledger : v.by = w.by => v = w

\* Of two rows of one era that are in force, no benefit key is in both.
Exclusive ==
  \A k, l \in Key :
    (/\ k # l /\ journal[k].era = journal[l].era
     /\ journal[k].grantState # "failed" /\ journal[l].grantState # "failed")
       => journal[k].grants \cap journal[l].grants = {}

\* The keys that the run is about to record are still free.
ClaimFree ==
  pc = "intent" =>
    \A l \in Key : (/\ l # key /\ journal[l].era = marker
                    /\ journal[l].grantState # "failed")
                      => journal[l].grants \cap BenefitKeys(current) = {}

\* One row in force per fingerprint and era.
OpenDistinct ==
  \A k, l \in Key :
    (/\ k # l /\ journal[k].era = journal[l].era
     /\ journal[k].state \in Open /\ journal[l].state \in Open)
       => journal[k].fp # journal[l].fp

IInv ==
  /\ TypeOK /\ RowsOK /\ RunOK /\ SentOK /\ LedgerOK
  /\ Exclusive /\ ClaimFree /\ OpenDistinct /\ OneUnsettledRemedy

-----------------------------------------------------------------------------
(* Vocabulary                                                              *)

\* What a proposal may consume is among the benefits of the model.
LEMMA BenefitsTyped == \A r \in Proposals : BenefitKeys(r) \subseteq AllBenefits
  BY DEF AllBenefits

\* The identifier of a write is one of the identifiers of the model.
LEMMA IdsTyped ==
  ASSUME TypeOK, NEW r \in Proposals \cup Foreign
  PROVE  <<IdPrefix[r.kind], seq + 1>> \in Ids
<1>1. r.kind \in Kinds BY ProposalsAssumption
<1>2. seq + 1 \in Nat BY DEF TypeOK
<1> QED BY <1>1, <1>2 DEF Ids

\* The empty row has the type of a row.
LEMMA NoRowTyped == NoRow \in Row
  BY BoundsAssumption DEF NoRow, Row, States, Ids

\* Nothing received yet is a reply too.
LEMMA NoReplyTyped ==
  NoReply \in [status : {"none", "created", "refused", "unsure"}, id : Ids]
BY DEF NoReply, Ids, NoId

-----------------------------------------------------------------------------
(* Frames: what a step that leaves some variables alone cannot disturb     *)

\* Nothing was written to the journal.
LEMMA JournalFrame ==
  ASSUME IInv, UNCHANGED journalVars
  PROVE  RowsOK' /\ Exclusive' /\ OpenDistinct' /\ OneUnsettledRemedy'
<1> USE DEF IInv, journalVars
<1>1. RowsOK' BY DEF RowsOK
<1>2. Exclusive' BY DEF Exclusive
<1>3. OpenDistinct' BY DEF OpenDistinct
<1>4. OneUnsettledRemedy' BY DEF OneUnsettledRemedy, Unsettled
<1> QED BY <1>1, <1>2, <1>3, <1>4

\* Nothing was written to the journal, sent or performed.
LEMMA SentFrame ==
  ASSUME IInv, UNCHANGED <<journalVars, ledger>>, wire' \subseteq wire
  PROVE  SentOK' /\ LedgerOK' /\ \A k : Sent(k)' => Sent(k)
<1> USE DEF IInv, journalVars
<1>1. \A k : Sent(k)' => Sent(k) BY DEF Sent
<1>2. SentOK' BY <1>1 DEF SentOK
<1>3. LedgerOK' BY DEF LedgerOK
<1> QED BY <1>1, <1>2, <1>3

-----------------------------------------------------------------------------
(* The operations API and the network                                      *)

\* Performing a request under way: its row is in force and keeps its keys.
LEMMA ServerPerformsStep ==
  ASSUME IInv, NEW k \in Key, ServerPerforms(k)
  PROVE  IInv'
<1> USE DEF IInv
<1> DEFINE w == [by |-> k, remedy |-> journal[k].fp,
                 id |-> <<IdPrefix[journal[k].fp.kind], seq + 1>>, epoch |-> wipes]
<1>1. /\ k \in wire /\ wire' = wire \ {k}
      /\ seq' = seq + 1 /\ writes' = writes \cup {w} /\ ledger' = ledger \cup {w}
      /\ UNCHANGED <<journalVars, pc, runVars, others, wipes>>
      /\ Answer(k, "created", w.id)
  BY DEF ServerPerforms, Perform, Key, Other
<1> HIDE DEF w
<1>2. /\ w.by = k /\ w.remedy = journal[k].fp
      /\ w.id \in Ids /\ w \in Write /\ journal[k].fp \in Proposals
  <2>1. journal[k].fp \in Proposals BY <1>1 DEF SentOK, Sent, RowsOK
  <2>2. <<IdPrefix[journal[k].fp.kind], seq + 1>> \in Ids BY <2>1, IdsTyped
  <2>3. wipes \in 0..MaxWipes BY DEF TypeOK
  <2> QED BY <2>1, <2>2, <2>3 DEF w, Write
<1>3. \A l : Sent(l)' <=> Sent(l)
  BY <1>1, <1>2 DEF Sent
<1>4. TypeOK'
  BY <1>1, <1>2 DEF TypeOK, Answer, Awaiting, journalVars, runVars
<1>5. RowsOK' /\ Exclusive' /\ OpenDistinct' /\ OneUnsettledRemedy'
  BY <1>1, JournalFrame
<1>6. RunOK'
  BY <1>1, <1>3 DEF RunOK, Answer, Awaiting, journalVars, runVars, Unsettled, SentOK
<1>7. SentOK' BY <1>1, <1>3 DEF SentOK, journalVars
<1>8. LedgerOK' BY <1>1, <1>2 DEF LedgerOK, journalVars
<1>9. ClaimFree' BY <1>1 DEF ClaimFree, journalVars, runVars
<1> QED BY <1>4, <1>5, <1>6, <1>7, <1>8, <1>9

\* A request that is refused or lost performs nothing.
LEMMA RequestEndsStep ==
  ASSUME IInv, NEW k \in Key, ServerRefuses(k) \/ RequestLost(k)
  PROVE  IInv'
<1> USE DEF IInv
<1>1. /\ k \in wire /\ wire' = wire \ {k}
      /\ UNCHANGED <<apiVars, journalVars, pc, runVars, histVars, ledger>>
      /\ \/ UNCHANGED reply
         \/ \E status \in {"refused", "unsure"} : Answer(k, status, NoId)
  BY DEF ServerRefuses, RequestLost, Answer, histVars, apiVars, journalVars, runVars
<1>2. RowsOK' /\ Exclusive' /\ OpenDistinct' /\ OneUnsettledRemedy'
  BY <1>1, JournalFrame
<1>3. SentOK' /\ LedgerOK' /\ \A l : Sent(l)' => Sent(l)
  BY <1>1, SentFrame
<1>4. TypeOK'
  BY <1>1 DEF TypeOK, Answer, Awaiting, apiVars, journalVars, runVars, histVars, Ids
<1>5. RunOK'
  BY <1>1, <1>3 DEF RunOK, Answer, Awaiting, journalVars, runVars, histVars, Unsettled, Sent, LedgerOK, Other, Key
<1>6. ClaimFree'
  BY <1>1 DEF ClaimFree, journalVars, runVars
<1> QED BY <1>2, <1>3, <1>4, <1>5, <1>6

\* A write by another desk carries no key of ours.
LEMMA ForeignWriteStep ==
  ASSUME IInv, NEW r \in Foreign, ForeignWrite(r)
  PROVE  IInv'
<1> USE DEF IInv
<1> DEFINE w == [by |-> Other, remedy |-> r,
                 id |-> <<IdPrefix[r.kind], seq + 1>>, epoch |-> wipes]
<1>1. /\ others < MaxForeign /\ others' = others + 1
      /\ seq' = seq + 1 /\ writes' = writes \cup {w} /\ ledger' = ledger \cup {w}
      /\ UNCHANGED <<netVars, journalVars, pc, runVars, wipes>>
  BY DEF ForeignWrite, Perform
<1> HIDE DEF w
<1>2. w.by = Other /\ w \in Write
  <2>1. <<IdPrefix[r.kind], seq + 1>> \in Ids BY IdsTyped
  <2> QED BY <2>1 DEF w, Write, TypeOK
<1>3. \A k \in Key : Sent(k)' <=> Sent(k)
  BY <1>1, <1>2 DEF Sent, netVars, Key, Other
<1>4. TypeOK'
  BY <1>1, <1>2, BoundsAssumption DEF TypeOK, netVars, journalVars, runVars
<1>5. RowsOK' /\ Exclusive' /\ OpenDistinct' /\ OneUnsettledRemedy'
  BY <1>1, JournalFrame
<1>6. RunOK'
  <2>1. key \in Key /\ ~Sent(key) => ~Sent(key)' BY <1>1, <1>3 DEF runVars
  <2> QED BY <1>1, <2>1 DEF RunOK, Holding, netVars, journalVars, runVars, Unsettled
<1>7. SentOK' BY <1>1, <1>3 DEF SentOK, journalVars
<1>8. LedgerOK' BY <1>1, <1>2 DEF LedgerOK, netVars, journalVars
<1>9. ClaimFree' BY <1>1 DEF ClaimFree, journalVars, runVars
<1> QED BY <1>4, <1>5, <1>6, <1>7, <1>8, <1>9

\* A restart forgets the log; the ledger does not.
LEMMA ServerRestartsStep ==
  ASSUME IInv, ServerRestarts
  PROVE  IInv'
<1> USE DEF IInv
<1>1. /\ wipes < MaxWipes /\ wipes' = wipes + 1
      /\ writes' = {} /\ seq' = 0
      /\ UNCHANGED <<wire, reply, journalVars, pc, runVars, ledger, others>>
  BY DEF ServerRestarts, netVars
<1>2. RowsOK' /\ Exclusive' /\ OpenDistinct' /\ OneUnsettledRemedy'
  BY <1>1, JournalFrame
<1>3. SentOK' /\ LedgerOK' /\ \A l : Sent(l)' => Sent(l)
  BY <1>1, SentFrame
<1>4. TypeOK'
  BY <1>1, BoundsAssumption DEF TypeOK, journalVars, runVars
<1>5. RunOK'
  <2>1. ~Sent(key) => ~Sent(key)' BY <1>1, <1>3 DEF runVars
  <2> QED BY <1>1, <2>1 DEF RunOK, journalVars, runVars, Unsettled
<1>6. ClaimFree'
  BY <1>1 DEF ClaimFree, journalVars, runVars
<1> QED BY <1>2, <1>3, <1>4, <1>5, <1>6

-----------------------------------------------------------------------------
(* The command line                                                        *)

\* The log is emptied before the marker is written.
LEMMA ResetServerStep ==
  ASSUME IInv, ResetServer
  PROVE  IInv'
<1> USE DEF IInv
<1>1. /\ pc = Idle /\ pc' = "marking"
      /\ wipes < MaxWipes /\ wipes' = wipes + 1
      /\ writes' = {} /\ seq' = 0
      /\ UNCHANGED <<wire, reply, journalVars, runVars, ledger, others>>
  BY DEF ResetServer, netVars
<1>2. RowsOK' /\ Exclusive' /\ OpenDistinct' /\ OneUnsettledRemedy'
  BY <1>1, JournalFrame
<1>3. SentOK' /\ LedgerOK' /\ \A l : Sent(l)' => Sent(l)
  BY <1>1, SentFrame
<1>4. TypeOK'
  BY <1>1, BoundsAssumption DEF TypeOK, Idle, Control, journalVars, runVars
<1>5. RunOK'
  BY <1>1, <1>3 DEF RunOK, Holding
<1>6. ClaimFree'
  BY <1>1 DEF ClaimFree
<1> QED BY <1>2, <1>3, <1>4, <1>5, <1>6

\* A marker makes older rows stale; it touches none.
LEMMA RecordResetStep ==
  ASSUME IInv, RecordReset
  PROVE  IInv'
<1> USE DEF IInv
<1>1. /\ pc = "marking" /\ pc' = Idle /\ marker' = marker + 1
      /\ UNCHANGED <<apiVars, netVars, journal, nextKey, runVars, histVars>>
  BY DEF RecordReset
<1>2. TypeOK'
  <2>1. marker' \in 0..MaxWipes BY <1>1, BoundsAssumption DEF TypeOK, histVars
  <2> QED BY <1>1, <2>1 DEF TypeOK, Idle, Control, apiVars, netVars, runVars, histVars
<1>3. RowsOK'
  <2>1. \A k \in Key : journal[k].era \in Nat BY DEF TypeOK, Row
  <2> QED BY <1>1, <2>1 DEF RowsOK, TypeOK
<1>4. RunOK' /\ ClaimFree' BY <1>1 DEF RunOK, ClaimFree, Holding, Idle
<1>5. SentOK' BY <1>1 DEF SentOK, Sent, netVars, histVars
<1>6. LedgerOK' BY <1>1 DEF LedgerOK, netVars, histVars
<1>7. Exclusive' /\ OpenDistinct' BY <1>1 DEF Exclusive, OpenDistinct
<1>8. OneUnsettledRemedy' BY <1>1 DEF OneUnsettledRemedy, Unsettled
<1> QED BY <1>2, <1>3, <1>4, <1>5, <1>6, <1>7, <1>8

\* The memory of a new process has its type.
LEMMA FreshRunTyped ==
  ASSUME FreshRun
  PROVE  /\ pass' \in 1..3 /\ current' \in Proposals \cup {NoRemedy}
         /\ key' \in Key \cup {0} /\ held' \in BOOLEAN
         /\ reply' \in [status : {"none", "created", "refused", "unsure"}, id : Ids]
         /\ audit' \in [known : BOOLEAN, writes : SUBSET ledger']
         /\ report' \in [Proposals -> Results]
<1>1. Unread \in [known : BOOLEAN, writes : SUBSET ledger']
  BY DEF Unread
<1>2. [r \in Proposals |-> "none"] \in [Proposals -> Results]
  BY DEF Results
<1>3. 1 \in 1..3 OBVIOUS
<1> QED BY <1>1, <1>2, <1>3, NoReplyTyped DEF FreshRun

\* A run starts with an empty memory.
LEMMA StartRunStep ==
  ASSUME IInv, NEW P \in SUBSET Proposals, NEW d \in BOOLEAN, StartRun(P, d)
  PROVE  IInv'
<1> USE DEF IInv
<1>1. /\ todo' = P /\ dry' = d /\ pc = Idle /\ pc' = "next"
      /\ FreshRun
      /\ UNCHANGED <<apiVars, wire, journalVars, histVars, ledger>>
  BY DEF StartRun, histVars
<1>2. RowsOK' /\ Exclusive' /\ OpenDistinct' /\ OneUnsettledRemedy'
  BY <1>1, JournalFrame
<1>3. SentOK' /\ LedgerOK' /\ \A l : Sent(l)' => Sent(l)
  BY <1>1, SentFrame
<1>4. TypeOK'
  BY <1>1, FreshRunTyped DEF TypeOK, Idle, Control, apiVars, journalVars, histVars
<1>5. RunOK'
  BY <1>1, <1>3 DEF RunOK, Holding
<1>6. ClaimFree'
  BY <1>1 DEF ClaimFree
<1> QED BY <1>2, <1>3, <1>4, <1>5, <1>6

\* A process that ends leaves the journal, the API and the network as they are.
LEMMA EndProcessStep ==
  ASSUME IInv, EndProcess
  PROVE  IInv'
<1> USE DEF IInv
<1>1. /\ todo' = {} /\ dry' = FALSE /\ pc' = Idle
      /\ FreshRun
      /\ UNCHANGED <<apiVars, wire, journalVars, histVars, ledger>>
  BY DEF EndProcess, histVars
<1>2. RowsOK' /\ Exclusive' /\ OpenDistinct' /\ OneUnsettledRemedy'
  BY <1>1, JournalFrame
<1>3. SentOK' /\ LedgerOK' /\ \A l : Sent(l)' => Sent(l)
  BY <1>1, SentFrame
<1>4. TypeOK'
  <2>1. marker' + (IF pc' = "marking" THEN 1 ELSE 0) <= wipes'
    BY <1>1, BoundsAssumption DEF TypeOK, Idle, journalVars, histVars
  <2>2. UNCHANGED <<writes, seq, wire, journal, nextKey, marker, ledger, others, wipes>>
    BY <1>1 DEF apiVars, journalVars, histVars
  <2> QED BY <1>1, <2>1, <2>2, FreshRunTyped DEF TypeOK, Idle, Control
<1>5. RunOK'
  BY <1>1, <1>3 DEF RunOK, Holding, Idle
<1>6. ClaimFree'
  BY <1>1 DEF ClaimFree, Idle
<1> QED BY <1>2, <1>3, <1>4, <1>5, <1>6
-----------------------------------------------------------------------------
(* A run                                                                   *)

\* Whatever GET /_audit answers, it is a log of writes that were performed.
LEMMA AuditTyped ==
  ASSUME TypeOK, NEW refresh \in BOOLEAN, ReadAudit(refresh)
  PROVE  audit' \in [known : BOOLEAN, writes : SUBSET ledger]
<1>1. Unread \in [known : BOOLEAN, writes : SUBSET ledger] BY DEF Unread
<1>2. [known |-> TRUE, writes |-> writes] \in [known : BOOLEAN, writes : SUBSET ledger]
  BY DEF TypeOK
<1> QED BY <1>1, <1>2 DEF ReadAudit, TypeOK

\* Reading the write log decides nothing yet.
LEMMA ConsultStep ==
  ASSUME IInv, NEW r \in Proposals, Consult(r)
  PROVE  IInv'
<1> USE DEF IInv
<1>1. /\ pc = "next" /\ pc' = "decide" /\ todo' = todo \ {r} /\ current' = r
      /\ ReadAudit(FALSE)
      /\ UNCHANGED <<apiVars, netVars, wire, journalVars, dry, pass, key, held, report,
                     histVars, ledger>>
  BY DEF Consult, netVars, histVars
<1>2. RowsOK' /\ Exclusive' /\ OpenDistinct' /\ OneUnsettledRemedy'
  BY <1>1, JournalFrame
<1>3. SentOK' /\ LedgerOK' /\ \A l : Sent(l)' => Sent(l)
  BY <1>1, SentFrame
<1>4. TypeOK'
  BY <1>1, AuditTyped DEF TypeOK, Control, apiVars, netVars, journalVars, histVars
<1>5. RunOK'
  BY <1>1, <1>3 DEF RunOK, Holding
<1>6. ClaimFree'
  BY <1>1 DEF ClaimFree
<1> QED BY <1>2, <1>3, <1>4, <1>5, <1>6

\* Skipping, blocking and the dry run end at the report.
LEMMA ConcludeStep ==
  ASSUME IInv, SkipDuplicate \/ Block \/ WouldExecute
  PROVE  IInv'
<1> USE DEF IInv
<1>1. /\ pc = "decide" /\ pc' = "next"
      /\ \E result \in Results : report' = [report EXCEPT ![current] = result]
      /\ current' = NoRemedy /\ key' = 0 /\ reply' = NoReply
      /\ UNCHANGED <<apiVars, wire, journalVars, dry, pass, todo, audit, held, histVars,
                     ledger>>
  BY DEF SkipDuplicate, Block, WouldExecute, Conclude, Results, histVars
<1>2. RowsOK' /\ Exclusive' /\ OpenDistinct' /\ OneUnsettledRemedy'
  BY <1>1, JournalFrame
<1>3. SentOK' /\ LedgerOK' /\ \A l : Sent(l)' => Sent(l)
  BY <1>1, SentFrame
<1>4. TypeOK'
  BY <1>1, NoReplyTyped DEF TypeOK, Control, apiVars, journalVars, histVars
<1>5. RunOK'
  BY <1>1, <1>3 DEF RunOK, Holding
<1>6. ClaimFree'
  BY <1>1 DEF ClaimFree
<1> QED BY <1>2, <1>3, <1>4, <1>5, <1>6

\* The checks of _execute_one, as facts about the rows of this era.
LEMMA NotBarred ==
  ASSUME IInv, pc = "decide", ~Barred(current), NEW k \in Key,
         journal[k].era = marker
  PROVE  /\ journal[k].grantState # "failed" =>
              journal[k].grants \cap BenefitKeys(current) = {}
         /\ journal[k].state \in Open => journal[k].fp # current
         /\ ~IsReferral(current) => ~Unsettled(k)
<1> USE DEF IInv
<1>1. ~Stale(k) BY DEF Stale, TypeOK
<1>2. ASSUME journal[k].grantState # "failed"
      PROVE  journal[k].grants \cap BenefitKeys(current) = {}
  <2>1. CASE journal[k].grantState = "none" BY <2>1 DEF RowsOK
  <2>2. CASE journal[k].grantState \in Open
    BY <1>1, <2>2 DEF Barred, GrantedTo
  <2>3. journal[k].grantState \in States BY DEF TypeOK, Row
  <2> QED BY <1>2, <2>1, <2>2, <2>3 DEF States
<1>3. journal[k].state \in Open => journal[k].fp # current
  BY <1>1 DEF Barred, PriorBars, Prior, Rows
<1>4. ~IsReferral(current) => ~Unsettled(k)
  BY <1>1 DEF Barred, RemedyBarred, Rows, Unsettled, Open
<1> QED BY <1>2, <1>3, <1>4

\* A new row takes over what the checks established.
LEMMA RecordIntentStep ==
  ASSUME IInv, RecordIntent
  PROVE  IInv'
<1> USE DEF IInv
<1> DEFINE row == [NoRow EXCEPT !.state = "attempted", !.fp = current, !.era = marker]
<1>1. /\ pc = "decide" /\ ~Barred(current) /\ nextKey \in Key
      /\ journal' = [journal EXCEPT ![nextKey] = row]
      /\ key' = nextKey /\ nextKey' = nextKey + 1 /\ pc' = "intent"
      /\ UNCHANGED <<apiVars, netVars, marker, dry, pass, todo, current, audit, held,
                     report, histVars>>
  BY DEF RecordIntent
<1>2. /\ row.state = "attempted" /\ row.fp = current /\ row.era = marker
      /\ row.grants = {} /\ row.grantState = "none" /\ row \in Row
      /\ current \in Proposals
  <2>1. current \in Proposals BY <1>1 DEF RunOK
  <2>2. row \in Row
    BY <2>1, NoRowTyped DEF NoRow, Row, States, Open, TypeOK
  <2> QED BY <2>1, <2>2 DEF NoRow
<1> HIDE DEF row
<1>3. /\ journal'[nextKey] = row
      /\ \A k \in Key \ {nextKey} : journal'[k] = journal[k]
  BY <1>1 DEF TypeOK
<1>4. ~Sent(nextKey) /\ \A k : Sent(k)' <=> Sent(k)
  <2>1. \A k : Sent(k)' <=> Sent(k) BY <1>1 DEF Sent, netVars, histVars
  <2>2. ~Sent(nextKey) BY <1>1 DEF SentOK, TypeOK, Key
  <2> QED BY <2>1, <2>2
<1>5. TypeOK'
  BY <1>1, <1>2, BoundsAssumption DEF TypeOK, Key, Control, apiVars, netVars, histVars
<1>6. RowsOK'
  BY <1>1, <1>2, <1>3 DEF RowsOK, TypeOK, Key
<1>7. RunOK'
  BY <1>1, <1>2, <1>3, <1>4 DEF RunOK, Holding, Unsettled, TypeOK, Key
<1>8. SentOK'
  BY <1>1, <1>3, <1>4 DEF SentOK, TypeOK, Key
<1>9. LedgerOK'
  BY <1>1, <1>3, <1>4 DEF LedgerOK, Sent, TypeOK, Write, netVars, histVars
<1>10. Exclusive'
  BY <1>1, <1>2, <1>3 DEF Exclusive
<1>11. ClaimFree'
  BY <1>1, <1>3, NotBarred DEF ClaimFree
<1>12. OpenDistinct'
  <2>1. \A k \in Key \ {nextKey} :
          journal[k].era = marker /\ journal[k].state \in Open => journal[k].fp # current
    BY <1>1, NotBarred
  <2> QED BY <1>1, <1>2, <1>3, <2>1 DEF OpenDistinct
<1>13. OneUnsettledRemedy'
  <2>1. \A k \in Key \ {nextKey} :
          journal[k].era = marker /\ ~IsReferral(current) => ~Unsettled(k)
    BY <1>1, NotBarred
  <2> QED BY <1>1, <1>2, <1>3, <2>1 DEF OneUnsettledRemedy, Unsettled
<1> QED BY <1>5, <1>6, <1>7, <1>8, <1>9, <1>10, <1>11, <1>12, <1>13

\* Recording one benefit key: ClaimFree becomes Exclusive for it.
LEMMA RecordGrantStep ==
  ASSUME IInv, NEW b, RecordGrant(b)
  PROVE  IInv'
<1> USE DEF IInv
<1> DEFINE row == [journal[key] EXCEPT !.grants = @ \cup {b}, !.grantState = "attempted"]
<1>1. /\ pc = "intent" /\ b \in BenefitKeys(current)
      /\ journal' = [journal EXCEPT ![key] = row]
      /\ UNCHANGED <<apiVars, netVars, nextKey, marker, pc, runVars, histVars>>
  BY DEF RecordGrant, TypeOK, Row
<1>2. /\ key \in Key /\ key < nextKey /\ current \in Proposals /\ ~Sent(key)
      /\ journal[key].fp = current /\ journal[key].era = marker
      /\ journal[key].grants \subseteq BenefitKeys(current) /\ Unsettled(key)
  BY <1>1 DEF RunOK, Holding
<1>3. /\ row.state = journal[key].state /\ row.fp = current /\ row.era = marker
      /\ row.grants = journal[key].grants \cup {b} /\ row.grantState = "attempted"
      /\ row \in Row
  <2>1. journal[key] \in Row BY <1>2 DEF TypeOK
  <2>2. journal[key].grants \cup {b} \in SUBSET AllBenefits
    BY <1>1, <1>2, BenefitsTyped
  <2>3. row \in Row BY <2>1, <2>2 DEF Row, States, Open
  <2> QED BY <1>2, <2>1, <2>3 DEF Row
<1> HIDE DEF row
<1>4. /\ journal'[key] = row
      /\ \A k \in Key \ {key} : journal'[k] = journal[k]
  BY <1>1, <1>2 DEF TypeOK
<1>5. /\ UNCHANGED <<writes, seq, wire, reply, nextKey, marker, pc, current, key, ledger>>
      /\ \A k : Sent(k)' <=> Sent(k)
  BY <1>1 DEF apiVars, netVars, runVars, histVars, Sent
<1>6. TypeOK'
  BY <1>1, <1>2, <1>3 DEF TypeOK, apiVars, netVars, runVars, histVars
<1>7. RowsOK'
  <2>1. row.grants # {} /\ ~(key >= nextKey) BY <1>2, <1>3 DEF TypeOK, Key
  <2>2. SUFFICES ASSUME NEW k \in Key
        PROVE  /\ k >= nextKey => journal'[k] = NoRow
               /\ k < nextKey => journal'[k].fp \in Proposals
               /\ journal'[k].era <= marker
               /\ journal'[k].grants = {} <=> journal'[k].grantState = "none"
    BY <1>5 DEF RowsOK
  <2>3. CASE k = key BY <1>2, <1>3, <1>4, <2>1, <2>3 DEF TypeOK
  <2>4. CASE k # key BY <1>4, <2>4 DEF RowsOK
  <2> QED BY <2>3, <2>4
<1>8. RunOK'
  BY <1>1, <1>2, <1>3, <1>4, <1>5 DEF RunOK, Holding, Unsettled
<1>9. SentOK'
  BY <1>2, <1>4, <1>5 DEF SentOK
<1>10. LedgerOK'
  BY <1>2, <1>4, <1>5 DEF LedgerOK, Sent, TypeOK, Write
<1>11. Exclusive'
  BY <1>1, <1>2, <1>3, <1>4 DEF Exclusive, ClaimFree, RunOK, Holding
<1>12. ClaimFree'
  BY <1>1, <1>4, <1>5 DEF ClaimFree
<1>13. OpenDistinct'
  BY <1>2, <1>3, <1>4 DEF OpenDistinct
<1>14. OneUnsettledRemedy'
  BY <1>2, <1>3, <1>4 DEF OneUnsettledRemedy, Unsettled
<1> QED BY <1>6, <1>7, <1>8, <1>9, <1>10, <1>11, <1>12, <1>13, <1>14

\* A request leaves only after all its benefit keys are on disk.
LEMMA DispatchStep ==
  ASSUME IInv, Dispatch
  PROVE  IInv'
<1> USE DEF IInv
<1>1. /\ pc = "intent" /\ pc' = "sent" /\ journal[key].grants = BenefitKeys(current)
      /\ wire' = wire \cup {key} /\ reply' = NoReply
      /\ UNCHANGED <<apiVars, journalVars, runVars, histVars>>
  BY DEF Dispatch, GrantsRecorded
<1>2. RowsOK' /\ Exclusive' /\ OpenDistinct' /\ OneUnsettledRemedy'
  BY <1>1, JournalFrame
<1>3. /\ key \in Key /\ key < nextKey /\ current \in Proposals /\ ~Sent(key)
      /\ journal[key].fp = current /\ Unsettled(key)
      /\ journal[key].grantState # "failed"
  BY <1>1 DEF RunOK, Holding
<1>4. TypeOK'
  BY <1>1, <1>3, NoReplyTyped DEF TypeOK, Control, apiVars, journalVars, runVars, histVars
<1>5. RunOK'
  BY <1>1 DEF RunOK, Holding, NoReply, Unsettled, journalVars, runVars
<1>6. SentOK'
  BY <1>1, <1>3 DEF SentOK, Sent, Unsettled, Open, journalVars, runVars, histVars
<1>7. LedgerOK'
  BY <1>1, <1>3 DEF LedgerOK, Sent, journalVars, histVars
<1>8. ClaimFree' BY <1>1 DEF ClaimFree
<1> QED BY <1>2, <1>4, <1>5, <1>6, <1>7, <1>8

\* What the run makes of its request: not sent, an answer, or silence.
LEMMA AnswerStep ==
  ASSUME IInv, NotSent \/ ReceiveReply \/ Timeout
  PROVE  IInv'
<1> USE DEF IInv
<1>1. /\ pc \in {"intent", "sent"} /\ pc' \in {"accepted", "refused", "unsure"}
      /\ reply' \in {reply, NoReply}
      /\ pc' = "refused" => pc = "intent" \/ (pc = "sent" /\ reply.status = "refused")
      /\ pc = "intent" => journal[key].grants = BenefitKeys(current)
      /\ UNCHANGED <<apiVars, wire, journalVars, runVars, histVars, ledger>>
  BY DEF NotSent, ReceiveReply, Timeout, GrantsRecorded, Outcome, netVars, histVars, IInv, TypeOK
<1>2. RowsOK' /\ Exclusive' /\ OpenDistinct' /\ OneUnsettledRemedy'
  BY <1>1, JournalFrame
<1>3. SentOK' /\ LedgerOK' /\ \A l : Sent(l)' => Sent(l)
  BY <1>1, SentFrame
<1>4. TypeOK'
  BY <1>1, NoReplyTyped DEF TypeOK, Control, apiVars, journalVars, runVars, histVars
<1>5. RunOK'
  BY <1>1, <1>3 DEF RunOK, Holding, Unsettled, journalVars, runVars
<1>6. ClaimFree'
  BY <1>1 DEF ClaimFree
<1> QED BY <1>2, <1>3, <1>4, <1>5, <1>6

\* The outcome of the row: in force unless the request was refused, and then it
\* was not performed.
LEMMA SettleIntentStep ==
  ASSUME IInv, SettleIntent
  PROVE  IInv'
<1> USE DEF IInv
<1> DEFINE row == [journal[key] EXCEPT !.state = SettledAs[pc],
                     !.id = IF pc = "accepted" THEN reply.id ELSE NoId]
<1>1. /\ pc \in {"accepted", "refused", "unsure"} /\ pc' = "settle"
      /\ journal' = [journal EXCEPT ![key] = row]
      /\ UNCHANGED <<apiVars, netVars, nextKey, marker, runVars, histVars>>
  BY DEF SettleIntent, TypeOK, Row
<1>2. /\ key \in Key /\ key < nextKey /\ current \in Proposals
      /\ journal[key].fp = current /\ journal[key].era = marker
      /\ journal[key].grants = BenefitKeys(current)
      /\ journal[key].grantState # "failed" /\ Unsettled(key)
      /\ pc = "refused" => ~Sent(key)
  BY <1>1 DEF RunOK, Holding
<1>3. /\ row.fp = current /\ row.era = marker
      /\ row.grants = journal[key].grants /\ row.grantState = journal[key].grantState
      /\ row.state = IF pc = "refused" THEN "failed"
                     ELSE IF pc = "accepted" THEN "succeeded" ELSE "unknown"
      /\ row \in Row
  <2>1. journal[key] \in Row BY <1>2 DEF TypeOK
  <2>2. reply.id \in Ids /\ NoId \in Ids BY DEF TypeOK, Ids
  <2>3. SettledAs[pc] \in States BY <1>1 DEF SettledAs, States, Open
  <2>4. row \in Row BY <2>1, <2>2, <2>3 DEF Row
  <2> QED BY <1>1, <1>2, <2>1, <2>4 DEF Row, SettledAs
<1> HIDE DEF row
<1>4. /\ journal'[key] = row
      /\ \A k \in Key \ {key} : journal'[k] = journal[k]
  BY <1>1, <1>2 DEF TypeOK
<1>5. /\ UNCHANGED <<writes, seq, wire, reply, nextKey, marker, current, key, ledger>>
      /\ \A k : Sent(k)' <=> Sent(k)
  BY <1>1 DEF apiVars, netVars, runVars, histVars, Sent
<1>6. TypeOK'
  BY <1>1, <1>2, <1>3 DEF TypeOK, Control, apiVars, netVars, runVars, histVars
<1>7. RowsOK'
  <2>1. ~(key >= nextKey) BY <1>2 DEF TypeOK, Key
  <2>2. SUFFICES ASSUME NEW k \in Key
        PROVE  /\ k >= nextKey => journal'[k] = NoRow
               /\ k < nextKey => journal'[k].fp \in Proposals
               /\ journal'[k].era <= marker
               /\ journal'[k].grants = {} <=> journal'[k].grantState = "none"
    BY <1>5 DEF RowsOK
  <2>3. CASE k = key BY <1>2, <1>3, <1>4, <2>1, <2>3 DEF TypeOK, RowsOK
  <2>4. CASE k # key BY <1>4, <2>4 DEF RowsOK
  <2> QED BY <2>3, <2>4
<1>8. RunOK'
  BY <1>1, <1>2, <1>3, <1>4, <1>5 DEF RunOK, Holding
<1>9. SentOK'
  BY <1>1, <1>2, <1>3, <1>4, <1>5 DEF SentOK, Open
<1>10. LedgerOK'
  BY <1>2, <1>3, <1>4, <1>5 DEF LedgerOK, TypeOK, Write
<1>11. Exclusive'
  BY <1>2, <1>3, <1>4 DEF Exclusive
<1>12. ClaimFree' BY <1>1 DEF ClaimFree
<1>13. OpenDistinct'
  BY <1>2, <1>3, <1>4 DEF OpenDistinct, Unsettled, Open
<1>14. OneUnsettledRemedy'
  BY <1>2, <1>3, <1>4 DEF OneUnsettledRemedy, Unsettled
<1> QED BY <1>6, <1>7, <1>8, <1>9, <1>10, <1>11, <1>12, <1>13, <1>14

\* The benefit keys follow the row: they are freed only if it was refused.
LEMMA SettleGrantsStep ==
  ASSUME IInv, SettleGrants
  PROVE  IInv'
<1> USE DEF IInv
<1> DEFINE row == [journal[key] EXCEPT !.grantState =
                     IF journal[key].grants = {} THEN @ ELSE journal[key].state]
<1>1. /\ pc = "settle"
      /\ journal' = [journal EXCEPT ![key] = row]
      /\ \/ /\ journal[key].state = "unknown" /\ pc' = "reconcile"
            /\ UNCHANGED <<report, current, key, reply>>
         \/ /\ journal[key].state # "unknown" /\ pc' = "next"
            /\ \E result \in Results : report' = [report EXCEPT ![current] = result]
            /\ current' = NoRemedy /\ key' = 0 /\ reply' = NoReply
      /\ UNCHANGED <<apiVars, wire, nextKey, marker, histVars>>
      /\ UNCHANGED <<dry, pass, todo, audit, held>>
  BY DEF SettleGrants, Conclude, TypeOK, Row, Results
<1>2. /\ key \in Key /\ key < nextKey /\ current \in Proposals
      /\ journal[key].fp = current /\ journal[key].era = marker
      /\ journal[key].grants = BenefitKeys(current)
      /\ journal[key].grantState # "failed"
      /\ journal[key].state \in {"succeeded", "failed", "unknown"}
  BY <1>1 DEF RunOK, Holding
<1>3. /\ row.fp = current /\ row.era = marker
      /\ row.grants = journal[key].grants /\ row.state = journal[key].state
      /\ row.grantState = IF row.grants = {} THEN "none" ELSE row.state
      /\ row \in Row
  <2>1. journal[key] \in Row BY <1>2 DEF TypeOK
  <2>2. row \in Row BY <2>1 DEF Row
  <2> QED BY <1>2, <2>1, <2>2 DEF Row, RowsOK
<1> HIDE DEF row
<1>4. /\ journal'[key] = row
      /\ \A k \in Key \ {key} : journal'[k] = journal[k]
  BY <1>1, <1>2 DEF TypeOK
<1>5. /\ UNCHANGED <<writes, seq, wire, nextKey, marker, ledger>>
      /\ \A k : Sent(k)' <=> Sent(k)
  BY <1>1 DEF apiVars, histVars, Sent
<1>6. TypeOK'
  <2>1. report' \in [Proposals -> Results] BY <1>1, <1>2 DEF TypeOK, Results
  <2>2. journal' \in [Key -> Row] BY <1>1, <1>2, <1>3 DEF TypeOK
  <2>3. /\ current' \in Proposals \cup {NoRemedy} /\ key' \in Key \cup {0}
        /\ reply' \in [status : {"none", "created", "refused", "unsure"}, id : Ids]
    BY <1>1, NoReplyTyped DEF TypeOK
  <2> QED BY <1>1, <2>1, <2>2, <2>3 DEF TypeOK, Control, apiVars, histVars
<1>7. RowsOK'
  <2>1. ~(key >= nextKey) BY <1>2 DEF TypeOK, Key
  <2>2. SUFFICES ASSUME NEW k \in Key
        PROVE  /\ k >= nextKey => journal'[k] = NoRow
               /\ k < nextKey => journal'[k].fp \in Proposals
               /\ journal'[k].era <= marker
               /\ journal'[k].grants = {} <=> journal'[k].grantState = "none"
    BY <1>5 DEF RowsOK
  <2>3. CASE k = key BY <1>2, <1>3, <1>4, <2>1, <2>3 DEF TypeOK, RowsOK
  <2>4. CASE k # key BY <1>4, <2>4 DEF RowsOK
  <2> QED BY <2>3, <2>4
<1>8. RunOK'
  BY <1>1, <1>2, <1>3, <1>4, <1>5 DEF RunOK, Holding, Unsettled
<1>9. SentOK'
  BY <1>2, <1>3, <1>4, <1>5 DEF SentOK, Open
<1>10. LedgerOK'
  BY <1>2, <1>3, <1>4, <1>5 DEF LedgerOK, TypeOK, Write
<1>11. Exclusive'
  BY <1>2, <1>3, <1>4 DEF Exclusive
<1>12. ClaimFree' BY <1>1 DEF ClaimFree
<1>13. OpenDistinct'
  BY <1>2, <1>3, <1>4 DEF OpenDistinct
<1>14. OneUnsettledRemedy'
  BY <1>2, <1>3, <1>4 DEF OneUnsettledRemedy, Unsettled
<1> QED BY <1>6, <1>7, <1>8, <1>9, <1>10, <1>11, <1>12, <1>13, <1>14

\* Reconciling only reads; the row and its keys stay as they are.
LEMMA ReconcileStep ==
  ASSUME IInv, Reconcile
  PROVE  IInv'
<1> USE DEF IInv
<1>1. /\ pc = "reconcile" /\ pc' \in {"accepted", "next"} /\ ReadAudit(TRUE)
      /\ \/ \E w \in audit'.writes : reply' = [status |-> "created", id |-> w.id]
         \/ reply' = NoReply
      /\ \/ UNCHANGED <<held, report>>
         \/ held' = TRUE /\ report' = [report EXCEPT ![current] = "none"]
      /\ \/ UNCHANGED <<current, key>>
         \/ pc' = "next" /\ current' = NoRemedy /\ key' = 0
      /\ UNCHANGED <<apiVars, wire, journalVars, dry, pass, todo, histVars, ledger>>
  BY DEF Reconcile, Conclude, histVars
<1>2. RowsOK' /\ Exclusive' /\ OpenDistinct' /\ OneUnsettledRemedy'
  BY <1>1, JournalFrame
<1>3. SentOK' /\ LedgerOK' /\ \A l : Sent(l)' => Sent(l)
  BY <1>1, SentFrame
<1>4. TypeOK'
  <2>1. audit' \in [known : BOOLEAN, writes : SUBSET ledger] BY <1>1, AuditTyped
  <2>2. reply' \in [status : {"none", "created", "refused", "unsure"}, id : Ids]
    <3>1. \A w \in audit'.writes : w.id \in Ids BY <2>1 DEF TypeOK, Write
    <3> QED BY <1>1, <3>1, NoReplyTyped DEF TypeOK
  <2>3. report' \in [Proposals -> Results] /\ held' \in BOOLEAN
    BY <1>1 DEF TypeOK, Results
  <2> QED BY <1>1, <2>1, <2>2, <2>3 DEF TypeOK, Control, apiVars, journalVars, histVars
<1>5. RunOK'
  BY <1>1 DEF RunOK, Holding, Unsettled, journalVars
<1>6. ClaimFree'
  BY <1>1 DEF ClaimFree
<1> QED BY <1>2, <1>3, <1>4, <1>5, <1>6

\* Between the passes the run owns no row.
LEMMA SecondPassStep ==
  ASSUME IInv, NEW E \in SUBSET Proposals, SecondPass(E)
  PROVE  IInv'
<1> USE DEF IInv
<1>1. /\ pc = "next" /\ todo' = E /\ pass' = 2
      /\ ReadAudit(TRUE) \/ UNCHANGED audit
      /\ UNCHANGED <<apiVars, netVars, wire, journalVars, pc, dry, current, key, held,
                     report, histVars, ledger>>
  BY DEF SecondPass, Readback, netVars, histVars
<1>2. RowsOK' /\ Exclusive' /\ OpenDistinct' /\ OneUnsettledRemedy'
  BY <1>1, JournalFrame
<1>3. SentOK' /\ LedgerOK' /\ \A l : Sent(l)' => Sent(l)
  BY <1>1, SentFrame
<1>4. TypeOK'
  <2>1. audit' \in [known : BOOLEAN, writes : SUBSET ledger]
    BY <1>1, AuditTyped DEF TypeOK
  <2> QED BY <1>1, <2>1 DEF TypeOK, apiVars, netVars, journalVars, histVars
<1>5. RunOK'
  BY <1>1 DEF RunOK, Holding
<1>6. ClaimFree'
  BY <1>1 DEF ClaimFree
<1> QED BY <1>2, <1>3, <1>4, <1>5, <1>6

\* An exception makes the run let go of its row, as it is.
LEMMA RecoverStep ==
  ASSUME IInv, NEW E \in SUBSET Proposals, Recover(E)
  PROVE  IInv'
<1> USE DEF IInv
<1>1. /\ todo' = E /\ pass' = 3 /\ pc # "marking" /\ pc' = "next"
      /\ current' = NoRemedy /\ key' = 0 /\ reply' = NoReply
      /\ ReadAudit(TRUE) \/ UNCHANGED audit
      /\ UNCHANGED <<apiVars, wire, journalVars, dry, held, report, histVars, ledger>>
  BY DEF Recover, Readback, histVars
<1>2. RowsOK' /\ Exclusive' /\ OpenDistinct' /\ OneUnsettledRemedy'
  BY <1>1, JournalFrame
<1>3. SentOK' /\ LedgerOK' /\ \A l : Sent(l)' => Sent(l)
  BY <1>1, SentFrame
<1>4. TypeOK'
  <2>1. audit' \in [known : BOOLEAN, writes : SUBSET ledger]
    BY <1>1, AuditTyped DEF TypeOK
  <2> QED BY <1>1, <2>1, NoReplyTyped DEF TypeOK, Control, apiVars, journalVars, histVars
<1>5. RunOK' BY <1>1 DEF RunOK, Holding, NoReply
<1>6. ClaimFree' BY <1>1 DEF ClaimFree
<1> QED BY <1>2, <1>3, <1>4, <1>5, <1>6

-----------------------------------------------------------------------------
(* The inductive invariant                                                 *)

\* It holds when everything is empty.
LEMMA InitInv == Init => IInv
<1> SUFFICES ASSUME Init PROVE IInv
  OBVIOUS
<1>1. TypeOK
  <2>1. [k \in Key |-> NoRow] \in [Key -> Row] BY NoRowTyped
  <2>2. [r \in Proposals |-> "none"] \in [Proposals -> Results] BY DEF Results
  <2>3. Unread \in [known : BOOLEAN, writes : SUBSET ledger] BY DEF Unread
  <2>4. 0 \in 0..MaxWipes /\ 0 \in 0..MaxForeign /\ 1 \in 1..(MaxIntents + 1)
    BY BoundsAssumption
  <2>5. (IF pc = "marking" THEN 1 ELSE 0) = 0 BY DEF Init, Idle
  <2>6. /\ writes \subseteq ledger /\ seq \in Nat /\ wire \subseteq Key
        /\ todo \subseteq Proposals /\ ledger \subseteq Write
        /\ nextKey \in 1..(MaxIntents + 1)
        /\ marker \in 0..MaxWipes /\ others \in 0..MaxForeign /\ wipes \in 0..MaxWipes
        /\ marker + (IF pc = "marking" THEN 1 ELSE 0) <= wipes
    BY <2>4, <2>5 DEF Init
  <2>7. /\ pc \in Control /\ dry \in BOOLEAN /\ pass \in 1..3
        /\ current \in Proposals \cup {NoRemedy} /\ key \in Key \cup {0}
        /\ held \in BOOLEAN
    <3>1. 1 \in 1..3 OBVIOUS
    <3> QED BY <3>1 DEF Init, Idle, Control
  <2>8. /\ reply \in [status : {"none", "created", "refused", "unsure"}, id : Ids]
        /\ journal \in [Key -> Row] /\ report \in [Proposals -> Results]
        /\ audit \in [known : BOOLEAN, writes : SUBSET ledger]
    BY <2>1, <2>2, <2>3, NoReplyTyped DEF Init
  <2> QED BY <2>6, <2>7, <2>8 DEF TypeOK
<1>2. RowsOK BY DEF Init, RowsOK, NoRow, Key
<1>3. RunOK /\ ClaimFree BY DEF Init, RunOK, ClaimFree, Holding, Idle
<1>4. SentOK /\ LedgerOK BY DEF Init, SentOK, LedgerOK, Sent
<1>5. Exclusive /\ OpenDistinct /\ OneUnsettledRemedy
  BY DEF Init, Exclusive, OpenDistinct, OneUnsettledRemedy, Unsettled, NoRow, Open
<1> QED BY <1>1, <1>2, <1>3, <1>4, <1>5 DEF IInv

\* Nothing happens.
LEMMA StutterStep ==
  ASSUME IInv, UNCHANGED vars
  PROVE  IInv'
<1> USE DEF IInv
<1>1. UNCHANGED <<journalVars, ledger>> /\ wire' \subseteq wire /\ pc' = pc
      /\ UNCHANGED <<writes, seq, wire, reply, journal, nextKey, marker, dry, pass, todo,
                     current, key, audit, held, report, others, wipes>>
  BY DEF vars, apiVars, netVars, journalVars, runVars, histVars
<1>2. RowsOK' /\ Exclusive' /\ OpenDistinct' /\ OneUnsettledRemedy'
  BY <1>1, JournalFrame
<1>3. SentOK' /\ LedgerOK' /\ \A l : Sent(l)' => Sent(l)
  BY <1>1, SentFrame
<1>4. TypeOK' BY <1>1 DEF TypeOK
<1>5. RunOK' BY <1>1 DEF RunOK, Unsettled, Sent
<1>6. ClaimFree' BY <1>1 DEF ClaimFree
<1> QED BY <1>2, <1>3, <1>4, <1>5, <1>6

\* Every step preserves it.
LEMMA NextInv == IInv /\ [Next]_vars => IInv'
<1> SUFFICES ASSUME IInv, [Next]_vars PROVE IInv'
  OBVIOUS
<1>1. CASE Server
  BY <1>1, ServerPerformsStep, RequestEndsStep, ServerRestartsStep, ForeignWriteStep
     DEF Server
<1>2. CASE Run
  BY <1>2, ConsultStep, ConcludeStep, RecordIntentStep, RecordGrantStep, DispatchStep,
     AnswerStep, SettleIntentStep, SettleGrantsStep, ReconcileStep, SecondPassStep,
     EndProcessStep
     DEF Run, FinishRun
<1>3. CASE CommandLine
  BY <1>3, StartRunStep, ResetServerStep, RecordResetStep, EndProcessStep
     DEF CommandLine, Crash
<1>4. CASE \E E \in SUBSET Proposals : Recover(E) BY <1>4, RecoverStep
<1>5. CASE UNCHANGED vars BY <1>5, StutterStep
<1> QED BY <1>1, <1>2, <1>3, <1>4, <1>5 DEF Next

\* The reachable states of the write path satisfy the inductive invariant.
THEOREM Invariance == Spec => []IInv
<1> QED BY InitInv, NextInv, PTL DEF Spec

-----------------------------------------------------------------------------
(* The safety of the write path                                            *)

\* Every variable has its type in every reachable state.
THEOREM TypeCorrect == Spec => []TypeOK
<1>1. IInv => TypeOK BY DEF IInv
<1> QED BY <1>1, Invariance, PTL

\* S12.2: in one era no benefit is granted twice by this desk, whatever was
\* lost, delayed, killed or performed late (executor._execute_one).
THEOREM NoDoubleGrantHolds == Spec => []NoDoubleGrant
<1>1. IInv => NoDoubleGrant
  <2> SUFFICES ASSUME IInv, NEW v \in ledger, NEW w \in ledger,
                      SameEra(v, w), v # w
               PROVE  /\ v.by # w.by
                      /\ BenefitKeys(v.remedy) \cap BenefitKeys(w.remedy) = {}
    BY DEF NoDoubleGrant
  <2> USE DEF IInv, SameEra
  <2>1. v.by \in Key /\ w.by \in Key BY DEF TypeOK, Write, Ours
  <2>2. v.by # w.by BY DEF LedgerOK, Ours
  <2>3. /\ journal[v.by].grants = BenefitKeys(v.remedy)
        /\ journal[w.by].grants = BenefitKeys(w.remedy)
        /\ journal[v.by].grantState # "failed" /\ journal[w.by].grantState # "failed"
        /\ journal[v.by].era = journal[w.by].era
    BY <2>1 DEF SentOK, Sent, LedgerOK, Ours
  <2> QED BY <2>1, <2>2, <2>3 DEF Exclusive
<1> QED BY <1>1, Invariance, PTL

\* The grants of one benefit by this desk.
GrantsOf(b) == {w \in ledger : Ours(w) /\ b \in BenefitKeys(w.remedy)}

\* However often the API is restarted, runs are killed and answers are lost, a
\* benefit is granted at most once more than resets were recorded: it takes a
\* human who resets the records to have it granted again (record_reset_marker).
GrantedOncePerReset == \A b \in AllBenefits : Cardinality(GrantsOf(b)) <= marker + 1

THEOREM GrantsAreBounded == Spec => []GrantedOncePerReset
<1>1. ASSUME IInv, NoDoubleGrant, NEW b \in AllBenefits
      PROVE  Cardinality(GrantsOf(b)) <= marker + 1
  <2> DEFINE G == GrantsOf(b)
             Eras == 0..marker
             f == [w \in G |-> journal[w.by].era]
  <2>1. marker \in Nat BY <1>1, BoundsAssumption DEF IInv, TypeOK
  <2>2. \A w \in G : journal[w.by].era \in Eras
    <3> SUFFICES ASSUME NEW w \in G PROVE journal[w.by].era \in Eras
      OBVIOUS
    <3>1. w \in ledger /\ w.by # Other BY DEF GrantsOf, Ours
    <3>2. w.by \in Key BY <1>1, <3>1 DEF IInv, TypeOK, Write
    <3>3. journal[w.by].era \in 0..MaxWipes /\ journal[w.by].era <= marker
      BY <1>1, <3>2 DEF IInv, TypeOK, Row, RowsOK
    <3> QED BY <2>1, <3>2, <3>3, BoundsAssumption
  <2>3. \A v, w \in G : f[v] = f[w] => v = w
    <3> SUFFICES ASSUME NEW v \in G, NEW w \in G,
                        journal[v.by].era = journal[w.by].era
                 PROVE  v = w
      OBVIOUS
    <3>1. v \in ledger /\ w \in ledger /\ Ours(v) /\ Ours(w) BY DEF GrantsOf
    <3>2. BenefitKeys(v.remedy) \cap BenefitKeys(w.remedy) # {} BY DEF GrantsOf
    <3> QED BY <1>1, <3>1, <3>2 DEF NoDoubleGrant, SameEra
  <2>4. f \in Injection(G, Eras) BY <2>2, <2>3 DEF Injection, IsInjective
  <2>5. IsFiniteSet(Eras) /\ Cardinality(Eras) = marker + 1 BY <2>1, FS_Interval
  <2> HIDE DEF f, G, Eras
  <2>6. Cardinality(G) <= Cardinality(Eras) BY <2>4, <2>5, FS_Injection
  <2> QED BY <2>5, <2>6 DEF G
<1>2. IInv /\ NoDoubleGrant => GrantedOncePerReset BY <1>1 DEF GrantedOncePerReset
<1> QED BY <1>2, Invariance, NoDoubleGrantHolds, PTL

\* An unchanged proposal is not performed twice in one era: a re-run does not
\* raise its referral again (executor._execute_one, find_prior_actions).
THEOREM NoRepeatHolds == Spec => []NoRepeat
<1>1. IInv => NoRepeat
  <2> SUFFICES ASSUME IInv, NEW v \in ledger, NEW w \in ledger,
                      SameEra(v, w), v # w
               PROVE  v.remedy # w.remedy
    BY DEF NoRepeat
  <2> USE DEF IInv, SameEra
  <2>1. v.by \in Key /\ w.by \in Key /\ v.by # w.by
    BY DEF TypeOK, Write, LedgerOK, Ours
  <2>2. /\ journal[v.by].state \in Open /\ journal[w.by].state \in Open
        /\ journal[v.by].era = journal[w.by].era
        /\ v.remedy = journal[v.by].fp /\ w.remedy = journal[w.by].fp
    BY <2>1 DEF SentOK, Sent, LedgerOK, Ours
  <2> QED BY <2>1, <2>2 DEF OpenDistinct
<1> QED BY <1>1, Invariance, PTL

\* Nothing is under way or performed without its row and all its benefit keys
\* in force on disk (record_intent and record_benefit_grants before the POST).
THEOREM WriteAheadHolds == Spec => []WriteAhead
<1>1. IInv => WriteAhead
  <2> SUFFICES ASSUME IInv, NEW k \in wire \cup {u.by : u \in {v \in ledger : Ours(v)}}
               PROVE  /\ k < nextKey
                      /\ journal[k].state \in Open
                      /\ journal[k].grants = BenefitKeys(journal[k].fp)
                      /\ journal[k].grants # {} => journal[k].grantState \in Open
    BY DEF WriteAhead
  <2> USE DEF IInv
  <2>1. k \in Key /\ Sent(k) BY DEF TypeOK, Write, Ours, Sent
  <2>2. journal[k].grantState \in States BY <2>1 DEF TypeOK, Row
  <2> QED BY <2>1, <2>2 DEF SentOK, RowsOK, States
<1> QED BY <1>1, Invariance, PTL

\* Only a request that was not performed, and can no longer be, is recorded as
\* failed and frees its benefit (update_outcome and update_benefit_state).
THEOREM FailedGrantedNothingHolds == Spec => []FailedGrantedNothing
<1>1. IInv => FailedGrantedNothing
  BY DEF IInv, FailedGrantedNothing, SentOK, Sent, Open
<1> QED BY <1>1, Invariance, PTL

\* At most one booking or money write per era is of unknown fate: the run that
\* meets one holds back the rest, and so does every later run.
THEOREM OneUnsettledRemedyHolds == Spec => []OneUnsettledRemedy
<1>1. IInv => OneUnsettledRemedy BY DEF IInv
<1> QED BY <1>1, Invariance, PTL

-----------------------------------------------------------------------------
(* Dry runs                                                                *)

\* A dry run never owns a row.
DryOK == dry => pc \notin Holding

\* Only a run that is not dry takes a row.
LEMMA DryInv == Spec => []DryOK
<1>1. Init => DryOK BY DEF Init, DryOK
<1>2. DryOK /\ [Next]_vars => DryOK'
  <2> SUFFICES ASSUME DryOK, [Next]_vars PROVE DryOK'
    OBVIOUS
  <2> USE DEF DryOK, Holding
  <2>1. CASE Server
    BY <2>1 DEF Server, ServerPerforms, ServerRefuses, RequestLost, ServerRestarts,
                ForeignWrite, runVars
  <2>2. CASE Run
    BY <2>2 DEF Run, Consult, SkipDuplicate, Block, WouldExecute, RecordIntent,
                RecordGrant, Dispatch, NotSent, ReceiveReply, Timeout, SettleIntent,
                SettleGrants, Reconcile, SecondPass, FinishRun, EndProcess, Conclude,
                runVars
  <2>3. CASE CommandLine
    BY <2>3 DEF CommandLine, StartRun, ResetServer, RecordReset, Crash, EndProcess,
                runVars, Idle
  <2>4. CASE \E E \in SUBSET Proposals : Recover(E) BY <2>4 DEF Recover
  <2>5. CASE UNCHANGED vars BY <2>5 DEF vars, runVars
  <2> QED BY <2>1, <2>2, <2>3, <2>4, <2>5 DEF Next
<1> QED BY <1>1, <1>2, PTL DEF Spec

\* A dry run leaves the journal alone and sends nothing.
THEOREM DryRunSendsNothingHolds == Spec => DryRunSendsNothing
<1>1. DryOK /\ [Next]_vars => [dry => UNCHANGED <<journal, nextKey>> /\ wire' \subseteq wire]_vars
  <2> SUFFICES ASSUME DryOK, [Next]_vars, dry
               PROVE  UNCHANGED <<journal, nextKey>> /\ wire' \subseteq wire
    OBVIOUS
  <2> USE DEF DryOK, Holding
  <2>1. CASE Server
    BY <2>1 DEF Server, ServerPerforms, ServerRefuses, RequestLost, ServerRestarts,
                ForeignWrite, journalVars, netVars
  <2>2. CASE Run
    BY <2>2 DEF Run, Consult, SkipDuplicate, Block, WouldExecute, RecordIntent,
                RecordGrant, Dispatch, NotSent, ReceiveReply, Timeout, SettleIntent,
                SettleGrants, Reconcile, SecondPass, FinishRun, EndProcess,
                journalVars, netVars
  <2>3. CASE CommandLine
    BY <2>3 DEF CommandLine, StartRun, ResetServer, RecordReset, Crash, EndProcess,
                journalVars, netVars
  <2>4. CASE \E E \in SUBSET Proposals : Recover(E)
    BY <2>4 DEF Recover, journalVars
  <2>5. CASE UNCHANGED vars BY <2>5 DEF vars, journalVars, netVars
  <2> QED BY <2>1, <2>2, <2>3, <2>4, <2>5 DEF Next
<1> QED BY <1>1, DryInv, PTL DEF Spec, DryRunSendsNothing

-----------------------------------------------------------------------------
(* The write path implements OneGrant                                      *)

\* A step that touches neither the keys on disk nor the writes of this desk does
\* nothing that the promise speaks of.
LEMMA PromiseFrame ==
  ASSUME UNCHANGED marker,
         \A k \in Key : /\ ({journal[k].era} \X journal[k].grants)'
                             = {journal[k].era} \X journal[k].grants
                        /\ (journal[k].grantState = "failed")'
                             <=> journal[k].grantState = "failed"
                        /\ WritesOf(k)' = WritesOf(k)
  PROVE  UNCHANGED Promise!vars
<1>1. Claimed' = Claimed BY DEF Claimed
<1>2. GivenUp' = GivenUp BY DEF GivenUp
<1>3. Granted' = Granted /\ Obtained' = Obtained BY DEF Granted, Obtained
<1> QED BY <1>1, <1>2, <1>3 DEF Promise!vars

\* A request is performed once, its keys still in force, with what they claim.
LEMMA PerformingGrants ==
  ASSUME IInv, NEW k \in Key, ServerPerforms(k)
  PROVE  Promise!Grant(k)
<1> USE DEF IInv
<1>1. PICK w : /\ w.by = k /\ w.remedy = journal[k].fp
               /\ ledger' = ledger \cup {w}
               /\ k \in wire /\ k # Other /\ UNCHANGED <<journal, marker>>
  <2> DEFINE w == [by |-> k, remedy |-> journal[k].fp,
                   id |-> <<IdPrefix[journal[k].fp.kind], seq + 1>>, epoch |-> wipes]
  <2>1. ledger' = ledger \cup {w} BY DEF ServerPerforms, Perform
  <2>2. w.by = k /\ w.remedy = journal[k].fp OBVIOUS
  <2> HIDE DEF w
  <2> QED BY <2>1, <2>2 DEF ServerPerforms, journalVars, Key, Other
<1>2. WritesOf(k) = {}
  BY <1>1 DEF WritesOf, LedgerOK
<1>3. WritesOf(k)' = {w} /\ \A l \in Key \ {k} : WritesOf(l)' = WritesOf(l)
  BY <1>1, <1>2 DEF WritesOf
<1>4. /\ Granted = [l \in Key |-> Cardinality(WritesOf(l))]
      /\ Granted' = [l \in Key |-> Cardinality(WritesOf(l)')]
      /\ Obtained = [l \in Key |-> UNION {BenefitKeys(v.remedy) : v \in WritesOf(l)}]
      /\ Obtained' = [l \in Key |-> UNION {BenefitKeys(v.remedy) : v \in WritesOf(l)'}]
  BY DEF Granted, Obtained
<1>5. Granted[k] = 0 /\ k \notin GivenUp
  BY <1>1, <1>2, <1>4, FS_EmptySet DEF GivenUp, SentOK, Sent
<1>6. Granted' = [Granted EXCEPT ![k] = 1]
  <2>1. Cardinality({w}) = 1 BY FS_Singleton
  <2> QED BY <1>3, <1>4, <2>1
<1>7. {c[2] : c \in Claimed[k]} = BenefitKeys(journal[k].fp)
  <2>1. Claimed[k] = {journal[k].era} \X BenefitKeys(journal[k].fp)
    BY <1>1 DEF Claimed, SentOK, Sent
  <2> DEFINE e == journal[k].era
             B == BenefitKeys(journal[k].fp)
  <2>2. ASSUME NEW b \in B PROVE b \in {c[2] : c \in {e} \X B}
    <3>1. <<e, b>> \in {e} \X B /\ <<e, b>>[2] = b OBVIOUS
    <3> QED BY <3>1
  <2>3. \A c \in {e} \X B : c[2] \in B OBVIOUS
  <2> QED BY <2>1, <2>2, <2>3
<1>8. Obtained' = [Obtained EXCEPT ![k] = BenefitKeys(journal[k].fp)]
  <2>1. UNION {BenefitKeys(v.remedy) : v \in {w}} = BenefitKeys(journal[k].fp)
    BY <1>1
  <2> QED BY <1>3, <1>4, <2>1
<1>9. UNCHANGED <<marker, Claimed, GivenUp>>
  BY <1>1 DEF Claimed, GivenUp
<1> QED BY <1>5, <1>6, <1>7, <1>8, <1>9 DEF Promise!Grant

\* A benefit key is written while no other intent in force has it: the check of
\* the journal was made before the row was written, and still holds.
LEMMA RecordingClaims ==
  ASSUME IInv, NEW b \in BenefitKeys(current), RecordGrant(b)
  PROVE  Promise!Claim(key, b)
<1> USE DEF IInv
<1>1. /\ pc = "intent" /\ key \in Key /\ ~Sent(key)
      /\ journal[key].era = marker /\ b \notin journal[key].grants
      /\ journal[key].grantState # "failed" /\ journal[key].grants \subseteq AllBenefits
      /\ UNCHANGED <<marker, ledger>>
  BY BenefitsTyped DEF RecordGrant, RunOK, Holding, histVars, TypeOK, Row
<1>2. /\ journal'[key].era = marker
      /\ journal'[key].grants = journal[key].grants \cup {b}
      /\ journal'[key].grantState = "attempted"
      /\ \A k \in Key \ {key} : journal'[k] = journal[k]
  BY <1>1 DEF RecordGrant, TypeOK, Row
<1>3. \A k \in Key : WritesOf(k)' = WritesOf(k)
  BY <1>1 DEF WritesOf
<1>4. Granted' = Granted /\ Obtained' = Obtained
  BY <1>3 DEF Granted, Obtained
<1>5. Granted[key] = 0
  <2>1. WritesOf(key) = {} BY <1>1 DEF WritesOf, Sent
  <2> QED BY <1>1, <2>1, FS_EmptySet DEF Granted
<1>6. GivenUp' = GivenUp /\ key \notin GivenUp
  BY <1>1, <1>2 DEF GivenUp
<1>7. Promise!Free(b)
  <2> SUFFICES ASSUME NEW k \in Key \ GivenUp, <<marker, b>> \in Claimed[k]
               PROVE  FALSE
    BY DEF Promise!Free
  <2>1. journal[k].era = marker /\ b \in journal[k].grants
    BY DEF Claimed
  <2>2. journal[k].grantState # "failed" BY DEF GivenUp
  <2> QED BY <1>1, <2>1, <2>2 DEF ClaimFree
<1>8. Claimed' = [Claimed EXCEPT ![key] = @ \cup {<<marker, b>>}]
  <2>1. Claimed[key] = {marker} \X journal[key].grants BY <1>1 DEF Claimed
  <2>2. {marker} \X (journal[key].grants \cup {b})
          = ({marker} \X journal[key].grants) \cup {<<marker, b>>}
    OBVIOUS
  <2>3. /\ Claimed = [k \in Key |-> {journal[k].era} \X journal[k].grants]
        /\ Claimed' = [k \in Key |-> {journal'[k].era} \X journal'[k].grants]
    BY DEF Claimed
  <2>4. {journal'[key].era} \X journal'[key].grants = Claimed[key] \cup {<<marker, b>>}
    BY <1>2, <2>1, <2>2
  <2>5. \A k \in Key \ {key} : {journal'[k].era} \X journal'[k].grants = Claimed[k]
    BY <1>2, <2>3
  <2> HIDE DEF Claimed
  <2> QED BY <1>1, <2>3, <2>4, <2>5
<1> QED BY <1>1, <1>4, <1>5, <1>6, <1>7, <1>8 DEF Promise!Claim

\* Keys are settled as failed only for a request that was not performed.
LEMMA SettlingReleases ==
  ASSUME IInv, SettleGrants
  PROVE  Promise!Release(key) \/ UNCHANGED Promise!vars
<1> USE DEF IInv
<1>1. key \in Key /\ journal[key].grantState # "failed"
      /\ UNCHANGED <<marker, ledger>>
  BY DEF SettleGrants, RunOK, Holding, histVars
<1>2. /\ journal'[key].era = journal[key].era
      /\ journal'[key].grants = journal[key].grants
      /\ journal'[key].grantState = IF journal[key].grants = {}
                                    THEN journal[key].grantState ELSE journal[key].state
      /\ \A k \in Key \ {key} : journal'[k] = journal[k]
  BY <1>1 DEF SettleGrants, TypeOK, Row
<1>3. \A k \in Key : WritesOf(k)' = WritesOf(k) BY <1>1 DEF WritesOf
<1>4. \A k \in Key : {journal'[k].era} \X journal'[k].grants
                       = {journal[k].era} \X journal[k].grants
  BY <1>1, <1>2
<1>5. CASE journal'[key].grantState # "failed"
  <2>1. \A k \in Key : journal'[k].grantState = "failed"
                         <=> journal[k].grantState = "failed"
    BY <1>1, <1>2, <1>5
  <2> QED BY <1>1, <1>3, <1>4, <2>1, PromiseFrame
<1>6. CASE journal'[key].grantState = "failed"
  <2>1. journal[key].state = "failed" BY <1>1, <1>2, <1>6
  <2>2. WritesOf(key) = {} BY <1>1, <2>1 DEF WritesOf, SentOK, Sent, Open
  <2>3. Granted[key] = 0 BY <1>1, <2>2, FS_EmptySet DEF Granted
  <2>4. GivenUp' = GivenUp \cup {key}
    BY <1>1, <1>2, <1>6 DEF GivenUp
  <2>5. Claimed' = Claimed BY <1>4 DEF Claimed
  <2>6. Granted' = Granted /\ Obtained' = Obtained BY <1>3 DEF Granted, Obtained
  <2> QED BY <1>1, <2>3, <2>4, <2>5, <2>6 DEF Promise!Release
<1> QED BY <1>5, <1>6

\* A new row claims nothing yet, and settling a row leaves its keys alone.
LEMMA RowsKeepClaims ==
  ASSUME IInv, RecordIntent \/ SettleIntent
  PROVE  UNCHANGED Promise!vars
<1> USE DEF IInv
<1>1. UNCHANGED <<marker, ledger>>
  BY DEF RecordIntent, SettleIntent, histVars
<1>2. \A k \in Key : WritesOf(k)' = WritesOf(k) BY <1>1 DEF WritesOf
<1>3. ASSUME RecordIntent, NEW k \in Key
      PROVE  /\ {journal'[k].era} \X journal'[k].grants = {journal[k].era} \X journal[k].grants
             /\ journal'[k].grantState = "failed" <=> journal[k].grantState = "failed"
  <2>1. CASE k = nextKey
    <3>1. journal[k] = NoRow BY <2>1 DEF RowsOK, TypeOK, Key
    <3>2. journal'[k].grants = {} /\ journal'[k].grantState = "none"
      BY <1>3, <2>1 DEF RecordIntent, TypeOK, NoRow
    <3> QED BY <3>1, <3>2 DEF NoRow
  <2>2. CASE k # nextKey
    <3>1. journal'[k] = journal[k] BY <1>3, <2>2 DEF RecordIntent, TypeOK
    <3> QED BY <3>1
  <2> QED BY <2>1, <2>2
<1>4. ASSUME SettleIntent, NEW k \in Key
      PROVE  /\ {journal'[k].era} \X journal'[k].grants = {journal[k].era} \X journal[k].grants
             /\ journal'[k].grantState = "failed" <=> journal[k].grantState = "failed"
  <2>1. /\ journal'[k].era = journal[k].era /\ journal'[k].grants = journal[k].grants
        /\ journal'[k].grantState = journal[k].grantState
    BY <1>4 DEF SettleIntent, TypeOK, Row
  <2> QED BY <2>1
<1> QED BY <1>1, <1>2, <1>3, <1>4, PromiseFrame

\* Recording a reset begins an era.
LEMMA MarkingResets ==
  ASSUME IInv, RecordReset
  PROVE  Promise!Reset
<1>1. /\ marker' = marker + 1 /\ marker + 1 \in 0..MaxWipes
      /\ UNCHANGED <<journal, ledger>>
  BY BoundsAssumption DEF RecordReset, IInv, TypeOK, histVars
<1>2. UNCHANGED <<Claimed, GivenUp, Granted, Obtained>>
  BY <1>1 DEF Claimed, GivenUp, Granted, Obtained, WritesOf
<1> QED BY <1>1, <1>2 DEF Promise!Reset

\* The API's other steps: another desk's write is none of ours.
LEMMA WorldKeepsClaims ==
  ASSUME IInv, Server, \A k \in Key : ~ServerPerforms(k)
  PROVE  UNCHANGED Promise!vars
<1>1. UNCHANGED <<journal, marker>>
  BY DEF Server, ServerRefuses, RequestLost, ServerRestarts, ForeignWrite, journalVars
<1>2. \A k \in Key : WritesOf(k)' = WritesOf(k)
  <2>1. CASE UNCHANGED ledger BY <2>1 DEF WritesOf
  <2>2. CASE \E r \in Foreign : ForeignWrite(r)
    <3>1. PICK w : w.by = Other /\ ledger' = ledger \cup {w}
      BY <2>2 DEF ForeignWrite, Perform
    <3> QED BY <3>1 DEF WritesOf, Key, Other
  <2> QED BY <2>1, <2>2
          DEF Server, ServerRefuses, RequestLost, ServerRestarts, histVars
<1> QED BY <1>1, <1>2, PromiseFrame

\* Every behaviour of the write path is one of OneGrant: benefits are claimed on
\* disk while they are free, a request is granted at most once, with what it
\* claimed, however late, and never once its claims were given up.
THEOREM Refinement == Spec => GrantsOnce
<1>1. Init => Promise!Init
  <2> SUFFICES ASSUME Init PROVE Promise!Init
    OBVIOUS
  <2>1. \A k \in Key : /\ {journal[k].era} \X journal[k].grants = {}
                       /\ journal[k].grantState # "failed" /\ WritesOf(k) = {}
    BY DEF Init, NoRow, WritesOf
  <2>2. Claimed = [k \in Key |-> {}] /\ GivenUp = {} BY <2>1 DEF Claimed, GivenUp
  <2>3. Granted = [k \in Key |-> 0] BY <2>1, FS_EmptySet DEF Granted
  <2>4. Obtained = [k \in Key |-> {}] BY <2>1 DEF Obtained
  <2> QED BY <2>2, <2>3, <2>4 DEF Init, Promise!Init
<1>2. IInv /\ [Next]_vars => [Promise!Next]_(Promise!vars)
  <2> SUFFICES ASSUME IInv, [Next]_vars PROVE [Promise!Next]_(Promise!vars)
    OBVIOUS
  <2>1. ASSUME NEW k \in Key, ServerPerforms(k) PROVE Promise!Next
    BY <2>1, PerformingGrants DEF Promise!Next
  <2>2. CASE Server BY <2>1, <2>2, WorldKeepsClaims
  <2>3. CASE \E b \in BenefitKeys(current) : RecordGrant(b)
    <3>1. PICK b \in BenefitKeys(current) : RecordGrant(b) BY <2>3
    <3>2. key \in Key /\ b \in AllBenefits
      BY <3>1, BenefitsTyped DEF IInv, RunOK, RecordGrant, Holding
    <3> QED BY <3>1, <3>2, RecordingClaims DEF Promise!Next
  <2>4. CASE SettleGrants
    <3>1. key \in Key BY <2>4 DEF SettleGrants, IInv, RunOK, Holding
    <3> QED BY <2>4, <3>1, SettlingReleases DEF Promise!Next
  <2>5. CASE RecordIntent \/ SettleIntent BY <2>5, RowsKeepClaims
  <2>6. CASE RecordReset BY <2>6, MarkingResets DEF Promise!Next
  <2>7. CASE UNCHANGED <<journal, marker, ledger>>
    <3>1. \A k \in Key : WritesOf(k)' = WritesOf(k) BY <2>7 DEF WritesOf
    <3> QED BY <2>7, <3>1, PromiseFrame
  <2>8. CASE Run
    BY <2>3, <2>4, <2>5, <2>7, <2>8
       DEF Run, Consult, SkipDuplicate, Block, WouldExecute, Dispatch, NotSent,
           ReceiveReply, Timeout, Reconcile, SecondPass, FinishRun, EndProcess,
           journalVars, histVars
  <2>9. CASE CommandLine
    BY <2>6, <2>7, <2>9
       DEF CommandLine, StartRun, ResetServer, Crash, EndProcess, journalVars, histVars
  <2>10. CASE \E E \in SUBSET Proposals : Recover(E)
    BY <2>7, <2>10 DEF Recover, journalVars, histVars
  <2>11. CASE UNCHANGED vars BY <2>7, <2>11 DEF vars, journalVars, histVars
  <2> QED BY <2>2, <2>8, <2>9, <2>10, <2>11 DEF Next
<1> QED BY <1>1, <1>2, Invariance, PTL DEF Spec, GrantsOnce, Promise!Spec

-----------------------------------------------------------------------------
(* What a run reports                                                      *)

\* Somebody performed this remedy, as far as the write log can tell.
Done(r) == \E w \in ledger : Equivalent(w.remedy, r)

ReportedMeansPerformed ==
  \A r \in Proposals : report[r] \in {"succeeded", "duplicate"} => Done(r)

\* Where the run is about to report the remedy at hand as done.
Claiming ==
  \/ pc = "accepted"
  \/ pc = "sent" /\ reply.status = "created"
  \/ pc = "settle" /\ journal[key].state = "succeeded"

Honest == ReportedMeansPerformed /\ (Claiming => Done(current))

\* The ledger never forgets, so what was done stays done.
LEMMA LedgerGrows ==
  ASSUME [Next]_vars
  PROVE  ledger \subseteq ledger'
<1>1. CASE Server
  BY <1>1 DEF Server, ServerPerforms, ForeignWrite, Perform, ServerRefuses,
              RequestLost, ServerRestarts, histVars
<1>2. CASE Run
  BY <1>2 DEF Run, Consult, SkipDuplicate, Block, WouldExecute, RecordIntent,
              RecordGrant, Dispatch, NotSent, ReceiveReply, Timeout, SettleIntent,
              SettleGrants, Reconcile, SecondPass, FinishRun, EndProcess, histVars
<1>3. CASE CommandLine
  BY <1>3 DEF CommandLine, StartRun, ResetServer, RecordReset, Crash, EndProcess,
              histVars
<1>4. CASE \E E \in SUBSET Proposals : Recover(E) BY <1>4 DEF Recover, histVars
<1>5. CASE UNCHANGED vars BY <1>5 DEF vars, histVars
<1> QED BY <1>1, <1>2, <1>3, <1>4, <1>5 DEF Next

\* A step that reports nothing new and claims nothing new.
LEMMA HonestFrame ==
  ASSUME Honest, ledger \subseteq ledger',
         \A r \in Proposals : report'[r] \in {report[r], "none"},
         Claiming' => Claiming /\ current' = current
  PROVE  Honest'
<1>1. \A r : Done(r) => Done(r)' BY DEF Done
<1>2. ReportedMeansPerformed' BY <1>1 DEF Honest, ReportedMeansPerformed, Done
<1>3. Claiming' => Done(current)' BY <1>1 DEF Honest
<1> QED BY <1>2, <1>3 DEF Honest

\* A step that reports one remedy, as done only if it was.
LEMMA HonestReport ==
  ASSUME Honest, ledger \subseteq ledger', TypeOK, NEW result,
         Conclude(result), result # "none" => Done(current)
  PROVE  Honest'
<1>1. \A r : Done(r) => Done(r)' BY DEF Done
<1>2. \A r \in Proposals : report'[r] = report[r] \/ (r = current /\ report'[r] = result)
  BY DEF Conclude, TypeOK
<1>3. ReportedMeansPerformed' BY <1>1, <1>2 DEF Honest, ReportedMeansPerformed, Done
<1>4. ~Claiming' BY DEF Claiming, Conclude
<1> QED BY <1>3, <1>4 DEF Honest

\* The API and the network: an answer "created" is given for a request that is
\* being performed, and only to the run that waits for it.
LEMMA HonestServer ==
  ASSUME IInv, Honest, Server
  PROVE  Honest'
<1> USE DEF IInv
<1>1. ledger \subseteq ledger' /\ UNCHANGED <<journal, pc, key, current, report>>
  BY DEF Server, ServerPerforms, ForeignWrite, Perform, ServerRefuses, RequestLost,
         ServerRestarts, histVars, journalVars, runVars
<1>2. \A r \in Proposals : report'[r] = report[r] BY <1>1
<1>3. CASE reply' = reply
  BY <1>1, <1>2, <1>3, HonestFrame DEF Claiming
<1>4. CASE \E k \in Key : ServerRefuses(k)
  <2>1. reply' = reply \/ reply'.status \in {"refused", "unsure"}
    BY <1>4 DEF ServerRefuses, Answer
  <2> QED BY <1>1, <1>2, <2>1, HonestFrame DEF Claiming
<1>5. CASE \E k \in Key : ServerPerforms(k) /\ Awaiting(k)
  <2>1. PICK k \in Key : ServerPerforms(k) /\ Awaiting(k) BY <1>5
  <2>2. current \in Proposals /\ journal[k].fp = current
    BY <2>1 DEF RunOK, Awaiting, Holding
  <2> DEFINE w == [by |-> k, remedy |-> journal[k].fp,
                   id |-> <<IdPrefix[journal[k].fp.kind], seq + 1>>,
                   epoch |-> wipes]
  <2>3. w.remedy = current /\ ledger' = ledger \cup {w}
    BY <2>1, <2>2 DEF ServerPerforms, Perform, Key, Other
  <2> HIDE DEF w
  <2>4. Equivalent(w.remedy, current) BY <2>3 DEF Equivalent
  <2>5. Done(current)' BY <1>1, <2>3, <2>4 DEF Done, Equivalent
  <2>6. ReportedMeansPerformed' BY <1>1, <1>2 DEF Honest, ReportedMeansPerformed, Done
  <2> QED BY <2>5, <2>6 DEF Honest
<1>6. \/ reply' = reply
      \/ \E k \in Key : ServerRefuses(k)
      \/ \E k \in Key : ServerPerforms(k) /\ Awaiting(k)
  BY DEF Server, ServerPerforms, Answer, RequestLost, ServerRestarts, ForeignWrite,
         netVars
<1> QED BY <1>3, <1>4, <1>5, <1>6

\* The decision: what is skipped as a duplicate is in the log that was read.
LEMMA HonestDecision ==
  ASSUME IInv, Honest, SkipDuplicate
  PROVE  Honest'
<1> USE DEF IInv
<1>1. /\ Conclude("duplicate") /\ current \in Proposals
      /\ ledger \subseteq ledger'
  BY DEF SkipDuplicate, RunOK, histVars
<1>2. PICK w \in audit.writes : Equivalent(w.remedy, current)
  BY DEF SkipDuplicate, Duplicate, ServerEquivalents
<1>3. w \in ledger BY DEF TypeOK
<1>4. Done(current) BY <1>2, <1>3 DEF Done
<1> QED BY <1>1, <1>4, HonestReport

\* The search for a lost write takes an equivalent one, if any.
LEMMA HonestReconcile ==
  ASSUME IInv, Honest, Reconcile
  PROVE  Honest'
<1> USE DEF IInv
<1>1. /\ current \in Proposals /\ ledger' = ledger
      /\ audit'.writes \subseteq ledger
  BY DEF Reconcile, ReadAudit, Unread, RunOK, Holding, TypeOK, histVars
<1>2. CASE Conclude("none") BY <1>1, <1>2, HonestReport
<1>3. CASE /\ \E w \in audit'.writes : Equivalent(w.remedy, current)
           /\ UNCHANGED <<report, current>>
  <2>1. Done(current)' BY <1>1, <1>3 DEF Done
  <2>2. ReportedMeansPerformed' BY <1>1, <1>3 DEF Honest, ReportedMeansPerformed, Done
  <2> QED BY <2>1, <2>2 DEF Honest
<1> QED BY <1>2, <1>3 DEF Reconcile

\* The other steps of the run.
LEMMA HonestRun ==
  ASSUME IInv, Honest, Run, ledger \subseteq ledger'
  PROVE  Honest'
<1> USE DEF IInv
<1>1. ASSUME NEW r \in Proposals, Consult(r) PROVE Honest'
  BY <1>1, HonestFrame DEF Consult, Claiming
<1>2. CASE SkipDuplicate BY <1>2, HonestDecision
<1>3. CASE Block \/ WouldExecute
  BY <1>3, HonestReport DEF Block, WouldExecute
<1>4. CASE RecordIntent \/ Dispatch \/ NotSent \/ Timeout
  BY <1>4, HonestFrame
     DEF RecordIntent, Dispatch, NotSent, Timeout, Claiming, NoReply, runVars
<1>5. ASSUME NEW b \in BenefitKeys(current), RecordGrant(b) PROVE Honest'
  BY <1>5, HonestFrame DEF RecordGrant, Claiming, runVars
<1>6. CASE ReceiveReply
  <2>1. Claiming' => Claiming
    BY <1>6 DEF ReceiveReply, Claiming, Outcome, TypeOK
  <2> QED BY <1>6, <2>1, HonestFrame DEF ReceiveReply, runVars
<1>7. CASE SettleIntent
  <2>1. key \in Key /\ pc' = "settle" /\ journal'[key].state = SettledAs[pc]
    BY <1>7 DEF SettleIntent, RunOK, Holding, TypeOK, Row
  <2>2. Claiming' => pc = "accepted"
    BY <1>7, <2>1 DEF SettleIntent, Claiming, SettledAs, runVars
  <2> QED BY <1>7, <2>2, HonestFrame DEF SettleIntent, Claiming, runVars
<1>8. CASE SettleGrants
  <2>1. CASE journal[key].state = "unknown"
    BY <1>8, <2>1, HonestFrame DEF SettleGrants, Claiming
  <2>2. CASE journal[key].state = "succeeded"
    <3>1. Done(current) BY <1>8, <2>2 DEF Honest, Claiming, SettleGrants
    <3> QED BY <1>8, <2>2, <3>1, HonestReport DEF SettleGrants
  <2>3. CASE journal[key].state \notin {"unknown", "succeeded"}
    BY <1>8, <2>3, HonestReport DEF SettleGrants
  <2> QED BY <2>1, <2>2, <2>3
<1>9. CASE Reconcile BY <1>9, HonestReconcile
<1>10. ASSUME NEW E \in SUBSET Proposals, SecondPass(E) PROVE Honest'
  BY <1>10, HonestFrame DEF SecondPass, Claiming, netVars, journalVars
<1>11. CASE FinishRun
  BY <1>11, HonestFrame DEF FinishRun, EndProcess, FreshRun, Claiming, Idle
<1> QED BY <1>1, <1>2, <1>3, <1>4, <1>5, <1>6, <1>7, <1>8, <1>9, <1>10, <1>11 DEF Run

\* A run reports as done only what was performed, by this desk or another: its
\* own write was answered, or the write log shows one like it (_execute_one,
\* _reconcile).  No bound on crashes, lost answers or resets is needed.
THEOREM ReportedMeansPerformedHolds == Spec => []ReportedMeansPerformed
<1>1. Init => Honest
  BY DEF Init, Honest, ReportedMeansPerformed, Claiming, Idle
<1>2. IInv /\ Honest /\ [Next]_vars => Honest'
  <2> SUFFICES ASSUME IInv, Honest, [Next]_vars PROVE Honest'
    OBVIOUS
  <2>1. ledger \subseteq ledger' BY LedgerGrows
  <2>2. CASE Server BY <2>2, HonestServer
  <2>3. CASE Run BY <2>1, <2>3, HonestRun
  <2>4. CASE CommandLine
    BY <2>1, <2>4, HonestFrame
       DEF CommandLine, StartRun, ResetServer, RecordReset, Crash, EndProcess, FreshRun,
           Claiming, Idle, runVars
  <2>5. CASE \E E \in SUBSET Proposals : Recover(E)
    BY <2>1, <2>5, HonestFrame DEF Recover, Claiming
  <2>6. CASE UNCHANGED vars
    BY <2>1, <2>6, HonestFrame
       DEF vars, Claiming, runVars, journalVars, netVars
  <2> QED BY <2>2, <2>3, <2>4, <2>5, <2>6 DEF Next
<1>3. Honest => ReportedMeansPerformed BY DEF Honest
<1> QED BY <1>1, <1>2, <1>3, Invariance, PTL DEF Spec

\* A condition on the instance: what the write log cannot tell apart is the same
\* remedy.  Two events of one booking with equal amounts break it, and the report
\* with it.
LogTellsApart ==
  \A w \in Proposals \cup Foreign, r \in Proposals :
    Equivalent(w, r) => SameRemedy(w, r)

\* Under it, what is reported as done was done for that very event.
THEOREM ReportedMeansDoneHolds ==
  ASSUME LogTellsApart
  PROVE  Spec => []ReportedMeansDone
<1>1. IInv /\ ReportedMeansPerformed => ReportedMeansDone
  <2> SUFFICES ASSUME IInv, ReportedMeansPerformed, NEW r \in Proposals,
                      report[r] \in {"succeeded", "duplicate"}
               PROVE  \E w \in ledger : SameRemedy(w.remedy, r)
    BY DEF ReportedMeansDone
  <2>1. PICK w \in ledger : Equivalent(w.remedy, r)
    BY DEF ReportedMeansPerformed, Done
  <2>2. w.remedy \in Proposals \cup Foreign BY DEF IInv, TypeOK, Write
  <2> QED BY <2>1, <2>2 DEF LogTellsApart
<1> QED BY <1>1, ReportedMeansPerformedHolds, Invariance, PTL

-----------------------------------------------------------------------------
(* The other desk                                                          *)

Prefixes == {IdPrefix[k] : k \in Kinds}

\* While the API keeps its memory every write is identified.
IdsOK ==
  /\ \A w \in ledger : w.id \in Prefixes \X (1..seq)
  /\ \A w \in ledger : Identified(w)

Seen(id, r) == \E w \in ledger : w.id = id /\ Equivalent(w.remedy, r)

\* An identifier in the journal is that of a write like the row's, maybe of the
\* other desk, and the row has all its benefit keys.
LinksOK ==
  \A k \in Key : journal[k].id # NoId =>
    /\ Seen(journal[k].id, journal[k].fp)
    /\ journal[k].grants = BenefitKeys(journal[k].fp)

ReplyOK ==
  pc = "accepted" \/ (pc = "sent" /\ reply.status = "created")
    => Seen(reply.id, current)

\* The write about to be sent was held against the log that was read.
Vetted ==
  pc = "intent" =>
    \A w \in audit.writes :
      ~Ours(w) /\ Identified(w) => BenefitKeys(w.remedy) \cap BenefitKeys(current) = {}

Courteous == LinksOK /\ ReplyOK /\ Vetted

\* The same remedy consumes the same benefits.
LEMMA SameBenefits ==
  ASSUME NEW r, NEW s, SameRemedy(r, s)
  PROVE  BenefitKeys(r) = BenefitKeys(s)
BY DEF SameRemedy, BenefitKeys

\* Remedies that share a benefit overlap in the sense of the executor.
LEMMA SharedBenefitsOverlap ==
  ASSUME NEW r, NEW s, r.kind \in Kinds, s.kind \in Kinds,
         BenefitKeys(r) \cap BenefitKeys(s) # {}
  PROVE  Overlaps(r, s) /\ ~IsReferral(s)
<1>1. PICK b : b \in BenefitKeys(r) /\ b \in BenefitKeys(s) OBVIOUS
<1>2. r.kind = b[1] /\ s.kind = b[1]
  BY <1>1 DEF BenefitKeys, Kinds
<1>3. ~IsReferral(s) BY <1>1 DEF BenefitKeys, IsReferral
<1>4. s.kind = "hotel" => r.detail = s.detail
  <2> SUFFICES ASSUME s.kind = "hotel" PROVE r.detail = s.detail OBVIOUS
  <2>1. b[3] = s.detail /\ b[3] = r.detail BY <1>1, <1>2 DEF BenefitKeys
  <2> QED BY <2>1
<1>5. s.kind \in {"rebooking", "refund"} => r.people \cap s.people # {}
  <2> SUFFICES ASSUME s.kind \in {"rebooking", "refund"} PROVE r.people \cap s.people # {}
    OBVIOUS
  <2>1. b[3] \in s.people /\ b[3] \in r.people BY <1>1, <1>2 DEF BenefitKeys
  <2> QED BY <2>1
<1>6. s.kind = "hotel" => r.people \cap s.people # {}
  <2> SUFFICES ASSUME s.kind = "hotel" PROVE r.people \cap s.people # {} OBVIOUS
  <2>1. b[4] \in s.people /\ b[4] \in r.people BY <1>1, <1>2 DEF BenefitKeys
  <2> QED BY <2>1
<1> QED BY <1>2, <1>3, <1>4, <1>5, <1>6 DEF Overlaps, PerPassenger

\* A write gets the next number.
LEMMA PerformIds ==
  ASSUME TypeOK, IdsOK, NEW by, NEW r \in Proposals \cup Foreign, Perform(by, r)
  PROVE  IdsOK'
<1> DEFINE w == [by |-> by, remedy |-> r, id |-> <<IdPrefix[r.kind], seq + 1>>,
                 epoch |-> wipes]
<1>1. ledger' = ledger \cup {w} /\ seq' = seq + 1 BY DEF Perform
<1>2. w.id = <<IdPrefix[r.kind], seq + 1>> OBVIOUS
<1> HIDE DEF w
<1>3. seq \in Nat /\ r.kind \in Kinds BY ProposalsAssumption DEF TypeOK
<1>4. w.id \in Prefixes \X (1..(seq + 1)) BY <1>2, <1>3 DEF Prefixes
<1>5. \A v \in ledger : v.id \in Prefixes \X (1..(seq + 1)) /\ v.id[2] # w.id[2]
  BY <1>2, <1>3 DEF IdsOK
<1>6. \A u, v \in ledger' : u.id = v.id => u = v
  BY <1>1, <1>5 DEF IdsOK, Identified
<1>7. \A v \in ledger' : v.id \in Prefixes \X (1..seq') BY <1>1, <1>4, <1>5
<1> QED BY <1>1, <1>6, <1>7 DEF IdsOK, Identified

\* A step that neither writes the API's log nor the journal nor claims anything.
LEMMA CourteousFrame ==
  ASSUME Courteous, UNCHANGED <<ledger, journal>>,
         pc' # "intent" \/ UNCHANGED <<pc, current, audit>>,
         \/ pc' \notin {"sent", "accepted"}
         \/ pc' = "sent" /\ reply'.status # "created"
         \/ UNCHANGED <<pc, current, reply>>
  PROVE  Courteous'
<1> USE DEF Courteous
<1>1. LinksOK' BY DEF LinksOK, Seen
<1>2. ReplyOK' BY DEF ReplyOK, Seen
<1>3. Vetted' BY DEF Vetted, Identified
<1> QED BY <1>1, <1>2, <1>3

\* The API performs a write of either desk.
LEMMA CourteousPerform ==
  ASSUME IInv, Courteous,
         \/ \E k \in Key : ServerPerforms(k)
         \/ \E r \in Foreign : ForeignWrite(r)
  PROVE  Courteous'
<1> USE DEF IInv, Courteous
<1>1. PICK by \in Key \cup {Other}, r \in Proposals \cup Foreign :
        /\ Perform(by, r)
        /\ by # Other => ServerPerforms(by) /\ r = journal[by].fp
        /\ by = Other => UNCHANGED reply
  <2>1. ASSUME NEW k \in Key, ServerPerforms(k)
        PROVE  Perform(k, journal[k].fp) /\ journal[k].fp \in Proposals /\ k # Other
    BY <2>1 DEF ServerPerforms, SentOK, Sent, RowsOK, Key, Other
  <2>2. ASSUME NEW r \in Foreign, ForeignWrite(r)
        PROVE  Perform(Other, r) /\ UNCHANGED reply
    BY <2>2 DEF ForeignWrite, netVars
  <2> QED BY <2>1, <2>2
<1>2. UNCHANGED <<journal, pc, key, current, audit>>
  BY DEF ServerPerforms, ForeignWrite, journalVars, runVars
<1>3. ledger \subseteq ledger' BY <1>1 DEF Perform
<1>4. \A id, s : Seen(id, s) => Seen(id, s)' BY <1>3 DEF Seen
<1>5. LinksOK' BY <1>2, <1>4 DEF LinksOK
<1>6. Vetted' BY <1>2, <1>3 DEF Vetted, Identified
<1>7. ReplyOK'
  <2>1. CASE reply' = reply BY <1>2, <1>4, <2>1 DEF ReplyOK
  <2>2. CASE by # Other /\ Awaiting(by)
    <3>1. r = current BY <1>1, <2>2 DEF RunOK, Awaiting, Holding
    <3> DEFINE w == [by |-> by, remedy |-> r, id |-> <<IdPrefix[r.kind], seq + 1>>,
                     epoch |-> wipes]
    <3>2. w \in ledger' /\ w.remedy = current /\ w.id = <<IdPrefix[r.kind], seq + 1>>
      BY <1>1, <3>1 DEF Perform
    <3>3. reply'.id = <<IdPrefix[r.kind], seq + 1>>
      BY <1>1, <2>2 DEF ServerPerforms, Answer
    <3> HIDE DEF w
    <3>4. Equivalent(w.remedy, current) BY <3>2 DEF Equivalent
    <3>5. Seen(reply.id, current)' BY <3>2, <3>3, <3>4, <1>2 DEF Seen
    <3> QED BY <1>2, <3>5 DEF ReplyOK
  <2> QED BY <1>1, <2>1, <2>2 DEF ServerPerforms, Answer
<1> QED BY <1>5, <1>6, <1>7

\* What the log that was read shows of the other desk is not granted again: an
\* overlapping write is passed over only when it is tied to a row of another
\* benefit, and then the row is like the write.
LEMMA DecisionRespects ==
  ASSUME IInv, LogTellsApart, Courteous, pc = "decide", ~Barred(current),
         NEW w \in audit.writes, Identified(w)
  PROVE  BenefitKeys(w.remedy) \cap BenefitKeys(current) = {}
<1> USE DEF IInv, Courteous
<1>1. /\ w \in ledger /\ w.remedy \in Proposals \cup Foreign
      /\ current \in Proposals
  BY DEF TypeOK, Write, RunOK
<1>2. w.remedy.kind \in Kinds /\ current.kind \in Kinds
  BY <1>1, ProposalsAssumption
<1> SUFFICES ASSUME BenefitKeys(w.remedy) \cap BenefitKeys(current) # {}
             PROVE  FALSE
  OBVIOUS
<1>3. Overlaps(w.remedy, current) /\ ~IsReferral(current)
  BY <1>2, SharedBenefitsOverlap
<1>4. PICK k \in Linked(w.id) : journal[k].grants \cap BenefitKeys(current) = {}
  BY <1>3 DEF Barred, RemedyBarred, Overlapped
<1>5. k \in Key /\ journal[k].id = w.id /\ w.id # NoId /\ k < nextKey
  BY <1>4 DEF Linked, Rows, RowsOK, NoRow, Open, TypeOK, Key
<1>6. /\ Equivalent(w.remedy, journal[k].fp)
      /\ journal[k].grants = BenefitKeys(journal[k].fp)
  BY <1>1, <1>5 DEF LinksOK, Seen, Identified
<1>7. journal[k].fp \in Proposals BY <1>5 DEF RowsOK
<1>8. BenefitKeys(w.remedy) = BenefitKeys(journal[k].fp)
  BY <1>1, <1>6, <1>7, SameBenefits DEF LogTellsApart
<1> QED BY <1>4, <1>6, <1>8

\* The steps of the run that touch the journal or the answer.
LEMMA CourteousRun ==
  ASSUME IInv, LogTellsApart, Courteous, Run
  PROVE  Courteous'
<1> USE DEF IInv
<1>1. ASSUME NEW r \in Proposals, Consult(r) PROVE Courteous'
  BY <1>1, CourteousFrame DEF Consult, journalVars, apiVars, histVars
<1>2. CASE SkipDuplicate \/ Block \/ WouldExecute
  BY <1>2, CourteousFrame
     DEF SkipDuplicate, Block, WouldExecute, Conclude, journalVars, apiVars, histVars
<1>3. CASE RecordIntent
  <2> USE DEF Courteous
  <2>1. /\ UNCHANGED <<ledger, current, audit>> /\ pc' = "intent"
        /\ \A k \in Key : journal'[k].id = NoId
                          \/ journal'[k] = journal[k]
    BY <1>3 DEF RecordIntent, apiVars, histVars, TypeOK, NoRow
  <2>2. LinksOK' BY <2>1 DEF LinksOK, Seen
  <2>3. ReplyOK' BY <2>1 DEF ReplyOK
  <2>4. \A w \in audit.writes :
          Identified(w) => BenefitKeys(w.remedy) \cap BenefitKeys(current) = {}
    BY <1>3, DecisionRespects DEF RecordIntent
  <2>5. Vetted' BY <2>1, <2>4 DEF Vetted, Identified
  <2> QED BY <2>2, <2>3, <2>5
<1>4. ASSUME NEW b \in BenefitKeys(current), RecordGrant(b) PROVE Courteous'
  <2> USE DEF Courteous
  <2>1. /\ UNCHANGED <<ledger, pc, current, audit, reply>> /\ key \in Key
        /\ journal[key].fp = current /\ b \notin journal[key].grants
        /\ pc = "intent" /\ b \in BenefitKeys(current)
    BY <1>4 DEF RecordGrant, RunOK, Holding, apiVars, netVars, runVars, histVars
  <2>2. journal[key].id = NoId BY <2>1 DEF LinksOK
  <2>3. \A k \in Key : journal'[k] = journal[k] \/ (k = key /\ journal'[k].id = NoId)
    BY <1>4, <2>1, <2>2 DEF RecordGrant, TypeOK, Row
  <2>4. LinksOK' BY <2>1, <2>3 DEF LinksOK, Seen
  <2>5. ReplyOK' BY <2>1 DEF ReplyOK
  <2>6. Vetted' BY <2>1 DEF Vetted, Identified
  <2> QED BY <2>4, <2>5, <2>6
<1>5. CASE Dispatch \/ NotSent \/ Timeout
  BY <1>5, CourteousFrame
     DEF Dispatch, NotSent, Timeout, NoReply, journalVars, apiVars, histVars
<1>6. CASE ReceiveReply
  <2> USE DEF Courteous
  <2>1. /\ UNCHANGED <<ledger, journal, reply, current>>
        /\ pc' \in {"accepted", "refused", "unsure"}
        /\ pc' = "accepted" => pc = "sent" /\ reply.status = "created"
    BY <1>6 DEF ReceiveReply, Outcome, TypeOK, journalVars, apiVars, netVars, runVars,
                histVars
  <2>2. LinksOK' BY <2>1 DEF LinksOK, Seen
  <2>3. ReplyOK' BY <2>1 DEF ReplyOK, Seen
  <2>4. Vetted' BY <2>1 DEF Vetted
  <2> QED BY <2>2, <2>3, <2>4
<1>7. CASE SettleIntent
  <2> USE DEF Courteous
  <2>1. /\ UNCHANGED ledger /\ pc' = "settle" /\ key \in Key
        /\ journal[key].fp = current
        /\ journal[key].grants = BenefitKeys(current)
    BY <1>7 DEF SettleIntent, RunOK, Holding, apiVars, histVars
  <2>2. \A k \in Key \ {key} : journal'[k] = journal[k]
    BY <1>7 DEF SettleIntent, TypeOK
  <2>3. /\ journal'[key].fp = current
        /\ journal'[key].grants = BenefitKeys(current)
        /\ journal'[key].id = IF pc = "accepted" THEN reply.id ELSE NoId
    BY <1>7, <2>1 DEF SettleIntent, TypeOK, Row
  <2>4. LinksOK' BY <2>1, <2>2, <2>3 DEF LinksOK, ReplyOK, Seen
  <2>5. ReplyOK' /\ Vetted' BY <2>1 DEF ReplyOK, Vetted
  <2> QED BY <2>4, <2>5
<1>8. CASE SettleGrants
  <2> USE DEF Courteous
  <2>1. /\ UNCHANGED ledger /\ pc' \in {"reconcile", "next"} /\ key \in Key
    BY <1>8 DEF SettleGrants, Conclude, RunOK, Holding, apiVars, histVars
  <2>2. \A k \in Key : /\ journal'[k].id = journal[k].id
                       /\ journal'[k].fp = journal[k].fp
                       /\ journal'[k].grants = journal[k].grants
    BY <1>8, <2>1 DEF SettleGrants, TypeOK, Row
  <2>3. LinksOK' BY <2>1, <2>2 DEF LinksOK, Seen
  <2>4. ReplyOK' /\ Vetted' BY <2>1 DEF ReplyOK, Vetted
  <2> QED BY <2>3, <2>4
<1>9. CASE Reconcile
  <2> USE DEF Courteous
  <2>1. /\ UNCHANGED <<ledger, journal>> /\ pc' \in {"accepted", "next"}
        /\ audit'.writes \subseteq ledger
        /\ pc' = "accepted" =>
             /\ UNCHANGED current
             /\ \E w \in audit'.writes : Equivalent(w.remedy, current)
                                         /\ reply'.id = w.id
    BY <1>9 DEF Reconcile, ReadAudit, Unread, Conclude, TypeOK, apiVars, journalVars,
                histVars
  <2>2. LinksOK' BY <2>1 DEF LinksOK, Seen
  <2>3. ReplyOK' BY <2>1 DEF ReplyOK, Seen
  <2>4. Vetted' BY <2>1 DEF Vetted
  <2> QED BY <2>2, <2>3, <2>4
<1>10. ASSUME NEW E \in SUBSET Proposals, SecondPass(E) PROVE Courteous'
  BY <1>10, CourteousFrame DEF SecondPass, journalVars, apiVars, histVars
<1>11. CASE FinishRun
  BY <1>11, CourteousFrame DEF FinishRun, EndProcess, Idle, journalVars, apiVars, histVars
<1> QED BY <1>1, <1>2, <1>3, <1>4, <1>5, <1>6, <1>7, <1>8, <1>9, <1>10, <1>11 DEF Run

\* What another desk had performed when the run read the write log is not granted
\* again (the overlap scan of _execute_one), however often the API lost its
\* memory: only a write whose identifier was given again may be passed over.
THEOREM RespectsOthersHolds ==
  ASSUME LogTellsApart
  PROVE  Spec => RespectsOthers
<1>1. Init => Courteous
  BY DEF Init, Courteous, LinksOK, ReplyOK, Vetted, Idle, NoRow
<1>2. IInv /\ Courteous /\ [Next]_vars => Courteous'
  <2> SUFFICES ASSUME IInv, Courteous, [Next]_vars PROVE Courteous'
    OBVIOUS
  <2>1. CASE Server
    <3>1. ASSUME NEW k \in Key, ServerRefuses(k) \/ RequestLost(k) PROVE Courteous'
      BY <3>1, CourteousFrame
         DEF ServerRefuses, RequestLost, Answer, Awaiting, apiVars, journalVars, runVars,
             histVars
    <3>2. CASE ServerRestarts
      BY <3>2, CourteousFrame DEF ServerRestarts, netVars, journalVars, runVars
    <3> QED BY <2>1, <3>1, <3>2, CourteousPerform DEF Server
  <2>2. CASE Run BY <2>2, CourteousRun
  <2>3. CASE CommandLine
    BY <2>3, CourteousFrame
       DEF CommandLine, StartRun, ResetServer, RecordReset, Crash, EndProcess, Idle,
           journalVars, apiVars, histVars
  <2>4. CASE \E E \in SUBSET Proposals : Recover(E)
    BY <2>4, CourteousFrame DEF Recover, journalVars, apiVars, histVars
  <2>5. CASE UNCHANGED vars
    BY <2>5, CourteousFrame DEF vars, runVars, journalVars, netVars, apiVars, histVars
  <2> QED BY <2>1, <2>2, <2>3, <2>4, <2>5 DEF Next
<1>3. IInv /\ Courteous /\ [Next]_vars =>
        [\A k \in wire' \ wire : \A w \in audit.writes :
           ~Ours(w) /\ Identified(w) =>
             BenefitKeys(w.remedy) \cap BenefitKeys(journal[k].fp) = {}]_vars
  <2> SUFFICES ASSUME IInv, Courteous, [Next]_vars,
                      NEW k \in wire' \ wire, NEW w \in audit.writes, ~Ours(w),
                      Identified(w)
               PROVE  BenefitKeys(w.remedy) \cap BenefitKeys(journal[k].fp) = {}
    OBVIOUS
  <2>1. CASE Dispatch
    <3>1. k = key /\ pc = "intent" BY <2>1 DEF Dispatch
    <3>2. journal[key].fp = current BY <3>1 DEF IInv, RunOK, Holding
    <3> QED BY <3>1, <3>2 DEF Courteous, Vetted
  <2>2. CASE Server
    BY <2>2 DEF Server, ServerPerforms, ServerRefuses, RequestLost, ServerRestarts,
                ForeignWrite, netVars
  <2>3. CASE Run /\ ~Dispatch
    BY <2>3 DEF Run, Consult, SkipDuplicate, Block, WouldExecute, RecordIntent,
                RecordGrant, NotSent, ReceiveReply, Timeout, SettleIntent,
                SettleGrants, Reconcile, SecondPass, FinishRun, EndProcess, netVars
  <2>4. CASE CommandLine
    BY <2>4 DEF CommandLine, StartRun, ResetServer, RecordReset, Crash, EndProcess,
                netVars
  <2>5. CASE \E E \in SUBSET Proposals : Recover(E) BY <2>5 DEF Recover
  <2>6. CASE UNCHANGED vars BY <2>6 DEF vars, netVars
  <2> QED BY <2>1, <2>2, <2>3, <2>4, <2>5, <2>6 DEF Next
<1> QED BY <1>1, <1>2, <1>3, Invariance, PTL DEF Spec, RespectsOthers

\* An identifier is given again only when the API forgot what it had given.
THEOREM WritesIdentified ==
  ASSUME MaxWipes = 0
  PROVE  Spec => [](\A w \in ledger : Identified(w))
<1>1. Init => IdsOK BY DEF Init, IdsOK
<1>2. IInv /\ IdsOK /\ [Next]_vars => IdsOK'
  <2> SUFFICES ASSUME IInv, IdsOK, [Next]_vars PROVE IdsOK'
    OBVIOUS
  <2>1. CASE UNCHANGED <<ledger, seq>> BY <2>1 DEF IdsOK, Identified
  <2>2. ASSUME NEW k \in Key, ServerPerforms(k) PROVE IdsOK'
    <3>1. journal[k].fp \in Proposals
      BY <2>2 DEF ServerPerforms, IInv, SentOK, Sent, RowsOK
    <3> QED BY <2>2, <3>1, PerformIds DEF ServerPerforms, IInv
  <2>3. ASSUME NEW r \in Foreign, ForeignWrite(r) PROVE IdsOK'
    BY <2>3, PerformIds DEF ForeignWrite, IInv
  <2>4. ~ServerRestarts /\ ~ResetServer BY DEF ServerRestarts, ResetServer, IInv, TypeOK
  <2>5. CASE Server
    BY <2>1, <2>2, <2>3, <2>4, <2>5
       DEF Server, ServerRefuses, RequestLost, apiVars, histVars
  <2>6. CASE Run
    <3>1. UNCHANGED <<ledger, seq>>
      BY <2>6 DEF Run, Consult, SkipDuplicate, Block, WouldExecute, RecordIntent,
         RecordGrant, Dispatch, NotSent, ReceiveReply, Timeout, SettleIntent,
         SettleGrants, Reconcile, SecondPass, FinishRun, EndProcess, apiVars, histVars
    <3> QED BY <2>1, <3>1
  <2>7. CASE CommandLine
    BY <2>1, <2>4, <2>7
       DEF CommandLine, StartRun, RecordReset, Crash, EndProcess, apiVars, histVars
  <2>8. CASE \E E \in SUBSET Proposals : Recover(E)
    BY <2>1, <2>8 DEF Recover, apiVars, histVars
  <2>9. CASE UNCHANGED vars BY <2>1, <2>9 DEF vars, apiVars, histVars
  <2> QED BY <2>5, <2>6, <2>7, <2>8, <2>9 DEF Next
<1>3. IdsOK => \A w \in ledger : Identified(w) BY DEF IdsOK
<1> QED BY <1>1, <1>2, <1>3, Invariance, PTL DEF Spec
=============================================================================
