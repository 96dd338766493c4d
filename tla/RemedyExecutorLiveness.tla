----------------------- MODULE RemedyExecutorLiveness -----------------------
(***************************************************************************)
(* Every run of the write path ends, for any finite plan.                  *)
(*                                                                         *)
(* The argument.  Left measures what a run still has to do: the passes     *)
(* left, the proposals left in this one, the stages left of the proposal   *)
(* at hand.  Every step of the run, and an exception, makes it smaller in  *)
(* a well-founded order (RunStep, RecoverStep); the API, the network and   *)
(* the other desk leave it alone (WorldStep).  Until it has ended the run  *)
(* always has a next step (NeverStuck): the rows the plan may need are     *)
(* reserved when it starts (Roomy), so that no bound of the model holds it *)
(* up.                                                                     *)
(***************************************************************************)
EXTENDS RemedyExecutorProofs, FiniteSetTheorems, WellFoundedInduction

\* A plan is a finite list of remedies for finitely many passengers.
FinitePlans == IsFiniteSet(Proposals) /\ IsFiniteSet(AllBenefits)

Running == pc \notin {Idle, "marking"}

\* What is left of the proposal at hand; while its grants are recorded, one
\* stage for each that is missing.
MissingGrants == BenefitKeys(current) \ journal[key].grants
Unresolved    == journal[key].state = "unknown"
Stage ==
  CASE pc = "decide" -> 8 + Cardinality(AllBenefits)
    [] pc = "intent" -> 7 + Cardinality(MissingGrants)
    [] pc = "sent" -> 6
    [] pc = "unsure" -> 5
    [] pc = "settle" -> IF Unresolved THEN 4 ELSE 1
    [] pc = "reconcile" -> 3
    [] pc \in {"accepted", "refused"} -> 2
    [] OTHER -> 0

Measure == Nat \X (Nat \X Nat)
Left    == <<3 - pass, <<Cardinality(todo), Stage>>>>

\* The lexicographic order of measures.
Less  == OpToRel(<, Nat)
Order == LexPairOrdering(Less, LexPairOrdering(Less, Less, Nat, Nat), Nat, Nat \X Nat)
Below(m) == SetLessThan(m, Order, Measure)

-----------------------------------------------------------------------------
(* The measure                                                             *)

\* There is no infinite descent.
LEMMA OrderIsWellFounded == IsWellFoundedOn(Order, Measure)
<1>1. IsWellFoundedOn(Less, Nat)
  BY NatLessThanWellFounded DEF Less
<1>2. IsWellFoundedOn(LexPairOrdering(Less, Less, Nat, Nat), Nat \X Nat)
  BY <1>1, WFLexPairOrdering
<1> QED BY <1>1, <1>2, WFLexPairOrdering DEF Order, Measure

\* The order, spelled out.
LEMMA BelowMeans ==
  ASSUME NEW a \in Nat, NEW b \in Nat, NEW c \in Nat,
         NEW d \in Nat, NEW e \in Nat, NEW f \in Nat,
         a < d \/ (a = d /\ (b < e \/ (b = e /\ c < f)))
  PROVE  <<a, <<b, c>>>> \in Below(<<d, <<e, f>>>>)
<1>1. \A x, y \in Nat : <<x, y>> \in Less <=> x < y
  BY DEF Less, OpToRel
<1> DEFINE Inner == LexPairOrdering(Less, Less, Nat, Nat)
<1>2. b < e \/ (b = e /\ c < f) => <<<<b, c>>, <<e, f>>>> \in Inner
  BY <1>1 DEF LexPairOrdering
<1> HIDE DEF Inner
<1>3. <<<<a, <<b, c>>>>, <<d, <<e, f>>>>>> \in LexPairOrdering(Less, Inner, Nat, Nat \X Nat)
  BY <1>1, <1>2 DEF LexPairOrdering
<1> QED BY <1>3 DEF Below, SetLessThan, Order, Inner, Measure

\* What is still to do is a measure.
LEMMA LeftTyped ==
  ASSUME FinitePlans, IInv
  PROVE  /\ 3 - pass \in Nat /\ Cardinality(todo) \in Nat /\ Stage \in Nat
         /\ IsFiniteSet(todo) /\ Cardinality(AllBenefits) \in Nat
         /\ Left \in Measure
<1>1. 3 - pass \in Nat BY DEF IInv, TypeOK
<1>2. IsFiniteSet(todo) BY FS_Subset DEF FinitePlans, IInv, TypeOK
<1>3. Cardinality(todo) \in Nat BY <1>2, FS_CardinalityType
<1>4. Cardinality(AllBenefits) \in Nat BY FS_CardinalityType DEF FinitePlans
<1>5. pc = "intent" => Cardinality(MissingGrants) \in Nat
  <2> SUFFICES ASSUME pc = "intent" PROVE Cardinality(MissingGrants) \in Nat
    OBVIOUS
  <2>1. current \in Proposals BY DEF IInv, RunOK, Holding
  <2>2. MissingGrants \in SUBSET AllBenefits BY <2>1, BenefitsTyped DEF MissingGrants
  <2> QED BY <2>2, FS_Subset, FS_CardinalityType DEF FinitePlans
<1>6. Stage \in Nat BY <1>4, <1>5 DEF Stage
<1> QED BY <1>1, <1>2, <1>3, <1>4, <1>6 DEF Left, Measure

LEMMA StageTyped ==
  ASSUME FinitePlans
  PROVE  IInv' => (Stage \in Nat)'
<1>1. IInv => Stage \in Nat BY LeftTyped
<1> QED BY <1>1, PTL

\* The three ways in which a step gets on: with the proposal at hand, with the
\* pass, or with the run.
LEMMA ProposalGetsOn ==
  ASSUME FinitePlans, IInv, IInv', UNCHANGED <<pass, todo>>, Stage' < Stage
  PROVE  Left' \in Below(Left)
<1>1. /\ 3 - pass \in Nat /\ Cardinality(todo) \in Nat
      /\ Stage \in Nat /\ Stage' \in Nat
  BY LeftTyped, StageTyped
<1>2. Left' = <<3 - pass, <<Cardinality(todo), Stage'>>>> BY DEF Left
<1> HIDE DEF Stage
<1> QED BY <1>1, <1>2, BelowMeans DEF Left

LEMMA PassGetsOn ==
  ASSUME FinitePlans, IInv, IInv', UNCHANGED pass, NEW r \in todo, todo' = todo \ {r}
  PROVE  Left' \in Below(Left)
<1>1. /\ 3 - pass \in Nat /\ Cardinality(todo) \in Nat /\ IsFiniteSet(todo)
      /\ Stage \in Nat /\ Stage' \in Nat
  BY LeftTyped, StageTyped
<1>2. Cardinality(todo \ {r}) = Cardinality(todo) - 1 /\ Cardinality(todo \ {r}) \in Nat
  BY <1>1, FS_RemoveElement, FS_CardinalityType
<1>3. Left' = <<3 - pass, <<Cardinality(todo \ {r}), Stage'>>>> BY DEF Left
<1> HIDE DEF Stage
<1> QED BY <1>1, <1>2, <1>3, BelowMeans DEF Left

LEMMA RunGetsOn ==
  ASSUME FinitePlans, IInv, IInv', pass' > pass
  PROVE  Left' \in Below(Left)
<1>1. /\ 3 - pass \in Nat /\ Cardinality(todo) \in Nat
      /\ Stage \in Nat /\ Stage' \in Nat
  BY LeftTyped, StageTyped
<1>2. pass \in {1, 2, 3} /\ pass' \in {1, 2, 3} /\ todo' \in SUBSET Proposals
  BY DEF IInv, TypeOK
<1>3. Cardinality(todo') \in Nat BY <1>2, FS_Subset, FS_CardinalityType DEF FinitePlans
<1>4. 3 - pass' \in Nat /\ 3 - pass' < 3 - pass
  <2>1. pass' \in {2, 3} BY <1>2
  <2>2. CASE pass' = 2 BY <2>2, <1>2
  <2>3. CASE pass' = 3 BY <2>3, <1>2
  <2> QED BY <2>1, <2>2, <2>3
<1>5. Left' = <<3 - pass', <<Cardinality(todo'), Stage'>>>> BY DEF Left
<1> HIDE DEF Stage
<1> QED BY <1>1, <1>3, <1>4, <1>5, BelowMeans DEF Left

-----------------------------------------------------------------------------
(* The steps                                                               *)

\* While a run holds a row, the row is its own.
LEMMA OwnRow ==
  ASSUME IInv, pc \in Holding
  PROVE  /\ key \in Key /\ journal \in [Key -> Row] /\ current \in Proposals
         /\ BenefitKeys(current) \subseteq AllBenefits
BY BenefitsTyped DEF IInv, TypeOK, RunOK

\* One more grant on disk is one less missing.
LEMMA GrantStep ==
  ASSUME FinitePlans, IInv, IInv', NEW b \in BenefitKeys(current), RecordGrant(b)
  PROVE  Left' \in Below(Left)
<1>1. /\ pc = "intent" /\ pc' = "intent" /\ UNCHANGED <<pass, todo, current, key>>
      /\ b \in MissingGrants /\ pc \in Holding
  BY DEF RecordGrant, runVars, MissingGrants, Holding
<1>2. /\ key \in Key /\ journal \in [Key -> Row]
      /\ BenefitKeys(current) \subseteq AllBenefits
  BY <1>1, OwnRow
<1>3. journal'[key].grants = journal[key].grants \cup {b}
  <2>1. journal[key] \in Row BY <1>2
  <2> QED BY <1>2, <2>1 DEF RecordGrant, Row
<1>4. MissingGrants' = MissingGrants \ {b}
  BY <1>1, <1>3 DEF MissingGrants
<1>5. IsFiniteSet(MissingGrants)
  BY <1>2, FS_Subset DEF FinitePlans, MissingGrants
<1>6. /\ Cardinality(MissingGrants \ {b}) = Cardinality(MissingGrants) - 1
      /\ Cardinality(MissingGrants) \in Nat
  BY <1>1, <1>5, FS_RemoveElement, FS_CardinalityType
<1>7. Stage' < Stage BY <1>1, <1>4, <1>6 DEF Stage
<1> QED BY <1>1, <1>7, ProposalGetsOn

\* Recording the intent leaves only the grants of this remedy to record.
LEMMA IntentStep ==
  ASSUME FinitePlans, IInv, IInv', RecordIntent
  PROVE  Left' \in Below(Left)
<1>1. /\ pc = "decide" /\ pc' = "intent" /\ UNCHANGED <<pass, todo, current>>
      /\ current \in Proposals
  BY DEF RecordIntent, IInv, RunOK
<1>2. MissingGrants' \in SUBSET AllBenefits
  BY <1>1, BenefitsTyped DEF MissingGrants
<1>3. /\ Cardinality(MissingGrants') <= Cardinality(AllBenefits)
      /\ Cardinality(MissingGrants') \in Nat /\ Cardinality(AllBenefits) \in Nat
  BY <1>2, FS_Subset, FS_CardinalityType DEF FinitePlans
<1>4. Stage' < Stage BY <1>1, <1>3 DEF Stage
<1> QED BY <1>1, <1>4, ProposalGetsOn

\* An outcome that is not known costs a reconciliation, and that is all.
LEMMA SettleStep ==
  ASSUME FinitePlans, IInv, IInv', SettleIntent \/ SettleGrants
  PROVE  Left' \in Below(Left)
<1>1. pc \in Holding /\ UNCHANGED <<pass, todo>>
  BY DEF SettleIntent, SettleGrants, Holding, runVars
<1>2. key \in Key /\ journal \in [Key -> Row] BY <1>1, OwnRow
<1>3. journal[key] \in Row BY <1>2
<1>4. CASE SettleIntent
  <2>1. /\ pc \in {"accepted", "refused", "unsure"} /\ pc' = "settle" /\ key' = key
        /\ journal'[key].state = SettledAs[pc]
    BY <1>2, <1>3, <1>4 DEF SettleIntent, runVars, Row
  <2>2. Unresolved' <=> pc = "unsure" BY <2>1 DEF Unresolved, SettledAs
  <2>3. Stage' < Stage BY <2>1, <2>2 DEF Stage
  <2> QED BY <1>1, <2>3, ProposalGetsOn
<1>5. CASE SettleGrants
  <2>1. pc = "settle" /\ pc' = IF Unresolved THEN "reconcile" ELSE "next"
    BY <1>5 DEF SettleGrants, Conclude, Unresolved
  <2>2. Stage' < Stage BY <2>1 DEF Stage
  <2> QED BY <1>1, <2>2, ProposalGetsOn
<1> QED BY <1>4, <1>5

\* Every step of a run ends it or leaves it less to do.
LEMMA RunStep ==
  ASSUME FinitePlans, IInv, Run
  PROVE  pc' = Idle \/ (Running' /\ Left' \in Below(Left))
<1>1. IInv' BY NextInv DEF Next
<1> SUFFICES ASSUME pc' # Idle PROVE Running' /\ Left' \in Below(Left)
  OBVIOUS
<1>2. Cardinality(AllBenefits) \in Nat BY LeftTyped
<1>3. Running'
  <2>1. CASE ReceiveReply
    <3>1. reply.status \in {"created", "refused", "unsure"}
      BY <2>1 DEF ReceiveReply, IInv, TypeOK
    <3> QED BY <2>1, <3>1 DEF ReceiveReply, Outcome, Running, Idle
  <2>2. CASE \/ \E r \in Proposals : Consult(r)
             \/ SkipDuplicate \/ Block \/ WouldExecute \/ RecordIntent
    BY <2>2 DEF Consult, SkipDuplicate, Block, WouldExecute, RecordIntent, Conclude,
       Running, Idle
  <2>3. CASE \/ \E b \in BenefitKeys(current) : RecordGrant(b)
             \/ Dispatch \/ NotSent \/ Timeout \/ SettleIntent
    BY <2>3 DEF RecordGrant, Dispatch, NotSent, Timeout, SettleIntent, Running, Idle
  <2>4. CASE SettleGrants \/ Reconcile \/ \E E \in SUBSET Proposals : SecondPass(E)
    BY <2>4 DEF SettleGrants, Reconcile, SecondPass, Conclude, Running, Idle
  <2>5. CASE FinishRun BY <2>5 DEF FinishRun, EndProcess
  <2> QED BY <2>1, <2>2, <2>3, <2>4, <2>5 DEF Run
<1>4. CASE \E r \in Proposals : Consult(r)
  BY <1>1, <1>3, <1>4, PassGetsOn DEF Consult
<1>5. CASE SkipDuplicate \/ Block \/ WouldExecute
  <2>1. pc = "decide" /\ pc' = "next" /\ UNCHANGED <<pass, todo>>
    BY <1>5 DEF SkipDuplicate, Block, WouldExecute, Conclude
  <2>2. Stage' < Stage BY <1>2, <2>1 DEF Stage
  <2> QED BY <1>1, <1>3, <2>1, <2>2, ProposalGetsOn
<1>6. CASE RecordIntent BY <1>1, <1>3, <1>6, IntentStep
<1>7. CASE \E b \in BenefitKeys(current) : RecordGrant(b)
  BY <1>1, <1>3, <1>7, GrantStep
<1>8. CASE Dispatch \/ NotSent
  <2>1. pc = "intent" /\ pc' \in {"sent", "refused"} /\ UNCHANGED <<pass, todo>>
    BY <1>8 DEF Dispatch, NotSent, runVars
  <2>2. MissingGrants = {} BY <1>8 DEF Dispatch, NotSent, GrantsRecorded, MissingGrants
  <2>3. Cardinality(MissingGrants) = 0 BY <2>2, FS_EmptySet
  <2>4. Stage' < Stage BY <2>1, <2>3 DEF Stage
  <2> QED BY <1>1, <1>3, <2>1, <2>4, ProposalGetsOn
<1>9. CASE ReceiveReply \/ Timeout
  <2>1. pc = "sent" /\ pc' \in {"accepted", "refused", "unsure"} /\ UNCHANGED <<pass, todo>>
    BY <1>9 DEF ReceiveReply, Timeout, Outcome, runVars, IInv, TypeOK
  <2>2. Stage' < Stage BY <2>1 DEF Stage
  <2> QED BY <1>1, <1>3, <2>1, <2>2, ProposalGetsOn
<1>10. CASE SettleIntent \/ SettleGrants BY <1>1, <1>3, <1>10, SettleStep
<1>11. CASE Reconcile
  <2>1. pc = "reconcile" /\ pc' \in {"accepted", "next"} /\ UNCHANGED <<pass, todo>>
    BY <1>11 DEF Reconcile, Conclude
  <2>2. Stage' < Stage BY <2>1 DEF Stage
  <2> QED BY <1>1, <1>3, <2>1, <2>2, ProposalGetsOn
<1>12. CASE \E E \in SUBSET Proposals : SecondPass(E)
  <2>1. pass = 1 /\ pass' = 2 BY <1>12 DEF SecondPass
  <2> QED BY <1>1, <1>3, <2>1, RunGetsOn
<1>13. CASE FinishRun BY <1>13 DEF FinishRun, EndProcess
<1> QED BY <1>4, <1>5, <1>6, <1>7, <1>8, <1>9, <1>10, <1>11, <1>12, <1>13 DEF Run

\* An exception costs a pass.
LEMMA RecoverGetsOn ==
  ASSUME FinitePlans, IInv, NEW E \in SUBSET Proposals, Recover(E)
  PROVE  Running' /\ Left' \in Below(Left)
<1>1. IInv' BY NextInv DEF Next
<1>2. pass' > pass BY DEF Recover, IInv, TypeOK
<1>3. Running' BY DEF Recover, Running, Idle
<1> QED BY <1>1, <1>2, <1>3, RunGetsOn

\* Nobody else adds to what a run has to do.
LEMMA WorldStep ==
  ASSUME Running, Server \/ CommandLine \/ UNCHANGED vars
  PROVE  pc' = Idle \/ (Running' /\ Left' = Left)
<1>1. CASE Server \/ UNCHANGED vars
  <2>1. UNCHANGED <<journal, pc, pass, todo, current, key>>
    BY <1>1 DEF Server, ServerPerforms, ServerRefuses, RequestLost, ServerRestarts,
       ForeignWrite, vars, journalVars, runVars
  <2> QED BY <2>1 DEF Running, Left, Stage, MissingGrants, Unresolved
<1>2. CASE CommandLine
  BY <1>2 DEF CommandLine, StartRun, ResetServer, RecordReset, Crash, EndProcess, Running
<1> QED BY <1>1, <1>2

-----------------------------------------------------------------------------
(* A run always has a next step                                            *)

\* The journal has room for every proposal that is still to be decided.
InDecision == IF pc = "decide" THEN 1 ELSE 0
Roomy == Running => nextKey + Cardinality(todo) + InDecision <= MaxIntents + 1

LEMMA RoomyStep ==
  ASSUME FinitePlans, IInv, Roomy, [Next]_vars
  PROVE  Roomy'
<1> USE BoundsAssumption
<1>1. /\ Cardinality(todo) \in Nat /\ nextKey \in Nat /\ IsFiniteSet(todo)
      /\ nextKey <= MaxIntents + 1
  BY LeftTyped DEF IInv, TypeOK
<1>2. CASE Server \/ UNCHANGED vars
  BY <1>2 DEF Server, ServerPerforms, ServerRefuses, RequestLost, ServerRestarts,
     ForeignWrite, vars, journalVars, runVars, Roomy, Running, InDecision
<1>3. CASE CommandLine
  <2>1. ASSUME NEW P \in SUBSET Proposals, NEW d \in BOOLEAN, StartRun(P, d)
        PROVE  Roomy'
    <3>1. Cardinality(P) \in Nat BY FS_Subset, FS_CardinalityType DEF FinitePlans
    <3> QED BY <1>1, <2>1, <3>1 DEF StartRun, RoomFor, Roomy, InDecision, journalVars
  <2>2. CASE ResetServer \/ RecordReset \/ Crash
    BY <2>2 DEF ResetServer, RecordReset, Crash, EndProcess, Roomy, Running
  <2> QED BY <1>3, <2>1, <2>2 DEF CommandLine
<1>4. CASE \E E \in SUBSET Proposals : Recover(E)
  <2>1. PICK E \in SUBSET Proposals : Recover(E) BY <1>4
  <2>2. Cardinality(E) \in Nat BY FS_Subset, FS_CardinalityType DEF FinitePlans
  <2> QED BY <1>1, <2>1, <2>2 DEF Recover, RoomFor, Roomy, InDecision, journalVars
<1>5. CASE \E E \in SUBSET Proposals : SecondPass(E)
  <2>1. PICK E \in SUBSET Proposals : SecondPass(E) BY <1>5
  <2>2. Cardinality(E) \in Nat BY FS_Subset, FS_CardinalityType DEF FinitePlans
  <2> QED BY <1>1, <2>1, <2>2 DEF SecondPass, RoomFor, Roomy, InDecision, journalVars
<1>6. CASE \E r \in Proposals : Consult(r)
  <2>1. PICK r \in Proposals : Consult(r) BY <1>6
  <2>2. Cardinality(todo \ {r}) = Cardinality(todo) - 1
    BY <1>1, <2>1, FS_RemoveElement DEF Consult
  <2> QED BY <1>1, <2>1, <2>2 DEF Consult, Roomy, Running, Idle, InDecision, journalVars
<1>7. CASE RecordIntent
  BY <1>1, <1>7 DEF RecordIntent, Roomy, Running, Idle, InDecision
<1>8. CASE SkipDuplicate \/ Block \/ WouldExecute
  BY <1>1, <1>8 DEF SkipDuplicate, Block, WouldExecute, Conclude, Roomy, Running, Idle,
     InDecision, journalVars
<1>9. CASE \/ \E b \in BenefitKeys(current) : RecordGrant(b)
           \/ Dispatch \/ NotSent \/ ReceiveReply \/ Timeout
           \/ SettleIntent \/ SettleGrants \/ Reconcile
  <2>1. /\ pc # "decide" /\ Running /\ UNCHANGED <<nextKey, todo>>
    BY <1>9 DEF RecordGrant, Dispatch, NotSent, ReceiveReply, Timeout, SettleIntent,
       SettleGrants, Reconcile, runVars, journalVars, Running, Idle
  <2>2. pc' # "decide"
    <3>1. ReceiveReply => pc' \in {"accepted", "refused", "unsure"}
      BY DEF ReceiveReply, Outcome, IInv, TypeOK
    <3> QED BY <1>9, <3>1 DEF RecordGrant, Dispatch, NotSent, Timeout, SettleIntent,
            SettleGrants, Reconcile, Conclude
  <2> QED BY <1>1, <2>1, <2>2 DEF Roomy, InDecision
<1>10. CASE FinishRun BY <1>10 DEF FinishRun, EndProcess, Roomy, Running
<1> QED BY <1>2, <1>3, <1>4, <1>5, <1>6, <1>7, <1>8, <1>9, <1>10 DEF Next, Run

LEMMA RoomyHolds == ASSUME FinitePlans PROVE Spec => []Roomy
<1>1. Init => Roomy BY DEF Init, Roomy, Running
<1>2. IInv /\ Roomy /\ [Next]_vars => Roomy' BY RoomyStep
<1> QED BY <1>1, <1>2, Invariance, PTL DEF Spec

\* The conditions under which the steps of a run can be taken.
CanStep ==
  \/ pc = "next" /\ todo = {}
  \/ pc = "next" /\ \E r \in todo :
       \A s \in todo : ExecutionOrder[r.kind] <= ExecutionOrder[s.kind]
  \/ pc = "decide" /\ (Duplicate(current) \/ Barred(current) \/ dry \/ nextKey \in Key)
  \/ pc = "intent" /\ (MissingGrants # {} \/ GrantsRecorded)
  \/ pc \in {"sent", "accepted", "refused", "unsure", "settle", "reconcile"}

\* A run that has not ended is never without a next step, whatever is in the
\* journal and in the log and whether or not an answer comes (run, _execute_one).
THEOREM NeverStuck ==
  ASSUME FinitePlans
  PROVE  Spec => [](Running => CanStep)
<1>1. ASSUME IInv, Roomy, Running PROVE CanStep
  <2>1. CASE pc = "next" /\ todo # {}
    <3> DEFINE Places == {ExecutionOrder[r.kind] : r \in todo}
    <3>1. \A r \in todo : ExecutionOrder[r.kind] \in Nat
      BY <1>1, ProposalsAssumption DEF IInv, TypeOK, ExecutionOrder, Kinds
    <3>2. Places \in SUBSET Nat /\ Places # {} BY <2>1, <3>1
    <3> HIDE DEF Places
    <3>3. PICK n \in Places : \A m \in Places : ~ (<<m, n>> \in Less)
      BY <3>2, NatLessThanWellFounded, WFMin DEF Less
    <3>4. \A x, y \in Nat : <<x, y>> \in Less <=> x < y BY DEF Less, OpToRel
    <3>5. ASSUME NEW m \in Places PROVE n <= m
      <4>1. m \in Nat /\ n \in Nat /\ ~ (<<m, n>> \in Less) BY <3>2, <3>3
      <4>2. ~ (m < n) BY <3>4, <4>1
      <4> QED BY <4>1, <4>2
    <3>6. PICK r \in todo : ExecutionOrder[r.kind] = n BY <3>3 DEF Places
    <3> QED BY <2>1, <3>5, <3>6 DEF CanStep, Places
  <2>2. CASE pc = "next" /\ todo = {} BY <2>2 DEF CanStep
  <2>3. CASE pc = "decide"
    <3>1. nextKey + Cardinality(todo) + 1 <= MaxIntents + 1
      BY <1>1, <2>3 DEF Roomy, InDecision
    <3>2. Cardinality(todo) \in Nat BY <1>1, LeftTyped
    <3>3. nextKey \in Key BY <1>1, <3>1, <3>2, BoundsAssumption DEF Key, IInv, TypeOK
    <3> QED BY <2>3, <3>3 DEF CanStep
  <2>4. CASE pc = "intent"
    BY <1>1, <2>4 DEF CanStep, IInv, RunOK, Holding, MissingGrants, GrantsRecorded
  <2>5. CASE pc \in {"sent", "accepted", "refused", "unsure", "settle", "reconcile"}
    BY <2>5 DEF CanStep
  <2> QED BY <1>1, <2>1, <2>2, <2>3, <2>4, <2>5 DEF Running, IInv, TypeOK, Control
<1> QED BY <1>1, RoomyHolds, Invariance, PTL

-----------------------------------------------------------------------------
(* Every run ends.  Two things the provers cannot do are hypotheses.  That *)
(* a step whose conditions hold is enabled (RunCanStep) says that CanStep  *)
(* repeats the guards of Run.  The rule of well-founded descent (Descent)  *)
(* holds of every behaviour, whatever the module says, because Order is    *)
(* well-founded: what always leads to something smaller, leads out.        *)

RunCanStep == CanStep => ENABLED <<Run>>_vars

Descends(m) == (Running /\ Left = m) ~> (pc = Idle \/ (Running /\ Left \in Below(m)))

Descent ==
  (\A m \in Measure : Descends(m)) => ((Running /\ Left \in Measure) ~> (pc = Idle))

LEMMA MeasureGetsOn ==
  ASSUME FinitePlans, NEW m \in Measure
  PROVE  FairSpec /\ []RunCanStep => Descends(m)
<1> DEFINE Here == Running /\ Left = m
           On   == pc = Idle \/ (Running /\ Left \in Below(m))
<1>1. IInv /\ Here /\ [Next]_vars => Here' \/ On'
  <2> SUFFICES ASSUME IInv, Here, [Next]_vars PROVE Here' \/ On'
    OBVIOUS
  <2>1. CASE Run BY <2>1, RunStep
  <2>2. CASE \E E \in SUBSET Proposals : Recover(E) BY <2>2, RecoverGetsOn
  <2>3. CASE Server \/ CommandLine \/ UNCHANGED vars BY <2>3, WorldStep
  <2> QED BY <2>1, <2>2, <2>3 DEF Next
<1>2. IInv /\ Here /\ <<Run>>_vars => On'
  BY RunStep
<1>3. Here => Running
  OBVIOUS
<1>4. FairSpec => Spec
  BY PTL DEF FairSpec
<1> HIDE DEF Here, On
<1>5. FairSpec /\ []RunCanStep => (Here ~> On)
  BY <1>1, <1>2, <1>3, <1>4, NeverStuck, Invariance, PTL DEF FairSpec, Spec, RunCanStep
<1> QED BY <1>5, PTL DEF Descends, Here, On

\* Whatever a run still has to do, under the fairness of FairSpec it ends or
\* comes to have less to do, for any finite plans, any journal and any network.
THEOREM RunDescends ==
  ASSUME FinitePlans
  PROVE  FairSpec /\ []RunCanStep => \A m \in Measure : Descends(m)
<1> QED BY MeasureGetsOn

\* Every run ends or is killed: no answer that never comes, and no loss of the
\* API's memory, leaves it waiting (execute, _write with its timeout).
THEOREM EveryRunEndsHolds ==
  ASSUME FinitePlans
  PROVE  FairSpec /\ []RunCanStep /\ Descent => EveryRunEnds
<1>1. IInv /\ pc = "next" => Running /\ Left \in Measure
  BY LeftTyped DEF Running, Idle
<1>2. FairSpec => Spec
  BY PTL DEF FairSpec
<1> QED BY <1>1, <1>2, RunDescends, Invariance, PTL DEF Descent, EveryRunEnds
=============================================================================
