--------------------------- MODULE ReviewDeskProofs ---------------------------
(***************************************************************************)
(* The review desk for any pages, any number of cases and of restarts.     *)
(*                                                                         *)
(* The argument.  The lock passes from the handler that acquired it to the *)
(* worker it starts, and no third party may act on it in between: at most  *)
(* one handler is accepting (OneAccepting), at most one worker is at work  *)
(* (OneWorking), never both (Handover), and whoever it is holds the lock   *)
(* (Locked).  That needs a case to be new to its handler (Fresh).  A       *)
(* status is final only when its worker has nothing left but the release   *)
(* (Unpublished), and a child writes only while it owns the lock file      *)
(* (Owned).                                                                *)
(***************************************************************************)
EXTENDS ReviewDesk, TLAPS

OneAccepting == \A p, q \in Pages : Accepting(p) /\ Accepting(q) => p = q
OneWorking   == \A i, j \in Job : Working(i) /\ Working(j) => i = j
Handover     == \A p \in Pages, j \in Job : ~(Accepting(p) /\ Working(j))
Locked       == /\ \A p \in Pages : Accepting(p) => lock
                /\ \A j \in Job : Working(j) => lock
Fresh == /\ \A j \in Job : j >= nextJob => worker[j] = "none"
         /\ \A p \in Pages :
              Accepting(p) => page[p].job \in Job /\ page[p].job < nextJob
                              /\ worker[page[p].job] = "none"
Unpublished ==
  \A j \in Job :
    worker[j] \in {"none", "input", "child", "check", "failed"} => jobs[j] \notin Final
Owned == \A j \in Job : child[j] = "writing" => writer = j

DInv == /\ TypeOK /\ OneAccepting /\ OneWorking /\ Handover /\ Locked
        /\ Fresh /\ Unpublished /\ Owned

PageType == [step : {"idle", "register", "start", "poll"}, job : Job \cup {None}]

LEMMA IdleTyped == Idle \in PageType
BY DEF Idle, PageType

LEMMA InitD == Init => DInv
<1> SUFFICES ASSUME Init PROVE DInv
  OBVIOUS
<1> USE BoundsAssumption DEF Init
<1>1. TypeOK
  <2>1. page \in [Pages -> PageType] BY IdleTyped
  <2>2. nextJob \in 1..(MaxJobs + 1) /\ restarts \in 0..MaxRestarts OBVIOUS
  <2> QED BY <2>1, <2>2 DEF TypeOK, PageType
<1>2. (\A p \in Pages : ~Accepting(p)) /\ (\A j \in Job : ~Working(j))
  BY DEF Accepting, Working, At, Idle
<1>3. OneAccepting /\ OneWorking /\ Handover /\ Locked /\ Fresh
  BY <1>2 DEF OneAccepting, OneWorking, Handover, Locked, Fresh
<1>4. Unpublished /\ Owned BY DEF Unpublished, Owned, Final
<1> QED BY <1>1, <1>3, <1>4 DEF DInv

-----------------------------------------------------------------------------
\* The pages and their handler threads.
LEMMA AcquireStep ==
  ASSUME DInv, NEW p \in Pages, Acquire(p)
  PROVE  DInv'
<1> USE BoundsAssumption DEF DInv
<1>1. TypeOK' BY DEF TypeOK, Acquire, Job
<1>2. \A q \in Pages : Accepting(q)' => q = p
  BY DEF Acquire, Locked, Accepting, At, TypeOK
<1>3. \A j \in Job : ~Working(j) /\ ~Working(j)'
  BY DEF Acquire, Locked, Working
<1>4. OneAccepting' /\ OneWorking' /\ Handover' /\ Locked'
  BY <1>2, <1>3 DEF OneAccepting, OneWorking, Handover, Locked, Acquire
<1>5. Fresh'
  BY <1>2 DEF Fresh, Acquire, TypeOK, Job, Accepting, At
<1>6. Unpublished' /\ Owned' BY DEF Unpublished, Owned, Acquire
<1> QED BY <1>1, <1>4, <1>5, <1>6

LEMMA RegisterStep ==
  ASSUME DInv, NEW p \in Pages, Register(p)
  PROVE  DInv'
<1> USE DEF DInv
<1>1. TypeOK' BY DEF TypeOK, Register, Goto
<1>2. \A q \in Pages : (Accepting(q)' <=> Accepting(q)) /\ page'[q].job = page[q].job
  BY DEF Register, Goto, At, Accepting, TypeOK
<1>3. OneAccepting' /\ OneWorking' /\ Handover' /\ Locked' /\ Fresh'
  BY <1>2 DEF OneAccepting, OneWorking, Handover, Locked, Fresh, Register, Working
<1>4. Unpublished' /\ Owned'
  BY DEF Unpublished, Owned, Register, Final, TypeOK
<1> QED BY <1>1, <1>3, <1>4

LEMMA StartThreadStep ==
  ASSUME DInv, NEW p \in Pages, StartThread(p)
  PROVE  DInv'
<1> USE DEF DInv
<1>1. Accepting(p) /\ page[p].job \in Job /\ worker[page[p].job] = "none"
  BY DEF StartThread, Accepting, Fresh
<1>2. TypeOK' BY <1>1 DEF TypeOK, StartThread, Goto
<1>3. \A q \in Pages : ~Accepting(q)'
  BY <1>1 DEF StartThread, Goto, At, Accepting, TypeOK, OneAccepting
<1>4. \A j \in Job : Working(j)' => j = page[p].job
  BY <1>1 DEF StartThread, Working, Handover, TypeOK
<1>5. OneAccepting' /\ OneWorking' /\ Handover' /\ Locked'
  BY <1>1, <1>3, <1>4 DEF OneAccepting, OneWorking, Handover, Locked, StartThread
<1>6. Fresh'
  BY <1>1, <1>3 DEF Fresh, StartThread, TypeOK, Job
<1>7. Unpublished' /\ Owned'
  BY <1>1 DEF Unpublished, Owned, StartThread, TypeOK
<1> QED BY <1>2, <1>5, <1>6, <1>7

LEMMA PageStep ==
  ASSUME DInv, NEW p \in Pages, Page(p)
  PROVE  DInv'
<1> USE DEF DInv
<1>1. TypeOK' BY DEF TypeOK, Page, Poll, PageLeaves, Idle, None
<1>2. \A q \in Pages : Accepting(q)' => Accepting(q) /\ page'[q] = page[q]
  BY DEF Page, Poll, PageLeaves, Idle, At, Accepting, TypeOK
<1>3. UNCHANGED <<lock, jobs, nextJob, worker, child, writer>>
  BY DEF Page, Poll, PageLeaves
<1>4. OneAccepting' /\ OneWorking' /\ Handover' /\ Locked' /\ Fresh'
  BY <1>2, <1>3 DEF OneAccepting, OneWorking, Handover, Locked, Fresh, Working
<1>5. Unpublished' /\ Owned' BY <1>3 DEF Unpublished, Owned
<1> QED BY <1>1, <1>4, <1>5

-----------------------------------------------------------------------------
\* The worker threads.
LEMMA WorkStep ==
  ASSUME DInv, NEW j \in Job, Work(j)
  PROVE  DInv'
<1> USE DEF DInv
<1>1. /\ UNCHANGED <<nextJob, page>>
      /\ \E s \in {"child", "check", "failed", "release", "done", "dead"} :
           worker' = [worker EXCEPT ![j] = s]
  BY DEF Work, StartChild, InputFails, ChildReturns, ChildTimesOut, Inspect, RunFailed,
         Release, Step, Publish
<1>2. Working(j) /\ worker[j] # "none"
  BY DEF Work, StartChild, InputFails, ChildReturns, ChildTimesOut, Inspect, RunFailed,
         Release, Step, Publish, Working
<1>3. TypeOK'
  <2>1. worker' \in [Job -> {"none", "input", "child", "check", "failed", "release",
                             "done", "dead"}]
    BY <1>1 DEF TypeOK
  <2>2. /\ lock' \in BOOLEAN /\ writer' \in Job \cup {None}
        /\ UNCHANGED <<exit, restarts>>
    BY DEF TypeOK, Work, StartChild, InputFails, ChildReturns, ChildTimesOut, Inspect,
           RunFailed, Release, Step, Publish
  <2>3. /\ jobs' \in [Job -> {"unknown", "running"} \cup Final]
        /\ child' \in [Job -> {"none", "starting", "writing", "ended"}]
    BY DEF TypeOK, Work, StartChild, InputFails, ChildReturns, ChildTimesOut, Inspect,
           RunFailed, Release, Step, Publish, Final
  <2> QED BY <1>1, <2>1, <2>2, <2>3 DEF TypeOK
<1>4. \A i \in Job : Working(i)' => i = j /\ Working(i)
  BY <1>1, <1>2 DEF Working, OneWorking, TypeOK
<1>5. \A p \in Pages : ~Accepting(p) /\ ~Accepting(p)'
  BY <1>1, <1>2 DEF Accepting, At, Handover
<1>6. lock' = lock \/ \A i \in Job : ~Working(i)'
  BY <1>4 DEF Work, StartChild, InputFails, ChildReturns, ChildTimesOut, Inspect,
              RunFailed, Release, Step, Publish, Working, TypeOK
<1>7. OneAccepting' /\ OneWorking' /\ Handover' /\ Locked'
  BY <1>4, <1>5, <1>6 DEF OneAccepting, OneWorking, Handover, Locked
<1>8. Fresh' BY <1>1, <1>2, <1>5 DEF Fresh, TypeOK
<1>9. Unpublished'
  BY DEF Unpublished, Work, StartChild, InputFails, ChildReturns, ChildTimesOut, Inspect,
         RunFailed, Release, Step, Publish, Final, TypeOK
<1>10. Owned'
  BY DEF Owned, Work, StartChild, InputFails, ChildReturns, ChildTimesOut, Inspect,
         RunFailed, Release, Step, Publish, TypeOK
<1> QED BY <1>3, <1>7, <1>8, <1>9, <1>10

\* The children, and the end of the desk.
LEMMA ChildStep ==
  ASSUME DInv, NEW j \in Job, Child(j)
  PROVE  DInv'
<1> USE DEF DInv
<1>1. UNCHANGED <<lock, jobs, nextJob, page, worker>>
  BY DEF Child, OpenJournal, JournalLocked, ChildEnds
<1>2. TypeOK'
  BY DEF TypeOK, Child, OpenJournal, JournalLocked, ChildEnds, None
<1>3. OneAccepting' /\ OneWorking' /\ Handover' /\ Locked' /\ Fresh' /\ Unpublished'
  BY <1>1 DEF OneAccepting, OneWorking, Handover, Locked, Fresh, Unpublished,
              Accepting, At, Working
<1>4. Owned'
  <2>1. CASE OpenJournal(j)
    <3>1. \A i \in Job : child[i] # "writing" BY <2>1 DEF Owned, OpenJournal, None, Job
    <3> QED BY <2>1, <3>1 DEF Owned, OpenJournal, TypeOK
  <2>2. CASE JournalLocked(j) BY <2>2 DEF Owned, JournalLocked, TypeOK
  <2>3. CASE ChildEnds(j) BY <2>3 DEF Owned, ChildEnds, TypeOK
  <2> QED BY <2>1, <2>2, <2>3 DEF Child
<1> QED BY <1>2, <1>3, <1>4

LEMMA RestartStep ==
  ASSUME DInv, DeskRestarts
  PROVE  DInv'
<1> USE DEF DInv
<1>1. TypeOK'
  <2>1. page' \in [Pages -> PageType]
    BY IdleTyped DEF TypeOK, DeskRestarts, PageType
  <2>2. worker' \in [Job -> {"none", "input", "child", "check", "failed", "release",
                             "done", "dead"}]
    BY DEF TypeOK, DeskRestarts
  <2>3. restarts' \in 0..MaxRestarts BY BoundsAssumption DEF TypeOK, DeskRestarts
  <2>4. jobs' \in [Job -> {"unknown", "running"} \cup Final] BY DEF DeskRestarts
  <2> QED BY <2>1, <2>2, <2>3, <2>4 DEF TypeOK, DeskRestarts, PageType
<1>2. \A p \in Pages : ~Accepting(p)'
  BY DEF DeskRestarts, Accepting, At, Idle, TypeOK
<1>3. \A j \in Job : ~Working(j)' BY DEF DeskRestarts, Working
<1>4. OneAccepting' /\ OneWorking' /\ Handover' /\ Locked'
  BY <1>2, <1>3 DEF OneAccepting, OneWorking, Handover, Locked
<1>5. Fresh' BY <1>2 DEF Fresh, DeskRestarts, Working
<1>6. Unpublished' /\ Owned' BY DEF Unpublished, Owned, DeskRestarts, Final
<1> QED BY <1>1, <1>4, <1>5, <1>6

LEMMA NextD == DInv /\ [Next]_vars => DInv'
<1> SUFFICES ASSUME DInv, [Next]_vars PROVE DInv'
  OBVIOUS
<1>1. CASE UNCHANGED vars
  BY <1>1 DEF vars, DInv, TypeOK, OneAccepting, OneWorking, Handover, Locked, Fresh,
              Unpublished, Owned, Accepting, At, Working
<1>2. CASE Next
  BY <1>2, AcquireStep, RegisterStep, StartThreadStep, PageStep, WorkStep, ChildStep,
     RestartStep DEF Next, Handler
<1> QED BY <1>1, <1>2

\* The reachable states of the desk satisfy the inductive invariant.
THEOREM DeskInvariance == Spec => []DInv
<1> QED BY InitD, NextD, PTL DEF Spec

-----------------------------------------------------------------------------
\* JOBS only holds statuses that the page knows, and every step of a thread or
\* child leads to another step of it (main, work, do_POST).
THEOREM DeskTypeCorrect == Spec => []TypeOK
<1>1. DInv => TypeOK BY DEF DInv
<1> QED BY <1>1, DeskInvariance, PTL

\* One case is in hand at a time, and the lock is held for it (do_POST, work).
THEOREM OneCaseInHandHolds == Spec => []OneCaseInHand
<1>1. DInv => OneCaseInHand
  BY DEF DInv, OneAccepting, OneWorking, Handover, Locked, OneCaseInHand, InHand
<1> QED BY <1>1, DeskInvariance, PTL

\* One child at a time writes to the shared journal (Journal._acquire_lock).
THEOREM OneWriterHolds == Spec => []OneWriter
<1>1. DInv => OneWriter BY DEF DInv, Owned, OneWriter
<1> QED BY <1>1, DeskInvariance, PTL

-----------------------------------------------------------------------------
(* The desk implements OneDesk.                                            *)

Verdicts == [j \in Job |-> IF jobs[j] \in Final THEN jobs[j] ELSE "none"]

\* The case that the lock is held for, if any.
LEMMA InHandIs ==
  ASSUME DInv
  PROVE  /\ \A j \in InHand : CaseInHand = j /\ j \in Job /\ j # None
         /\ InHand = {} => CaseInHand = None
         /\ CaseInHand # None => CaseInHand \in InHand
<1>1. InHand \subseteq Job BY DEF InHand, DInv, Fresh
<1>2. \A i, j \in InHand : i = j
  BY DEF DInv, OneAccepting, OneWorking, Handover, InHand
<1>3. \A j \in Job : j # None BY BoundsAssumption DEF Job, None
<1>4. InHand # {} => (CHOOSE j \in Job : j \in InHand) \in InHand
  <2> SUFFICES ASSUME NEW i \in InHand
               PROVE  (CHOOSE j \in Job : j \in InHand) \in InHand
    OBVIOUS
  <2>1. \E j \in Job : j \in InHand BY <1>1
  <2> QED BY <2>1
<1> QED BY <1>1, <1>2, <1>3, <1>4 DEF CaseInHand

LEMMA InHandIsNext ==
  DInv' => /\ (\A j \in InHand : CaseInHand = j)'
           /\ (InHand = {} => CaseInHand = None)'
<1>1. DInv => /\ \A j \in InHand : CaseInHand = j
              /\ InHand = {} => CaseInHand = None
  BY InHandIs
<1> QED BY <1>1, PTL

\* A step that leaves the cases in hand alone.
LEMMA SameHand ==
  ASSUME InHand' = InHand
  PROVE  CaseInHand' = CaseInHand
BY DEF CaseInHand

\* Accepting a case takes it in hand; the handover to the worker changes nothing.
LEMMA HandlerKeeps ==
  ASSUME DInv, DInv', NEW p \in Pages, Handler(p) \/ Page(p)
  PROVE  [Promise!Next]_(Promise!vars)
<1> USE DEF DInv, TypeOK
<1>1. CASE Acquire(p)
  <2>1. InHand = {} BY <1>1 DEF Acquire, Locked, InHand
  <2>2. nextJob \in InHand' /\ nextJob \in Job
    BY <1>1 DEF Acquire, InHand, Accepting, At
  <2>3. CaseInHand = None /\ CaseInHand' = nextJob
    BY <2>1, <2>2, InHandIs, InHandIsNext
  <2>4. 1..(nextJob' - 1) = 1..(nextJob - 1) \cup {nextJob} /\ nextJob \notin 1..(nextJob - 1)
    BY <1>1, BoundsAssumption DEF Acquire
  <2>5. Verdicts' = Verdicts /\ restarts' = restarts BY <1>1 DEF Acquire, Verdicts
  <2>6. Promise!Take(nextJob) BY <2>3, <2>4, <2>5 DEF Promise!Take, Verdicts
  <2> QED BY <2>2, <2>6 DEF Promise!Next
<1>2. CASE Register(p) \/ StartThread(p) \/ Page(p)
  <2>1. InHand' = InHand
    <3>1. CASE Register(p) \/ Page(p)
      <4>1. /\ UNCHANGED worker
            /\ \A q \in Pages : Accepting(q)' <=> Accepting(q)
            /\ \A q \in Pages : Accepting(q) => page'[q].job = page[q].job
        BY <3>1 DEF Register, Page, Poll, PageLeaves, Goto, Accepting, At, Idle
      <4>2. \A j : j \in InHand <=>
              (\E q \in Pages : Accepting(q) /\ page[q].job = j) \/ (j \in Job /\ Working(j))
        BY DEF InHand
      <4>3. \A j : j \in InHand' <=>
              \/ \E q \in Pages : Accepting(q)' /\ page'[q].job = j
              \/ j \in Job /\ Working(j)'
        BY DEF InHand
      <4>4. \A j \in Job : Working(j)' <=> Working(j) BY <4>1 DEF Working
      <4>5. ASSUME NEW j, j \in InHand PROVE j \in InHand'
        <5>1. CASE j \in Job /\ Working(j) BY <5>1, <4>3, <4>4
        <5>2. CASE \E q \in Pages : Accepting(q) /\ page[q].job = j
          <6>1. PICK q \in Pages : Accepting(q) /\ page[q].job = j BY <5>2
          <6>2. Accepting(q)' /\ page'[q].job = j BY <6>1, <4>1
          <6> QED BY <6>2, <4>3
        <5> QED BY <4>2, <4>5, <5>1, <5>2
      <4>6. ASSUME NEW j, j \in InHand' PROVE j \in InHand
        <5>1. CASE j \in Job /\ Working(j)' BY <5>1, <4>2, <4>4
        <5>2. CASE \E q \in Pages : Accepting(q)' /\ page'[q].job = j
          <6>1. PICK q \in Pages : Accepting(q)' /\ page'[q].job = j BY <5>2
          <6>2. Accepting(q) /\ page[q].job = j BY <6>1, <4>1
          <6> QED BY <6>2, <4>2
        <5> QED BY <4>3, <4>6, <5>1, <5>2
      <4> QED BY <4>5, <4>6
    <3>2. CASE StartThread(p)
      <4>1. Accepting(p) /\ page[p].job \in Job
        BY <3>2 DEF StartThread, Accepting, Fresh
      <4>2. InHand = {page[p].job}
        BY <4>1 DEF InHand, OneAccepting, Handover
      <4>3. page[p].job \in InHand' BY <3>2, <4>1 DEF StartThread, InHand, Working
      <4>4. \A i, j \in InHand' : i = j BY InHandIsNext
      <4> QED BY <4>2, <4>3, <4>4
    <3> QED BY <1>2, <3>1, <3>2
  <2>2. Verdicts' = Verdicts
    <3>1. \A j \in Job : jobs'[j] = jobs[j] \/ (jobs[j] \notin Final /\ jobs'[j] \notin Final)
      BY <1>2 DEF Register, StartThread, Page, Poll, PageLeaves, Fresh, Unpublished,
         Accepting, Final
    <3> QED BY <3>1 DEF Verdicts
  <2>3. UNCHANGED <<nextJob, restarts>>
    BY <1>2 DEF Register, StartThread, Page, Poll, PageLeaves
  <2> QED BY <2>1, <2>2, <2>3, SameHand DEF Promise!vars, Verdicts
<1> QED BY <1>1, <1>2 DEF Handler

\* A worker judges the case it has in hand, lets it go, or goes on with it.
LEMMA WorkerKeeps ==
  ASSUME DInv, DInv', NEW j \in Job, Work(j)
  PROVE  [Promise!Next]_(Promise!vars)
<1> USE DEF DInv, TypeOK
<1>1. /\ UNCHANGED <<page, nextJob, restarts>> /\ Working(j)
      /\ \A i \in Job \ {j} : worker'[i] = worker[i]
  BY DEF Work, StartChild, InputFails, ChildReturns, ChildTimesOut, Inspect, RunFailed,
     Release, Step, Publish, Working
<1>2. j \in InHand /\ CaseInHand = j BY <1>1, InHandIs DEF InHand
<1>3. CASE StartChild(j) \/ ChildReturns(j) \/ ChildTimesOut(j)
  <2>1. Working(j)' /\ UNCHANGED jobs
    BY <1>3 DEF StartChild, ChildReturns, ChildTimesOut, Step, Working
  <2>2. InHand' = InHand BY <1>1, <2>1 DEF InHand, Working, Accepting, At
  <2> QED BY <1>1, <2>1, <2>2, SameHand DEF Promise!vars
<1>4. CASE Inspect(j) \/ RunFailed(j)
  <2>1. PICK s \in Final : Publish(j, s) /\ Working(j)' /\ worker[j] \in {"check", "failed"}
    BY <1>4 DEF Inspect, RunFailed, Step, Working, Final
  <2>2. InHand' = InHand BY <1>1, <2>1 DEF InHand, Working, Accepting, At
  <2>3. jobs[j] \notin Final BY <2>1 DEF Unpublished
  <2>4. Verdicts[j] = "none" /\ Verdicts' = [Verdicts EXCEPT ![j] = s]
    BY <2>1, <2>3 DEF Verdicts, Publish
  <2>5. Promise!Judge(s)
    BY <1>1, <1>2, <2>2, <2>4, InHandIs, SameHand DEF Promise!Judge, Verdicts
  <2> QED BY <2>5 DEF Promise!Next
<1>5. CASE InputFails(j) \/ Release(j)
  <2>1. ~Working(j)' /\ UNCHANGED jobs
    BY <1>5 DEF InputFails, Release, Step, Working
  <2>2. InHand' = {}
    <3>1. \A i \in Job : ~Working(i)'
      BY <1>1, <2>1 DEF OneWorking, Working
    <3>2. \A p \in Pages : ~Accepting(p)'
      BY <1>1 DEF Handover, Accepting, At
    <3> QED BY <3>1, <3>2 DEF InHand
  <2>3. Promise!LetGo
    BY <1>1, <1>2, <2>1, <2>2, InHandIs, InHandIsNext DEF Promise!LetGo
  <2> QED BY <2>3 DEF Promise!Next
<1> QED BY <1>3, <1>4, <1>5 DEF Work

\* The child decides nothing, and a desk that restarts has forgotten.
LEMMA ChildKeeps ==
  ASSUME DInv, NEW j \in Job, Child(j)
  PROVE  UNCHANGED Promise!vars
<1>1. UNCHANGED <<page, worker, jobs, nextJob, restarts>>
  BY DEF Child, OpenJournal, JournalLocked, ChildEnds
<1>2. InHand' = InHand BY <1>1 DEF InHand, Working, Accepting, At
<1> QED BY <1>1, <1>2, SameHand DEF Promise!vars

LEMMA RestartForgets ==
  ASSUME DInv, DInv', DeskRestarts
  PROVE  Promise!Forget
<1> USE DEF DInv, TypeOK
<1>1. InHand' = {}
  <2>1. \A i \in Job : ~Working(i)' BY DEF DeskRestarts, Working
  <2>2. \A p \in Pages : ~Accepting(p)' BY DEF DeskRestarts, Accepting, At, Idle
  <2> QED BY <2>1, <2>2 DEF InHand
<1>2. Verdicts' = [j \in Job |-> "none"] BY DEF DeskRestarts, Verdicts, Final
<1> QED BY <1>1, <1>2, InHandIsNext DEF Promise!Forget, Promise!Blank, DeskRestarts, Verdicts

\* Every behaviour of the desk is one of OneDesk: a case is taken in hand once,
\* alone, and judged once, before it is let go (do_POST, work).
THEOREM OneDeskRefinement == Spec => KeepsOneDesk
<1>1. Init => Promise!Init
  <2> SUFFICES ASSUME Init PROVE Promise!Init
    OBVIOUS
  <2>1. InHand = {} BY DEF Init, InHand, Accepting, Working, At, Idle
  <2>2. Verdicts = [j \in Job |-> "none"] BY DEF Init, Verdicts, Final
  <2>3. 1..(nextJob - 1) = {} BY DEF Init
  <2> QED BY <2>1, <2>2, <2>3 DEF Promise!Init, Promise!Blank, CaseInHand, Verdicts, Init
<1>2. DInv /\ [Next]_vars => [Promise!Next]_(Promise!vars)
  <2> SUFFICES ASSUME DInv, [Next]_vars PROVE [Promise!Next]_(Promise!vars)
    OBVIOUS
  <2>1. DInv' BY NextD
  <2>2. CASE \E p \in Pages : Handler(p) \/ Page(p) BY <2>1, <2>2, HandlerKeeps
  <2>3. CASE \E j \in Job : Work(j) BY <2>1, <2>3, WorkerKeeps
  <2>4. CASE \E j \in Job : Child(j) BY <2>4, ChildKeeps
  <2>5. CASE DeskRestarts BY <2>1, <2>5, RestartForgets DEF Promise!Next
  <2>6. CASE UNCHANGED vars
    BY <2>6 DEF vars, Promise!vars, CaseInHand, InHand, Working, Accepting, At
  <2> QED BY <2>2, <2>3, <2>4, <2>5, <2>6 DEF Next
<1> QED BY <1>1, <1>2, DeskInvariance, PTL DEF Spec, KeepsOneDesk, Promise!Spec

\* What the promise is worth to a page: a verdict, once it can be read, is never
\* taken back or overwritten as long as the desk lives, whoever keeps it.
VerdictsKept ==
  \A j \in Job : Verdicts[j] # "none" => Verdicts'[j] = Verdicts[j] \/ restarts' # restarts

THEOREM PromiseKeepsVerdicts == KeepsOneDesk => [][VerdictsKept]_(Promise!vars)
<1> USE DEF VerdictsKept
<1>1. Promise!Init => restarts \in Nat BY DEF Promise!Init
<1>2. restarts \in Nat /\ [Promise!Next]_(Promise!vars) => (restarts \in Nat)'
  <2> SUFFICES ASSUME restarts \in Nat, [Promise!Next]_(Promise!vars)
               PROVE  restarts' \in Nat
    OBVIOUS
  <2>1. restarts' \in {restarts, restarts + 1}
    <3>1. CASE \E c \in Job : Promise!Take(c) BY <3>1 DEF Promise!Take
    <3>2. CASE \E v \in Final : Promise!Judge(v) BY <3>2 DEF Promise!Judge
    <3>3. CASE Promise!LetGo BY <3>3 DEF Promise!LetGo
    <3>4. CASE Promise!Forget BY <3>4 DEF Promise!Forget
    <3>5. CASE UNCHANGED Promise!vars BY <3>5 DEF Promise!vars
    <3> QED BY <3>1, <3>2, <3>3, <3>4, <3>5 DEF Promise!Next
  <2> QED BY <2>1
<1>3. restarts \in Nat /\ [Promise!Next]_(Promise!vars) => [VerdictsKept]_(Promise!vars)
  <2> SUFFICES ASSUME restarts \in Nat, Promise!Next PROVE VerdictsKept
    OBVIOUS
  <2>1. CASE \E c \in Job : Promise!Take(c) BY <2>1 DEF Promise!Take, Verdicts
  <2>2. CASE \E v \in Final : Promise!Judge(v)
    <3>1. Verdicts[CaseInHand] = "none"
          /\ \E v \in Final : Verdicts' = [Verdicts EXCEPT ![CaseInHand] = v]
      BY <2>2 DEF Promise!Judge, Verdicts
    <3>2. \A j \in Job : j # CaseInHand => Verdicts'[j] = Verdicts[j]
      BY <3>1 DEF Verdicts
    <3> QED BY <3>1, <3>2
  <2>3. CASE Promise!LetGo BY <2>3 DEF Promise!LetGo, Verdicts
  <2>4. CASE Promise!Forget BY <2>4 DEF Promise!Forget
  <2> QED BY <2>1, <2>2, <2>3, <2>4 DEF Promise!Next
<1> HIDE DEF VerdictsKept
<1> QED BY <1>1, <1>2, <1>3, PTL DEF KeepsOneDesk, Promise!Spec

\* So does the desk: what a page has read of a case it will read again, until the
\* desk is started anew (JOBS).
THEOREM VerdictsStay == Spec => [][VerdictsKept]_vars
<1>1. [VerdictsKept]_(Promise!vars) => [VerdictsKept]_vars
  <2> SUFFICES ASSUME UNCHANGED Promise!vars PROVE VerdictsKept
    OBVIOUS
  <2>1. Verdicts' = Verdicts BY DEF Promise!vars, Verdicts
  <2> QED BY <2>1 DEF VerdictsKept
<1> QED BY <1>1, OneDeskRefinement, PromiseKeepsVerdicts, PTL

-----------------------------------------------------------------------------
(* Liveness.  ENABLED is out of the provers' reach, so that a thread whose  *)
(* next statement can be executed has an enabled action is a hypothesis: it *)
(* says that the guards at the heads of the actions are all there is to     *)
(* them.  The run that checks EveryCaseReported checks it too: a thread     *)
(* with no enabled action could stay where it is for ever.                  *)

WorkersCanStep  == \A j \in Job : Working(j) => ENABLED <<Work(j)>>_vars
HandlersCanStep ==
  \A p \in Pages : Accepting(p) => ENABLED <<Register(p) \/ StartThread(p)>>_vars

Waits(j)    == worker[j] = "child"
Finishes(j) == worker[j] \in {"check", "failed"}
Leaves(j)   == worker[j] = "release"

\* Where the steps of the desk can lead from each stage of a worker.
LEMMA WaitsStep ==
  ASSUME DInv, NEW j \in Job, Waits(j), [Next]_vars
  PROVE  /\ Waits(j)' \/ Finishes(j)' \/ (jobs'[j] # "running" /\ ~lock')
         /\ Work(j) => Finishes(j)'
<1> USE DEF DInv, TypeOK, Waits, Finishes
<1>1. CASE UNCHANGED vars
  BY <1>1 DEF vars, Work, StartChild, InputFails, ChildReturns, ChildTimesOut, Inspect,
     RunFailed, Release, Step
<1>2. CASE \E p \in Pages : Handler(p) \/ Page(p)
  BY <1>2 DEF Fresh, Accepting, Handler, Acquire, Register, StartThread, Page, Poll,
     PageLeaves, Work, StartChild, InputFails, ChildReturns, ChildTimesOut, Inspect,
     RunFailed, Release, Step
<1>3. CASE \E i \in Job : Work(i) \/ Child(i)
  BY <1>3 DEF Work, StartChild, InputFails, ChildReturns, ChildTimesOut, Inspect,
     RunFailed, Release, Step, Publish, Child, OpenJournal, JournalLocked, ChildEnds
<1>4. CASE DeskRestarts
  BY <1>4 DEF DeskRestarts, Work, StartChild, InputFails, ChildReturns, ChildTimesOut,
     Inspect, RunFailed, Release, Step, Working
<1> QED BY <1>1, <1>2, <1>3, <1>4 DEF Next

LEMMA FinishesStep ==
  ASSUME DInv, NEW j \in Job, Finishes(j), [Next]_vars
  PROVE  /\ Finishes(j)' \/ (jobs'[j] # "running" /\ (Leaves(j)' \/ ~lock'))
         /\ Work(j) => jobs'[j] # "running" /\ Leaves(j)'
<1> USE DEF DInv, TypeOK, Finishes, Leaves, Final
<1>1. CASE UNCHANGED vars
  BY <1>1 DEF vars, Work, StartChild, InputFails, ChildReturns, ChildTimesOut, Inspect,
     RunFailed, Release, Step, Publish
<1>2. CASE \E p \in Pages : Handler(p) \/ Page(p)
  BY <1>2 DEF Fresh, Accepting, Handler, Acquire, Register, StartThread, Page, Poll,
     PageLeaves, Work, StartChild, InputFails, ChildReturns, ChildTimesOut, Inspect,
     RunFailed, Release, Step
<1>3. CASE \E i \in Job : Work(i) \/ Child(i)
  BY <1>3 DEF Work, StartChild, InputFails, ChildReturns, ChildTimesOut, Inspect,
     RunFailed, Release, Step, Publish, Child, OpenJournal, JournalLocked, ChildEnds
<1>4. CASE DeskRestarts
  BY <1>4 DEF DeskRestarts, Work, StartChild, InputFails, ChildReturns, ChildTimesOut,
     Inspect, RunFailed, Release, Step, Working
<1> QED BY <1>1, <1>2, <1>3, <1>4 DEF Next

LEMMA LeavesStep ==
  ASSUME DInv, NEW j \in Job, Leaves(j), [Next]_vars
  PROVE  /\ Leaves(j)' \/ ~lock'
         /\ Work(j) => ~lock'
<1> USE DEF DInv, TypeOK, Leaves
<1>1. CASE UNCHANGED vars
  BY <1>1 DEF vars, Work, StartChild, InputFails, ChildReturns, ChildTimesOut, Inspect,
     RunFailed, Release, Step
<1>2. CASE \E p \in Pages : Handler(p) \/ Page(p)
  BY <1>2 DEF Fresh, Accepting, Handler, Acquire, Register, StartThread, Page, Poll,
     PageLeaves, Work, StartChild, InputFails, ChildReturns, ChildTimesOut, Inspect,
     RunFailed, Release, Step
<1>3. CASE \E i \in Job : Work(i) \/ Child(i)
  BY <1>3 DEF Work, StartChild, InputFails, ChildReturns, ChildTimesOut, Inspect,
     RunFailed, Release, Step, Publish, Child, OpenJournal, JournalLocked, ChildEnds
<1>4. CASE DeskRestarts BY <1>4 DEF DeskRestarts
<1> QED BY <1>1, <1>2, <1>3, <1>4 DEF Next

\* One case: from its child on, its worker reports it and gives the desk free.
LEMMA CaseIsServed ==
  ASSUME NEW j \in Job
  PROVE  FairSpec /\ []WorkersCanStep =>
           /\ (worker[j] = "child") ~> (jobs[j] # "running")
           /\ (worker[j] = "child") ~> ~lock
<1> DEFINE Reported == jobs[j] # "running"
           Gone     == Reported /\ ~lock
<1>1. DInv /\ Waits(j) /\ [Next]_vars => Waits(j)' \/ Finishes(j)' \/ Gone'
  BY WaitsStep
<1>2. DInv /\ Waits(j) /\ <<Next /\ Work(j)>>_vars => Finishes(j)'
  BY WaitsStep
<1>3. /\ DInv /\ Finishes(j) /\ [Next]_vars =>
           Finishes(j)' \/ (Reported' /\ (Leaves(j)' \/ ~lock'))
  BY FinishesStep
<1>4. DInv /\ Finishes(j) /\ <<Next /\ Work(j)>>_vars => Reported' /\ Leaves(j)'
  BY FinishesStep
<1>5. DInv /\ Leaves(j) /\ [Next]_vars => Leaves(j)' \/ ~lock'
  BY LeavesStep
<1>6. DInv /\ Leaves(j) /\ <<Next /\ Work(j)>>_vars => ~lock'
  BY LeavesStep
<1>7. Work(j) => Next
  BY DEF Next
<1>8. WorkersCanStep =>
        (Waits(j) \/ Finishes(j) \/ Leaves(j) => ENABLED <<Work(j)>>_vars)
  BY DEF WorkersCanStep, Working, Waits, Finishes, Leaves
<1>9. FairSpec => WorkerRuns(j)
  BY DEF FairSpec
<1>10. FairSpec => Spec
  BY PTL DEF FairSpec
<1> HIDE DEF Reported
<1>11. FairSpec /\ []WorkersCanStep => (Waits(j) ~> Reported)
  BY <1>1, <1>2, <1>3, <1>4, <1>7, <1>8, <1>9, <1>10, DeskInvariance,
     PTL DEF WorkerRuns, Spec
<1>12. FairSpec /\ []WorkersCanStep => (Waits(j) ~> ~lock)
  BY <1>1, <1>2, <1>3, <1>4, <1>5, <1>6, <1>7, <1>8, <1>9, <1>10, DeskInvariance,
     PTL DEF WorkerRuns, Spec
<1> QED BY <1>11, <1>12, PTL DEF Waits, Reported

\* Once its child is started a case is reported or the desk restarted, whatever
\* the child does, for any pages, cases and restarts (work: the timeout, the
\* inspection and the except clauses).
THEOREM EveryCaseReportedHolds == FairSpec /\ []WorkersCanStep => EveryCaseReported
<1> QED BY CaseIsServed DEF EveryCaseReported

\* Waiting helps whoever waits for a case whose child was started: the lock is
\* given free (work: the finally clause).  What WaitingHelps asks beyond this is
\* refuted only by a worker that ends before it starts its child.
THEOREM DeskBecomesFree ==
  FairSpec /\ []WorkersCanStep => \A j \in Job : (worker[j] = "child") ~> ~lock
<1> QED BY CaseIsServed

-----------------------------------------------------------------------------
\* A handler that took the lock hands it to a worker thread, or the desk ends.
LEMMA HandlerStep ==
  ASSUME DInv, NEW p \in Pages, [Next]_vars
  PROVE  /\ At(p, "register") => (At(p, "register") \/ At(p, "start") \/ ~Accepting(p))'
         /\ At(p, "start") => (At(p, "start") \/ ~Accepting(p))'
         /\ At(p, "register") /\ (Register(p) \/ StartThread(p)) => At(p, "start")'
         /\ At(p, "start") /\ (Register(p) \/ StartThread(p)) => (~Accepting(p))'
<1> USE DEF DInv, TypeOK, At, Accepting
<1>1. CASE UNCHANGED vars
  BY <1>1 DEF vars, Register, StartThread, Goto
<1>2. CASE \E q \in Pages : Handler(q) \/ Page(q)
  BY <1>2 DEF Handler, Acquire, Register, StartThread, Goto, Page, Poll, PageLeaves, Idle
<1>3. CASE \E j \in Job : Work(j) \/ Child(j)
  BY <1>3 DEF Work, StartChild, InputFails, ChildReturns, ChildTimesOut, Inspect,
     RunFailed, Release, Step, Publish, Child, OpenJournal, JournalLocked, ChildEnds,
     Register, StartThread, Goto
<1>4. CASE DeskRestarts
  BY <1>4 DEF DeskRestarts, Register, StartThread, Goto, Idle
<1> QED BY <1>1, <1>2, <1>3, <1>4 DEF Next

LEMMA CaseIsHandedOver ==
  ASSUME NEW p \in Pages
  PROVE  FairSpec /\ []HandlersCanStep => (Accepting(p) ~> ~Accepting(p))
<1> DEFINE Registers == At(p, "register")
           Starts    == At(p, "start")
           Thread    == Register(p) \/ StartThread(p)
<1>1. DInv /\ Registers /\ [Next]_vars => Registers' \/ Starts' \/ ~Accepting(p)'
  BY HandlerStep
<1>2. DInv /\ Starts /\ [Next]_vars => Starts' \/ ~Accepting(p)'
  BY HandlerStep
<1>3. DInv /\ Registers /\ <<Next /\ Thread>>_vars => Starts'
  BY HandlerStep
<1>4. DInv /\ Starts /\ <<Next /\ Thread>>_vars => ~Accepting(p)'
  BY HandlerStep
<1>5. Thread => Next
  BY DEF Next, Handler
<1>6. HandlersCanStep => (Registers \/ Starts => ENABLED <<Thread>>_vars)
  BY DEF HandlersCanStep, Accepting
<1>7. FairSpec => HandlerRuns(p)
  BY DEF FairSpec
<1>8. FairSpec => Spec
  BY PTL DEF FairSpec
<1>9. Accepting(p) => Registers \/ Starts
  BY DEF Accepting
<1> HIDE DEF Registers, Starts
<1> QED BY <1>1, <1>2, <1>3, <1>4, <1>5, <1>6, <1>7, <1>8, <1>9, DeskInvariance,
           PTL DEF HandlerRuns, Spec

\* Whoever accepted a case is done with it after two steps: no case is stuck
\* between the lock and its worker thread (do_POST).
THEOREM EveryCaseHandedOver ==
  FairSpec /\ []HandlersCanStep => \A p \in Pages : (Accepting(p) ~> ~Accepting(p))
<1> QED BY CaseIsHandedOver
=============================================================================
