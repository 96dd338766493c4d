----------------------------- MODULE ReviewDesk -----------------------------
(***************************************************************************)
(* The local review desk (serve.py): one handler thread per request, one   *)
(* worker thread per accepted case, a child process (run.py) per worker,   *)
(* the non-blocking LOCK that admits one case at a time, and the JOBS      *)
(* table the browser pages poll.                                           *)
(*                                                                         *)
(* LOCK and JOBS are memory of the desk process.  When it ends, its worker *)
(* threads (daemons) end with it, but a child it had started goes on; what *)
(* then keeps two children apart is the lock file of the journal they      *)
(* share (journal.Journal), held by the OS for the life of a process.      *)
(***************************************************************************)
EXTENDS Naturals

CONSTANTS
  Pages,        \* browser pages
  MaxJobs,      \* bound: accepted cases
  MaxRestarts   \* bound: restarts of the desk

ASSUME BoundsAssumption == MaxJobs \in Nat /\ MaxRestarts \in Nat

Job  == 1..MaxJobs
None == 0

VARIABLES
  lock,      \* LOCK is taken
  jobs,      \* JOBS[j].status, "unknown" when the key is absent
  nextJob,   \* the next fresh job identifier
  page,      \* each page with the handler thread of its POST: step and job
  worker,    \* each worker thread: its step
  child,     \* each child process
  exit,      \* what the child left behind: good is returncode 0 and a record
  writer,    \* the child that holds the journal's lock file
  restarts

vars == <<lock, jobs, nextJob, page, worker, child, exit, writer, restarts>>

Idle  == [step |-> "idle", job |-> None]
Final == {"complete", "failed"}
Working(j) == worker[j] \in {"input", "child", "check", "failed", "release"}

Init ==
  /\ lock = FALSE /\ jobs = [j \in Job |-> "unknown"] /\ nextJob = 1
  /\ page = [p \in Pages |-> Idle]
  /\ worker = [j \in Job |-> "none"]
  /\ child = [j \in Job |-> "none"] /\ exit = [j \in Job |-> "none"]
  /\ writer = None /\ restarts = 0

At(p, step)  == page[p].step = step
Goto(p, step) == page' = [page EXCEPT ![p].step = step]

-----------------------------------------------------------------------------
(* do_POST: a handler thread.  A busy desk answers 409 and the page is back *)
(* where it was.                                                            *)

\* Mutant: the answer of acquire(blocking=False) is not looked at.
AcquireAnyway(p) ==
  /\ At(p, "idle") /\ nextJob \in Job
  /\ lock' = TRUE
  /\ page' = [page EXCEPT ![p] = [step |-> "register", job |-> nextJob]]
  /\ nextJob' = nextJob + 1
  /\ UNCHANGED <<jobs, worker, child, exit, writer, restarts>>

Acquire(p) ==
  /\ At(p, "idle") /\ ~lock /\ nextJob \in Job
  /\ lock' = TRUE
  /\ page' = [page EXCEPT ![p] = [step |-> "register", job |-> nextJob]]
  /\ nextJob' = nextJob + 1
  /\ UNCHANGED <<jobs, worker, child, exit, writer, restarts>>

Register(p) ==
  /\ At(p, "register")
  /\ jobs' = [jobs EXCEPT ![page[p].job] = "running"]
  /\ Goto(p, "start")
  /\ UNCHANGED <<lock, nextJob, worker, child, exit, writer, restarts>>

\* Mutant: the status is written after the thread was started.
StartThreadFirst(p) ==
  /\ At(p, "start")
  /\ IF worker[page[p].job] = "none"
     THEN /\ worker' = [worker EXCEPT ![page[p].job] = "input"]
          /\ UNCHANGED <<jobs, page>>
     ELSE /\ jobs' = [jobs EXCEPT ![page[p].job] = "running"]
          /\ Goto(p, "poll")
          /\ UNCHANGED worker
  /\ UNCHANGED <<lock, nextJob, child, exit, writer, restarts>>

\* Thread(...).start() and the 202 answer: the page now polls.
StartThread(p) ==
  /\ At(p, "start")
  /\ worker' = [worker EXCEPT ![page[p].job] = "input"]
  /\ Goto(p, "poll")
  /\ UNCHANGED <<lock, jobs, nextJob, child, exit, writer, restarts>>

\* GET /jobs/{id}: the page stops at anything but "running"; a job the desk
\* does not know is a 404.
Poll(p) ==
  /\ At(p, "poll") /\ jobs[page[p].job] # "running"
  /\ page' = [page EXCEPT ![p] = Idle]
  /\ UNCHANGED <<lock, jobs, nextJob, worker, child, exit, writer, restarts>>

\* The page is closed or reloaded while it polls.
PageLeaves(p) ==
  /\ At(p, "poll")
  /\ page' = [page EXCEPT ![p] = Idle]
  /\ UNCHANGED <<lock, jobs, nextJob, worker, child, exit, writer, restarts>>

-----------------------------------------------------------------------------
(* work: the worker thread                                                 *)

Step(j, from, to) == worker[j] = from /\ worker' = [worker EXCEPT ![j] = to]

\* The inbound files are written and the child is started.
StartChild(j) ==
  /\ Step(j, "input", "child")
  /\ child' = [child EXCEPT ![j] = "starting"]
  /\ UNCHANGED <<lock, jobs, nextJob, page, exit, writer, restarts>>

\* They cannot be written; this happens before the try, and ends the thread.
InputFails(j) ==
  /\ Step(j, "input", "dead")
  /\ UNCHANGED <<lock, jobs, nextJob, page, child, exit, writer, restarts>>

\* subprocess.run returns.  Without a record there is nothing to inspect.
ChildReturns(j) ==
  /\ child[j] = "ended"
  /\ Step(j, "child", IF exit[j] = "bad" THEN "failed" ELSE "check")
  /\ UNCHANGED <<lock, jobs, nextJob, page, child, exit, writer, restarts>>

\* Mutant: wait for the child however long it takes.
ChildTimesOutNever(j) ==
  /\ child[j] = "ended"
  /\ Step(j, "child", "failed")
  /\ UNCHANGED <<lock, jobs, nextJob, page, child, exit, writer, restarts>>

\* timeout=600: what the worker started is killed, and with it the run, which
\* frees the lock file it may hold.  Where run.py had to start itself again with
\* the project's interpreter, the run is a child of what was killed and goes on.
ChildTimesOut(j) ==
  /\ Step(j, "child", "failed")
  /\ \/ /\ child' = [child EXCEPT ![j] = "ended"]
        /\ writer' = IF writer = j THEN None ELSE writer
     \/ UNCHANGED <<child, writer>>
  /\ UNCHANGED <<lock, jobs, nextJob, page, exit, restarts>>

\* Mutant: the outcome of the child is stored for the status.
PublishExit(j, status) ==
  /\ jobs' = [jobs EXCEPT ![j] = exit[j]]
  /\ UNCHANGED <<lock, nextJob, page, child, exit, writer, restarts>>

Publish(j, status) ==
  /\ jobs' = [jobs EXCEPT ![j] = status]
  /\ UNCHANGED <<lock, nextJob, page, child, exit, writer, restarts>>

\* tools/inspect_run.py accepts the record, or it does not, or it times out.
Inspect(j) == Step(j, "check", "release") /\ \E s \in Final : Publish(j, s)

RunFailed(j) == Step(j, "failed", "release") /\ Publish(j, "failed")

Release(j) ==
  /\ Step(j, "release", "done")
  /\ lock' = FALSE
  /\ UNCHANGED <<jobs, nextJob, page, child, exit, writer, restarts>>

-----------------------------------------------------------------------------
(* The child process, up to the lock file, and the end of the desk         *)

\* Mutant: every child opens the journal.
OpenJournalAnyway(j) ==
  /\ child[j] = "starting"
  /\ child' = [child EXCEPT ![j] = "writing"] /\ writer' = j
  /\ UNCHANGED <<lock, jobs, nextJob, page, worker, exit, restarts>>

\* Journal._acquire_lock
OpenJournal(j) ==
  /\ child[j] = "starting" /\ writer = None
  /\ child' = [child EXCEPT ![j] = "writing"] /\ writer' = j
  /\ UNCHANGED <<lock, jobs, nextJob, page, worker, exit, restarts>>

\* JournalLocked: a configuration error, with no record.
JournalLocked(j) ==
  /\ child[j] = "starting" /\ writer # None
  /\ child' = [child EXCEPT ![j] = "ended"] /\ exit' = [exit EXCEPT ![j] = "bad"]
  /\ UNCHANGED <<lock, jobs, nextJob, page, worker, writer, restarts>>

ChildEnds(j) ==
  /\ child[j] = "writing"
  /\ child' = [child EXCEPT ![j] = "ended"]
  /\ \E e \in {"good", "bad"} : exit' = [exit EXCEPT ![j] = e]
  /\ writer' = IF writer = j THEN None ELSE writer
  /\ UNCHANGED <<lock, jobs, nextJob, page, worker, restarts>>

\* The desk process ends and is started again; pages that poll do not notice.
DeskRestarts ==
  /\ restarts < MaxRestarts
  /\ restarts' = restarts + 1
  /\ lock' = FALSE
  /\ jobs' = [j \in Job |-> "unknown"]
  /\ worker' = [j \in Job |-> IF Working(j) THEN "dead" ELSE worker[j]]
  /\ page' = [p \in Pages |-> IF At(p, "poll") THEN page[p] ELSE Idle]
  /\ UNCHANGED <<nextJob, child, exit, writer>>

-----------------------------------------------------------------------------
Handler(p) == Acquire(p) \/ Register(p) \/ StartThread(p)
Page(p)    == Poll(p) \/ PageLeaves(p)
Work(j) == \/ StartChild(j) \/ InputFails(j) \/ ChildReturns(j) \/ ChildTimesOut(j)
           \/ Inspect(j) \/ RunFailed(j) \/ Release(j)
Child(j) == OpenJournal(j) \/ JournalLocked(j) \/ ChildEnds(j)

Next ==
  \/ \E p \in Pages : Handler(p) \/ Page(p)
  \/ \E j \in Job : Work(j) \/ Child(j)
  \/ DeskRestarts

Spec == Init /\ [][Next]_vars

\* The threads of the desk are scheduled; nothing is asked of the child, of the
\* pages, or of whoever restarts the desk.
WorkerRuns(j)  == WF_vars(Work(j))
HandlerRuns(p) == WF_vars(Register(p) \/ StartThread(p))

FairSpec ==
  /\ Spec
  /\ \A j \in Job : WorkerRuns(j)
  /\ \A p \in Pages : HandlerRuns(p)

-----------------------------------------------------------------------------
(* Properties                                                              *)

\* Every variable has its type: in particular JOBS only ever holds a status that
\* the browser page knows.
TypeOK ==
  /\ lock \in BOOLEAN
  /\ jobs \in [Job -> {"unknown", "running"} \cup Final]
  /\ nextJob \in 1..(MaxJobs + 1)
  /\ page \in [Pages -> [step : {"idle", "register", "start", "poll"},
                         job : Job \cup {None}]]
  /\ worker \in [Job -> {"none", "input", "child", "check", "failed", "release",
                         "done", "dead"}]
  /\ child \in [Job -> {"none", "starting", "writing", "ended"}]
  /\ exit \in [Job -> {"none", "good", "bad"}]
  /\ writer \in Job \cup {None}
  /\ restarts \in 0..MaxRestarts

\* The cases that handlers and workers are busy with.
Accepting(p) == At(p, "register") \/ At(p, "start")
InHand == {page[p].job : p \in {q \in Pages : Accepting(q)}} \cup {j \in Job : Working(j)}

\* LOCK does what it is for: from the acceptance of a case to its release by
\* the worker thread, across the handover of the lock from the handler to that
\* thread, one case is in hand and the lock is held for it.
OneCaseInHand == (\A i, j \in InHand : i = j) /\ (InHand # {} => lock)

\* Two children never write to the shared journal together, even when the desk
\* was restarted, or gave a case up, while the child is still running.
OneWriter == \A i, j \in Job : child[i] = "writing" /\ child[j] = "writing" => i = j

\* The desk implements OneDesk: whichever handler and worker the lock passes
\* through, each accepted case is in hand once, and its verdict is given once,
\* before the release, and stays until the desk is restarted.
CaseInHand == IF InHand = {} THEN None ELSE CHOOSE j \in Job : j \in InHand
Promise == INSTANCE OneDesk WITH
             Cases <- Job, Verdicts <- Final, NoCase <- None, NoVerdict <- "none",
             hand <- CaseInHand, seen <- 1..(nextJob - 1), life <- restarts,
             verdict <- [j \in Job |-> IF jobs[j] \in Final THEN jobs[j] ELSE "none"]
KeepsOneDesk == Promise!Spec

\* Once its child is started a case is reported, unless the desk is restarted:
\* whatever the child does, a page stops polling.
EveryCaseReported ==
  \A j \in Job : (worker[j] = "child") ~> (jobs[j] # "running")

-----------------------------------------------------------------------------
\* serve.py to a second POST: "A case is already running. Please wait."  A desk
\* that is busy becomes free again, or is restarted.
WaitingHelps == lock ~> ~lock
=============================================================================
