------------------------------ MODULE RateLimit ------------------------------
(***************************************************************************)
(* The client's throttle (ops_client._Throttle, within _request) against   *)
(* the rate limit of the operations API (ops_server.Handler._rate_limited).*)
(*                                                                         *)
(* Both count the requests of the last window.  The throttle is fresh in   *)
(* every process and counts when it lets a request go; the API counts the  *)
(* requests of everybody, when they arrive, and leaves out those that it   *)
(* refuses.  A request whose client has given up may still arrive.         *)
(*                                                                         *)
(* The lists of times are kept whole: times only grow, so what a filter by *)
(* age leaves of a list are its last entries, and at least n of them are   *)
(* left when the n-th from the end is young enough.                        *)
(***************************************************************************)
EXTENDS Naturals, Sequences, FiniteSets

CONSTANTS
  Throttle,    \* THROTTLE_MAX_REQUESTS
  Limit,       \* RATE_LIMIT_REQUESTS
  Window,      \* THROTTLE_WINDOW_S and RATE_LIMIT_WINDOW_S
  MaxTime, MaxRequests, MaxLate, MaxRuns   \* bounds

ASSUME LimitsAssumption ==
  /\ Throttle \in Nat \ {0} /\ Limit \in Nat /\ Window \in Nat \ {0}
  /\ Throttle < Limit
  /\ MaxTime \in Nat /\ MaxRequests \in Nat /\ MaxLate \in Nat /\ MaxRuns \in Nat

VARIABLES
  now,
  run,      \* the process, known by its number
  pc,       \* where the process is in _request
  times,    \* when its throttle let requests go
  wake,     \* until when it sleeps
  late,     \* requests that nobody waits for any more
  log       \* the API's request_times, with what each request was

vars == <<now, run, pc, times, wake, late, log>>

Run == 1..(MaxRuns + 1)
\* A request is known by its process and its place there.
Request == [run : Run, no : Nat]
Arrival == [at : Nat, run : Run, no : Nat, client : {"waits", "gone"}]

Mine == [run |-> run, no |-> Len(times)]

Init ==
  /\ now = 0 /\ run = 1 /\ pc = "idle" /\ times = <<>> /\ wake = 0
  /\ late = {} /\ log = <<>>

Tick ==
  /\ now < MaxTime /\ now' = now + 1
  /\ UNCHANGED <<run, pc, times, wake, late, log>>

-----------------------------------------------------------------------------
(* The client                                                              *)

\* A request begins; its attempt is spent.
Call ==
  /\ pc = "idle" /\ Len(times) < MaxRequests /\ pc' = "waiting"
  /\ UNCHANGED <<now, run, times, wake, late, log>>

\* Mutant: one request more than the window holds.
FullAbove == Len(times) > Throttle /\ now - times[Len(times) - Throttle] < Window

Oldest == times[Len(times) - Throttle + 1]

\* Throttle requests were let go within the window.
Full == Len(times) >= Throttle /\ now - Oldest < Window

LetGo ==
  /\ times' = Append(times, now) /\ pc' = "ready"
  /\ UNCHANGED <<now, run, wake, late, log>>

Wait ==
  /\ pc = "waiting"
  /\ \/ ~Full /\ LetGo
     \/ /\ Full /\ wake' = Oldest + Window /\ pc' = "asleep"
        /\ UNCHANGED <<now, run, times, late, log>>

\* After its sleep the throttle does not count again.
Wake == pc = "asleep" /\ now >= wake /\ LetGo

\* The deadline of the case passed during the wait: nothing is sent.
GiveUp ==
  /\ pc = "ready" /\ pc' = "idle"
  /\ UNCHANGED <<now, run, times, wake, late, log>>

Send ==
  /\ pc = "ready" /\ pc' = "sent"
  /\ UNCHANGED <<now, run, times, wake, late, log>>

\* The client gives up on a request that may still arrive.
Timeout ==
  /\ pc = "sent" /\ pc' = "idle"
  /\ Cardinality(late) < MaxLate /\ late' = late \cup {Mine}
  /\ UNCHANGED <<now, run, times, wake, log>>

\* The next process has a throttle of its own; what the last one sent may
\* still be on its way.
NextProcess ==
  /\ run <= MaxRuns /\ run' = run + 1
  /\ times' = <<>> /\ pc' = "idle" /\ wake' = 0
  /\ late' = late \cup IF pc = "sent" THEN {Mine} ELSE {}
  /\ UNCHANGED <<now, log>>

-----------------------------------------------------------------------------
(* The API                                                                 *)

Last == (Len(log) - Limit + 1)..Len(log)

Limited == Len(log) >= Limit /\ now - log[Len(log) - Limit + 1].at < Window

Entry(r, client) == [at |-> now, run |-> r.run, no |-> r.no, client |-> client]

Accept ==
  /\ pc = "sent" /\ pc' = "idle"
  /\ ~Limited /\ log' = Append(log, Entry(Mine, "waits"))
  /\ UNCHANGED <<now, run, times, wake, late>>

\* 429: the request is not counted.
Refuse ==
  /\ pc = "sent" /\ pc' = "idle"
  /\ Limited
  /\ UNCHANGED <<now, run, times, wake, late, log>>

\* /_audit and /_reset are not counted either, and a reset forgets the others.
Exempt ==
  /\ pc = "sent" /\ pc' = "idle" /\ log' \in {log, <<>>}
  /\ UNCHANGED <<now, run, times, wake, late>>

\* A request that nobody waits for arrives, or never will.
ArriveLate(r) ==
  /\ r \in late /\ late' = late \ {r}
  /\ log' = IF Limited THEN log ELSE Append(log, Entry(r, "gone"))
  /\ UNCHANGED <<now, run, pc, times, wake>>

Next ==
  \/ Tick
  \/ Call \/ Wait \/ Wake \/ GiveUp \/ Send \/ Timeout \/ NextProcess
  \/ Accept \/ Refuse \/ Exempt
  \/ \E r \in late : ArriveLate(r)

Spec == Init /\ [][Next]_vars

-----------------------------------------------------------------------------
(* Properties                                                              *)

TypeOK ==
  /\ now \in Nat /\ run \in Run
  /\ pc \in {"idle", "waiting", "asleep", "ready", "sent"}
  /\ times \in Seq(Nat) /\ wake \in Nat
  /\ late \subseteq Request /\ log \in Seq(Arrival)

\* Requests in the API's window that the throttle of this process did not let
\* go or that it believed settled: those of other processes, and late ones.
Strangers == {i \in Last : log[i].run # run \/ log[i].client = "gone"}

\* A request whose client waits for it is refused only for the sake of others:
\* the margin of Limit over Throttle must have been used up by strangers
\* (ops_client.py:82), however long requests travel and whenever the process
\* started.  What a single process sends never meets the limit by itself.
RefusedForStrangers ==
  [][Refuse => Cardinality(Strangers) >= Limit - Throttle]_vars

=============================================================================
