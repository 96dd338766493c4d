--------------------------- MODULE RateLimitProofs ---------------------------
(***************************************************************************)
(* RateLimit for any limits with Throttle below Limit, any window, any     *)
(* number of processes and of late requests.                               *)
(*                                                                         *)
(* The argument.  The throttle keeps a request and the Throttle-th one     *)
(* after it a window apart (Spaced).  A request that arrives while its     *)
(* client waits does so before the next one is let go (Placed).  So of the *)
(* process's own requests that arrived in time, only the Throttle ones     *)
(* before the present one can be younger than a window, each of them once  *)
(* (Distinct); whatever else fills the window is a stranger's.             *)
(***************************************************************************)
EXTENDS RateLimit, Integers, FiniteSetTheorems, TLAPS

TimesGrow ==
  /\ \A i \in 1..Len(times) : times[i] <= now
  /\ \A i, j \in 1..Len(times) : i <= j => times[i] <= times[j]

Spaced ==
  \A i \in 1..Len(times) : i + Throttle <= Len(times)
    => times[i + Throttle] >= times[i] + Window

Asleep == pc = "asleep" => Len(times) >= Throttle /\ wake = Oldest + Window

LogGrows ==
  /\ \A i \in 1..Len(log) : log[i].at <= now /\ log[i].run <= run
  /\ \A i, j \in 1..Len(log) : i <= j => log[i].at <= log[j].at
  /\ \A r \in late : r.run <= run

InTime(i) == log[i].run = run /\ log[i].client # "gone"

Placed ==
  \A i \in 1..Len(log) : InTime(i) =>
    /\ log[i].no \in 1..Len(times)
    /\ log[i].no < Len(times) => log[i].at <= times[log[i].no + 1]
    /\ pc \in {"ready", "sent"} => log[i].no < Len(times)

\* A request on its way has a place among the times.
SentOne == pc \in {"ready", "sent"} => Len(times) >= 1

Distinct ==
  \A i, j \in 1..Len(log) :
    InTime(i) /\ InTime(j) /\ log[i].no = log[j].no => i = j

IInv ==
  /\ TypeOK /\ TimesGrow /\ Spaced /\ Asleep /\ LogGrows
  /\ Placed /\ SentOne /\ Distinct

-----------------------------------------------------------------------------
LEMMA InitIInv == Init => IInv
<1> SUFFICES ASSUME Init PROVE IInv
  OBVIOUS
<1> USE LimitsAssumption DEF Init
<1>1. TypeOK BY DEF TypeOK, Run
<1>2. TimesGrow /\ Spaced /\ Asleep /\ LogGrows /\ Placed /\ SentOne /\ Distinct
  BY DEF TimesGrow, Spaced, Asleep, LogGrows, Placed, SentOne, Distinct
<1> QED BY <1>1, <1>2 DEF IInv

\* Steps that touch neither list and enter neither the wait nor a request.
LEMMA QuietStep ==
  ASSUME IInv, run' = run, times' = times, log' = log,
         now' \in Nat, now' >= now,
         \/ pc' \in {"idle", "waiting", pc}
         \/ pc = "ready" /\ pc' = "sent",
         wake' = wake, late' \subseteq Request, \A r \in late' : r.run <= run
  PROVE  IInv'
<1> USE LimitsAssumption DEF IInv
<1>1. TypeOK' BY DEF TypeOK
<1>2. TimesGrow'
  <2>1. \A i \in 1..Len(times) : times[i] \in Nat BY DEF TypeOK
  <2> QED BY <2>1 DEF TimesGrow, TypeOK
<1>3. Spaced' BY DEF Spaced
<1>4. Asleep' BY DEF Asleep, Oldest
<1>5. LogGrows'
  <2>1. \A i \in 1..Len(log) : log[i] \in Arrival BY DEF TypeOK
  <2>2. \A i \in 1..Len(log) : log[i].at \in Nat BY <2>1 DEF Arrival
  <2> QED BY <2>2 DEF LogGrows, TypeOK
<1>6. Placed' /\ SentOne' BY DEF Placed, SentOne, InTime
<1>7. Distinct' BY DEF Distinct, InTime
<1> QED BY <1>1, <1>2, <1>3, <1>4, <1>5, <1>6, <1>7

\* The throttle lets a request go a window after the Throttle-th before it.
LEMMA LetGoStep ==
  ASSUME IInv, LetGo, pc \in {"waiting", "asleep"},
         Len(times) >= Throttle => Oldest + Window <= now
  PROVE  IInv'
<1> USE LimitsAssumption DEF IInv
<1>1. /\ times' = Append(times, now) /\ pc' = "ready"
      /\ UNCHANGED <<now, run, wake, late, log>>
  BY DEF LetGo
<1>2. times \in Seq(Nat) /\ now \in Nat /\ Len(times) \in Nat BY DEF TypeOK
<1>3. /\ Len(times') = Len(times) + 1 /\ times' \in Seq(Nat)
      /\ \A i \in 1..Len(times) : times'[i] = times[i]
      /\ times'[Len(times) + 1] = now
  BY <1>1, <1>2
<1>4. TypeOK' BY <1>1, <1>3 DEF TypeOK
<1>5. TimesGrow' BY <1>1, <1>2, <1>3 DEF TimesGrow
<1>6. Spaced'
  <2>1. ASSUME NEW i \in 1..Len(times'), i + Throttle <= Len(times')
        PROVE  times'[i + Throttle] >= times'[i] + Window
    <3>0. i \in Nat \ {0} /\ Throttle \in Nat \ {0} /\ i + Throttle <= Len(times) + 1
      BY <1>2, <1>3, <2>1
    <3>1. CASE i + Throttle <= Len(times)
      <4>1. i \in 1..Len(times) /\ i + Throttle \in 1..Len(times) BY <1>2, <3>0, <3>1
      <4>2. times[i + Throttle] >= times[i] + Window BY <3>1, <4>1 DEF Spaced
      <4> QED BY <1>3, <4>1, <4>2
    <3>2. CASE i + Throttle = Len(times) + 1
      <4>1. i = Len(times) - Throttle + 1 /\ i \in 1..Len(times) BY <1>2, <3>2
      <4>2. times'[i + Throttle] = now BY <1>3, <3>2
      <4>3. times'[i] = Oldest BY <1>3, <4>1 DEF Oldest
      <4> QED BY <1>2, <4>1, <4>2, <4>3
    <3> QED BY <1>2, <3>0, <3>1, <3>2
  <2> QED BY <2>1 DEF Spaced
<1>7. Asleep' /\ LogGrows' BY <1>1 DEF Asleep, LogGrows
<1>8. Placed'
  <2>1. ASSUME NEW i \in 1..Len(log), InTime(i)
        PROVE  /\ log[i].no \in 1..Len(times)
               /\ log[i].at <= times'[log[i].no + 1]
    <3>1. log[i].no \in 1..Len(times) BY <2>1 DEF Placed
    <3>2. CASE log[i].no < Len(times)
      <4>1. log[i].no + 1 \in 1..Len(times) BY <1>2, <3>1, <3>2
      <4>2. log[i].at <= times[log[i].no + 1] BY <2>1, <3>2 DEF Placed
      <4> QED BY <1>3, <3>1, <4>1, <4>2
    <3>3. CASE log[i].no = Len(times)
      <4>1. log[i].at <= now BY <2>1 DEF LogGrows
      <4> QED BY <1>3, <3>1, <3>3, <4>1
    <3> QED BY <1>2, <3>1, <3>2, <3>3
  <2>2. \A i \in 1..Len(log') : InTime(i)' <=> InTime(i) BY <1>1 DEF InTime
  <2> QED BY <1>1, <1>2, <1>3, <2>1, <2>2 DEF Placed
<1>9. Distinct' /\ SentOne' BY <1>1, <1>2, <1>3 DEF Distinct, SentOne, InTime
<1> QED BY <1>4, <1>5, <1>6, <1>7, <1>8, <1>9

LEMMA WaitStep ==
  ASSUME IInv, Wait
  PROVE  IInv'
<1> USE LimitsAssumption DEF IInv
<1>1. pc = "waiting" BY DEF Wait
<1>2. ASSUME Len(times) >= Throttle
      PROVE  Oldest \in Nat /\ Oldest <= now
  <2>1. Len(times) - Throttle + 1 \in 1..Len(times) BY <1>2 DEF TypeOK
  <2> QED BY <2>1 DEF Oldest, TypeOK, TimesGrow
<1>3. CASE ~Full /\ LetGo
  <2>1. Len(times) >= Throttle => Oldest + Window <= now
    BY <1>2, <1>3 DEF Full, TypeOK
  <2> QED BY <1>1, <1>3, <2>1, LetGoStep
<1>4. CASE /\ Full /\ wake' = Oldest + Window /\ pc' = "asleep"
           /\ UNCHANGED <<now, run, times, late, log>>
  <2>1. Len(times) >= Throttle /\ Oldest \in Nat BY <1>2, <1>4 DEF Full
  <2>2. TypeOK' BY <1>4, <2>1 DEF TypeOK
  <2>3. TimesGrow' /\ Spaced' /\ LogGrows' BY <1>4 DEF TimesGrow, Spaced, LogGrows
  <2>4. Asleep' BY <1>4, <2>1 DEF Asleep, Oldest
  <2>5. Placed' /\ SentOne' /\ Distinct' BY <1>4 DEF Placed, SentOne, Distinct, InTime
  <2> QED BY <2>2, <2>3, <2>4, <2>5
<1> QED BY <1>3, <1>4 DEF Wait

LEMMA WakeStep ==
  ASSUME IInv, Wake
  PROVE  IInv'
<1>1. pc = "asleep" /\ now >= wake /\ LetGo BY DEF Wake
<1>2. Oldest + Window <= now BY <1>1 DEF IInv, Asleep
<1> QED BY <1>1, <1>2, LetGoStep

LEMMA MineTyped ==
  ASSUME TypeOK PROVE Mine \in Request /\ Mine.run = run /\ Mine.no = Len(times)
BY DEF TypeOK, Mine, Request

LEMMA TimeoutStep ==
  ASSUME IInv, Timeout
  PROVE  IInv'
<1> USE DEF IInv
<1>1. late' = late \cup {Mine} /\ pc' = "idle" BY DEF Timeout
<1>2. UNCHANGED <<now, run, times, wake, log>> BY DEF Timeout
<1>3. now' \in Nat /\ now' >= now /\ run \in Nat
  BY <1>2, LimitsAssumption DEF TypeOK, Run
<1>4. late' \subseteq Request /\ \A r \in late' : r.run <= run
  BY <1>1, <1>3, MineTyped DEF TypeOK, LogGrows
<1> QED BY <1>1, <1>2, <1>3, <1>4, QuietStep

\* A new process has no request of its own at the API.
LEMMA NextProcessStep ==
  ASSUME IInv, NextProcess
  PROVE  IInv'
<1> USE LimitsAssumption DEF IInv
<1>1. /\ run <= MaxRuns /\ run' = run + 1 /\ times' = <<>> /\ pc' = "idle" /\ wake' = 0
      /\ UNCHANGED <<now, log>>
      /\ late' = late \cup IF pc = "sent" THEN {Mine} ELSE {}
  BY DEF NextProcess
<1>2. run \in Nat BY DEF TypeOK, Run
<1>3. late' \subseteq Request /\ \A r \in late' : r.run <= run
  BY <1>1, <1>2, MineTyped DEF TypeOK, LogGrows
<1>4. \A r \in late' : r.run \in Nat BY <1>3 DEF Request, Run
<1>5. \A i \in 1..Len(log) : log[i].run \in Nat /\ log[i].run <= run
  <2>1. \A i \in 1..Len(log) : log[i] \in Arrival BY DEF TypeOK
  <2> QED BY <2>1 DEF Arrival, Run, LogGrows
<1>6. TypeOK' BY <1>1, <1>2, <1>3 DEF TypeOK, Run
<1>7. TimesGrow' /\ Spaced' /\ Asleep' BY <1>1 DEF TimesGrow, Spaced, Asleep
<1>8. LogGrows' BY <1>1, <1>2, <1>3, <1>4, <1>5 DEF LogGrows
<1>9. \A i \in 1..Len(log') : ~InTime(i)' BY <1>1, <1>2, <1>5 DEF InTime
<1>10. Placed' /\ SentOne' /\ Distinct' BY <1>1, <1>9 DEF Placed, SentOne, Distinct
<1> QED BY <1>6, <1>7, <1>8, <1>10

\* What an entry at the end of the log brings.
LEMMA LoggedStep ==
  ASSUME IInv, NEW r \in Request, NEW l \in {"waits", "gone"}, r.run <= run,
         log' = Append(log, Entry(r, l)),
         UNCHANGED <<now, run, times, wake>>,
         pc' = "idle" \/ pc' = pc, late' \subseteq late,
         l = "gone" \/ (pc = "sent" /\ pc' = "idle" /\ r = Mine)
  PROVE  IInv'
<1> USE LimitsAssumption DEF IInv
<1>1. /\ Entry(r, l) \in Arrival /\ Entry(r, l).at = now /\ Entry(r, l).run = r.run
      /\ Entry(r, l).no = r.no /\ Entry(r, l).client = l
  BY DEF Entry, Arrival, Request, TypeOK
<1>2. log \in Seq(Arrival) BY DEF TypeOK
<1> DEFINE e == Entry(r, l)
<1> HIDE DEF e
<1>3. /\ Len(log') = Len(log) + 1 /\ Len(log) \in Nat /\ log' \in Seq(Arrival)
      /\ \A i \in 1..Len(log) : log'[i] = log[i]
      /\ log'[Len(log) + 1] = e
  BY <1>1, <1>2 DEF e
<1>4. e.at = now /\ e.run = r.run /\ e.no = r.no /\ e.client = l BY <1>1 DEF e
<1>5. TypeOK' BY <1>3 DEF TypeOK
<1>6. TimesGrow' /\ Spaced' /\ SentOne' BY DEF TimesGrow, Spaced, SentOne
<1>7. Asleep' BY DEF Asleep, Oldest
<1>8. LogGrows'
  <2>1. \A i \in 1..Len(log') : log'[i].at <= now /\ log'[i].run <= run
    BY <1>3, <1>4 DEF LogGrows, TypeOK
  <2>2. \A i, j \in 1..Len(log') : i <= j => log'[i].at <= log'[j].at
    BY <1>3, <1>4 DEF LogGrows, TypeOK
  <2> QED BY <2>1, <2>2 DEF LogGrows
<1>9. \A i \in 1..Len(log) : InTime(i)' <=> InTime(i) BY <1>3 DEF InTime
<1> PICK n \in Nat : n = Len(log) + 1 BY <1>3
<1>10. InTime(n)' => pc = "sent" /\ pc' = "idle" /\ e.no = Len(times)
  <2>1. InTime(n)' => l # "gone" BY <1>3, <1>4 DEF InTime
  <2> QED BY <1>4, <2>1, MineTyped
<1>11. Placed'
  <2>1. ASSUME NEW i \in 1..Len(log), InTime(i)'
        PROVE  /\ log'[i].no \in 1..Len(times)
               /\ log'[i].no < Len(times) => log'[i].at <= times[log'[i].no + 1]
               /\ pc' \in {"ready", "sent"} => log'[i].no < Len(times)
    BY <1>3, <1>9, <2>1 DEF Placed
  <2>2. InTime(n)' => Len(times) \in 1..Len(times)
    BY <1>10 DEF SentOne, TypeOK
  <2> QED BY <1>3, <1>10, <2>1, <2>2 DEF Placed, TypeOK
<1>12. Distinct'
  <2>1. ASSUME NEW i \in 1..Len(log), InTime(i)', InTime(n)'
        PROVE  log'[i].no # log'[n].no
    BY <1>3, <1>9, <1>10, <2>1 DEF Placed, TypeOK
  <2> QED BY <1>3, <1>9, <2>1 DEF Distinct
<1> QED BY <1>5, <1>6, <1>7, <1>8, <1>11, <1>12

LEMMA NextIInv == IInv /\ [Next]_vars => IInv'
<1> SUFFICES ASSUME IInv, [Next]_vars PROVE IInv'
  OBVIOUS
<1>0. now \in Nat /\ run \in Nat /\ late \subseteq Request /\ \A r \in late : r.run <= run
  BY DEF IInv, TypeOK, Run, LogGrows
<1>1. CASE Tick
  <2>1. pc' = pc /\ now' = now + 1
        /\ run' = run /\ times' = times /\ log' = log /\ wake' = wake /\ late' = late
    BY <1>1 DEF Tick
  <2>2. now' \in Nat /\ now' >= now BY <1>0, <2>1
  <2> QED BY <1>0, <2>1, <2>2, QuietStep
<1>2. CASE Call
  <2>1. pc' = "waiting" /\ now' = now
        /\ run' = run /\ times' = times /\ log' = log /\ wake' = wake /\ late' = late
    BY <1>2 DEF Call
  <2>2. now' \in Nat /\ now' >= now BY <1>0, <2>1
  <2> QED BY <1>0, <2>1, <2>2, QuietStep
<1>3. CASE Wait BY <1>3, WaitStep
<1>4. CASE Wake BY <1>4, WakeStep
<1>5. CASE GiveUp
  <2>1. pc' = "idle" /\ now' = now
        /\ run' = run /\ times' = times /\ log' = log /\ wake' = wake /\ late' = late
    BY <1>5 DEF GiveUp
  <2>2. now' \in Nat /\ now' >= now BY <1>0, <2>1
  <2> QED BY <1>0, <2>1, <2>2, QuietStep
<1>6. CASE Send
  <2>1. pc = "ready" /\ pc' = "sent" /\ now' = now
        /\ run' = run /\ times' = times /\ log' = log /\ wake' = wake /\ late' = late
    BY <1>6 DEF Send
  <2>2. now' \in Nat /\ now' >= now BY <1>0, <2>1
  <2> QED BY <1>0, <2>1, <2>2, QuietStep
<1>7. CASE Timeout BY <1>7, TimeoutStep
<1>8. CASE NextProcess BY <1>8, NextProcessStep
<1>9. CASE Accept
  <2>1. Mine \in Request /\ Mine.run = run BY MineTyped DEF IInv
  <2> QED BY <1>0, <1>9, <2>1, LoggedStep DEF Accept
<1>10. CASE Refuse
  <2>1. pc' = "idle" /\ now' = now
        /\ run' = run /\ times' = times /\ log' = log /\ wake' = wake /\ late' = late
    BY <1>10 DEF Refuse
  <2>2. now' \in Nat /\ now' >= now BY <1>0, <2>1
  <2> QED BY <1>0, <2>1, <2>2, QuietStep
<1>11. CASE Exempt
  <2>1. CASE log' = log
    <3>1. /\ pc' = "idle" /\ now' = now /\ run' = run /\ times' = times
          /\ wake' = wake /\ late' = late
      BY <1>11 DEF Exempt
    <3>2. now' \in Nat /\ now' >= now BY <1>0, <3>1
    <3> QED BY <1>0, <2>1, <3>1, <3>2, QuietStep
  <2>2. CASE log' = <<>>
    <3>1. pc' = "idle" /\ UNCHANGED <<now, run, times, wake, late>>
      BY <1>11 DEF Exempt
    <3>2. TypeOK' BY <2>2, <3>1 DEF IInv, TypeOK
    <3>3. TimesGrow' /\ Spaced' /\ Asleep'
      BY <3>1 DEF IInv, TimesGrow, Spaced, Asleep, Oldest
    <3>4. LogGrows' /\ Placed' /\ SentOne' /\ Distinct'
      BY <2>2, <3>1 DEF IInv, LogGrows, Placed, SentOne, Distinct
    <3> QED BY <3>2, <3>3, <3>4 DEF IInv
  <2> QED BY <1>11, <2>1, <2>2 DEF Exempt
<1>12. ASSUME NEW r \in late, ArriveLate(r) PROVE IInv'
  <2>0. /\ late' = late \ {r} /\ now' = now /\ run' = run /\ pc' = pc
        /\ times' = times /\ wake' = wake
    BY <1>12 DEF ArriveLate
  <2>1. CASE log' = log
    <3>1. now' \in Nat /\ now' >= now BY <1>0, <2>0
    <3>2. late' \subseteq Request /\ \A q \in late' : q.run <= run BY <1>0, <2>0
    <3> QED BY <2>0, <2>1, <3>1, <3>2, QuietStep
  <2>2. CASE log' = Append(log, Entry(r, "gone"))
    BY <1>0, <1>12, <2>2, LoggedStep DEF ArriveLate
  <2> QED BY <1>12, <2>1, <2>2 DEF ArriveLate
<1>13. CASE UNCHANGED vars
  <2>1. /\ pc' = pc /\ now' = now /\ run' = run /\ times' = times
        /\ log' = log /\ wake' = wake /\ late' = late
    BY <1>13 DEF vars
  <2>2. now' \in Nat /\ now' >= now BY <1>0, <2>1
  <2> QED BY <1>0, <2>1, <2>2, QuietStep
<1> QED
  BY <1>1, <1>2, <1>3, <1>4, <1>5, <1>6, <1>7, <1>8, <1>9, <1>10, <1>11, <1>12, <1>13
  DEF Next

LEMMA RateInvariant == Spec => []IInv
BY InitIInv, NextIInv, PTL DEF Spec

-----------------------------------------------------------------------------
\* The types of all variables, for any limits and bounds.
THEOREM RateLimitTypeCorrect == Spec => []TypeOK
<1>1. IInv => TypeOK BY DEF IInv
<1> QED BY <1>1, RateInvariant, PTL

\* In a window that is full, the process's own requests that arrived in time are
\* among the Throttle ones before the present.
LEMMA OwnShare ==
  ASSUME IInv, pc = "sent", Limited, NEW i \in Last, InTime(i)
  PROVE  log[i].no \in (Len(times) - Throttle)..(Len(times) - 1)
<1> USE LimitsAssumption DEF IInv
<1>1. Len(log) >= Limit /\ now - log[Len(log) - Limit + 1].at < Window /\ Limit >= 1
  BY DEF Limited
<1>2. Len(log) - Limit + 1 \in 1..Len(log) /\ i \in 1..Len(log)
      /\ Len(log) - Limit + 1 <= i
  BY <1>1 DEF Last, TypeOK
<1>3. \A j \in 1..Len(log) : log[j].at \in Nat /\ log[j].no \in Nat
  <2>1. \A j \in 1..Len(log) : log[j] \in Arrival BY DEF TypeOK
  <2> QED BY <2>1 DEF Arrival
<1>4. now - log[i].at < Window
  <2>1. log[Len(log) - Limit + 1].at <= log[i].at BY <1>2 DEF LogGrows
  <2>2. log[Len(log) - Limit + 1].at \in Nat /\ log[i].at \in Nat /\ now \in Nat
    BY <1>2, <1>3 DEF TypeOK
  <2> QED BY <1>1, <2>1, <2>2
<1>5. /\ log[i].no \in 1..Len(times) /\ log[i].no < Len(times)
      /\ log[i].at <= times[log[i].no + 1]
  BY <1>2 DEF Placed
<1>6. ASSUME log[i].no < Len(times) - Throttle PROVE FALSE
  <2> DEFINE k == log[i].no + 1
  <2>1. k \in 1..Len(times) /\ k + Throttle \in 1..Len(times)
    <3>1. log[i].no \in Nat /\ Len(times) \in Nat BY <1>2, <1>3 DEF TypeOK
    <3> DEFINE n == log[i].no
               m == Len(times)
    <3>2. n \in Nat /\ m \in Nat /\ n < m - Throttle BY <3>1, <1>6
    <3> HIDE DEF n, m, IInv
    <3>3. n + 1 \in 1..m /\ n + 1 + Throttle \in 1..m BY <3>2
    <3> QED BY <3>3 DEF n, m, k
  <2>2. times[k + Throttle] >= times[k] + Window BY <2>1 DEF Spaced
  <2> HIDE DEF k
  <2>3. times[k + Throttle] <= now /\ times[k] \in Nat /\ times[k + Throttle] \in Nat
    BY <2>1 DEF TimesGrow, TypeOK
  <2>4. log[i].at <= times[k] BY <1>5 DEF k
  <2>5. log[i].at \in Nat /\ now \in Nat BY <1>2, <1>3 DEF TypeOK
  <2> QED BY <1>4, <2>2, <2>3, <2>4, <2>5
<1> QED BY <1>3, <1>2, <1>5, <1>6 DEF TypeOK

\* A process is refused only when strangers fill the margin between the limits.
THEOREM RefusedForStrangersHolds == Spec => RefusedForStrangers
<1>1. ASSUME IInv, Refuse PROVE Cardinality(Strangers) >= Limit - Throttle
  <2> USE LimitsAssumption DEF IInv
  <2>1. pc = "sent" /\ Limited BY <1>1 DEF Refuse
  <2> DEFINE Own == {i \in Last : InTime(i)}
             Slots == (Len(times) - Throttle)..(Len(times) - 1)
             f == [i \in Own |-> log[i].no]
  <2>2. Len(log) \in Nat /\ Len(times) \in Nat /\ Len(log) >= Limit
    BY <2>1 DEF TypeOK, Limited
  <2>3. IsFiniteSet(Last) /\ Cardinality(Last) = Limit
    BY <2>2, FS_Interval DEF Last
  <2>4. IsFiniteSet(Slots) /\ Cardinality(Slots) = Throttle
    <3> DEFINE a == Len(times) - Throttle
               b == Len(times) - 1
    <3>1. a \in Int /\ b \in Int /\ b - a + 1 = Throttle /\ ~(a > b) BY <2>2
    <3> HIDE DEF a, b
    <3>2. IsFiniteSet(a..b) /\ Cardinality(a..b) = Throttle BY <3>1, FS_Interval
    <3> QED BY <3>2 DEF a, b
  <2>5. f \in Injection(Own, Slots)
    <3>1. f \in [Own -> Slots] BY <1>1, <2>1, OwnShare
    <3>2. Own \subseteq 1..Len(log) BY <2>2 DEF Last
    <3>3. \A i, j \in Own : f[i] = f[j] => i = j BY <1>1, <3>2 DEF Distinct
    <3> HIDE DEF f, Own, Slots
    <3> QED BY <3>1, <3>3 DEF Injection, IsInjective
  <2>6. Cardinality(Own) <= Throttle BY <2>4, <2>5, FS_Injection
  <2>7. IsFiniteSet(Own) /\ Cardinality(Own) \in Nat
    BY <2>3, FS_Subset, FS_CardinalityType
  <2>8. Strangers = Last \ Own BY DEF Strangers, InTime
  <2>9. Last \cap Own = Own OBVIOUS
  <2>10. Cardinality(Strangers) = Limit - Cardinality(Own)
    BY <2>3, <2>8, <2>9, FS_Difference
  <2> QED BY <2>6, <2>7, <2>10
<1>2. IInv /\ [Next]_vars => [Refuse => Cardinality(Strangers) >= Limit - Throttle]_vars
  BY <1>1
<1> QED BY <1>2, RateInvariant, PTL DEF Spec, RefusedForStrangers

=============================================================================
