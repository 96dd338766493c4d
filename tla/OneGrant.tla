------------------------------ MODULE OneGrant ------------------------------
(***************************************************************************)
(* What the write path promises under S12.2.  A request claims the         *)
(* benefits it is for, one for each passenger for instance, before it is   *)
(* made; in one era of the airline's records (from one recorded reset to   *)
(* the next) no benefit is claimed by two requests, unless the first gave  *)
(* its claims up.  A request that keeps its claims may be granted at any   *)
(* later time, in a later era too: then once, and with exactly what it     *)
(* claimed.  One that gave them up is never granted.                       *)
(***************************************************************************)
EXTENDS Naturals

CONSTANTS Requests, Eras, Benefits

VARIABLES
  era,        \* the present era
  claimed,    \* claimed[q]: what q claims, each benefit with its era
  released,   \* the requests that gave their claims up
  granted,    \* granted[q]: how often q was granted
  obtained    \* obtained[q]: the benefits that q was granted

vars == <<era, claimed, released, granted, obtained>>

Init ==
  /\ era = 0
  /\ claimed = [q \in Requests |-> {}]
  /\ released = {}
  /\ granted = [q \in Requests |-> 0]
  /\ obtained = [q \in Requests |-> {}]

Free(b) == \A q \in Requests \ released : <<era, b>> \notin claimed[q]

Claim(q, b) ==
  /\ granted[q] = 0 /\ q \notin released
  /\ Free(b)
  /\ claimed' = [claimed EXCEPT ![q] = @ \cup {<<era, b>>}]
  /\ UNCHANGED <<era, released, granted, obtained>>

Grant(q) ==
  /\ granted[q] = 0 /\ q \notin released
  /\ granted' = [granted EXCEPT ![q] = 1]
  /\ obtained' = [obtained EXCEPT ![q] = {c[2] : c \in claimed[q]}]
  /\ UNCHANGED <<era, claimed, released>>

Release(q) ==
  /\ granted[q] = 0
  /\ released' = released \cup {q}
  /\ UNCHANGED <<era, claimed, granted, obtained>>

Reset ==
  /\ era + 1 \in Eras
  /\ era' = era + 1
  /\ UNCHANGED <<claimed, released, granted, obtained>>

Next ==
  \/ \E q \in Requests : Grant(q) \/ Release(q) \/ \E b \in Benefits : Claim(q, b)
  \/ Reset

Spec == Init /\ [][Next]_vars
=============================================================================
