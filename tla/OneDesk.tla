------------------------------- MODULE OneDesk -------------------------------
(***************************************************************************)
(* What the review desk promises to those who send it cases: it has one    *)
(* case in hand at a time, takes up none a second time, and judges a case  *)
(* at most once, while it has it in hand.  It may give a case back without *)
(* a verdict.  A desk that starts anew has forgotten its verdicts and what *)
(* it had in hand, but not which cases there were.                         *)
(***************************************************************************)
EXTENDS Naturals

CONSTANTS Cases, Verdicts, NoCase, NoVerdict

VARIABLES hand,      \* the case in hand
          seen,      \* the cases taken up so far
          verdict,   \* what can be read of each case
          life       \* how often the desk started anew

vars == <<hand, seen, verdict, life>>

Blank == [c \in Cases |-> NoVerdict]

Init == hand = NoCase /\ seen = {} /\ verdict = Blank /\ life = 0

Take(c) ==
  /\ hand = NoCase /\ c \notin seen
  /\ hand' = c /\ seen' = seen \cup {c}
  /\ UNCHANGED <<verdict, life>>

Judge(v) ==
  /\ hand # NoCase /\ verdict[hand] = NoVerdict
  /\ verdict' = [verdict EXCEPT ![hand] = v]
  /\ UNCHANGED <<hand, seen, life>>

LetGo == hand # NoCase /\ hand' = NoCase /\ UNCHANGED <<seen, verdict, life>>

Forget ==
  /\ life' = life + 1
  /\ hand' = NoCase /\ verdict' = Blank /\ UNCHANGED seen

Next == \/ \E c \in Cases : Take(c)
        \/ \E v \in Verdicts : Judge(v)
        \/ LetGo \/ Forget

Spec == Init /\ [][Next]_vars
=============================================================================
