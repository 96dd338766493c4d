--------------------------- MODULE MCCasePipeline ---------------------------
(***************************************************************************)
(* Instances of CasePipeline for TLC.  The names of the queues keep their  *)
(* order; the limits keep the proportions of config.py.                    *)
(***************************************************************************)
EXTENDS CasePipeline

Ranks == [q \in {"GENERAL", "SPECIAL_ASSISTANCE", "SUPERVISOR", "YTP"} |->
            CASE q = "GENERAL" -> 1 [] q = "SPECIAL_ASSISTANCE" -> 2
              [] q = "SUPERVISOR" -> 3 [] q = "YTP" -> 4]

Clauses == {"S11", "S12", "S14"}

Assistance == [queue |-> "SPECIAL_ASSISTANCE", clause |-> "S14", internal |-> FALSE]
Travel     == [queue |-> "YTP", clause |-> "S11", internal |-> FALSE]
Colleagues == [queue |-> "SUPERVISOR", clause |-> "S12", internal |-> TRUE]

Plan(proposed, blocked, items, ask) ==
  [proposed |-> proposed, blocked |-> blocked, items |-> items, ask |-> ask]

r1  == [place |-> 1]
r2  == [place |-> 2]
One == {r1}
Two == {r1, r2}

\* Two remedies; a remedy and a note to colleagues; a remedy and a blocked one
\* beside two urgent queues, which with the supervisor's make one too many; two
\* remedies, one blocked, and a question; nothing but a question.
ManyPlans ==
  {Plan({r1, r2}, {}, {}, FALSE),
   Plan({r1}, {}, {Colleagues}, FALSE),
   Plan({r1}, {r2}, {Assistance, Travel}, FALSE),
   Plan({r1}, {r2}, {}, TRUE),
   Plan({}, {}, {}, TRUE)}

\* One remedy, in every run.
SamePlan == {Plan({r1}, {}, {}, FALSE)}

=============================================================================
