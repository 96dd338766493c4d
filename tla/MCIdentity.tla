------------------------------ MODULE MCIdentity ------------------------------
(***************************************************************************)
(* An instance of Identity for TLC: two bookings, another spelling of one  *)
(* of their references, one of which nothing is left in a path, and one    *)
(* that no booking has; two spellings of one address, a number within      *)
(* another.                                                                *)
(***************************************************************************)
EXTENDS Identity, TLC

CONSTANTS r1, r2, r3,             \* references; no booking has r3
          r1x, blank,             \* r1 with a comma, and punctuation only
          ada, lovelace, byron    \* words of names

References == {r1, r2, r3, r1x, blank}
Paths == [r \in References |-> IF r = r1x THEN r1 ELSE IF r = blank THEN None ELSE r]
Addresses  == {"ada@", "ADA@", "byron@"}
Spelt == [e \in Addresses |-> IF e = "byron@" THEN "byron@" ELSE "ada@"]
Numbers == {"long", "longer", "other", "brief"}
Inside == [p \in Numbers |-> IF p = "longer" THEN {"longer", "long"} ELSE {p}]
Brief == {"brief"}
NameWords == {ada, lovelace, byron}

Ada   == [given |-> ada, surname |-> lovelace]
Byron == [given |-> byron, surname |-> lovelace]

Holds(e, p, names) == [email |-> e, phone |-> p, passengers |-> names]

Held ==
  {Holds(e, p, {n}) : e \in Addresses, p \in {"long", "longer", "brief"},
                      n \in {Ada, Byron}}

OperationalRecords ==
  {r1 :> a @@ r2 :> b : a \in {h \in Held : h.email # "byron@" /\ h.phone # "brief"}, b \in Held}

From(n, e) == [name |-> n, email |-> e]
NoSender == From(None, None)

Writes(meta, quoted, written, phones) ==
  [meta |-> meta, headers |-> <<>>, quoted |-> quoted, written |-> written,
   swept |-> {}, claimed |-> {lovelace}, signed |-> None, words |-> {lovelace},
   phones |-> phones]

Senders == {From(Ada, "ada@"), From(Byron, "byron@"), From(None, "ada@"), NoSender}

\* References of any number, copied by the extraction or found by the sweep.
WithReferences ==
  {[Writes(meta, quoted, written, {"long"}) EXCEPT !.swept = swept, !.words = words] :
     meta \in Senders, quoted \in {{}, {r1}, {r1x}, {blank}, {r2, r3}},
     swept \in {{}, {r1}, {r1, r2}},
     written \in {{r1, r1x, r2}, References}, words \in {{}, {lovelace}}}

\* No references: what the sender, the From: lines and the numbers say.
WithoutReferences ==
  {[Writes(meta, quoted, {}, phones) EXCEPT !.headers = headers, !.signed = signed] :
     meta \in Senders, quoted \in {{}, {r1}},
     phones \in {{}, {"long"}, {"brief"}, {"other"}, {"long", "other"}},
     headers \in {<<>>, <<From(Ada, "ada@")>>,
                  <<From(Ada, "ada@"), From(Byron, "byron@")>>},
     signed \in {None, Byron}}

Messages == WithReferences \cup WithoutReferences

=============================================================================
