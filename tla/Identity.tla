------------------------------- MODULE Identity -------------------------------
(***************************************************************************)
(* Who is writing and which booking they mean (identity.resolve_identity,  *)
(* policy S2): every reference in the message is looked up; without any,   *)
(* the sender's address is searched, then the telephone number in the      *)
(* message, then names, which confirm nothing.                             *)
(*                                                                         *)
(* Each request to the operations API may answer, be refused (OpsError,    *)
(* after its retries) or get no answer or no attempt (OpsTransportError,   *)
(* AttemptBudgetExhausted).  The last is caught nowhere here and ends the  *)
(* stage: run_case goes on to its recovery.                                *)
(*                                                                         *)
(* An address, a number, a reference or a word of a name is an atom.  What *)
(* the comparisons tell apart of them is given: how an address reads in    *)
(* lower case, and which numbers occur within the digits of another.       *)
(***************************************************************************)
EXTENDS Naturals, Sequences, FiniteSets

CONSTANTS
  Refs, Emails, Phones, Words,
  Segment,     \* the path a reference is read under, None if nothing is left of it
  Lower,       \* an address in lower case
  Within,      \* number -> the numbers whose digits occur within its own
  Short,       \* numbers of fewer than nine digits
  MaxRefs,     \* references looked up at most
  Records,     \* what the operational record may hold
  Contacts,    \* the messages that may come in
  None         \* no address, no name, no booking

Name == [given : Words, surname : Words]

Booking == [email : Emails, phone : Phones, passengers : SUBSET Name]

Address == [name : Name \cup {None}, email : Emails \cup {None}]

Contact ==
  [meta    : Address,            \* the transport's sender
   headers : Seq(Address),       \* From: lines in the message
   quoted  : SUBSET Refs,        \* references the extraction gives,
   written : SUBSET Refs,        \* those that occur in the text
   swept   : SUBSET Refs,        \* and those in the text of the usual shape
   claimed : SUBSET Words,       \* surnames the extraction gives
   signed  : Name \cup {None},   \* and the sender's name
   words   : SUBSET Words,       \* words of names in the text
   phones  : SUBSET Phones]      \* international numbers in the text

ASSUME DataAssumption ==
  /\ Segment \in [Refs -> Refs \cup {None}]
  /\ Within \in [Phones -> SUBSET Phones] /\ \A p \in Phones : p \in Within[p]
  /\ DOMAIN Lower = Emails /\ None \notin Name \cup Emails \cup Refs
  /\ MaxRefs \in Nat /\ MaxRefs >= 2
ASSUME ContactsAssumption ==
  /\ \A r \in Records : DOMAIN r \subseteq Refs /\ r \in [DOMAIN r -> Booking]
  /\ Contacts \subseteq Contact
  /\ \A c \in Contacts : IsFiniteSet(c.claimed) /\ c.swept \subseteq c.written

VARIABLES
  record, contact,   \* the inputs, which nothing here changes
  stage,
  left,        \* references still to look up
  matches,     \* references whose booking carries a surname of the contact
  invalid,     \* a reference exists nowhere or names other passengers
  found,       \* the only booking a search returned
  queries,     \* searches by name still to make
  unresolved,  \* checks that came to nothing
  verdict

vars == <<record, contact, stage, left, matches, invalid, found, queries,
          unresolved, verdict>>
input == <<record, contact>>

Standard == {"reference", "email", "phone"}
Check    == Standard \cup {"phones", "name"}
Final    == {"done", "stopped"}
Stage    == {"references", "email", "by email", "phone", "by phone", "names"} \cup Final

Unconfirmed == [confirmed |-> FALSE, standard |-> None, booking |-> None,
                thirdParty |-> FALSE]

-----------------------------------------------------------------------------
(* What the message gives                                                  *)

\* The transport's sender; without an address, a single From: line.
Sender ==
  IF contact.meta.email = None /\ Len(contact.headers) = 1
    THEN contact.headers[1] ELSE contact.meta

Parts(name) == IF name = None THEN {} ELSE {name.given, name.surname}

\* _surname_pool, of which only what the contact wrote counts.
Surnames ==
  LET pool == contact.claimed \cup Parts(Sender.name) \cup
              IF contact.signed = None THEN {} ELSE {contact.signed.surname}
  IN  pool \cap (contact.words \cup Parts(Sender.name))

CandidateRefs == (contact.quoted \cap contact.written) \cup contact.swept

\* The first MaxRefs of them, the quoted ones before the others.
Shortlist ==
  LET quoted == contact.quoted \cap contact.written
  IN  IF Cardinality(CandidateRefs) <= MaxRefs THEN {CandidateRefs}
      ELSE {L \in SUBSET CandidateRefs :
              /\ Cardinality(L) = MaxRefs
              /\ quoted \subseteq L \/ L \subseteq quoted}

\* Mutant: every surname is searched.
AllNameQueries == Cardinality(Surnames) + 2

\* The sender's name, in full, and surnames that it does not hold.
NameQueries ==
  LET full == IF contact.signed # None THEN contact.signed ELSE Sender.name
      all  == Cardinality(Surnames \ Parts(full)) + IF full = None THEN 0 ELSE 1
  IN  IF all > 2 THEN 2 ELSE all

Init ==
  /\ record \in Records /\ contact \in Contacts
  /\ stage = "references" /\ left \in Shortlist
  /\ matches = {} /\ invalid = FALSE /\ found = None /\ queries = 0
  /\ unresolved = {} /\ verdict = Unconfirmed

-----------------------------------------------------------------------------
(* The operations API                                                      *)

EmailRows(e) == {b \in DOMAIN record : Lower[record[b].email] = Lower[e]}
PhoneRows(p) == {b \in DOMAIN record : p \in Within[record[b].phone]}

-----------------------------------------------------------------------------
(* The verdict                                                             *)

SurnamesOn(b) == {n.surname : n \in record[b].passengers}

\* _apply_third_party_check: the booker of record, or a passenger by full name.
Entitled(b) ==
  \/ Sender.email = record[b].email
  \/ Sender.name \in record[b].passengers

Confirm(b, standard) ==
  /\ verdict' = [confirmed |-> Entitled(b), standard |-> standard, booking |-> b,
                 thirdParty |-> ~Entitled(b)]
  /\ stage' = "done"
  /\ UNCHANGED <<input, left, matches, invalid, found, queries, unresolved>>

Note(check, next) ==
  /\ unresolved' = unresolved \cup {check} /\ stage' = next
  /\ UNCHANGED <<input, left, matches, invalid, found, queries, verdict>>

Go(next) ==
  /\ stage' = next
  /\ UNCHANGED <<input, left, matches, invalid, found, queries, unresolved, verdict>>

\* The only row of a search is read next.
Fetch(b, next) ==
  /\ found' = b /\ stage' = next
  /\ UNCHANGED <<input, left, matches, invalid, queries, unresolved, verdict>>

ToNames ==
  /\ queries' = NameQueries /\ stage' = "names"
  /\ UNCHANGED <<input, left, matches, invalid, found, verdict>>

-----------------------------------------------------------------------------
(* S2.1(a): references                                                     *)

\* Characters that a path may not hold are dropped, so two spellings of one
\* reference read the same booking.
Matched(r) ==
  Segment[r] \in DOMAIN record /\ SurnamesOn(Segment[r]) \cap Surnames # {}

LookUp(r) ==
  /\ stage = "references" /\ r \in left /\ Segment[r] # None
  /\ left' = left \ {r}
  /\ \/ /\ Matched(r)
        /\ matches' = matches \cup {r} /\ UNCHANGED <<invalid, unresolved>>
     \/ /\ ~Matched(r)    \* 404, or no passenger of a supplied surname
        /\ invalid' = TRUE /\ UNCHANGED <<matches, unresolved>>
     \/ /\ unresolved' = unresolved \cup {"reference"}
        /\ UNCHANGED <<matches, invalid>>
  /\ UNCHANGED <<input, stage, found, queries, verdict>>

\* Mutant: what else the message refers to is not looked at.
OneMatchAmongThem(r) == matches = {r} /\ unresolved = {}

OneMatch(r) == matches = {r} /\ ~invalid /\ unresolved = {}

\* With any reference at all, nothing else is tried.
EndReferences ==
  /\ stage = "references" /\ left = {}
  /\ \/ \E r \in matches : OneMatch(r) /\ Confirm(Segment[r], "reference")
     \/ CandidateRefs # {} /\ ~(\E r \in matches : OneMatch(r)) /\ Go("done")
     \/ CandidateRefs = {} /\ Go("email")

-----------------------------------------------------------------------------
(* S2.1(b): the sender's address                                           *)

\* Mutant: the rows of the API are taken as they come.
HeldInAnyCase(e) == EmailRows(e)

HeldBy(e) == {b \in EmailRows(e) : record[b].email = e}

SearchEmail ==
  /\ stage = "email"
  /\ \/ Sender.email = None /\ Go("phone")
     \/ /\ Sender.email # None
        /\ LET exact == HeldBy(Sender.email)
           IN  \/ \E b \in exact : exact = {b} /\ Fetch(b, "by email")
               \/ exact = {} /\ Go("phone")
               \/ exact # {} /\ (\A b \in exact : exact # {b}) /\ Note("email", "phone")
               \/ Note("email", "phone")    \* refused

\* Mutant: a failure of the read is passed over.
ReadByEmailQuietly ==
  /\ stage = "by email"
  /\ Confirm(found, "email") \/ Go("phone")

\* A booking that cannot be read is noted, and the telephone is tried.
ReadByEmail ==
  /\ stage = "by email"
  /\ Confirm(found, "email") \/ Note("email", "phone")

-----------------------------------------------------------------------------
(* S2.1(c): the telephone number                                           *)

SearchPhone ==
  /\ stage = "phone"
  /\ \/ /\ \A p \in contact.phones : contact.phones # {p}
        /\ unresolved' = unresolved \cup IF contact.phones = {} THEN {} ELSE {"phones"}
        /\ ToNames
     \/ \E p \in contact.phones :
          /\ contact.phones = {p}
          /\ \/ /\ p \notin Short
                /\ \E b \in PhoneRows(p) : PhoneRows(p) = {b} /\ Fetch(b, "by phone")
             \/ /\ p \in Short \/ \A b \in PhoneRows(p) : PhoneRows(p) # {b}
                /\ ToNames /\ UNCHANGED unresolved
             \/ /\ p \notin Short    \* refused
                /\ unresolved' = unresolved \cup {"phone"} /\ ToNames

\* Read outside the try of the search: even a refusal ends the stage.
ReadByPhone ==
  /\ stage = "by phone"
  /\ \/ record[found].phone \in contact.phones /\ Confirm(found, "phone")
     \/ /\ record[found].phone \notin contact.phones
        /\ unresolved' = unresolved \cup {"phone"} /\ ToNames
     \/ Go("stopped")

-----------------------------------------------------------------------------
(* Names, for the referral only                                            *)

\* Whether a search finds anything is only noted.
SearchName ==
  /\ stage = "names" /\ queries > 0
  /\ queries' = queries - 1
  /\ unresolved' \in {unresolved, unresolved \cup {"name"}}
  /\ UNCHANGED <<input, stage, left, matches, invalid, found, verdict>>

\* No name to search, all searched, or too few attempts left.
EndNames ==
  /\ stage = "names"
  /\ IF queries > 0 \/ NameQueries = 0 THEN Note("name", "done") ELSE Go("done")

\* No answer, no attempt, or a reference of which no path is left (ValueError):
\* an exception that nothing here catches.
Escapes ==
  /\ \/ stage = "references" /\ left # {}
     \/ stage = "email" /\ Sender.email # None
     \/ stage = "by email"
     \/ stage = "phone" /\ \E p \in contact.phones \ Short : contact.phones = {p}
     \/ stage = "names" /\ queries > 0
  /\ Go("stopped")

Decided == stage \in Final /\ UNCHANGED vars

Next ==
  \/ \E r \in Refs : LookUp(r)
  \/ EndReferences
  \/ SearchEmail \/ ReadByEmail \/ SearchPhone \/ ReadByPhone
  \/ SearchName \/ EndNames \/ Escapes
  \/ Decided

Spec == Init /\ [][Next]_vars

-----------------------------------------------------------------------------
(* Properties                                                              *)

\* Every variable has its type, and at most two names are searched.
TypeOK ==
  /\ record \in Records /\ contact \in Contacts
  /\ stage \in Stage /\ left \subseteq CandidateRefs
  /\ matches \subseteq CandidateRefs /\ invalid \in BOOLEAN
  /\ found \in DOMAIN record \cup {None} /\ queries \in 0..2
  /\ unresolved \subseteq Check
  /\ verdict \in [confirmed : BOOLEAN, standard : Standard \cup {None},
                  booking : DOMAIN record \cup {None}, thirdParty : BOOLEAN]

\* The standards of S2.1, of the record and the message alone.
MeetsReference(b) ==
  /\ b \in DOMAIN record /\ \E r \in CandidateRefs : Segment[r] = b
  /\ \E n \in record[b].passengers :
       n.surname \in contact.words \cup Parts(Sender.name)

MeetsEmail(b) == {r \in DOMAIN record : record[r].email = Sender.email} = {b}

MeetsPhone(b) ==
  \E p \in Phones : /\ contact.phones = {p}
                    /\ {r \in DOMAIN record : record[r].phone = p} = {b}

\* A booking that is chosen meets, in the record itself, the standard that the
\* verdict names (identity.py:3): one passage through searches that match
\* loosely, reads that fail and checks that are repeated must not soften it.
MeetsItsStandard ==
  verdict.booking # None =>
    \/ verdict.standard = "reference" /\ MeetsReference(verdict.booking)
    \/ verdict.standard = "email" /\ MeetsEmail(verdict.booking)
    \/ verdict.standard = "phone" /\ MeetsPhone(verdict.booking)

\* A message that has references is confirmed by them or not at all: by one
\* reference, the only one it has (identity.py:169, S2.2), whatever its sender's
\* address or telephone would have confirmed, whichever lookups failed and
\* however many references were not looked up.
ReferencesDecide ==
  verdict.booking # None /\ CandidateRefs # {} =>
    /\ \E r \in Refs : CandidateRefs = {r} /\ Segment[r] = verdict.booking
    /\ MeetsReference(verdict.booking)

\* A booking is found by its telephone although the sender's address stands on
\* one only if the desk is told of it (identity.py:298): the address stands on
\* several, or the search or the read by it came to nothing.
AddressNotPassedOver ==
  verdict.booking # None /\ verdict.standard = "phone" =>
    \A b \in DOMAIN record : record[b].email = Sender.email => "email" \in unresolved

\* Without references, whoever meets a standard is turned away only when a check
\* that could not be made is noted for the desk, or when the number given is
\* short or occurs in that of another booking.
TurnedAwayForCause ==
  stage = "done" /\ verdict.booking = None /\ CandidateRefs = {} =>
    \A b \in DOMAIN record :
      /\ MeetsEmail(b) => "email" \in unresolved
      /\ MeetsPhone(b) =>
           \/ "phone" \in unresolved \/ contact.phones \subseteq Short
           \/ \E r \in DOMAIN record \ {b} :
                contact.phones \cap Within[record[r].phone] # {}

=============================================================================
