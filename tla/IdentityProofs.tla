---------------------------- MODULE IdentityProofs ----------------------------
(***************************************************************************)
(* Identity for any record, any message and any limit of at least two      *)
(* references.                                                             *)
(*                                                                         *)
(* The argument.  While references are looked up and none of them failed,  *)
(* those left and those matched are a shortlist of the message's           *)
(* (Accounted), so a single match is the only reference there is.  The     *)
(* later stages are reached without references only (NoReferences), and    *)
(* with each of them goes what the search before it has shown (FoundBy).   *)
(* What a stage leaves behind unresolved is noted (EmailTried, PhoneTried).*)
(* A verdict is given once, on what its standard asks (Judged).            *)
(***************************************************************************)
EXTENDS Identity, FiniteSetTheorems, TLAPS

Later == {"email", "by email", "phone", "by phone", "names"}

Accounted ==
  stage = "references" /\ ~invalid /\ unresolved = {} => left \cup matches \in Shortlist

Matching == \A r \in matches : Matched(r)

NoReferences == stage \in Later => CandidateRefs = {}

OnlyRow(b) ==
  \E p \in Phones : /\ contact.phones = {p} /\ p \notin Short
                    /\ PhoneRows(p) = {b}

FoundBy ==
  /\ stage = "by email" => Sender.email # None /\ HeldBy(Sender.email) = {found}
  /\ stage = "by phone" => OnlyRow(found)

Pending == stage # "done" => verdict = Unconfirmed

AddressNoted ==
  \A b \in DOMAIN record : record[b].email = Sender.email => "email" \in unresolved

EmailTried ==
  stage \in {"phone", "by phone", "names", "done"} /\ verdict.booking = None
    /\ CandidateRefs = {}
  => AddressNoted

Excused(b) ==
  \/ "phone" \in unresolved \/ contact.phones \subseteq Short
  \/ \E r \in DOMAIN record \ {b} : contact.phones \cap Within[record[r].phone] # {}

PhoneTried ==
  stage \in {"names", "done"} /\ verdict.booking = None /\ CandidateRefs = {}
  => \A b \in DOMAIN record : MeetsPhone(b) => Excused(b)

\* Nobody is confirmed without a booking.
ConfirmedOnly == verdict.booking = None => verdict = Unconfirmed

Judged ==
  verdict.booking # None =>
    /\ stage = "done"
    /\ MeetsItsStandard /\ ReferencesDecide /\ AddressNotPassedOver
    /\ verdict.booking \in DOMAIN record

IInv ==
  /\ TypeOK /\ Accounted /\ Matching /\ NoReferences /\ FoundBy
  /\ Pending /\ ConfirmedOnly /\ EmailTried /\ PhoneTried /\ Judged

-----------------------------------------------------------------------------
(* What follows from the inputs                                            *)

\* A record holds bookings under references, and None is neither.
LEMMA RecordTyped ==
  ASSUME record \in Records
  PROVE  /\ DOMAIN record \subseteq Refs /\ None \notin DOMAIN record
         /\ \A b \in DOMAIN record : record[b] \in Booking
         /\ \A b \in DOMAIN record :
              record[b].email \in Emails /\ record[b].email # None
              /\ record[b].phone \in Phones /\ record[b].passengers \subseteq Name
<1>1. DOMAIN record \subseteq Refs /\ record \in [DOMAIN record -> Booking]
  BY ContactsAssumption
<1>2. \A b \in DOMAIN record : record[b] \in Booking BY <1>1
<1> QED BY <1>1, <1>2, DataAssumption DEF Booking

LEMMA SenderTyped ==
  ASSUME contact \in Contacts
  PROVE  /\ contact \in Contact
         /\ Sender \in Address
         /\ Sender.email \in Emails \cup {None}
         /\ Sender.name \in Name \cup {None}
<1>1. contact \in Contact BY ContactsAssumption
<1>2. contact.meta \in Address /\ contact.headers \in Seq(Address)
  BY <1>1 DEF Contact
<1>3. Len(contact.headers) = 1 => contact.headers[1] \in Address
  BY <1>2
<1>4. Sender \in Address BY <1>2, <1>3 DEF Sender
<1> QED BY <1>1, <1>4 DEF Address

\* At most two names are searched.
LEMMA NameQueriesTyped ==
  ASSUME contact \in Contacts
  PROVE  NameQueries \in 0..2
<1> DEFINE F == IF contact.signed # None THEN contact.signed ELSE Sender.name
           A == contact.claimed
           B == Parts(Sender.name)
           C == IF contact.signed = None THEN {} ELSE {contact.signed.surname}
<1>1. IsFiniteSet(A) BY ContactsAssumption
<1>2. IsFiniteSet(B)
  <2>1. \A x, y : IsFiniteSet({x, y})
    <3> TAKE x, y
    <3>1. IsFiniteSet({x}) BY FS_Singleton
    <3>2. IsFiniteSet({x} \cup {y}) BY <3>1, FS_AddElement
    <3>3. {x} \cup {y} = {x, y} OBVIOUS
    <3> QED BY <3>2, <3>3
  <2> QED BY <2>1, FS_EmptySet DEF Parts
<1>3. IsFiniteSet(C) BY FS_EmptySet, FS_Singleton
<1>4. IsFiniteSet((A \cup B) \cup C)
  BY <1>1, <1>2, <1>3, FS_Union
<1>5. Surnames \ Parts(F) \subseteq (A \cup B) \cup C BY DEF Surnames
<1>6. IsFiniteSet(Surnames \ Parts(F)) BY <1>4, <1>5, FS_Subset
<1>7. Cardinality(Surnames \ Parts(F)) \in Nat BY <1>6, FS_CardinalityType
<1> QED BY <1>7 DEF NameQueries

\* A shortlist of one reference is all there is: MaxRefs is at least two.
LEMMA OnlyReference ==
  ASSUME NEW b, {b} \in Shortlist
  PROVE  CandidateRefs = {b}
<1>1. Cardinality({b}) = 1 BY FS_Singleton
<1> QED BY <1>1, DataAssumption DEF Shortlist

\* With no references there is nothing to look up.
LEMMA ShortlistTyped ==
  ASSUME NEW L \in Shortlist PROVE L \subseteq CandidateRefs
BY DEF Shortlist

\* What the standards and the searches say depends on the inputs only.
LEMMA InputKept ==
  ASSUME UNCHANGED input
  PROVE  /\ CandidateRefs' = CandidateRefs /\ Shortlist' = Shortlist
         /\ Sender' = Sender /\ DOMAIN record' = DOMAIN record
         /\ \A b : Matched(b)' <=> Matched(b)
         /\ AddressNoted' <=> \A b \in DOMAIN record :
              record[b].email = Sender.email => "email" \in unresolved'
         /\ \A b : MeetsReference(b)' <=> MeetsReference(b)
         /\ \A b : MeetsEmail(b)' <=> MeetsEmail(b)
         /\ \A b : MeetsPhone(b)' <=> MeetsPhone(b)
         /\ \A b : OnlyRow(b)' <=> OnlyRow(b)
         /\ \A e : HeldBy(e)' = HeldBy(e)
         /\ NameQueries' = NameQueries
<1>1. record' = record /\ contact' = contact BY DEF input
<1>2. Sender' = Sender /\ CandidateRefs' = CandidateRefs
  BY <1>1 DEF Sender, CandidateRefs
<1>3. Shortlist' = Shortlist BY <1>1, <1>2 DEF Shortlist
<1>4. Surnames' = Surnames BY <1>1, <1>2 DEF Surnames, Parts
<1>5. NameQueries' = NameQueries BY <1>1, <1>2, <1>4 DEF NameQueries, Parts
<1>6. \A b : Matched(b)' <=> Matched(b)
  BY <1>1, <1>2, <1>4 DEF Matched, SurnamesOn
<1>7. \A b : /\ MeetsReference(b)' <=> MeetsReference(b)
             /\ MeetsEmail(b)' <=> MeetsEmail(b)
             /\ MeetsPhone(b)' <=> MeetsPhone(b)
  BY <1>1, <1>2 DEF MeetsReference, MeetsEmail, MeetsPhone, Parts
<1>8. \A b : OnlyRow(b)' <=> OnlyRow(b) BY <1>1 DEF OnlyRow, PhoneRows
<1>9. \A e : HeldBy(e)' = HeldBy(e) BY <1>1 DEF HeldBy, EmailRows
<1>10. AddressNoted' <=> \A b \in DOMAIN record :
         record[b].email = Sender.email => "email" \in unresolved'
  BY <1>1, <1>2 DEF AddressNoted
<1> QED BY <1>1, <1>2, <1>3, <1>5, <1>6, <1>7, <1>8, <1>9, <1>10

\* The only row held by the sender is the booking that meets S2.1(b).
LEMMA EmailShown ==
  ASSUME NEW b, HeldBy(Sender.email) = {b}
  PROVE  MeetsEmail(b) /\ b \in DOMAIN record
BY DEF HeldBy, EmailRows, MeetsEmail

\* Whoever holds the sender's address, in its very spelling, is one of the rows.
LEMMA EmailMissed ==
  ASSUME NEW b \in DOMAIN record, record[b].email = Sender.email
  PROVE  b \in HeldBy(Sender.email)
BY DEF HeldBy, EmailRows

\* The only booking whose number holds the one given, if it is the same number,
\* meets S2.1(c): every booking with that very number would be a row.
LEMMA PhoneShown ==
  ASSUME record \in Records, NEW b, OnlyRow(b), record[b].phone \in contact.phones
  PROVE  MeetsPhone(b) /\ b \in DOMAIN record
<1>1. PICK p \in Phones : contact.phones = {p} /\ PhoneRows(p) = {b} BY DEF OnlyRow
<1>2. \A r \in DOMAIN record : record[r].phone = p => r = b
  BY <1>1, DataAssumption DEF PhoneRows
<1>3. b \in DOMAIN record /\ record[b].phone = p BY <1>1 DEF PhoneRows
<1> QED BY <1>1, <1>2, <1>3 DEF MeetsPhone

-----------------------------------------------------------------------------
(* The steps                                                               *)

LEMMA InitIInv == Init => IInv
<1> SUFFICES ASSUME Init PROVE IInv
  OBVIOUS
<1> USE DEF Init
<1>1. left \subseteq CandidateRefs BY ShortlistTyped
<1>2. TypeOK
  <2>1. Unconfirmed \in [confirmed : BOOLEAN, standard : Standard \cup {None},
                        booking : DOMAIN record \cup {None}, thirdParty : BOOLEAN]
    BY DEF Unconfirmed
  <2>2. queries \in 0..2 /\ stage \in Stage BY DEF Stage
  <2>3. unresolved \subseteq Check /\ invalid \in BOOLEAN OBVIOUS
  <2> QED BY <1>1, <2>1, <2>2, <2>3 DEF TypeOK
<1>3. Accounted /\ Matching /\ NoReferences /\ FoundBy /\ Pending
  BY DEF Accounted, Matching, NoReferences, FoundBy, Pending, Later
<1>4. ConfirmedOnly /\ EmailTried /\ PhoneTried /\ Judged
  BY DEF ConfirmedOnly, EmailTried, PhoneTried, Judged, Unconfirmed
<1> QED BY <1>2, <1>3, <1>4 DEF IInv

LEMMA LookUpStep ==
  ASSUME IInv, NEW r \in Refs, LookUp(r)
  PROVE  IInv'
<1> USE DEF IInv
<1>1. /\ stage = "references" /\ stage' = "references" /\ r \in left
      /\ left' = left \ {r} /\ UNCHANGED <<record, contact, found, queries, verdict>>
  BY DEF LookUp, input
<1>2. UNCHANGED input BY DEF LookUp
<1>3. verdict = Unconfirmed BY <1>1 DEF Pending
<1>4. matches' \in {matches, matches \cup {r}} /\ invalid' \in {invalid, TRUE}
      /\ unresolved' \in {unresolved, unresolved \cup {"reference"}}
  BY DEF LookUp
<1>5. TypeOK'
  BY <1>1, <1>2, <1>4, InputKept DEF TypeOK, Check, Standard, Final, Stage
<1>6. Accounted'
  <2>1. ASSUME ~invalid', unresolved' = {}
        PROVE  left' \cup matches' \in Shortlist'
    <3>1. matches' = matches \cup {r} /\ ~invalid /\ unresolved = {}
      BY <2>1 DEF LookUp
    <3>2. left' \cup matches' = left \cup matches BY <1>1, <3>1
    <3> QED BY <1>1, <1>2, <3>1, <3>2, InputKept DEF Accounted
  <2> QED BY <2>1 DEF Accounted
<1>7. Matching'
  <2>1. \A q \in matches' : Matched(q) BY DEF LookUp, Matching
  <2> QED BY <2>1, <1>2, InputKept DEF Matching
<1>8. NoReferences' /\ FoundBy' /\ Pending'
  BY <1>1, <1>3 DEF NoReferences, FoundBy, Pending, Later, Unconfirmed
<1>9. ConfirmedOnly' /\ EmailTried' /\ PhoneTried' /\ Judged'
  BY <1>1, <1>3 DEF ConfirmedOnly, EmailTried, PhoneTried, Judged, Unconfirmed
<1> QED BY <1>5, <1>6, <1>7, <1>8, <1>9

\* A verdict on what its standard asks.
LEMMA ConfirmStep ==
  ASSUME IInv, NEW b \in DOMAIN record, NEW s \in Standard, Confirm(b, s),
         \/ /\ s = "reference" /\ MeetsReference(b)
            /\ \E r \in Refs : CandidateRefs = {r} /\ Segment[r] = b
         \/ s = "email" /\ MeetsEmail(b) /\ CandidateRefs = {}
         \/ s = "phone" /\ MeetsPhone(b) /\ CandidateRefs = {} /\ AddressNoted
  PROVE  IInv'
<1> USE DEF IInv
<1>1. /\ stage' = "done" /\ UNCHANGED input
      /\ verdict' = [confirmed |-> Entitled(b), standard |-> s, booking |-> b,
                     thirdParty |-> ~Entitled(b)]
      /\ UNCHANGED <<left, matches, invalid, found, queries, unresolved>>
  BY DEF Confirm
<1>2. record' = record /\ contact' = contact BY <1>1 DEF input
<1>3. b # None BY RecordTyped DEF TypeOK
<1>4. Entitled(b) \in BOOLEAN BY DEF Entitled
<1>5. /\ verdict'.booking = b /\ verdict'.standard = s
      /\ verdict' \in [confirmed : BOOLEAN, standard : Standard \cup {None},
                       booking : DOMAIN record \cup {None}, thirdParty : BOOLEAN]
  BY <1>1, <1>4
<1>6. TypeOK'
  BY <1>1, <1>2, <1>5, InputKept DEF TypeOK, Stage, Final
<1>7. Accounted' /\ NoReferences' /\ FoundBy' /\ Pending'
  BY <1>1 DEF Accounted, NoReferences, FoundBy, Pending, Later
<1>8. Matching' BY <1>1, InputKept DEF Matching
<1>9. ConfirmedOnly' /\ EmailTried' /\ PhoneTried'
  BY <1>3, <1>5 DEF ConfirmedOnly, EmailTried, PhoneTried
<1>10. MeetsItsStandard' /\ ReferencesDecide' /\ AddressNotPassedOver'
  <2>1. \/ /\ s = "reference" /\ MeetsReference(b)'
           /\ \E r \in Refs : CandidateRefs' = {r} /\ Segment[r] = b
        \/ s = "email" /\ MeetsEmail(b)' /\ CandidateRefs' = {}
        \/ s = "phone" /\ MeetsPhone(b)' /\ CandidateRefs' = {}
    BY <1>1, InputKept
  <2>2. \A c : c = b => /\ MeetsReference(c)' <=> MeetsReference(b)'
                        /\ MeetsEmail(c)' <=> MeetsEmail(b)'
                        /\ MeetsPhone(c)' <=> MeetsPhone(b)'
    OBVIOUS
  <2>3. verdict'.booking = b BY <1>5
  <2>4. /\ MeetsReference(b)' => MeetsReference(verdict.booking)'
        /\ MeetsEmail(b)' => MeetsEmail(verdict.booking)'
        /\ MeetsPhone(b)' => MeetsPhone(verdict.booking)'
    BY <1>2, <2>3 DEF MeetsReference, MeetsEmail, MeetsPhone
  <2>5. s = "phone" => AddressNoted' BY <1>1, InputKept DEF AddressNoted
  <2>6. AddressNotPassedOver'
    BY <1>5, <2>5 DEF AddressNotPassedOver, AddressNoted
  <2> QED BY <1>5, <2>1, <2>4, <2>6 DEF MeetsItsStandard, ReferencesDecide
<1>11. Judged' BY <1>1, <1>2, <1>5, <1>10 DEF Judged
<1> QED BY <1>6, <1>7, <1>8, <1>9, <1>10, <1>11

\* A step to another stage that chooses nothing.
LEMMA StageStep ==
  ASSUME IInv, stage # "done",
         UNCHANGED <<input, left, matches, invalid, verdict>>,
         stage' \in Stage \ {"references"},
         found' \in DOMAIN record \cup {None}, queries' \in 0..2,
         unresolved \subseteq unresolved', unresolved' \subseteq Check,
         stage' \in Later => CandidateRefs = {},
         stage' = "by email" =>
           Sender.email # None /\ HeldBy(Sender.email) = {found'},
         stage' = "by phone" => OnlyRow(found'),
         stage' \in {"phone", "by phone", "names", "done"} /\ CandidateRefs = {} =>
           \A b \in DOMAIN record :
             record[b].email = Sender.email => "email" \in unresolved',
         stage' \in {"names", "done"} /\ CandidateRefs = {} =>
           \A b \in DOMAIN record : MeetsPhone(b) => Excused(b) \/ "phone" \in unresolved'
  PROVE  IInv'
<1> USE DEF IInv
<1>1. record' = record /\ contact' = contact BY DEF input
<1>2. verdict = Unconfirmed /\ verdict' = verdict BY DEF Pending
<1>3. verdict'.booking = None
  <2>1. Unconfirmed.booking = None BY DEF Unconfirmed
  <2> QED BY <1>2, <2>1
<1>4. TypeOK' BY <1>1, InputKept DEF TypeOK
<1>5. Accounted' /\ Pending' /\ ConfirmedOnly' /\ Judged'
  BY <1>2, <1>3 DEF Accounted, Pending, ConfirmedOnly, Judged, Unconfirmed
<1>6. Matching' /\ NoReferences' BY InputKept DEF Matching, NoReferences
<1>7. FoundBy'
  <2>1. stage' = "by email" => Sender'.email # None
           /\ HeldBy(Sender.email)' = {found'}
    BY <1>1, InputKept DEF HeldBy, EmailRows
  <2>2. stage' = "by phone" => OnlyRow(found)'
    BY <1>1 DEF OnlyRow, PhoneRows
  <2> QED BY <2>1, <2>2 DEF FoundBy
<1>8. EmailTried' BY <1>1, InputKept DEF EmailTried
<1>9. PhoneTried'
  <2>1. \A b : Excused(b) \/ "phone" \in unresolved' => Excused(b)'
    BY <1>1 DEF Excused
  <2> QED BY <1>1, <2>1, InputKept DEF PhoneTried
<1> QED BY <1>4, <1>5, <1>6, <1>7, <1>8, <1>9

\* A reference is the only one that matched, or the only one there is.
LEMMA EndReferencesStep ==
  ASSUME IInv, EndReferences
  PROVE  IInv'
<1> USE DEF IInv
<1>1. stage = "references" /\ left = {} BY DEF EndReferences
<1>2. CASE \E r \in matches : OneMatch(r) /\ Confirm(Segment[r], "reference")
  <2>1. PICK r \in matches : OneMatch(r) /\ Confirm(Segment[r], "reference") BY <1>2
  <2>2. left \cup matches = {r} /\ ~invalid /\ unresolved = {}
    BY <1>1, <2>1 DEF OneMatch
  <2>3. CandidateRefs = {r} BY <1>1, <2>2, OnlyReference DEF Accounted
  <2>4. Matched(r) BY DEF Matching
  <2>5. MeetsReference(Segment[r]) /\ Segment[r] \in DOMAIN record
    BY <2>3, <2>4 DEF MeetsReference, Matched, SurnamesOn, Surnames
  <2>6. r \in Refs
    BY <2>3, SenderTyped DEF TypeOK, CandidateRefs, Contact
  <2> QED BY <2>1, <2>3, <2>5, <2>6, ConfirmStep DEF Standard
<1>3. CASE CandidateRefs # {} /\ Go("done")
  <2>1. stage' = "done"
        /\ UNCHANGED <<input, left, matches, invalid, found, queries, unresolved, verdict>>
    BY <1>3 DEF Go
  <2> QED
    BY <1>1, <1>3, <2>1, StageStep DEF TypeOK, Stage, Final, Later
<1>4. CASE CandidateRefs = {} /\ Go("email")
  <2>1. stage' = "email"
        /\ UNCHANGED <<input, left, matches, invalid, found, queries, unresolved, verdict>>
    BY <1>4 DEF Go
  <2> QED
    BY <1>1, <1>4, <2>1, StageStep DEF TypeOK, Stage, Final, Later
<1> QED BY <1>2, <1>3, <1>4 DEF EndReferences

LEMMA NoSenderMissed ==
  ASSUME record \in Records, contact \in Contacts, Sender.email = None,
         NEW b \in DOMAIN record
  PROVE  record[b].email # Sender.email
BY RecordTyped

LEMMA SearchEmailStep ==
  ASSUME IInv, SearchEmail
  PROVE  IInv'
<1> USE DEF IInv
<1>1. stage = "email" /\ CandidateRefs = {}
  BY DEF SearchEmail, NoReferences, Later
<1>2. CASE Go("phone") /\ (Sender.email = None \/ HeldBy(Sender.email) = {})
  <2>1. \A b \in DOMAIN record : record[b].email # Sender.email
    BY <1>2, NoSenderMissed, EmailMissed DEF TypeOK
  <2>2. stage' = "phone"
        /\ UNCHANGED <<input, left, matches, invalid, found, queries, unresolved, verdict>>
    BY <1>2 DEF Go
  <2> QED BY <1>1, <2>1, <2>2, StageStep DEF TypeOK, Stage
<1>3. CASE Note("email", "phone")
  <2>1. /\ stage' = "phone" /\ unresolved' = unresolved \cup {"email"}
        /\ UNCHANGED <<input, left, matches, invalid, found, queries, verdict>>
    BY <1>3 DEF Note
  <2> QED BY <1>1, <2>1, StageStep DEF TypeOK, Stage, Check, Standard
<1>4. CASE Sender.email # None
           /\ \E b \in HeldBy(Sender.email) :
                HeldBy(Sender.email) = {b} /\ Fetch(b, "by email")
  <2>1. PICK b \in HeldBy(Sender.email) :
          HeldBy(Sender.email) = {b} /\ Fetch(b, "by email")
    BY <1>4
  <2>2. /\ stage' = "by email" /\ found' = b
        /\ UNCHANGED <<input, left, matches, invalid, queries, unresolved, verdict>>
    BY <2>1 DEF Fetch
  <2>3. b \in DOMAIN record BY <2>1, EmailShown
  <2> QED BY <1>1, <1>4, <2>1, <2>2, <2>3, StageStep DEF TypeOK, Stage
<1> QED BY <1>2, <1>3, <1>4 DEF SearchEmail

LEMMA ReadByEmailStep ==
  ASSUME IInv, ReadByEmail
  PROVE  IInv'
<1> USE DEF IInv
<1>1. stage = "by email" /\ CandidateRefs = {} /\ HeldBy(Sender.email) = {found}
  BY DEF ReadByEmail, NoReferences, Later, FoundBy
<1>2. CASE Confirm(found, "email")
  BY <1>1, <1>2, EmailShown, ConfirmStep DEF Standard
<1>3. CASE Note("email", "phone")
  <2>1. /\ stage' = "phone" /\ unresolved' = unresolved \cup {"email"}
        /\ UNCHANGED <<input, left, matches, invalid, found, queries, verdict>>
    BY <1>3 DEF Note
  <2> QED BY <1>1, <2>1, StageStep DEF TypeOK, Stage, Check, Standard
<1> QED BY <1>2, <1>3 DEF ReadByEmail

\* From the telephone on to the names, with what the search left behind.
LEMMA ToNamesStep ==
  ASSUME IInv, ToNames, stage \in {"phone", "by phone"},
         unresolved \subseteq unresolved', unresolved' \subseteq Check,
         \A b \in DOMAIN record :
           MeetsPhone(b) => Excused(b) \/ "phone" \in unresolved'
  PROVE  IInv'
<1> USE DEF IInv
<1>1. /\ stage' = "names" /\ queries' = NameQueries
      /\ UNCHANGED <<input, left, matches, invalid, found, verdict>>
  BY DEF ToNames
<1>2. CandidateRefs = {} BY DEF NoReferences, Later
<1>3. verdict.booking = None
  <2>1. verdict = Unconfirmed BY DEF Pending
  <2> QED BY <2>1 DEF Unconfirmed
<1>4. AddressNoted BY <1>2, <1>3 DEF EmailTried
<1>5. queries' \in 0..2 BY <1>1, NameQueriesTyped DEF TypeOK
<1> QED BY <1>1, <1>2, <1>4, <1>5, StageStep DEF TypeOK, Stage, AddressNoted

LEMMA SearchPhoneStep ==
  ASSUME IInv, SearchPhone
  PROVE  IInv'
<1> USE DEF IInv
<1>1. stage = "phone" /\ CandidateRefs = {}
  BY DEF SearchPhone, NoReferences, Later
<1>2. verdict.booking = None BY <1>1 DEF Pending, Unconfirmed
<1>3. AddressNoted BY <1>1, <1>2 DEF EmailTried
<1>4. CASE /\ \A p \in contact.phones : contact.phones # {p}
           /\ unresolved' = unresolved \cup IF contact.phones = {} THEN {} ELSE {"phones"}
           /\ ToNames
  <2>1. \A b : ~MeetsPhone(b) BY <1>4 DEF MeetsPhone
  <2>2. unresolved \subseteq unresolved' /\ unresolved' \subseteq Check
    BY <1>4 DEF TypeOK, Check
  <2> QED BY <1>1, <1>4, <2>1, <2>2, ToNamesStep
<1>5. ASSUME NEW p \in contact.phones, contact.phones = {p}, p \notin Short,
             NEW b \in PhoneRows(p), PhoneRows(p) = {b}, Fetch(b, "by phone")
      PROVE  IInv'
  <2>1. /\ stage' = "by phone" /\ found' = b
        /\ UNCHANGED <<input, left, matches, invalid, queries, unresolved, verdict>>
    BY <1>5 DEF Fetch
  <2>2. b \in DOMAIN record BY <1>5 DEF PhoneRows
  <2>3. p \in Phones BY <1>5, SenderTyped DEF TypeOK, Contact
  <2>4. OnlyRow(b) BY <1>5, <2>3 DEF OnlyRow
  <2> QED BY <1>1, <1>3, <2>1, <2>2, <2>4, StageStep DEF TypeOK, Stage, AddressNoted
<1>6. ASSUME NEW p \in contact.phones, contact.phones = {p}, ToNames,
             UNCHANGED unresolved, p \in Short \/ \A b \in PhoneRows(p) : PhoneRows(p) # {b}
      PROVE  IInv'
  <2>1. ASSUME NEW b \in DOMAIN record, MeetsPhone(b) PROVE Excused(b)
    <3>1. CASE p \in Short BY <1>6, <3>1 DEF Excused
    <3>2. CASE PhoneRows(p) # {b} /\ b \in PhoneRows(p)
      <4>1. PICK r \in PhoneRows(p) : r # b BY <3>2
      <4>2. r \in DOMAIN record \ {b} /\ p \in Within[record[r].phone]
        BY <4>1 DEF PhoneRows
      <4> QED BY <4>2 DEF Excused
    <3>3. b \in PhoneRows(p)
      <4>1. record[b].phone = p /\ p \in Phones BY <1>6, <2>1 DEF MeetsPhone
      <4> QED BY <4>1, DataAssumption DEF PhoneRows
    <3> QED BY <1>6, <3>1, <3>2, <3>3
  <2>2. unresolved' \subseteq Check BY <1>6 DEF TypeOK
  <2> QED BY <1>1, <1>6, <2>1, <2>2, ToNamesStep
<1>7. ASSUME unresolved' = unresolved \cup {"phone"}, ToNames PROVE IInv'
  <2>1. unresolved \subseteq unresolved' /\ unresolved' \subseteq Check
        /\ "phone" \in unresolved'
    BY <1>7 DEF TypeOK, Check, Standard
  <2> QED BY <1>1, <1>7, <2>1, ToNamesStep
<1> QED BY <1>4, <1>5, <1>6, <1>7 DEF SearchPhone

LEMMA ReadByPhoneStep ==
  ASSUME IInv, ReadByPhone
  PROVE  IInv'
<1> USE DEF IInv
<1>1. stage = "by phone" /\ CandidateRefs = {} /\ OnlyRow(found)
  BY DEF ReadByPhone, NoReferences, Later, FoundBy
<1>2. CASE record[found].phone \in contact.phones /\ Confirm(found, "phone")
  <2>1. verdict.booking = None
    <3>1. verdict = Unconfirmed BY <1>1 DEF Pending
    <3> QED BY <3>1 DEF Unconfirmed
  <2>2. AddressNoted BY <1>1, <2>1 DEF EmailTried
  <2> QED BY <1>1, <1>2, <2>2, PhoneShown, ConfirmStep DEF Standard, TypeOK
<1>3. CASE unresolved' = unresolved \cup {"phone"} /\ ToNames
  <2>1. unresolved \subseteq unresolved' /\ unresolved' \subseteq Check
        /\ "phone" \in unresolved'
    BY <1>3 DEF TypeOK, Check, Standard
  <2> QED BY <1>1, <1>3, <2>1, ToNamesStep
<1>4. CASE Go("stopped")
  <2>1. stage' = "stopped"
        /\ UNCHANGED <<input, left, matches, invalid, found, queries, unresolved, verdict>>
    BY <1>4 DEF Go
  <2> QED BY <1>1, <2>1, StageStep DEF TypeOK, Stage, Final, Later
<1> QED BY <1>2, <1>3, <1>4 DEF ReadByPhone

\* Names leave the verdict alone and take no note away.
LEMMA NamesStep ==
  ASSUME IInv, SearchName \/ EndNames
  PROVE  IInv'
<1> USE DEF IInv
<1>1. stage = "names" /\ CandidateRefs = {}
  BY DEF SearchName, EndNames, NoReferences, Later
<1>2. /\ stage' \in {"names", "done"} /\ queries' \in 0..2
      /\ unresolved' \in {unresolved, unresolved \cup {"name"}}
      /\ UNCHANGED <<input, left, matches, invalid, found, verdict>>
  <2>1. CASE SearchName BY <2>1 DEF SearchName, TypeOK
  <2>2. CASE EndNames BY <2>2 DEF EndNames, Note, Go, TypeOK
  <2> QED BY <2>1, <2>2
<1>3. verdict.booking = None BY <1>1 DEF Pending, Unconfirmed
<1>4. AddressNoted /\ \A b \in DOMAIN record : MeetsPhone(b) => Excused(b)
  BY <1>1, <1>3 DEF EmailTried, PhoneTried
<1>5. unresolved' \subseteq Check BY <1>2 DEF TypeOK, Check
<1> QED
  BY <1>1, <1>2, <1>4, <1>5, StageStep DEF TypeOK, Stage, Final, AddressNoted

LEMMA EscapesStep ==
  ASSUME IInv, Escapes
  PROVE  IInv'
<1> USE DEF IInv
<1>1. stage \in {"references", "email", "by email", "phone", "names"} /\ stage' = "stopped"
      /\ UNCHANGED <<input, left, matches, invalid, found, queries, unresolved, verdict>>
  BY DEF Escapes, Go
<1> QED BY <1>1, StageStep DEF TypeOK, Stage, Final, Later

LEMMA IdleStep ==
  ASSUME IInv, UNCHANGED vars
  PROVE  IInv'
<1> USE DEF IInv
<1>1. /\ UNCHANGED input
      /\ UNCHANGED <<record, contact, stage, left, matches, invalid, found, queries,
                     unresolved, verdict>>
  BY DEF vars, input
<1>2. /\ TypeOK' /\ Accounted' /\ Matching' /\ NoReferences' /\ Pending'
      /\ ConfirmedOnly'
  BY <1>1, InputKept
  DEF TypeOK, Accounted, Matching, NoReferences, Pending, ConfirmedOnly
<1>3. FoundBy' BY <1>1 DEF FoundBy, OnlyRow, PhoneRows, HeldBy, EmailRows, Sender
<1>4. EmailTried' BY <1>1, InputKept DEF EmailTried, AddressNoted
<1>5. PhoneTried' BY <1>1, InputKept DEF PhoneTried, Excused
<1>6. Judged'
  BY <1>1 DEF Judged, MeetsItsStandard, ReferencesDecide, AddressNotPassedOver,
     MeetsReference, MeetsEmail, MeetsPhone, CandidateRefs, Sender, Parts
<1> QED BY <1>2, <1>3, <1>4, <1>5, <1>6

LEMMA NextIInv == IInv /\ [Next]_vars => IInv'
<1> SUFFICES ASSUME IInv, [Next]_vars PROVE IInv'
  OBVIOUS
<1>1. ASSUME NEW r \in Refs, LookUp(r) PROVE IInv' BY <1>1, LookUpStep
<1>2. CASE EndReferences BY <1>2, EndReferencesStep
<1>3. CASE SearchEmail BY <1>3, SearchEmailStep
<1>4. CASE ReadByEmail BY <1>4, ReadByEmailStep
<1>5. CASE SearchPhone BY <1>5, SearchPhoneStep
<1>6. CASE ReadByPhone BY <1>6, ReadByPhoneStep
<1>7. CASE SearchName \/ EndNames BY <1>7, NamesStep
<1>8. CASE Escapes BY <1>8, EscapesStep
<1>9. CASE Decided \/ UNCHANGED vars BY <1>9, IdleStep DEF Decided
<1> QED BY <1>1, <1>2, <1>3, <1>4, <1>5, <1>6, <1>7, <1>8, <1>9 DEF Next

LEMMA IdentityInvariant == Spec => []IInv
BY InitIInv, NextIInv, PTL DEF Spec

-----------------------------------------------------------------------------
(* What it shows                                                           *)

\* The types of all variables, whatever the records and the messages.
THEOREM IdentityTypeCorrect == Spec => []TypeOK
<1>1. IInv => TypeOK BY DEF IInv
<1> QED BY <1>1, IdentityInvariant, PTL

\* A booking is chosen only if the standard named in the verdict holds in the
\* record, for any number of bookings that share addresses, numbers and names.
THEOREM MeetsItsStandardHolds == Spec => []MeetsItsStandard
<1>1. IInv => MeetsItsStandard BY DEF IInv, Judged, MeetsItsStandard
<1> QED BY <1>1, IdentityInvariant, PTL

\* Any number of references decide alone, also when only MaxRefs are looked up.
THEOREM ReferencesDecideHolds == Spec => []ReferencesDecide
<1>1. IInv => ReferencesDecide BY DEF IInv, Judged, ReferencesDecide
<1> QED BY <1>1, IdentityInvariant, PTL

\* A booking is not found by telephone past the sender's own address in silence,
\* whichever bookings share addresses and whichever lookup failed.
THEOREM AddressNotPassedOverHolds == Spec => []AddressNotPassedOver
<1>1. IInv => AddressNotPassedOver BY DEF IInv, Judged, AddressNotPassedOver
<1> QED BY <1>1, IdentityInvariant, PTL

\* A passenger who meets a standard is turned away for a noted reason only.
THEOREM TurnedAwayForCauseHolds == Spec => []TurnedAwayForCause
<1>1. \A b \in DOMAIN record : MeetsEmail(b) => record[b].email = Sender.email
  BY DEF MeetsEmail
<1>2. IInv => TurnedAwayForCause
  BY <1>1 DEF IInv, EmailTried, AddressNoted, PhoneTried, Excused, TurnedAwayForCause
<1> QED BY <1>2, IdentityInvariant, PTL

=============================================================================
