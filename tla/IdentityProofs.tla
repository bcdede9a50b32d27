--------------------------- MODULE IdentityProofs ---------------------------
(***************************************************************************)
(* Proofs about Identity, for any callers, persons, phones and number of   *)
(* stamps.                                                                 *)
(***************************************************************************)
EXTENDS Identity, TLAPS

(* A raw value is stored under its own key, and what was built has a key,  *)
(* of a stored identifier when it was inserted.                            *)
KeysInv ==
    /\ \A c \in Callers : draft[c] # NoRow => Normalized(draft[c].input.phone) \in Phones
    /\ \A x \in Phones : identifiers[x] # NoRow => Normalized(identifiers[x]) = x
    /\ \A a \in assignments : /\ Normalized(a.input.phone) \in Phones
                              /\ identifiers[Normalized(a.input.phone)] # NoRow

IdInv == IdentityTypeOK /\ KeysInv

(* Stamps only ever grow, and the one of a full second is among them.      *)
LEMMA StampsGrow ==
    ASSUME clock \in 0..MaxAssigned, whole \in 0..clock, clock < MaxAssigned,
           NEW s \in 1..MaxAssigned, server_now(s)
    PROVE  /\ s = clock + 1 /\ clock' = s
           /\ clock' \in 0..MaxAssigned /\ whole' \in 0..clock'
           /\ whole' = whole \/ (whole = 0 /\ whole' = s)
  BY MaxAssumption DEF server_now, Stamps

(* No table holds anything at first.                                       *)
LEMMA InitIdInv == Init => IdInv
  BY MaxAssumption, DigitsAssumption
     DEF Init, ClockInit, IdInv, IdentityTypeOK, KeysInv

(* Every statement keeps keys and stamps in order.                         *)
LEMMA StepKeepsIdInv == IdInv /\ [IdentityNext]_identityVars => IdInv'
<1> SUFFICES ASSUME IdInv, [IdentityNext]_identityVars PROVE IdInv'
  OBVIOUS
<1> USE MaxAssumption, DigitsAssumption
<1>0. IdentityTypeOK /\ KeysInv
  BY DEF IdInv
<1>1. ASSUME NEW p \in Persons, insert_person(p) PROVE IdInv'
  BY <1>0, <1>1 DEF insert_person, clockVars, IdInv, IdentityTypeOK, KeysInv, Normalized
<1>2. ASSUME NEW raw \in Phones, insert_identifier(raw) PROVE IdInv'
  <2> USE <1>0, <1>2 DEF insert_identifier, clockVars, Normalized
  <2>1. IdentityTypeOK'
    BY DEF IdentityTypeOK
  <2>2. KeysInv'
    BY DEF IdentityTypeOK, KeysInv
  <2> QED BY <2>1, <2>2 DEF IdInv
<1>3. ASSUME NEW c \in Callers, NEW a \in Inputs, BuildAssignment(c, a) PROVE IdInv'
  <2>1. PICK s \in 1..MaxAssigned :
            server_now(s) /\ draft' = [draft EXCEPT ![c] = [input |-> a, created_at |-> s]]
    BY <1>3 DEF BuildAssignment
  <2>2. /\ s = clock + 1 /\ clock' = s
        /\ clock' \in 0..MaxAssigned /\ whole' \in 0..clock'
    BY <1>0, <1>3, <2>1, StampsGrow DEF IdentityTypeOK, BuildAssignment
  <2>3. 1..clock \subseteq 1..clock' /\ s \in 1..clock'
    BY <1>0, <2>2 DEF IdentityTypeOK
  <2>4. [input : Inputs, created_at : 1..clock] \subseteq [input : Inputs, created_at : 1..clock']
    BY <2>3
  <2>5. IdentityTypeOK'
    <3>1. draft' \in [Callers -> [input : Inputs, created_at : 1..clock'] \cup {NoRow}]
      BY <1>0, <2>1, <2>3, <2>4 DEF IdentityTypeOK
    <3>2. assignments' \subseteq [input : Inputs, created_at : 1..clock']
      BY <1>0, <1>3, <2>4 DEF IdentityTypeOK, BuildAssignment, tables
    <3> QED BY <1>0, <1>3, <2>2, <3>1, <3>2 DEF IdentityTypeOK, BuildAssignment, tables
  <2>6. KeysInv'
    <3>1. Normalized(a.phone) \in Phones
      BY <1>3, InputsAssumption DEF BuildAssignment, Input, Normalized
    <3>2. \A k \in Callers : draft'[k] # NoRow =>
              Normalized(draft'[k].input.phone) \in Phones
      BY <1>0, <2>1, <3>1 DEF KeysInv, IdentityTypeOK
    <3> QED BY <1>0, <1>3, <3>2 DEF KeysInv, BuildAssignment, tables, Normalized
  <2> QED BY <2>5, <2>6 DEF IdInv
<1>4. ASSUME NEW c \in Callers, insert_identifier_assignment(c) PROVE IdInv'
  <2> USE <1>0, <1>4 DEF insert_identifier_assignment, clockVars
  <2>1. IdentityTypeOK'
    BY DEF IdentityTypeOK
  <2>2. KeysInv'
    <3>1. draft[c] \in [input : Inputs, created_at : 1..clock]
      BY DEF IdentityTypeOK
    <3>2. \A k \in Callers : draft'[k] # NoRow => draft'[k] = draft[k]
      BY DEF IdentityTypeOK
    <3> QED BY <3>1, <3>2 DEF KeysInv, References, Normalized
  <2> QED BY <2>1, <2>2 DEF IdInv
<1>5. ASSUME NEW a \in assignments, update_identifier_assignment(a) PROVE IdInv'
  BY <1>0, <1>5 DEF update_identifier_assignment, clockVars, IdInv, IdentityTypeOK, KeysInv, Normalized
<1>6. CASE UNCHANGED identityVars
  BY <1>0, <1>6 DEF identityVars, tables, clockVars, IdInv, IdentityTypeOK, KeysInv, Normalized
<1> QED BY <1>1, <1>2, <1>3, <1>4, <1>5, <1>6 DEF IdentityNext

(* The invariant holds of any callers, persons and phones.                 *)
LEMMA IdInvHolds == IdentitySpec => []IdInv
  BY InitIdInv, StepKeepsIdInv, PTL DEF IdentitySpec

(* db/repository.py:561-597: the phone given for a person, looked up by    *)
(* whatever spelling was stored first, leads back to that person.          *)
THEOREM PhonesLeadBack == IdentitySpec => []PhoneLeadsBack
<1>1. IdInv => PhoneLeadsBack
  <2> SUFFICES ASSUME IdInv, NEW p \in Persons, NEW raw \in get_current_persona_phone(p)
               PROVE \E a \in resolve_by_phone(raw) : a.input.person_id = p
    BY DEF PhoneLeadsBack
  <2>1. PICK a \in CurrentAssignment(p) : raw = identifiers[Normalized(a.input.phone)]
    BY DEF get_current_persona_phone
  <2>2. a \in active /\ a.input.person_id = p
    BY DEF CurrentAssignment, FirstOf, Current
  <2>3. /\ Normalized(a.input.phone) \in Phones
        /\ raw \in Phones
        /\ Normalized(raw) = Normalized(a.input.phone)
    BY <2>1, <2>2, DigitsAssumption DEF IdInv, IdentityTypeOK, KeysInv
  <2>4. Normalized(Digits[raw]) = Normalized(raw)
    BY <2>3, DigitsAssumption DEF Normalized
  <2> QED BY <2>2, <2>3, <2>4 DEF resolve_by_phone
<1> QED BY IdInvHolds, <1>1, PTL

(* db/repository.py:592: a late insertion of an older assignment takes no  *)
(* person's newer phone away.                                              *)
THEOREM NewestPhonesStay == IdentitySpec => NewestPhoneStays
<1>1. IdInv /\ [IdentityNext]_identityVars =>
        [\A p \in Persons : \A a \in CurrentAssignment(p), b \in CurrentAssignment(p)' :
          a # b /\ active \subseteq active' =>
              /\ a.created_at # whole
              /\ b.created_at = whole \/ a.created_at < b.created_at]_identityVars
  <2> SUFFICES ASSUME IdInv, IdentityNext, NEW p \in Persons,
                      NEW a \in CurrentAssignment(p), NEW b \in CurrentAssignment(p)',
                      a # b, active \subseteq active'
               PROVE /\ a.created_at # whole
                     /\ b.created_at = whole \/ a.created_at < b.created_at
    OBVIOUS
  <2>1. a \in Current(p) /\ a \in Current(p)' /\ b \in Current(p)'
    BY DEF CurrentAssignment, FirstOf, Current
  <2>2. SortsBefore(a.created_at, b.created_at)'
    BY <2>1 DEF CurrentAssignment, FirstOf
  <2>3. IdInv'
    BY StepKeepsIdInv
  <2>4. a.created_at \in 1..clock
    BY <2>1 DEF IdInv, IdentityTypeOK, Current
  <2>5. b.created_at \in 1..clock'
    BY <2>1, <2>3 DEF IdInv, IdentityTypeOK, Current
  <2>6. CASE UNCHANGED clockVars
    BY <2>2, <2>6 DEF SortsBefore, clockVars
  <2>7. CASE \E c \in Callers, i \in Inputs : BuildAssignment(c, i)
    <3>1. active' = active /\ b \in Current(p)
      BY <2>1, <2>7 DEF BuildAssignment, tables, Current
    <3>2. b.created_at \in 1..clock
      BY <3>1 DEF IdInv, IdentityTypeOK, Current
    <3>3. PICK s \in 1..MaxAssigned : server_now(s) /\ clock < MaxAssigned
      BY <2>7 DEF BuildAssignment
    <3>4. s = clock + 1 /\ (whole' = whole \/ (whole = 0 /\ whole' = s))
      BY <3>3, StampsGrow DEF IdInv, IdentityTypeOK
    <3>5. clock \in Nat
      BY MaxAssumption DEF IdInv, IdentityTypeOK
    <3> QED BY <2>2, <2>4, <3>2, <3>4, <3>5 DEF SortsBefore
  <2> QED BY <2>6, <2>7 DEF IdentityNext, insert_person, insert_identifier,
             insert_identifier_assignment, update_identifier_assignment
<1> QED BY IdInvHolds, <1>1, PTL DEF IdentitySpec, NewestPhoneStays
=============================================================================
