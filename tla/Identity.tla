------------------------------ MODULE Identity ------------------------------
(***************************************************************************)
(* Phones, persons and the assignments between them: the statements of     *)
(* db/repository.py and the lookups of identity/resolve.py.  A caller      *)
(* builds an assignment, created_at included, before it inserts it, so     *)
(* callers may insert in another order than they built.                    *)
(*                                                                         *)
(* Every statement is atomic.  No code inserts a persona, so the foreign   *)
(* key refuses every persona_id but NULL.                                  *)
(***************************************************************************)
EXTENDS ServerNow, FiniteSets

CONSTANTS
    Callers,      \* users of the repository at work together
    Persons,      \* values of person_id
    Phones,       \* raw phone values, the normalized ones among them
    Digits,       \* normalize_phone: the digits of a phone, NoRow for none
    Inputs,       \* the assignments a caller may ask for
    MaxAssigned,  \* bound: assignments built altogether
    NoRow         \* no row, or a NULL reference

Input == [phone : Phones, person_id : Persons \cup {NoRow}, persona_id : BOOLEAN,
          resolution_status : {"resolved", "ambiguous", "unresolved"},
          candidate_person_ids : SUBSET Persons, valid_to : BOOLEAN]

\* persona_id and valid_to: whether one is given.
ASSUME InputsAssumption == Inputs \subseteq Input
ASSUME DigitsAssumption ==
    /\ NoRow \notin Phones \cup Persons
    /\ Digits \in [Phones -> Phones \cup {NoRow}]
    /\ \A x \in Phones : Digits[x] # NoRow => Digits[Digits[x]] = Digits[x]
ASSUME MaxAssumption == MaxAssigned \in Nat

VARIABLES
    identifiers,   \* raw_value by the normalized_value of identifier_key
    persons,       \* rows of persons
    assignments,   \* identifier_assignments: what was asked for, by created_at
    active,        \* those of status "active"
    draft          \* the assignment each caller has built

tables == <<identifiers, persons, assignments, active>>
identityVars == <<tables, draft, clockVars>>

IdentityTypeOK ==
    /\ identifiers \in [Phones -> Phones \cup {NoRow}]
    /\ persons \subseteq Persons
    /\ assignments \subseteq [input : Inputs, created_at : 1..clock]
    /\ active \subseteq assignments
    /\ draft \in [Callers -> [input : Inputs, created_at : 1..clock] \cup {NoRow}]
    /\ clock \in 0..MaxAssigned
    /\ whole \in 0..clock

Init ==
    /\ identifiers = [x \in Phones |-> NoRow]
    /\ persons = {}
    /\ assignments = {}
    /\ active = {}
    /\ draft = [c \in Callers |-> NoRow]
    /\ ClockInit

-----------------------------------------------------------------------------
insert_person(p) ==
    /\ p \notin persons
    /\ persons' = persons \cup {p}
    /\ UNCHANGED <<identifiers, assignments, active, draft, clockVars>>

\* Mutant: the key is the stripped value, as of the other types.
StrippedKey(raw) == IF Digits[raw] = NoRow THEN NoRow ELSE raw

\* _normalize_phone, which makes the key; none is a ValueError.
Normalized(raw) == Digits[raw]

\* INSERT OR IGNORE: the first raw value of a key stays.
insert_identifier(raw) ==
    /\ Normalized(raw) # NoRow
    /\ identifiers[Normalized(raw)] = NoRow
    /\ identifiers' = [identifiers EXCEPT ![Normalized(raw)] = raw]
    /\ UNCHANGED <<persons, assignments, active, draft, clockVars>>

\* validate_resolution_rules.
Valid(a) ==
    CASE a.resolution_status = "resolved" -> a.person_id # NoRow
      [] a.resolution_status = "ambiguous" -> a.candidate_person_ids # {}
      [] a.resolution_status = "unresolved" -> a.person_id = NoRow

\* The caller has the key from insert_identifier, or makes it alike.
BuildAssignment(c, a) ==
    /\ draft[c] = NoRow
    /\ Normalized(a.phone) # NoRow
    /\ Valid(a)
    /\ clock < MaxAssigned
    /\ \E s \in 1..MaxAssigned :
          /\ server_now(s)
          /\ draft' = [draft EXCEPT ![c] = [input |-> a, created_at |-> s]]
    /\ UNCHANGED tables

\* The three foreign keys.
References(a) ==
    /\ identifiers[Normalized(a.phone)] # NoRow
    /\ a.person_id \in persons \cup {NoRow}
    /\ ~a.persona_id

insert_identifier_assignment(c) ==
    /\ draft[c] # NoRow
    /\ IF References(draft[c].input)
       THEN /\ assignments' = assignments \cup {draft[c]}
            /\ active' = active \cup {draft[c]}
       ELSE UNCHANGED <<assignments, active>>
    /\ draft' = [draft EXCEPT ![c] = NoRow]
    /\ UNCHANGED <<identifiers, persons, clockVars>>

update_identifier_assignment(a) ==
    /\ active' \in {active \cup {a}, active \ {a}}
    /\ UNCHANGED <<identifiers, persons, assignments, draft, clockVars>>

-----------------------------------------------------------------------------
\* The resolver normalizes, and the repository does once more.
resolve_by_phone(raw) ==
    {a \in active : Normalized(a.input.phone) = Normalized(Digits[raw])}

\* The open assignments of a person that name no persona.
Current(p) ==
    {a \in active : a.input.person_id = p /\ ~a.input.persona_id /\ ~a.input.valid_to}

\* Mutant: oldest first.
OldestOf(rows) ==
    {a \in rows : \A b \in rows : b # a => SortsBefore(a.created_at, b.created_at)}

\* ORDER BY created_at DESC LIMIT 1.
FirstOf(rows) ==
    {a \in rows : \A b \in rows : b # a => SortsBefore(b.created_at, a.created_at)}

\* The row of get_current_persona_phone, if any, and the value it returns.
CurrentAssignment(p) == FirstOf(Current(p))
get_current_persona_phone(p) ==
    {identifiers[Normalized(a.input.phone)] : a \in CurrentAssignment(p)}

IdentityNext ==
    \/ \E p \in Persons : insert_person(p)
    \/ \E raw \in Phones : insert_identifier(raw)
    \/ \E c \in Callers : insert_identifier_assignment(c) \/ \E a \in Inputs : BuildAssignment(c, a)
    \/ \E a \in assignments : update_identifier_assignment(a)

IdentitySpec == Init /\ [][IdentityNext]_identityVars

-----------------------------------------------------------------------------
(* The phone given for a person leads back to that person, whichever       *)
(* spelling of it was stored first and by whom: the two normalizers agree. *)
PhoneLeadsBack ==
    \A p \in Persons : \A raw \in get_current_persona_phone(p) :
        \E a \in resolve_by_phone(raw) : a.input.person_id = p

(* A caller that inserts late what it built early takes no person's newer  *)
(* phone away: unless an assignment is made inactive, the current one only *)
(* gives way to one created after it, or to that of a full second, which   *)
(* in turn gives way to none of the same second.                           *)
NewestPhoneStays ==
    [][\A p \in Persons : \A a \in CurrentAssignment(p), b \in CurrentAssignment(p)' :
          a # b /\ active \subseteq active' =>
              /\ a.created_at # whole
              /\ b.created_at = whole \/ a.created_at < b.created_at]_identityVars
=============================================================================
