----------------------------- MODULE MCIdentity -----------------------------
(* A small instance of Identity. *)
EXTENDS Identity, TLC

MCDigits == [x \in Phones |-> CASE x \in {"+1 5", "15"} -> "15" [] x = "27" -> "27" [] OTHER -> NoRow]

Asked(phone, p, status, valid_to) ==
    [phone |-> phone, person_id |-> p, persona_id |-> FALSE, resolution_status |-> status,
     candidate_person_ids |-> {}, valid_to |-> valid_to]

\* Two phones of a person, one of them ended; one shared with another; one
\* that nobody is known to have; one of a persona; one that no rule allows.
MCInputs ==
    {Asked("15", "ann", "resolved", FALSE), Asked("27", "ann", "resolved", FALSE),
     Asked("27", "ann", "resolved", TRUE), Asked("+1 5", "bob", "resolved", FALSE),
     Asked("15", NoRow, "unresolved", FALSE), Asked("27", "bob", "unresolved", FALSE),
     [Asked("27", "ann", "ambiguous", FALSE) EXCEPT !.persona_id = TRUE,
                                                   !.candidate_person_ids = {"ann", "bob"}]}
=============================================================================
