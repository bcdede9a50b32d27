\* Two callers, two persons, a phone in two spellings and one without digits.
SPECIFICATION IdentitySpec
CONSTANTS
    NoRow = NoRow
    Callers = {"c1", "c2"}
    Persons = {"ann", "bob"}
    Phones = {"+1 5", "15", "27", "n/a"}
    Digits <- MCDigits
    Inputs <- MCInputs
    MaxAssigned = 3
INVARIANT PhoneLeadsBack
PROPERTY NewestPhoneStays
\* The stamps are bounded; with all of them inserted nothing may be left to do.
CHECK_DEADLOCK FALSE
