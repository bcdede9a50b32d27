----------------------------- MODULE ServerNow -----------------------------
(***************************************************************************)
(* The timestamps of contracts/base.py and their order as text, which is   *)
(* the order SQLite sorts them in.  isoformat leaves the fraction out when *)
(* it is zero, and "." sorts before "Z": the stamp of a full second sorts  *)
(* after every later stamp of that second.                                 *)
(*                                                                         *)
(* Stamps are numbered as they are taken.  One of them may fall on a full  *)
(* second (bound), and what follows it is in the same second, or is too    *)
(* far away to matter.                                                     *)
(***************************************************************************)
EXTENDS Naturals

VARIABLES
    clock,  \* stamps taken so far
    whole   \* the one that fell on a full second, 0 while there is none

clockVars == <<clock, whole>>

ClockInit == clock = 0 /\ whole = 0

\* server_now, called so many times in one step; `s` numbers the first.
Stamps(s, count) ==
    /\ s = clock + 1
    /\ clock' = clock + count
    /\ \/ whole' = whole
       \/ whole = 0 /\ whole' \in s..clock'

server_now(s) == Stamps(s, 1)

\* ORDER BY created_at: the text of one stamp sorts before that of another.
SortsBefore(s, t) == s # whole /\ (t = whole \/ s < t)
=============================================================================
