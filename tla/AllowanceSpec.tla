---------------------------- MODULE AllowanceSpec ----------------------------
(***************************************************************************)
(* What a daily cap promises, whoever spends it (SPEC 18.2, 26.3): an      *)
(* allowance of Cap uses on each local day, its unused part lost at        *)
(* midnight.  A use may turn out not to be booked, and only then is one    *)
(* more allowed.                                                           *)
(***************************************************************************)
EXTENDS Naturals

CONSTANT Cap            \* uses a day

VARIABLES
    day,                \* the local day
    used,               \* uses made on it
    unbooked            \* of those, the ones no count remembers

vars == <<day, used, unbooked>>

Init == day \in Nat /\ used = 0 /\ unbooked = 0

Use == /\ used < Cap + unbooked
       /\ used' = used + 1
       /\ UNCHANGED <<day, unbooked>>

Unbook == /\ unbooked' \in unbooked .. used
          /\ UNCHANGED <<day, used>>

Midnight == /\ day' = day + 1
            /\ used' = 0
            /\ unbooked' = 0

Next == Use \/ Unbook \/ Midnight

Spec == Init /\ [][Next]_vars
=============================================================================
