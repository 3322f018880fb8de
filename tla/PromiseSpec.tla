----------------------------- MODULE PromiseSpec -----------------------------
(***************************************************************************)
(* What SPEC 7.5 promises of a timer, seen from outside: once it has been  *)
(* made durable it is owed, and what is owed is kept or, found a day too   *)
(* old at a boot, expires.  Only a promise no file ever held can be lost.  *)
(***************************************************************************)
CONSTANT Promises

VARIABLE standing

(* The steps one promise may take; keeping it again changes nothing.       *)
Steps == {<<"unset", "promised">>, <<"unset", "owed">>,
          <<"promised", "owed">>,  <<"promised", "kept">>,
          <<"promised", "lost">>,  <<"owed", "kept">>,
          <<"owed", "expired">>}

Init == standing = [p \in Promises |-> "unset"]

Next == \A p \in Promises :
            standing'[p] = standing[p] \/ <<standing[p], standing'[p]>> \in Steps

Spec == Init /\ [][Next]_standing
=============================================================================
