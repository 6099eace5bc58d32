---------------------------- MODULE MCAccounts ----------------------------
(* Constants for model checking Accounts: the mobiles, by what becomes of  *)
(* their plafond.                                                           *)
EXTENDS Accounts, TLC

CONSTANTS m1, m2, e1

\* m1 can go 4, 3, 2, 1 (alert of 80%), 0 (100%); m2 asks for more than it has.
MCArguments ==
    (m1 :> [initial |-> 4, data |-> 1, requests |-> 4]) @@
    (m2 :> [initial |-> 1, data |-> 2, requests |-> 1])

\* m1 goes 5, 1 (80%) and no further, m2 goes 1, 0.
MCShortLives ==
    (m1 :> [initial |-> 5, data |-> 4, requests |-> 1]) @@
    (m2 :> [initial |-> 1, data |-> 1, requests |-> 1])
============================================================================
