----------------------------- MODULE MCUserStore -----------------------------
(* Instances of UserStore for TLC. *)
EXTENDS UserStore

\* Names of one, and of two bytes: a torn update can change the length.
MCNameLength == [n \in Names |-> IF n = "a" THEN 1 ELSE 2]

==============================================================================
