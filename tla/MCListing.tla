----------------------------- MODULE MCListing -----------------------------
(***************************************************************************)
(* Three agents, two of them of one organization; pages of one and of      *)
(* two; no filter, and filters by status, by organization and by both.     *)
(***************************************************************************)
EXTENDS Listing, TLC

CONSTANTS a1, a2, a3, o1, o2

Owners == [a \in Agents |-> IF a = a3 THEN o2 ELSE o1]

SomeFilters == [status : {All, "ACTIVE"}, owner : {All, o1}]

Symmetric == Permutations(Agents \ {a3})

=============================================================================
