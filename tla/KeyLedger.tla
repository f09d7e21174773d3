------------------------------ MODULE KeyLedger ------------------------------
(***************************************************************************)
(* What the registry promises about key ownership, without requests,       *)
(* sessions or locks: an agent enters once, together with all of its keys, *)
(* none of which any agent has; after that no key changes hands.           *)
(***************************************************************************)
CONSTANTS Agents, Keys, NoAgent, Enrolled, Holdings

VARIABLES
    agents,     \* the agents that are registered
    owner       \* the agent each key belongs to, or NoAgent

Init == agents = Enrolled /\ owner = Holdings

Enrol(a, S) ==
    /\ a \notin agents
    /\ S # {}
    /\ \A k \in S : owner[k] = NoAgent
    /\ agents' = agents \cup {a}
    /\ owner' = [k \in Keys |-> IF k \in S THEN a ELSE owner[k]]

Next == \E a \in Agents, S \in SUBSET Keys : Enrol(a, S)

Spec == Init /\ [][Next]_<<agents, owner>>

=============================================================================
