--------------------------- MODULE AgentLifecycle ---------------------------
(***************************************************************************)
(* What the registry promises about each agent when no two status changes  *)
(* of it overlap: the stored agent behaves like the aggregate of           *)
(* AgentEntity, every change one whole transition of the agent as it is,   *)
(* and none that the aggregate refuses.                                    *)
(***************************************************************************)
EXTENDS AgentEntity

CONSTANTS Agents, Keys, Stamps, Founding, Absent

VARIABLE agents     \* the stored agents, or Absent

Init == agents = Founding

Enrol(a, keys, now) ==
    /\ agents[a] = Absent
    /\ agents' = [agents EXCEPT ![a] = Registered(keys, now)]

Change(a, target, now) ==
    /\ agents[a] # Absent
    /\ Permits(agents[a], target)
    /\ agents' = [agents EXCEPT ![a] = Transition(@, target, now)]

Next == \E a \in Agents, now \in Stamps :
            \/ \E keys \in SUBSET Keys : Enrol(a, keys, now)
            \/ \E target \in Status : Change(a, target, now)

Spec == Init /\ [][Next]_agents

=============================================================================
