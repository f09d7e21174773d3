------------------------------- MODULE Lookup -------------------------------
(***************************************************************************)
(* The handlers that only read: GET /agents/{id} (GetAgentUseCase) and     *)
(* POST /agents/verify-signature (VerifyAgentSignatureUseCase).  Each      *)
(* reads one joined SELECT, so that the agent and its keys are seen at one *)
(* moment; nothing it does after that touches shared state, and the step   *)
(* that reads also answers.                                                *)
(***************************************************************************)
EXTENDS AgentStore

Reading(r, op) ==
    /\ input[r].op = op
    /\ input[r].ok
    /\ pc[r] = "arrived"

(* An agent is found in whatever status it is.                             *)
Get(r) ==
    /\ Reading(r, "get")
    /\ End(r, IF status[input[r].agent] = "ABSENT" THEN "notfound" ELSE "ok")
    /\ UNCHANGED faults

(* Slip: finding the key is taken for permission to use it.                *)
KeyVerdictOfPresence(k) == IF owner[k] = NoAgent THEN "notfound" ELSE "ok"

(* The key is looked up with its agent; the signature is checked only for  *)
(* an active key of an ACTIVE agent.  "ok" is the 200 that reports the     *)
(* outcome of that check, whatever it is.                                  *)
KeyVerdict(k) ==
    IF owner[k] = NoAgent THEN "notfound"
    ELSE IF status[owner[k]] = "ACTIVE" /\ k \in live THEN "ok"
    ELSE "conflict"

Verify(r) ==
    /\ Reading(r, "verify")
    /\ End(r, KeyVerdict(Head(input[r].keys)))
    /\ UNCHANGED faults

Look(r) == Get(r) \/ Verify(r)

=============================================================================
