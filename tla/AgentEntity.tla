---------------------------- MODULE AgentEntity ----------------------------
(***************************************************************************)
(* The Agent aggregate of src/domain/entities/agent.py as pure operators.  *)
(* An agent is the record of the three attributes its methods change:      *)
(* `status', `updated' (the updated_at timestamp, a token equal only to    *)
(* itself) and `live' (the keys whose is_active flag is set).              *)
(***************************************************************************)

Status == {"PENDING_VERIFICATION", "ACTIVE", "SUSPENDED", "REVOKED"}

(* Agent.register: a new agent is ACTIVE and PublicKey.create made all of  *)
(* its keys active.                                                        *)
Registered(keys, now) == [status |-> "ACTIVE", updated |-> now, live |-> keys]

(* Slip: a status the column and its readers do not know.                  *)
SuspendMisspelt(agent, now) == [agent EXCEPT !.status = "SUSPEND", !.updated = now]

Suspend(agent, now) == [agent EXCEPT !.status = "SUSPENDED", !.updated = now]

(* Slip: revoking leaves the keys of the agent active.                     *)
RevokeStatusOnly(agent, now) ==
    [agent EXCEPT !.status = "REVOKED", !.updated = now]

Revoke(agent, now) ==
    [agent EXCEPT !.status = "REVOKED", !.updated = now, !.live = {}]

Activate(agent, now) == [agent EXCEPT !.status = "ACTIVE", !.updated = now]

(* Slip: only activation checks that the agent is not revoked.             *)
PermitsSuspension(agent, target) ==
    agent.status = "REVOKED" => target # "ACTIVE"

(* InvalidAgentStatusException is raised by suspend and by activate, for a *)
(* revoked agent; revoke has no precondition.                              *)
Permits(agent, target) ==
    agent.status = "REVOKED" => target \notin {"SUSPENDED", "ACTIVE"}

(* Slip: the last branch of the chain is missing.                          *)
TransitionOneWay(agent, target, now) ==
    CASE target = "SUSPENDED" -> Suspend(agent, now)
      [] target = "REVOKED"   -> Revoke(agent, now)
      [] OTHER                -> agent

(* The if/elif chain of UpdateAgentStatusUseCase.execute.  It has no       *)
(* branch for PENDING_VERIFICATION: the agent goes on to save unchanged.   *)
Transition(agent, target, now) ==
    CASE target = "SUSPENDED" -> Suspend(agent, now)
      [] target = "REVOKED"   -> Revoke(agent, now)
      [] target = "ACTIVE"    -> Activate(agent, now)
      [] OTHER                -> agent

=============================================================================
