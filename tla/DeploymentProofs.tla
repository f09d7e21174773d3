-------------------------- MODULE DeploymentProofs --------------------------
(***************************************************************************)
(* The invariants of Deployment, for any number of instances, releases     *)
(* and faults.                                                             *)
(***************************************************************************)
EXTENDS Deployment, TLAPS

(* What the script has accepted stays accepted until the next release, and *)
(* what has passed is migrated.                                            *)
PassedIsMigrated ==
    /\ phase \in {"migrating", "passed"} => ScriptAccepts(env)
    /\ phase = "passed" => schema = "head"

(* No instance runs without its settings, nor in production without a      *)
(* passed script; only the others create tables.                           *)
RunningIsReleased ==
    \A i \in Instances : inst[i] \in {"creating", "serving"} =>
        /\ Loads(env)
        /\ env.environment = "production" => phase = "passed" /\ inst[i] = "serving"

DInv == TypeOK /\ ServingHasTables /\ PassedIsMigrated /\ RunningIsReleased

(* Nothing runs and nothing has passed in the beginning.                   *)
LEMMA DInvInit == Init => DInv
  BY DeploymentAssumption DEF Init, DInv, TypeOK, ServingHasTables, PassedIsMigrated, RunningIsReleased

(* Every step of the release, of an instance and of the server keeps them.  *)
LEMMA DInvNext == DInv /\ [Next]_vars => DInv'
<1> SUFFICES ASSUME DInv, [Next]_vars PROVE DInv'
  OBVIOUS
<1> USE DeploymentAssumption DEF DInv
<1>f. ASSUME Fault PROVE faults' \in 0 .. MaxFaults
  <2>1. faults \in 0 .. MaxFaults
    BY DEF TypeOK
  <2> QED BY <1>f, <2>1 DEF Fault
<1>1. ASSUME NEW e \in Env, Configure(e) PROVE DInv'
  <2> USE <1>1 DEF Configure
  <2>1. TypeOK'
    <3>1. releases \in 0 .. MaxReleases /\ faults \in 0 .. MaxFaults
      BY DEF TypeOK
    <3>2. releases' \in 0 .. MaxReleases
      BY <3>1
    <3>3. inst' \in [Instances -> {"new", "creating", "serving", "exited"}]
      OBVIOUS
    <3> QED BY <3>1, <3>2, <3>3 DEF TypeOK
  <2>2. ServingHasTables' /\ RunningIsReleased'
    BY DEF ServingHasTables, RunningIsReleased
  <2>3. PassedIsMigrated'
    BY DEF PassedIsMigrated
  <2> QED BY <2>1, <2>2, <2>3
<1>2. CASE Script /\ PreDeploy
  <2> USE <1>2 DEF Script, PreDeploy
  <2>1. TypeOK'
    BY DEF TypeOK
  <2>2. ServingHasTables'
    BY DEF ServingHasTables
  <2>3. PassedIsMigrated'
    BY DEF PassedIsMigrated
  <2>4. RunningIsReleased'
    BY DEF RunningIsReleased
  <2> QED BY <2>1, <2>2, <2>3, <2>4
<1>3. CASE Script /\ Upgrade
  <2> USE <1>3 DEF Script, Upgrade
  <2>1. /\ schema' \in {"none", "by create_all", "head"}
        /\ phase' \in {"passed", "failed", "cut off"}
        /\ phase' = "passed" => schema' = "head"
        /\ schema' = schema \/ schema' = "head"
    BY DEF TypeOK
  <2>2. TypeOK'
    BY <2>1 DEF TypeOK
  <2>3. ServingHasTables'
    BY <2>1 DEF ServingHasTables
  <2>4. PassedIsMigrated'
    BY <2>1 DEF PassedIsMigrated
  <2>5. RunningIsReleased'
    BY DEF RunningIsReleased
  <2> QED BY <2>2, <2>3, <2>4, <2>5
<1>4. ASSUME NEW i \in Instances, Start(i) PROVE DInv'
  <2> USE DEF Start, Become
  <2>1. PICK state \in {"exited", "creating", "serving"} :
            Comes(state) /\ inst' = [inst EXCEPT ![i] = state]
    BY <1>4 DEF Failed
  <2>2. UNCHANGED <<env, phase, schema, up, releases, faults>> /\ Released
    BY <1>4
  <2>3. TypeOK'
    BY <2>1, <2>2 DEF TypeOK
  <2>4. env.environment = "production" =>
            phase = "passed" /\ schema = "head" /\ state # "creating"
    BY <2>1, <2>2 DEF Released, Comes, Failed, LifespanCreates, PassedIsMigrated
  <2>5. /\ state \in {"creating", "serving"} => Loads(env)
        /\ state = "serving" => schema # "none"
    BY <2>1, <2>4 DEF Comes, Failed, LifespanCreates
  <2>6. ServingHasTables'
    BY <2>1, <2>2, <2>4, <2>5 DEF ServingHasTables, TypeOK
  <2>7. PassedIsMigrated'
    BY <2>2 DEF PassedIsMigrated
  <2>8. RunningIsReleased'
    BY <2>1, <2>2, <2>4, <2>5 DEF RunningIsReleased, TypeOK
  <2> QED BY <2>3, <2>6, <2>7, <2>8
<1>5. ASSUME NEW i \in Instances, CreateAll(i) PROVE DInv'
  <2>1. Loads(env) /\ env.environment # "production"
    BY <1>5 DEF CreateAll, RunningIsReleased
  <2>2. CASE up /\ schema = "none"
    <3>1. /\ schema' = "by create_all"
          /\ inst' = [inst EXCEPT ![i] = "serving"]
          /\ UNCHANGED <<env, phase, up, releases, faults>>
      BY <1>5, <2>2 DEF CreateAll, Become
    <3>2. TypeOK'
      BY <3>1 DEF TypeOK
    <3>3. ServingHasTables'
      BY <2>1, <3>1 DEF ServingHasTables
    <3>4. PassedIsMigrated'
      BY <2>2, <3>1 DEF PassedIsMigrated
    <3>5. RunningIsReleased'
      BY <2>1, <3>1 DEF RunningIsReleased, TypeOK
    <3> QED BY <3>2, <3>3, <3>4, <3>5
  <2>3. CASE ~(up /\ schema = "none")
    BY <1>5, <2>3 DEF CreateAll, Become, Failed, TypeOK, ServingHasTables,
                      PassedIsMigrated, RunningIsReleased
  <2> QED BY <2>2, <2>3
<1>6. ASSUME NEW i \in Instances, Stop(i) PROVE DInv'
  <2>1. TypeOK'
    BY <1>6, <1>f DEF Stop, Become, Failed, TypeOK
  <2> QED BY <1>6, <2>1 DEF Stop, Become, Failed, TypeOK, ServingHasTables,
                            PassedIsMigrated, RunningIsReleased
<1>7. CASE Outage
  <2>1. TypeOK'
    BY <1>7, <1>f DEF Outage, TypeOK
  <2> QED BY <1>7, <2>1 DEF Outage, ServingHasTables, PassedIsMigrated, RunningIsReleased
<1>8. CASE Recover
  BY <1>8 DEF Recover, TypeOK, ServingHasTables, PassedIsMigrated, RunningIsReleased
<1>9. CASE UNCHANGED vars
  BY <1>9 DEF vars, TypeOK, ServingHasTables, PassedIsMigrated, RunningIsReleased
<1> QED BY <1>1, <1>2, <1>3, <1>4, <1>5, <1>6, <1>7, <1>8, <1>9 DEF Next, Script

(* The invariant holds whatever fails and restarts.                         *)
THEOREM DeploymentInductive == Spec => []DInv
  BY DInvInit, DInvNext, PTL DEF Spec

(* The schema, the script and every instance are in one of the states the  *)
(* code leaves them in, whatever fails half way.                           *)
THEOREM DeploymentTypeOK == Spec => []TypeOK
<1>1. DInv => TypeOK
  BY DEF DInv
<1> QED BY <1>1, DeploymentInductive, PTL

(* No instance serves without its tables: alembic and create_all never      *)
(* leave a serving instance without them, in whatever order they commit.    *)
THEOREM ServesWithTables == Spec => []ServingHasTables
<1>1. DInv => ServingHasTables
  BY DEF DInv
<1> QED BY <1>1, DeploymentInductive, PTL

(* env.py imports the settings: what passes pre_deploy.sh starts.           *)
THEOREM PassedStarts == Spec => []PassedReleasesLoad
<1>1. DInv => PassedReleasesLoad
  BY DEF DInv, PassedIsMigrated, PassedReleasesLoad, ScriptAccepts
<1> QED BY <1>1, DeploymentInductive, PTL

=============================================================================
