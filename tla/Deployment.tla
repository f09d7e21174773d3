----------------------------- MODULE Deployment -----------------------------
(***************************************************************************)
(* From the environment variables to a serving instance: the validation of *)
(* config.py, scripts/pre_deploy.sh with Alembic behind it, and the        *)
(* lifespan of main.py, which creates the tables itself in development.    *)
(***************************************************************************)
EXTENDS Naturals, FiniteSets

CONSTANTS
    Instances,      \* processes of the service that run side by side
    MaxReleases,    \* bound on changes of the environment
    MaxFaults       \* bound on crashes of instances and outages of the database

ASSUME DeploymentAssumption == MaxReleases \in Nat /\ MaxFaults \in Nat

VARIABLES
    env,        \* the environment variables of the release
    phase,      \* how scripts/pre_deploy.sh is doing, or how it ended
    schema,     \* the tables of the database, and who made them
    inst,       \* how far each instance is
    up,         \* does the database server answer?
    releases, faults    \* how many releases and faults there were

vars == <<env, phase, schema, inst, up, releases, faults>>

Urls == {"unset", "postgres", "postgresql", "asyncpg", "sqlite", "other"}
Env == {e \in [environment : {"production", "development"}, url : Urls, percent : BOOLEAN,
              secret : {"unset", "set"}, cors : {"unset", "list", "wildcard", "json"}] :
            e.url = "unset" => ~e.percent}

(* _normalize_db_url: the short spellings get the driver of the engine.    *)
Normalized(url) ==
    CASE url = "unset" -> "sqlite"
      [] url \in {"postgres", "postgresql"} -> "asyncpg"
      [] OTHER -> url

(* Settings() raises for a production that lacks its secret, its           *)
(* PostgreSQL, or a list of origins without wildcards.                     *)
Accepted(e) ==
    e.environment = "production" =>
        /\ e.secret = "set"
        /\ Normalized(e.url) = "asyncpg"
        /\ e.cors # "wildcard"

(* create_async_engine needs the driver: requirements.txt installs asyncpg *)
(* and no other, not even the one that the default URL asks for.           *)
Loads(e) == Accepted(e) /\ Normalized(e.url) = "asyncpg"

(* What get_cors_origins makes of the variable.  The field is a str, so    *)
(* that a JSON array reaches it undecoded and is split at its commas.      *)
Origins(e) == CASE e.cors = "unset"    -> {"localhost"}
                [] e.cors = "list"     -> {"https://app"}
                [] e.cors = "wildcard" -> {"*"}
                [] e.cors = "json"     -> {"[\"https://app\"]"}

(* What the operator meant by it.                                          *)
Intended(e) == IF e.cors \in {"list", "json"} THEN {"https://app"} ELSE Origins(e)

TypeOK ==
    /\ env \in Env
    /\ phase \in {"none", "migrating", "passed", "failed", "cut off"}
    /\ schema \in {"none", "by create_all", "head"}
    /\ inst \in [Instances -> {"new", "creating", "serving", "exited"}]
    /\ up \in BOOLEAN
    /\ releases \in 0 .. MaxReleases /\ faults \in 0 .. MaxFaults

Init ==
    /\ env \in Env
    /\ phase = "none"
    /\ schema = "none"
    /\ inst = [i \in Instances |-> "new"]
    /\ up = TRUE
    /\ releases = 0 /\ faults = 0

(* A release, of the same environment or another: every instance is new.   *)
Configure(e) ==
    /\ releases < MaxReleases
    /\ phase # "migrating"
    /\ releases' = releases + 1
    /\ env' = e
    /\ phase' = "none"
    /\ inst' = [i \in Instances |-> "new"]
    /\ UNCHANGED <<schema, up, faults>>

(* Slip: the two variables the script looks at are all that is validated.  *)
ScriptChecksOnly(e) ==
    e.environment = "production" => "unset" \notin {e.url, e.secret}

(* The script looks at two variables, env.py imports the settings, and its *)
(* set_main_option refuses a URL with a percent sign in it.                *)
ScriptAccepts(e) ==
    /\ e.environment = "production" => "unset" \notin {e.url, e.secret}
    /\ Loads(e)
    /\ ~e.percent

(* Alembic connects and finds out which revisions are missing.  Nothing    *)
(* runs the command a second time for the same release.                    *)
PreDeploy ==
    /\ phase = "none"
    /\ \/ ~ScriptAccepts(env) /\ phase' = "failed"
       \/ ScriptAccepts(env) /\ ~up /\ phase' = "cut off"
       \/ ScriptAccepts(env) /\ up /\ phase' = "migrating"
    /\ UNCHANGED schema

(* Slip: the version table is not committed with the migration.            *)
FreshOnly == {"none"}

(* Revision 001 creates the tables: it fails where create_all has already  *)
(* made them, and is not run where the version table knows it.             *)
Upgradable == {"none", "head"}

(* upgrade head, in one transaction; set -e ends the script if it fails.   *)
Upgrade ==
    /\ phase = "migrating"
    /\ \/ ~up /\ phase' = "cut off" /\ UNCHANGED schema
       \/ up /\ schema \in Upgradable /\ phase' = "passed" /\ schema' = "head"
       \/ up /\ schema \notin Upgradable /\ phase' = "failed" /\ UNCHANGED schema

(* Slip: the platform starts a release without its pre-deploy command.      *)
ReleasedAnyway == TRUE

(* Render starts a container when the command has passed; docker compose   *)
(* and a developer run none.                                               *)
Released == phase = "passed" \/ env.environment # "production"

Become(i, state) == inst' = [inst EXCEPT ![i] = state]

LifespanCreates == env.environment # "production"

(* docker compose restarts what exits (restart: always), in development;   *)
(* nothing in the repository does so for a platform.                       *)
Restarted == env.environment # "production"

(* Slip: an exit ends the service for good.                                *)
FailedForGood == "failed"

Failed == "exited"

(* The module loads its engine, or the process exits.  Then the lifespan:  *)
(* nothing in production; otherwise create_all first looks which tables    *)
(* there are.                                                              *)
Comes(state) ==
    LET sound == Loads(env) /\ (LifespanCreates => up)
        lacking == LifespanCreates /\ schema = "none"
    IN \/ ~sound /\ state = Failed
       \/ sound /\ lacking /\ state = "creating"
       \/ sound /\ ~lacking /\ state = "serving"

Start(i) ==
    /\ Released
    /\ inst[i] = "new" \/ (inst[i] = "exited" /\ Restarted)
    /\ \E state \in {Failed, "creating", "serving"} : Comes(state) /\ Become(i, state)
    /\ UNCHANGED <<env, phase, schema, up, releases, faults>>

(* CREATE TABLE fails if another has created the tables since the look.    *)
CreateAll(i) ==
    /\ inst[i] = "creating"
    /\ IF up /\ schema = "none"
       THEN schema' = "by create_all" /\ Become(i, "serving")
       ELSE Become(i, Failed) /\ UNCHANGED schema
    /\ UNCHANGED <<env, phase, up, releases, faults>>

Fault == faults < MaxFaults /\ faults' = faults + 1

(* A crash, or the shutdown that lets the lifespan dispose of its engine.   *)
Stop(i) ==
    /\ inst[i] \in {"creating", "serving"}
    /\ Fault
    /\ Become(i, Failed)
    /\ UNCHANGED <<env, phase, schema, up, releases>>

Outage ==
    /\ up
    /\ Fault
    /\ up' = FALSE
    /\ UNCHANGED <<env, phase, schema, inst, releases>>

Recover ==
    /\ ~up
    /\ up' = TRUE
    /\ UNCHANGED <<env, phase, schema, inst, releases, faults>>

Script ==
    /\ PreDeploy \/ Upgrade
    /\ UNCHANGED <<env, inst, up, releases, faults>>

Next ==
    \/ \E e \in Env : Configure(e)
    \/ Script
    \/ \E i \in Instances : Start(i) \/ CreateAll(i) \/ Stop(i)
    \/ Outage
    \/ Recover

(* The platform runs the pre-deploy command of a release, once; outages    *)
(* end; a released instance is started, and goes on.                       *)
Fairness ==
    /\ WF_vars(env.environment = "production" /\ Script)
    /\ WF_vars(Recover)
    /\ \A i \in Instances : WF_vars(Start(i)) /\ WF_vars(CreateAll(i))

Spec == Init /\ [][Next]_vars /\ Fairness

-----------------------------------------------------------------------------

(* An instance that serves has its tables, however migrations, create_all  *)
(* and other instances raced, and a production instance has the tables of  *)
(* the migrations, so that the next revision applies to them.              *)
ServingHasTables ==
    \A i \in Instances : inst[i] = "serving" =>
        /\ schema # "none"
        /\ env.environment = "production" => schema = "head"

(* A release that passes its pre-deploy command is not refused when it     *)
(* starts: the command validates what the service validates.               *)
PassedReleasesLoad == phase = "passed" => Loads(env)

(* Production on a database that create_all has set up, or with a URL that *)
(* does not survive Alembic's file, cannot be released.                    *)
Hopeless == env.environment = "production" /\ (env.percent \/ schema = "by create_all")

(* Nor is a production instance there, after an outage of the database in  *)
(* the one run of the pre-deploy command, or after it has exited.          *)
Unhindered(i) ==
    /\ Loads(env) /\ ~Hopeless
    /\ env.environment = "production" => phase # "cut off" /\ inst[i] # "exited"

(* A release with sound settings ends up serving unless one of these       *)
(* hinders it: whatever was released before on the same database, and      *)
(* however its instances race to create the tables or to start.            *)
SoundReleasesServe ==
    \A i \in Instances : <>[]Unhindered(i) => <>[](inst[i] = "serving")

(* README.md, section 8: after pip install -r requirements.txt, uvicorn on *)
(* the default settings has the server running.                            *)
DefaultsServe ==
    \A i \in Instances :
        <>[](env.environment = "development" /\ env.url = "unset") =>
            <>[](inst[i] = "serving")

(* config.py: production requires explicit origins.                        *)
OriginsAreExplicit ==
    \A i \in Instances : inst[i] = "serving" /\ env.environment = "production" =>
        env.cors # "unset"

(* config.py: a JSON array from the environment is accepted.                *)
JsonOriginsAreUnderstood ==
    \A i \in Instances : inst[i] = "serving" => Origins(env) = Intended(env)

=============================================================================
