---------------------------- MODULE HttpPipeline ----------------------------
(***************************************************************************)
(* How a request goes through the middleware of main.py to an endpoint and *)
(* how its answer, or an exception, comes back out.  Requests share only   *)
(* the budgets of the two limited routes, so one is in flight at a time.   *)
(***************************************************************************)
EXTENDS Naturals, Sequences, SequencesExt

CONSTANTS
    Limit       \* requests per window on each limited route

ASSUME BudgetAssumption == Limit \in Nat \ {0}

VARIABLES
    request,    \* what the client sent
    depth,      \* the layer that is next: 0 is the client, the last the router
    inward,     \* is the request still on its way in?
    raised,     \* the exception on its way out, or "none"
    response,   \* the response on its way out, or NoResponse
    spent,      \* admissions on the limited routes in the present window
    lookups     \* history: verifications that used the database since then

vars == <<request, depth, inward, raised, response, spent, lookups>>

HasBody   == {"token", "register", "patch", "verify"}
Protected == {"register", "patch"}
Limited   == {"token", "verify"}
Routes    == HasBody \cup {"root", "health", "get", "list", "unmatched"}

(* "garbled" is no JSON at all, "unfit" does not fit the schema (for a      *)
(* list, the ranges of its query parameters).  A token is "roleless" that  *)
(* another holder of the secret has signed.                                *)
Request == [route : Routes, method : {"proper", "preflight"},
            origin : {"none", "allowed", "foreign"},
            token : {"invalid", "roleless", "admin"},
            body : {"garbled", "unfit", "fit"}]

Answer(status, code) ==
    [status |-> status, code |-> code, cors |-> FALSE, secured |-> FALSE]
NoResponse == Answer(0, "none")

(* Slip: CORS is added first, and so becomes the innermost layer.          *)
AddedCorsFirst == <<"cors", "headers", "exceptions">>

Added == <<"headers", "exceptions", "cors">>

(* The last one added is the outermost.                                    *)
Layers == Reverse(Added)

Router == Len(Layers) + 1

(* The classes the except clauses name, below Exception.                   *)
Ancestors ==
    [PrivateKeyDetectedException |-> {"DomainException"},
     InvalidPublicKeyException   |-> {"DomainException"},
     AgentNotFoundException      |-> {"DomainException"},
     DomainException             |-> {},
     ValueError                  |-> {},
     Other                       |-> {}]

Is(exception, class) ==
    class = "Exception" \/ class = exception \/ class \in Ancestors[exception]

Clause(class, status, code) == [class |-> class, answer |-> Answer(status, code)]

Clauses ==
    <<Clause("PrivateKeyDetectedException", 400, "PRIVATE_KEY_FORBIDDEN"),
      Clause("InvalidPublicKeyException", 400, "INVALID_PUBLIC_KEY"),
      Clause("AgentNotFoundException", 404, "AGENT_NOT_FOUND"),
      Clause("DomainException", 400, "DOMAIN_ERROR"),
      Clause("ValueError", 400, "BAD_REQUEST_ENCODING"),
      Clause("Exception", 500, "INTERNAL_SERVER_ERROR")>>

(* Slip: the clause of the base class comes first.                         *)
CaughtBaseFirst(exception) ==
    LET clauses == <<Clauses[4]>> \o Clauses
    IN clauses[SelectInSeq(clauses, LAMBDA c : Is(exception, c.class))].answer

(* The first clause that matches answers.                                  *)
Caught(exception) ==
    Clauses[SelectInSeq(Clauses, LAMBDA c : Is(exception, c.class))].answer

-----------------------------------------------------------------------------
(* The router: what an endpoint refuses before its use case runs.           *)

Refusals ==
    [match |-> Answer(404, "detail"), json |-> Answer(422, "detail"),
     token |-> Answer(401, "detail"), role |-> Answer(403, "detail"),
     schema |-> Answer(422, "detail"), limit |-> Answer(429, "detail")]

(* Slip: one request too many.                                             *)
SpentUpLate(route) == spent[route] > Limit

SpentUp(route) == spent[route] >= Limit

Fails(r, check) ==
    CASE check = "match"  -> r.route = "unmatched"
      [] check = "json"   -> r.route \in HasBody /\ r.body = "garbled"
      [] check = "token"  -> r.route \in Protected /\ r.token = "invalid"
      [] check = "role"   -> r.route \in Protected /\ r.token # "admin"
      [] check = "schema" -> r.route \in HasBody \cup {"list"} /\ r.body # "fit"
      [] check = "limit"  -> r.route \in Limited /\ SpentUp(r.route)

(* FastAPI reads the body before it runs the dependencies, and validates   *)
(* it after them; the limiter is called by the endpoint itself.            *)
Checks == <<"match", "json", "token", "role", "schema", "limit">>

(* The place of the first check that fails, or 0.                          *)
Failing(r) == SelectInSeq(Checks, LAMBDA check : Fails(r, check))

(* What the rest of an endpoint may raise, and the HTTPExceptions and       *)
(* results it may answer with.                                             *)
Raises ==
    [register |-> {"PrivateKeyDetectedException", "InvalidPublicKeyException", "Other"},
     get      |-> {"ValueError", "AgentNotFoundException", "Other"},
     list     |-> {"Other"},
     patch    |-> {"ValueError", "AgentNotFoundException", "DomainException", "Other"},
     verify   |-> {"ValueError", "AgentNotFoundException", "DomainException",
                   "InvalidPublicKeyException", "Other"},
     health   |-> {"Other"}, token |-> {}, root |-> {}]

Answers(route) ==
    CASE route = "token"    -> {Answer(200, "ok"), Answer(401, "detail")}
      [] route = "health"   -> {Answer(200, "ok"), Answer(503, "detail")}
      [] route = "register" -> {Answer(201, "ok")}
      [] OTHER              -> {Answer(200, "ok")}

-----------------------------------------------------------------------------

TypeOK ==
    /\ request \in Request
    /\ depth \in 0 .. Router
    /\ inward \in BOOLEAN
    /\ raised \in DOMAIN Ancestors \cup {"none"}
    /\ raised # "none" => response = NoResponse /\ ~inward
    /\ spent \in [Limited -> 0 .. Limit]
    /\ depth = 0 => raised = "none"

Init ==
    /\ request \in Request
    /\ depth = 1
    /\ inward = TRUE
    /\ raised = "none"
    /\ response = NoResponse
    /\ spent = [route \in Limited |-> 0]
    /\ lookups = 0

(* A client that has its answer is followed by another one.                *)
Arrive ==
    /\ depth = 0
    /\ request' \in Request
    /\ depth' = 1
    /\ inward' = TRUE
    /\ response' = NoResponse
    /\ UNCHANGED <<raised, spent, lookups>>

(* The window of the limiter passes between two requests.                  *)
WindowPasses ==
    /\ depth = 0
    /\ spent' = [route \in Limited |-> 0]
    /\ lookups' = 0
    /\ UNCHANGED <<request, depth, inward, raised, response>>

Outward(answer) ==
    /\ response' = answer
    /\ inward' = FALSE
    /\ depth' = depth - 1

(* CORSMiddleware answers a preflight itself (an OPTIONS with an Origin);  *)
(* the other layers only hand a request on.                                *)
IsPreflight(r) == r.method = "preflight" /\ r.origin # "none"

Enter ==
    /\ inward = TRUE
    /\ depth \in DOMAIN Layers
    /\ IF Layers[depth] = "cors" /\ IsPreflight(request)
       THEN Outward([Answer(IF request.origin = "allowed" THEN 200 ELSE 400, "detail")
                        EXCEPT !.cors = request.origin = "allowed"])
       ELSE /\ depth' = depth + 1
            /\ UNCHANGED <<inward, response>>
    /\ UNCHANGED <<request, raised, spent, lookups>>

(* An HTTPException or a validation error is answered by the router.  An   *)
(* OPTIONS without an Origin matches no route's method.                    *)
RouterRefuses ==
    /\ inward /\ depth = Router
    /\ \/ /\ request.method = "preflight"
          /\ request.route # "unmatched"
          /\ Outward(Answer(405, "detail"))
       \/ /\ Failing(request) # 0
          /\ request.method = "proper" \/ request.route = "unmatched"
          /\ Outward(Refusals[Checks[Failing(request)]])
    /\ UNCHANGED <<request, raised, spent, lookups>>

(* Slip: the limiter is asked only once the use case has succeeded.         *)
ChargedOnSuccess(r, exception) ==
    spent' = IF r.route \in Limited /\ exception = "none"
             THEN [spent EXCEPT ![r.route] = @ + 1] ELSE spent

(* enforce_rate_limit comes first in the limited endpoints.                 *)
Charged(r, exception) ==
    spent' = IF r.route \in Limited THEN [spent EXCEPT ![r.route] = @ + 1] ELSE spent

(* verify_signature decodes its arguments before it looks up the key.       *)
LooksUp(r, exception) == r.route = "verify" /\ exception # "ValueError"

(* The endpoint runs to its end, or raises.                                *)
Endpoint ==
    /\ inward /\ depth = Router
    /\ request.method = "proper"
    /\ Failing(request) = 0
    /\ \E exception \in Raises[request.route] \cup {"none"} :
        /\ raised' = exception
        /\ Charged(request, exception)
        /\ lookups' = IF LooksUp(request, exception) THEN lookups + 1 ELSE lookups
        /\ \E answer \in IF exception = "none" THEN Answers(request.route) ELSE {NoResponse} :
            Outward(answer)
    /\ UNCHANGED request

(* Each layer sees what comes out of the layer below it.                    *)
Leave ==
    /\ ~inward
    /\ depth \in DOMAIN Layers
    /\ LET layer == Layers[depth]
       IN /\ raised' = IF layer = "exceptions" THEN "none" ELSE raised
          /\ Outward(
                CASE raised # "none" ->
                        IF layer = "exceptions" THEN Caught(raised) ELSE NoResponse
                  [] raised = "none" /\ layer = "headers" ->
                        [response EXCEPT !.secured = TRUE]
                  [] raised = "none" /\ layer = "cors" ->
                        [response EXCEPT !.cors = request.origin = "allowed"]
                  [] OTHER -> response)
    /\ UNCHANGED <<request, spent, lookups>>

Next == Arrive \/ WindowPasses \/ Enter \/ RouterRefuses \/ Endpoint \/ Leave

Spec == Init /\ [][Next]_vars

-----------------------------------------------------------------------------

(* A browser of an allowed origin can read every answer, errors included:   *)
(* whichever layer made it, it passed through CORSMiddleware.               *)
AllowedOriginsReadErrors ==
    depth = 0 /\ request.origin = "allowed" => response.cors

(* Each failure keeps the answer the API documents for it all the way to    *)
(* the client, and what is not anticipated never looks like success.        *)
Documented ==
    [PrivateKeyDetectedException |-> <<400, "PRIVATE_KEY_FORBIDDEN">>,
     InvalidPublicKeyException   |-> <<400, "INVALID_PUBLIC_KEY">>,
     AgentNotFoundException      |-> <<404, "AGENT_NOT_FOUND">>,
     DomainException             |-> <<400, "DOMAIN_ERROR">>,
     ValueError                  |-> <<400, "BAD_REQUEST_ENCODING">>,
     Other                       |-> <<500, "INTERNAL_SERVER_ERROR">>]

FailuresKeepTheirNames ==
    [][raised # "none" /\ raised' = "none" =>
        <<response'.status, response'.code>> = Documented[raised]]_vars

(* Every signature lookup is paid for before it is made, whatever becomes   *)
(* of it: within a window the database sees no more of them than the limit. *)
LookupsArePaidFor == lookups <= spent["verify"]

(* main.py: the security headers are applied to every response (here: to    *)
(* every one but the answers to preflights).                                *)
EveryResponseSecured ==
    depth = 0 /\ ~IsPreflight(request) => response.secured

=============================================================================
