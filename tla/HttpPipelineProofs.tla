------------------------- MODULE HttpPipelineProofs -------------------------
(***************************************************************************)
(* What the layers of main.py do to answers and exceptions, for any limit  *)
(* and any sequence of requests and windows.                               *)
(***************************************************************************)
EXTENDS HttpPipeline, TLAPS

(* What may be on its way out.                                             *)
Codes == {"none", "ok", "detail", "PRIVATE_KEY_FORBIDDEN", "INVALID_PUBLIC_KEY",
          "AGENT_NOT_FOUND", "DOMAIN_ERROR", "BAD_REQUEST_ENCODING",
          "INTERNAL_SERVER_ERROR"}

Responses == [status : Nat, code : Codes, cors : BOOLEAN, secured : BOOLEAN]

Exceptions == {"PrivateKeyDetectedException", "InvalidPublicKeyException",
               "AgentNotFoundException", "DomainException", "ValueError", "Other"}

(* An exception does not get past the layer that answers it.               *)
ExceptionsStayInside == raised # "none" => depth \in {2, 3}

PInv ==
    /\ TypeOK
    /\ response \in Responses
    /\ inward => depth # 0
    /\ ExceptionsStayInside
    /\ lookups \in Nat
    /\ LookupsArePaidFor
    /\ AllowedOriginsReadErrors

-----------------------------------------------------------------------------
(* The stack and its tables.                                               *)

(* add_middleware puts each layer around those added before it.            *)
LEMMA Stack ==
    /\ Router = 4 /\ DOMAIN Layers = 1 .. 3
    /\ Layers[1] = "cors" /\ Layers[2] = "exceptions" /\ Layers[3] = "headers"
<1>1. Layers = [i \in 1 .. 3 |-> Added[3 - i + 1]]
  BY DEF Layers, Reverse, Added
<1>2. Len(Layers) = 3
  BY <1>1
<1> QED BY <1>1, <1>2 DEF Router, Added

(* The names of the exceptions.                                            *)
LEMMA ExceptionNames == DOMAIN Ancestors = Exceptions
BY DEF Ancestors, Exceptions

(* The smallest member of a set of numbers.                                *)
LEMMA Smallest ==
    ASSUME NEW S \in SUBSET Nat, NEW n \in S, \A m \in S : n <= m
    PROVE  Min(S) = n
<1>1. Min(S) \in S /\ \A m \in S : Min(S) <= m
  BY DEF Min
<1>2. Min(S) \in Nat /\ n \in Nat
  BY <1>1
<1> QED BY <1>1, <1>2

(* What an answer of the application says.                                 *)
LEMMA AnswerSays ==
    ASSUME NEW status \in Nat, NEW code \in Codes
    PROVE  /\ Answer(status, code) \in Responses
           /\ Answer(status, code).status = status
           /\ Answer(status, code).code = code
BY DEF Answer, Responses

(* A search that finds something finds a place of the list that passes.    *)
LEMMA FirstFailure ==
    ASSUME NEW r
    PROVE  /\ Failing(r) = 0 => \A n \in 1 .. 6 : ~ Fails(r, Checks[n])
           /\ Failing(r) # 0 => Failing(r) \in 1 .. 6
<1> DEFINE I == {n \in 1 .. Len(Checks) : Fails(r, Checks[n])}
<1>1. Len(Checks) = 6
  BY DEF Checks
<1>2. Failing(r) = IF I # {} THEN Min(I) ELSE 0
  BY DEF Failing, SelectInSeq
<1>3. ASSUME I # {} PROVE Min(I) \in I
  <2>1. \E n \in I : \A m \in I : n <= m
    BY <1>1, <1>3
  <2> QED BY <2>1 DEF Min
<1> QED BY <1>1, <1>2, <1>3

(* Every exception is answered by the clause of its own class, although    *)
(* classes contain each other and only the order of the clauses decides.   *)
LEMMA OwnClause ==
    ASSUME NEW e \in Exceptions
    PROVE  /\ Caught(e) \in Responses
           /\ <<Caught(e).status, Caught(e).code>> = Documented[e]
<1> DEFINE I == {n \in 1 .. Len(Clauses) : Is(e, Clauses[n].class)}
<1>1. Caught(e) = Clauses[IF I # {} THEN Min(I) ELSE 0].answer
  BY DEF Caught, SelectInSeq
<1>2. Len(Clauses) = 6 /\ I \in SUBSET Nat
  BY DEF Clauses
<1>3. /\ Clauses[1] = Clause("PrivateKeyDetectedException", 400, "PRIVATE_KEY_FORBIDDEN")
      /\ Clauses[2] = Clause("InvalidPublicKeyException", 400, "INVALID_PUBLIC_KEY")
      /\ Clauses[3] = Clause("AgentNotFoundException", 404, "AGENT_NOT_FOUND")
      /\ Clauses[4] = Clause("DomainException", 400, "DOMAIN_ERROR")
      /\ Clauses[5] = Clause("ValueError", 400, "BAD_REQUEST_ENCODING")
      /\ Clauses[6] = Clause("Exception", 500, "INTERNAL_SERVER_ERROR")
  BY DEF Clauses
<1>4. ASSUME NEW n \in I, \A m \in I : n <= m
      PROVE  Caught(e) = Clauses[n].answer
  BY <1>1, <1>2, <1>4, Smallest
<1>5. CASE e = "PrivateKeyDetectedException"
  <2>1. 1 \in I /\ \A m \in I : 1 <= m
    BY <1>2, <1>3, <1>5 DEF Is, Ancestors, Clause
  <2>2. Clauses[1].answer = Answer(400, "PRIVATE_KEY_FORBIDDEN")
    BY <1>3 DEF Clause
  <2>3. Documented[e] = <<400, "PRIVATE_KEY_FORBIDDEN">>
    BY <1>5 DEF Documented
  <2>4. Caught(e) = Clauses[1].answer
    BY <1>4, <2>1
  <2> QED BY <2>2, <2>3, <2>4, AnswerSays DEF Codes
<1>6. CASE e = "InvalidPublicKeyException"
  <2>1. 2 \in I /\ \A m \in I : 2 <= m
    BY <1>2, <1>3, <1>6 DEF Is, Ancestors, Clause
  <2>2. Clauses[2].answer = Answer(400, "INVALID_PUBLIC_KEY")
    BY <1>3 DEF Clause
  <2>3. Documented[e] = <<400, "INVALID_PUBLIC_KEY">>
    BY <1>6 DEF Documented
  <2>4. Caught(e) = Clauses[2].answer
    BY <1>4, <2>1
  <2> QED BY <2>2, <2>3, <2>4, AnswerSays DEF Codes
<1>7. CASE e = "AgentNotFoundException"
  <2>1. 3 \in I /\ \A m \in I : 3 <= m
    BY <1>2, <1>3, <1>7 DEF Is, Ancestors, Clause
  <2>2. Clauses[3].answer = Answer(404, "AGENT_NOT_FOUND")
    BY <1>3 DEF Clause
  <2>3. Documented[e] = <<404, "AGENT_NOT_FOUND">>
    BY <1>7 DEF Documented
  <2>4. Caught(e) = Clauses[3].answer
    BY <1>4, <2>1
  <2> QED BY <2>2, <2>3, <2>4, AnswerSays DEF Codes
<1>8. CASE e = "DomainException"
  <2>1. 4 \in I /\ \A m \in I : 4 <= m
    BY <1>2, <1>3, <1>8 DEF Is, Ancestors, Clause
  <2>2. Clauses[4].answer = Answer(400, "DOMAIN_ERROR")
    BY <1>3 DEF Clause
  <2>3. Documented[e] = <<400, "DOMAIN_ERROR">>
    BY <1>8 DEF Documented
  <2>4. Caught(e) = Clauses[4].answer
    BY <1>4, <2>1
  <2> QED BY <2>2, <2>3, <2>4, AnswerSays DEF Codes
<1>9. CASE e = "ValueError"
  <2>1. 5 \in I /\ \A m \in I : 5 <= m
    BY <1>2, <1>3, <1>9 DEF Is, Ancestors, Clause
  <2>2. Clauses[5].answer = Answer(400, "BAD_REQUEST_ENCODING")
    BY <1>3 DEF Clause
  <2>3. Documented[e] = <<400, "BAD_REQUEST_ENCODING">>
    BY <1>9 DEF Documented
  <2>4. Caught(e) = Clauses[5].answer
    BY <1>4, <2>1
  <2> QED BY <2>2, <2>3, <2>4, AnswerSays DEF Codes
<1>10. CASE e = "Other"
  <2>1. 6 \in I /\ \A m \in I : 6 <= m
    BY <1>2, <1>3, <1>10 DEF Is, Ancestors, Clause
  <2>2. Clauses[6].answer = Answer(500, "INTERNAL_SERVER_ERROR")
    BY <1>3 DEF Clause
  <2>3. Documented[e] = <<500, "INTERNAL_SERVER_ERROR">>
    BY <1>10 DEF Documented
  <2>4. Caught(e) = Clauses[6].answer
    BY <1>4, <2>1
  <2> QED BY <2>2, <2>3, <2>4, AnswerSays DEF Codes
<1> QED BY <1>5, <1>6, <1>7, <1>8, <1>9, <1>10 DEF Exceptions

-----------------------------------------------------------------------------
(* Requests on their way.                                                  *)

(* Every route but an unmatched one may raise and answer.                  *)
LEMMA Outcomes ==
    ASSUME NEW route \in Routes, route # "unmatched"
    PROVE  /\ Raises[route] \subseteq Exceptions
           /\ Answers(route) \subseteq Responses
<1>1. Raises[route] \subseteq Exceptions
  BY DEF Raises, Exceptions, Routes, HasBody
<1>2. Answers(route) \subseteq Responses
  BY AnswerSays DEF Answers, Codes
<1> QED BY <1>1, <1>2

(* A proper request that passes all checks is for a route, and has budget. *)
LEMMA PassesChecks ==
    ASSUME NEW r \in Request, Failing(r) = 0
    PROVE  /\ r.route \in Routes /\ r.route # "unmatched"
           /\ r.route \in Limited => ~ SpentUp(r.route)
<1>1. ~ Fails(r, "match") /\ ~ Fails(r, "limit")
  <2>1. Checks[1] = "match" /\ Checks[6] = "limit"
    BY DEF Checks
  <2> QED BY <2>1, FirstFailure
<1> QED BY <1>1 DEF Fails, Request

(* A refusal is an answer.                                                 *)
LEMMA RefusalTyped ==
    ASSUME NEW n \in 1 .. 6
    PROVE  Refusals[Checks[n]] \in Responses
<1>1. Checks[n] \in {"match", "json", "token", "role", "schema", "limit"}
  BY DEF Checks
<1> QED BY <1>1, AnswerSays DEF Refusals, Codes

(* The first request has spent nothing.                                    *)
LEMMA PInvInit == Init => PInv
BY Stack, AnswerSays, BudgetAssumption
DEF Init, PInv, TypeOK, NoResponse, Codes, ExceptionsStayInside, LookupsArePaidFor,
    AllowedOriginsReadErrors, Limited

(* A step on the way out that does what it has to.                          *)
OnTheWayOut ==
    /\ request' = request /\ inward' = FALSE /\ depth' \in 0 .. 3
    /\ response' \in Responses /\ raised' \in Exceptions \cup {"none"}
    /\ raised' # "none" => response' = NoResponse /\ depth' \in {2, 3}
    /\ depth' = 0 /\ request.origin = "allowed" => response'.cors
    /\ spent' \in [Limited -> 0 .. Limit]
    /\ lookups' \in Nat /\ lookups' <= spent'["verify"]

(* It keeps the invariant.                                                 *)
LEMMA WayOut == PInv /\ OnTheWayOut => PInv'
<1> SUFFICES ASSUME PInv, OnTheWayOut PROVE PInv'
  OBVIOUS
<1>1. TypeOK'
  <2>1. depth' \in 0 .. Router /\ request' \in Request
    BY Stack DEF OnTheWayOut, PInv, TypeOK
  <2>2. inward' \in BOOLEAN
    BY DEF OnTheWayOut
  <2>3. raised' \in DOMAIN Ancestors \cup {"none"} /\ spent' \in [Limited -> 0 .. Limit]
    BY ExceptionNames DEF OnTheWayOut
  <2>4. /\ raised' # "none" => response' = NoResponse /\ ~inward'
        /\ depth' = 0 => raised' = "none"
    BY DEF OnTheWayOut
  <2> QED BY <2>1, <2>2, <2>3, <2>4 DEF TypeOK
<1>2. LookupsArePaidFor' /\ ExceptionsStayInside'
  BY DEF OnTheWayOut, LookupsArePaidFor, ExceptionsStayInside
<1>3. AllowedOriginsReadErrors'
  BY DEF OnTheWayOut, AllowedOriginsReadErrors
<1> QED BY <1>1, <1>2, <1>3 DEF PInv, OnTheWayOut

(* Every step of a request keeps the invariant.                            *)
LEMMA PInvNext == PInv /\ [Next]_vars => PInv'
<1> SUFFICES ASSUME PInv, [Next]_vars PROVE PInv'
  OBVIOUS
<1> USE DEF PInv, TypeOK, ExceptionsStayInside, LookupsArePaidFor, AllowedOriginsReadErrors
<1>0. NoResponse \in Responses /\ "verify" \in Limited
  BY AnswerSays DEF NoResponse, Codes, Limited
<1>types. /\ spent \in [Limited -> 0 .. Limit]
          /\ lookups \in Nat /\ lookups <= spent["verify"]
          /\ raised \in Exceptions \cup {"none"}
          /\ response \in Responses
          /\ raised # "none" => response = NoResponse /\ depth \in {2, 3}
  BY ExceptionNames
<1>1. CASE UNCHANGED vars
  BY <1>1 DEF vars
<1>2. CASE Arrive
  BY <1>0, <1>2, Stack DEF Arrive
<1>3. CASE WindowPasses
  BY <1>0, <1>3, BudgetAssumption DEF WindowPasses
<1>4. CASE Enter
  <2>1. /\ inward = TRUE /\ raised = "none" /\ depth \in 1 .. 3
        /\ UNCHANGED <<request, raised, spent, lookups>>
    BY <1>4, Stack DEF Enter
  <2>2. CASE Layers[depth] = "cors" /\ IsPreflight(request)
    <3> DEFINE answer == Answer(IF request.origin = "allowed" THEN 200 ELSE 400, "detail")
               allowed == request.origin = "allowed"
    <3>1. depth = 1
      BY <2>1, <2>2, Stack
    <3>2. /\ response' = [answer EXCEPT !.cors = allowed]
          /\ inward' = FALSE /\ depth' = 0
      BY <1>4, <2>2, <3>1 DEF Enter, Outward
    <3>3. answer \in Responses
      BY AnswerSays DEF Codes
    <3> HIDE DEF answer
    <3>4. response' \in Responses /\ (allowed => response'.cors)
      BY <3>2, <3>3 DEF Responses
    <3>out. OnTheWayOut
      BY <1>types, <2>1, <3>2, <3>4 DEF OnTheWayOut
    <3> HIDE DEF PInv, TypeOK, ExceptionsStayInside, LookupsArePaidFor, AllowedOriginsReadErrors
    <3> QED BY <3>out, WayOut
  <2>3. CASE ~ (Layers[depth] = "cors" /\ IsPreflight(request))
    <3>1. depth' = depth + 1 /\ UNCHANGED <<inward, response>>
      BY <1>4, <2>3 DEF Enter
    <3> QED BY <2>1, <3>1, Stack
  <2> QED BY <2>2, <2>3
<1>5. CASE RouterRefuses
  <2>1. PICK answer \in Responses : Outward(answer)
    <3>1. CASE Outward(Answer(405, "detail"))
      BY <3>1, AnswerSays DEF Codes
    <3>2. CASE Failing(request) # 0 /\ Outward(Refusals[Checks[Failing(request)]])
      BY <3>2, FirstFailure, RefusalTyped
    <3> QED BY <1>5, <3>1, <3>2 DEF RouterRefuses
  <2>2. /\ inward /\ depth = 4 /\ raised = "none"
        /\ UNCHANGED <<request, raised, spent, lookups>>
    BY <1>5, Stack DEF RouterRefuses
  <2>3. inward' = FALSE /\ depth' = 3 /\ response' \in Responses
    BY <2>1, <2>2 DEF Outward
  <2>out. OnTheWayOut
    BY <1>types, <2>2, <2>3 DEF OnTheWayOut
  <2> HIDE DEF PInv, TypeOK, ExceptionsStayInside, LookupsArePaidFor, AllowedOriginsReadErrors
  <2> QED BY <2>out, WayOut
<1>6. CASE Endpoint
  <2>1. /\ inward /\ depth = 4 /\ raised = "none" /\ UNCHANGED request
        /\ request.route \in Routes /\ request.route # "unmatched"
        /\ request.route \in Limited => ~ SpentUp(request.route)
    BY <1>6, Stack, PassesChecks DEF Endpoint
  <2>2. PICK exception \in Raises[request.route] \cup {"none"} :
            /\ raised' = exception
            /\ Charged(request, exception)
            /\ lookups' = IF LooksUp(request, exception) THEN lookups + 1 ELSE lookups
            /\ \E answer \in IF exception = "none" THEN Answers(request.route)
                              ELSE {NoResponse} :
                  Outward(answer)
    BY <1>6 DEF Endpoint
  <2>3. PICK answer \in Responses :
            Outward(answer) /\ (exception # "none" => answer = NoResponse)
    BY <1>0, <2>1, <2>2, Outcomes
  <2>4. response' \in Responses /\ inward' = FALSE /\ depth' = 3
    BY <2>1, <2>3 DEF Outward
  <2>5. raised' \in Exceptions \cup {"none"} /\ (raised' # "none" => response' = NoResponse)
    BY <2>1, <2>2, <2>3, Outcomes DEF Outward
  <2>6. spent' \in [Limited -> 0 .. Limit]
    BY <2>1, <2>2, BudgetAssumption DEF Charged, SpentUp
  <2>7. lookups' \in Nat /\ lookups' <= spent'["verify"]
    BY <1>0, <2>1, <2>2, BudgetAssumption DEF Charged, SpentUp, LooksUp
  <2>out. OnTheWayOut
    BY <2>1, <2>4, <2>5, <2>6, <2>7 DEF OnTheWayOut
  <2> HIDE DEF PInv, TypeOK, ExceptionsStayInside, LookupsArePaidFor, AllowedOriginsReadErrors
  <2> QED BY <2>out, WayOut
<1>7. CASE Leave
  <2>1. /\ ~ inward /\ depth \in 1 .. 3
        /\ UNCHANGED <<request, spent, lookups>>
        /\ raised' = IF Layers[depth] = "exceptions" THEN "none" ELSE raised
        /\ depth' = depth - 1 /\ inward' = FALSE
    BY <1>7, Stack DEF Leave, Outward
  <2>2. CASE depth = 1
    <3>1. raised = "none"
      BY <2>2
    <3>2. response' = [response EXCEPT !.cors = request.origin = "allowed"]
      BY <1>7, <2>2, <3>1, Stack DEF Leave, Outward
    <3>3. response' \in Responses /\ (request.origin = "allowed" => response'.cors)
      BY <3>2 DEF Responses
    <3>4. raised' = "none" /\ depth' = 0
      BY <2>1, <2>2, <3>1
    <3>out. OnTheWayOut
      BY <1>types, <2>1, <3>3, <3>4 DEF OnTheWayOut
    <3> HIDE DEF PInv, TypeOK, ExceptionsStayInside, LookupsArePaidFor, AllowedOriginsReadErrors
    <3> QED BY <3>out, WayOut
  <2>3. CASE depth = 2
    <3>1. response' = IF raised # "none" THEN Caught(raised) ELSE response
      BY <1>7, <2>3, Stack DEF Leave, Outward
    <3>2. response' \in Responses
      BY <3>1, ExceptionNames, OwnClause
    <3>3. raised' = "none" /\ depth' = 1
      BY <2>1, <2>3, Stack
    <3>out. OnTheWayOut
      BY <1>types, <2>1, <3>2, <3>3 DEF OnTheWayOut
    <3> HIDE DEF PInv, TypeOK, ExceptionsStayInside, LookupsArePaidFor, AllowedOriginsReadErrors
    <3> QED BY <3>out, WayOut
  <2>4. CASE depth = 3
    <3>1. response' = IF raised # "none" THEN NoResponse
                      ELSE [response EXCEPT !.secured = TRUE]
      BY <1>7, <2>4, Stack DEF Leave, Outward
    <3>2. response' \in Responses
      BY <1>0, <3>1 DEF Responses
    <3>3. raised' = raised /\ depth' = 2
      BY <2>1, <2>4, Stack
    <3>4. raised' # "none" => response' = NoResponse
      BY <3>1, <3>3
    <3> HIDE DEF PInv, TypeOK, ExceptionsStayInside, LookupsArePaidFor, AllowedOriginsReadErrors
    <3>5. request' = request /\ inward' = FALSE /\ spent' = spent /\ lookups' = lookups
      BY <2>1
    <3>6. raised' \in Exceptions \cup {"none"}
      BY <1>types, <3>3
    <3>out. OnTheWayOut
      BY <1>types, <3>2, <3>3, <3>4, <3>5, <3>6 DEF OnTheWayOut
    <3> QED BY <3>out, WayOut
  <2> QED BY <2>1, <2>2, <2>3, <2>4
<1> QED BY <1>1, <1>2, <1>3, <1>4, <1>5, <1>6, <1>7 DEF Next

(* The invariant of the stack.                                             *)
THEOREM PipelineInductive == Spec => []PInv
BY PInvInit, PInvNext, PTL DEF Spec

(* The budget of the limited routes and the way of a request through the   *)
(* layers keep their types: no admission exceeds the limit, and no client  *)
(* is left with an exception.                                              *)
THEOREM PipelineTypeOK == Spec => []TypeOK
<1>1. PInv => TypeOK
  BY DEF PInv
<1> QED BY <1>1, PipelineInductive, PTL

(* Whichever layer answers, a browser of an allowed origin can read it.    *)
THEOREM ErrorsAreReadable == Spec => []AllowedOriginsReadErrors
<1>1. PInv => AllowedOriginsReadErrors
  BY DEF PInv
<1> QED BY <1>1, PipelineInductive, PTL

(* agents.py: enforce_rate_limit comes before anything that can fail.      *)
THEOREM LookupsPaid == Spec => []LookupsArePaidFor
<1>1. PInv => LookupsArePaidFor
  BY DEF PInv
<1> QED BY <1>1, PipelineInductive, PTL

(* Each exception leaves the stack as the answer documented for its class. *)
THEOREM FailuresNamed == Spec => FailuresKeepTheirNames
<1>1. PInv /\ [Next]_vars =>
        (raised # "none" /\ raised' = "none" =>
            <<response'.status, response'.code>> = Documented[raised])
  <2> SUFFICES ASSUME PInv, [Next]_vars, raised # "none", raised' = "none"
               PROVE  <<response'.status, response'.code>> = Documented[raised]
    OBVIOUS
  <2>1. ~ inward /\ depth # 0 /\ raised \in Exceptions
    BY ExceptionNames DEF PInv, TypeOK, ExceptionsStayInside
  <2>2. Leave
    BY <2>1 DEF Next, vars, Arrive, WindowPasses, Enter, RouterRefuses, Endpoint
  <2>3. Layers[depth] = "exceptions"
    BY <2>2 DEF Leave
  <2>4. response' = Caught(raised)
    BY <2>2, <2>3 DEF Leave, Outward
  <2> QED BY <2>1, <2>4, OwnClause
<1> QED BY <1>1, PipelineInductive, PTL DEF Spec, FailuresKeepTheirNames

=============================================================================
