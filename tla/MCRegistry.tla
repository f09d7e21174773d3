----------------------------- MODULE MCRegistry -----------------------------
(***************************************************************************)
(* Small instances of Registry: the workloads the runs send and the        *)
(* seeded database they start from.                                        *)
(***************************************************************************)
EXTENDS Registry, TLC

CONSTANTS r1, r2, r3, a1, k1, k2, k3, k4

RegisterWith(keys, ok) == [NoInput EXCEPT !.op = "register", !.keys = keys, !.ok = ok]
PatchTo(a, target) ==
    [NoInput EXCEPT !.op = "patch", !.agent = a, !.target = target, !.ok = TRUE]
VerifyKey(k) == [NoInput EXCEPT !.op = "verify", !.keys = <<k>>, !.ok = TRUE]
GetAgent(a) == [NoInput EXCEPT !.op = "get", !.agent = a, !.ok = TRUE]

Symmetric == Permutations(Requests)

(* The seeded agent a1 owns k1; every other key is free.                   *)
OneSeed == [k \in Keys |-> IF k = k1 THEN a1 ELSE NoAgent]

(* The seeded agent a1 owns k1 and k2.                                     *)
TwoKeys == [k \in Keys |-> IF k \in {k1, k2} THEN a1 ELSE NoAgent]

(* Every status change of one agent.                                       *)
PatchWorkload == {PatchTo(a1, t) : t \in Status}

(* Status changes of a seeded and of a newly registered agent, beside the  *)
(* verifications that must notice them.                                    *)
MixedWorkload == PatchWorkload
    \cup {VerifyKey(k1), [VerifyKey(k1) EXCEPT !.ok = FALSE]}
    \cup {RegisterWith(<<k2>>, TRUE)}
    \cup {PatchTo(r, "REVOKED") : r \in Requests}

(* Payloads that can wait for each other in a circle of two and of three,  *)
(* with a taken key after one free one or after two, one that names a key   *)
(* twice, one that is refused; and readers of what they store.              *)
Crossed == {<<k2, k3>>, <<k3, k2>>}
Circle == {<<k2, k3>>, <<k3, k4>>, <<k4, k2>>}

Doomed == {<<k3, k1>>, <<k2, k2>>, <<k3, k2, k1>>}

RegisterWorkload ==
    {RegisterWith(s, TRUE) : s \in Crossed \cup Circle \cup Doomed}
    \cup {RegisterWith(<<k2>>, FALSE), VerifyKey(k2)}
    \cup {GetAgent(r) : r \in Requests}

(* Status changes of one agent and the payloads that can block each other. *)
BlockingWorkload ==
    {PatchTo(a1, t) : t \in {"REVOKED", "SUSPENDED"}}
    \cup {RegisterWith(s, TRUE) : s \in Crossed \cup Circle}
    \cup {VerifyKey(k2), RegisterWith(<<k2>>, FALSE)}

(* A registration, and requests that look for it.                          *)
RegisterAndRead == {RegisterWith(<<k2, k3>>, TRUE), VerifyKey(k2)}
    \cup {GetAgent(r) : r \in Requests}

=============================================================================
