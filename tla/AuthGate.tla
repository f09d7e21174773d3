------------------------------ MODULE AuthGate ------------------------------
(***************************************************************************)
(* The service around the limiter: POST /auth/token issues tokens behind    *)
(* it, the protected endpoints accept them until they expire, and          *)
(* POST /agents/verify-signature is limited too (auth.py, security.py,     *)
(* dependencies.py).  Time passes in ticks; JWT knows only whole seconds.  *)
(***************************************************************************)
EXTENDS RateLimiter

CONSTANTS
    TokenClients,   \* the Clients of the token endpoint
    Second,         \* ticks of a second
    Lifetime,       \* seconds a token is issued for
    MaxRestarts     \* bound on restarts of the process

ASSUME LifetimeAssumption ==
    /\ Second \in Nat \ {0}
    /\ Lifetime \in Nat \ {0}
    /\ MaxRestarts \in Nat
    /\ TokenClients \subseteq Clients

VARIABLES
    tokens,     \* history: all tokens ever issued
    restarts    \* how often the limiter forgot what it had counted

gate == <<tokens, restarts>>

Token == [client : TokenClients, user : Nat, issued : 0 .. MaxTime,
          exp : 0 .. MaxTime \div Second + Lifetime]

TokenTypes ==
    /\ tokens \subseteq Token
    /\ restarts \in 0 .. MaxRestarts

(* Types of the gate and of the limiter it uses; no deque outgrows Limit.   *)
GateTypeOK == TypeOK /\ TokenTypes

GateInit ==
    /\ Init
    /\ tokens = {} /\ restarts = 0

(* Slip: the expiry is rounded up to a whole second.                       *)
ExpiryRoundedUp(now) == (now + Lifetime * Second) \div Second + 1

(* create_access_token adds the lifetime; PyJWT drops fractions of seconds. *)
Expiry(now) == (now + Lifetime * Second) \div Second

(* What a protected request with this token is let through by: jwt.decode  *)
(* refuses from the instant of exp on, and no role is ever missing, since   *)
(* tokens are issued with all of them.                                     *)
Valid(token) == token.exp * Second > clock

(* Slip: the verdict of the limiter is ignored.                            *)
AdmitsAnyone(c) == TRUE

(* With RATE_LIMIT_ENABLED as it is by default; tests switch the limiter   *)
(* off, and nothing is then limited or recorded.                           *)
Admits(c) == Len(Evicted(windows[call[c].client], call[c].at - Window)) < Limit

(* The limiter is asked first, whatever the credentials are, and charges   *)
(* wrong ones too; the handler has no await before it answers.             *)
Login(c, correct) ==
    /\ call[c].client \in TokenClients
    /\ Decide(c)
    /\ tokens' = IF Admits(c) /\ correct
                 THEN tokens \cup {[client |-> call[c].client, user |-> Cardinality(tokens),
                                    issued |-> clock, exp |-> Expiry(clock)]}
                 ELSE tokens
    /\ UNCHANGED restarts

(* The other limited endpoint.                                             *)
VerifySignature(c) ==
    /\ call[c].client \notin TokenClients
    /\ Decide(c)
    /\ UNCHANGED gate

(* A restart, or reset, empties the limiter; the secret, and with it every *)
(* token, survives in the environment.                                     *)
RestartGate ==
    /\ restarts < MaxRestarts
    /\ Restart \/ Reset
    /\ restarts' = restarts + 1
    /\ UNCHANGED tokens

GateNext ==
    \/ Tick /\ UNCHANGED gate
    \/ \E c \in Callers, k \in Clients : Sample(c, k) /\ UNCHANGED gate
    \/ \E c \in Callers : VerifySignature(c) \/ \E correct \in BOOLEAN : Login(c, correct)
    \/ RestartGate

GateSpec == GateInit /\ [][GateNext]_<<vars, gate>>

-----------------------------------------------------------------------------

(* Windows that begin within the lifetime of one token.                    *)
WindowsPerLifetime == (Lifetime * Second + Window) \div (Window + 1)

(* However long a client tries, it never holds more valid tokens than the  *)
(* limiter admits logins in the lifetime of one, as many again for every   *)
(* restart, and one for a call that was under way when the lifetime began. *)
ValidTokensAreBounded ==
    \A k \in TokenClients :
        Cardinality({token \in tokens : token.client = k /\ Valid(token)})
            <= Limit * WindowsPerLifetime * (1 + restarts) + 1

(* No token is accepted longer than it was issued for; none is refused     *)
(* before its last second.                                                 *)
LifetimeIsKept ==
    \A token \in tokens :
        LET age == clock - token.issued
        IN IF Valid(token) THEN age < Lifetime * Second
                           ELSE age > (Lifetime - 1) * Second

=============================================================================
