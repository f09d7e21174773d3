----------------------------- MODULE MCAuthGate -----------------------------
(***************************************************************************)
(* One client of the token endpoint and one of the signature endpoint,     *)
(* half-second ticks, tokens of two seconds: a lifetime spans two windows. *)
(***************************************************************************)
EXTENDS AuthGate, TLC

CONSTANTS c1, c2, p1, p2

=============================================================================
