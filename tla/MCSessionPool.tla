--------------------------- MODULE MCSessionPool ---------------------------
(***************************************************************************)
(* Two writers of the same agent, a reader and a probe, more of them than  *)
(* connections; one connection is kept, the other is overflow.             *)
(***************************************************************************)
EXTENDS SessionPool

CONSTANTS w1, w2, r1, probe, c1, c2

KindOf == [r \in Requests |-> CASE r \in {w1, w2} -> "writer"
                                [] r = probe -> "probe"
                                [] OTHER -> "reader"]

=============================================================================
