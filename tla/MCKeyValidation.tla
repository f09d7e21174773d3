-------------------------- MODULE MCKeyValidation --------------------------
(***************************************************************************)
(* One key pair of each kind.  Every pair has a plain public text; beside  *)
(* them a private block, an RSA key in a second encoding and with white    *)
(* space around it, texts that only mention a private key, and rubbish.    *)
(***************************************************************************)
EXTENDS KeyValidation, TLC

CONSTANTS ed, rsa, short, p256, k1, p384, other

KindOf == ed :> "ed25519" @@ rsa :> "rsa" @@ short :> "short rsa" @@
          p256 :> "p256" @@ k1 :> "secp256k1" @@ p384 :> "other curve" @@ other :> "other"

Plain(m) == [block |-> "public", material |-> m, encoding |-> "lf",
             words |-> "none", padded |-> FALSE]

Submitted ==
    {Plain(m) : m \in Materials} \cup
    {[Plain(rsa) EXCEPT !.encoding = "crlf"],
     [Plain(rsa) EXCEPT !.padded = TRUE],
     [Plain(ed) EXCEPT !.words = "other case"],
     [Plain(p256) EXCEPT !.words = "verbatim"],
     [Plain(ed) EXCEPT !.block = "private", !.words = "verbatim"],
     [Plain(ed) EXCEPT !.block = "none"]}

=============================================================================
