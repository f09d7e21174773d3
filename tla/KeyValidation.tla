--------------------------- MODULE KeyValidation ---------------------------
(***************************************************************************)
(* What a registration checks of the keys in its payload before it saves   *)
(* them, what it stores of them, and what a later signature verification   *)
(* does with what was stored (key_verifier_service.py and its callers).    *)
(*                                                                         *)
(* A PEM text is known by what the code can tell of it: the block it       *)
(* holds, the key in that block, how the words "private key" occur in it,  *)
(* which of the many ways to write the same key down it is, and whether    *)
(* white space surrounds it.                                               *)
(***************************************************************************)
EXTENDS Naturals, FiniteSets, Sequences, SequencesExt

CONSTANTS
    Materials,      \* key pairs
    Kind,           \* of each: "ed25519", "rsa", "short rsa", a curve, or "other"
    Encodings,      \* ways to write a key: line ends, line lengths, comments
    Texts,          \* the PEM texts clients submit
    MaxKeys,        \* bound on the keys of a payload
    MaxRows         \* bound on the rows of public_keys

Algorithms == {"ED25519", "ECDSA_P256", "RSA_4096", "SECP256K1"}

PemText == [block : {"public", "private", "none"}, material : Materials,
            encoding : Encodings, words : {"none", "other case", "verbatim"},
            padded : BOOLEAN]

(* A private block is introduced by the words it is recognised by.         *)
ASSUME TextsAssumption ==
    /\ Texts \subseteq PemText
    /\ \A t \in Texts : t.block = "private" => t.words = "verbatim"

ASSUME BoundsAssumption == MaxKeys \in Nat \ {0} /\ MaxRows \in Nat

VARIABLES
    payload,    \* the public_keys of the request being served, or empty
    validated,  \* validated_keys of RegisterAgentUseCase.execute
    answer,     \* what the last request was answered
    stored      \* the rows of public_keys

vars == <<payload, validated, answer, stored>>

Curves == {"p256", "secp256k1", "other curve"}

SubmittedKey == [text : Texts, algorithm : Algorithms]

(* Slip: only texts that introduce a private block are recognised.         *)
IsPrivateBlock(t) == t.block = "private"

(* The patterns end in the bare words, whatever their case; the loader     *)
(* accepts nothing that they let through.                                  *)
IsPrivate(t) == t.words # "none" \/ t.block = "private"

(* Slip: the EC branch is missing, so that any key passes as one.          *)
SuitsUnlessNamed(kind, algorithm) ==
    CASE algorithm = "ED25519"  -> kind = "ed25519"
      [] algorithm = "RSA_4096" -> kind = "rsa"
      [] OTHER                  -> TRUE

(* "rsa" has at least 2048 bits; both EC algorithms accept any curve.      *)
Suits(kind, algorithm) ==
    CASE algorithm = "ED25519"  -> kind = "ed25519"
      [] algorithm = "RSA_4096" -> kind = "rsa"
      [] OTHER                  -> kind \in Curves

IsValid(t, algorithm) == t.block = "public" /\ Suits(Kind[t.material], algorithm)

(* Slip: the key is validated before the guard against private keys.       *)
ObjectionValidityFirst(key) ==
    IF ~ IsValid(key.text, key.algorithm) THEN "INVALID_PUBLIC_KEY"
    ELSE IF IsPrivate(key.text) THEN "PRIVATE_KEY_FORBIDDEN"
    ELSE "none"

Objection(key) ==
    IF IsPrivate(key.text) THEN "PRIVATE_KEY_FORBIDDEN"
    ELSE IF ~ IsValid(key.text, key.algorithm) THEN "INVALID_PUBLIC_KEY"
    ELSE "none"

(* key_id is the SHA-256 of the stripped text: equal for equal texts only. *)
Entity(key) ==
    LET clean == [key.text EXCEPT !.padded = FALSE]
    IN [key_id |-> clean, pem |-> clean, algorithm |-> key.algorithm]

Init ==
    /\ payload = <<>>
    /\ validated = <<>>
    /\ answer = "none"
    /\ stored = {}

Submit(keys) ==
    /\ payload = <<>>
    /\ payload' = keys
    /\ answer' = "none"
    /\ UNCHANGED <<validated, stored>>

(* Slip: the validated keys outlive the request.                           *)
FinishKeepingKeys(a) ==
    /\ payload' = <<>>
    /\ answer' = a
    /\ UNCHANGED validated

Finish(a) ==
    /\ payload' = <<>>
    /\ validated' = <<>>
    /\ answer' = a

NextSubmitted == payload[Len(validated) + 1]

(* One turn of the loop: the private-key guard, the validation, the        *)
(* entity; the first exception ends the request.                           *)
CheckKey ==
    /\ Len(validated) < Len(payload)
    /\ UNCHANGED stored
    /\ IF Objection(NextSubmitted) = "none"
       THEN /\ validated' = Append(validated, Entity(NextSubmitted))
            /\ UNCHANGED <<payload, answer>>
       ELSE Finish(Objection(NextSubmitted))

(* chk_no_private_key, with PostgreSQL's LIKE, which regards the case.     *)
Constrained(row) == row.pem.words = "verbatim"

(* The rows of module Registration, all or none (a taken or repeated       *)
(* key_id is its InsertConflict).                                          *)
Save ==
    /\ payload # <<>>
    /\ Len(validated) = Len(payload)
    /\ LET rows == ToSet(validated)
           ids == {row.key_id : row \in rows}
       IN IF \E row \in rows : Constrained(row)
          THEN Finish("constraint") /\ UNCHANGED stored
          ELSE IF \/ ids \cap {row.key_id : row \in stored} # {}
                  \/ \E i, j \in DOMAIN validated :
                        i # j /\ validated[i].key_id = validated[j].key_id
          THEN Finish("duplicate") /\ UNCHANGED stored
          ELSE Finish("created") /\ stored' = stored \cup rows

Next ==
    \/ /\ Cardinality(stored) + MaxKeys <= MaxRows
       /\ \E n \in 1 .. MaxKeys : \E keys \in [1 .. n -> SubmittedKey] : Submit(keys)
    \/ CheckKey
    \/ Save

Spec == Init /\ [][Next]_vars

(* Slip: RSA signatures are verified with the older padding.                *)
SchemePkcs(kind) ==
    CASE kind = "ed25519"               -> "eddsa"
      [] kind \in {"rsa", "short rsa"}  -> "pkcs1v15"
      [] kind \in Curves                -> "ecdsa"
      [] OTHER                          -> "none"

(* The branch verify_signature takes goes by the type of the loaded key,    *)
(* not by the algorithm of the row; other types verify nothing.             *)
SchemeOf(kind) ==
    CASE kind = "ed25519"               -> "eddsa"
      [] kind \in {"rsa", "short rsa"}  -> "pss"
      [] kind \in Curves                -> "ecdsa"
      [] OTHER                          -> "none"

(* TRUE, FALSE, or an exception for what does not load.                     *)
VerifySignature(pem, signer, scheme) ==
    IF pem.block # "public" THEN "InvalidPublicKeyException"
    ELSE signer = pem.material /\ scheme = SchemeOf(Kind[pem.material])

-----------------------------------------------------------------------------

TypeOK ==
    /\ payload \in Seq(SubmittedKey)
    /\ Len(validated) <= Len(payload)
    /\ answer \in {"none", "created", "duplicate", "constraint",
                   "PRIVATE_KEY_FORBIDDEN", "INVALID_PUBLIC_KEY"}
    /\ \A row \in stored : row.pem \in PemText /\ row.algorithm \in Algorithms

(* No text with a private key gets past the guard: none is stored, and the  *)
(* check constraint behind the guard, which would answer 500, never fires.  *)
GuardSparesTheConstraint ==
    /\ answer # "constraint"
    /\ \A row \in stored : row.pem.block = "public"

(* The scheme a client signs with that goes by the algorithm of its key.    *)
Promised(algorithm) == CASE algorithm = "ED25519"  -> "eddsa"
                         [] algorithm = "RSA_4096" -> "pss"
                         [] OTHER                  -> "ecdsa"

(* Whatever was registered verifies: the signatures its own key pair makes  *)
(* with the algorithm of the row, and nobody else's.                        *)
StoredKeysVerify ==
    \A row \in stored : \A signer \in Materials :
        VerifySignature(row.pem, signer, Promised(row.algorithm)) =
            (signer = row.pem.material)

(* The first key of a payload that has anything wrong with it decides the  *)
(* refusal, and the guard goes first there: the answer names a private key *)
(* whenever that text looks like one, whatever else is wrong with it.  A   *)
(* private key behind a key that is merely invalid is not looked at.       *)
Alarming(text) == text.words # "none" \/ text.block = "private"

FirstFaultDecides ==
    [][answer = "none" /\ answer' \in {"PRIVATE_KEY_FORBIDDEN", "INVALID_PUBLIC_KEY"} =>
        \E n \in DOMAIN payload :
            /\ \A k \in 1 .. n - 1 :
                    /\ payload[k].text.block = "public" /\ ~Alarming(payload[k].text)
                    /\ Suits(Kind[payload[k].text.material], payload[k].algorithm)
            /\ IF answer' = "PRIVATE_KEY_FORBIDDEN" THEN Alarming(payload[n].text)
               ELSE /\ ~Alarming(payload[n].text)
                    /\ payload[n].text.block = "public" =>
                            ~Suits(Kind[payload[n].text.material], payload[n].algorithm)]_vars

(* public_key.py: the fingerprint is canonical, one key has one key_id.     *)
CanonicalFingerprint ==
    \A row, other \in stored :
        row.pem.material = other.pem.material => row.key_id = other.key_id

(* README.md: RSA signatures with either padding are verified.              *)
DocumentedPaddings ==
    \A row \in stored : Kind[row.pem.material] = "rsa" =>
        \A scheme \in {"pss", "pkcs1v15"} :
            VerifySignature(row.pem, row.pem.material, scheme) = TRUE

=============================================================================
