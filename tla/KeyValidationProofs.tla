------------------------ MODULE KeyValidationProofs ------------------------
(***************************************************************************)
(* The key checks of a registration, for any texts, key pairs and bounds.  *)
(***************************************************************************)
EXTENDS KeyValidation, TLAPS

Sound(key) == Objection(key) = "none"

SoundEntities == {Entity(key) : key \in {k \in SubmittedKey : Sound(k)}}

(* What has been validated is the beginning of the payload, and nothing    *)
(* but entities of keys without objection is ever validated or stored.     *)
KInv ==
    /\ payload \in Seq(SubmittedKey)
    /\ validated \in Seq(SoundEntities)
    /\ Len(validated) <= Len(payload)
    /\ \A n \in 1 .. Len(validated) : Sound(payload[n])
    /\ stored \subseteq SoundEntities
    /\ answer \in {"none", "created", "duplicate", "PRIVATE_KEY_FORBIDDEN",
                   "INVALID_PUBLIC_KEY"}

(* A key without objection is a public one of its algorithm, and its text   *)
(* passes the constraint of the table.                                     *)
LEMMA SoundKeys ==
    ASSUME NEW row \in SoundEntities
    PROVE  /\ row.pem \in PemText /\ row.algorithm \in Algorithms
           /\ row.pem.block = "public" /\ row.pem.words = "none"
           /\ Suits(Kind[row.pem.material], row.algorithm)
<1>1. PICK key \in SubmittedKey : Sound(key) /\ row = Entity(key)
  BY DEF SoundEntities
<1>2. key.text \in PemText /\ key.algorithm \in Algorithms
  BY TextsAssumption DEF SubmittedKey
<1>3. ~IsPrivate(key.text) /\ IsValid(key.text, key.algorithm)
  BY <1>1 DEF Sound, Objection
<1>4. /\ row.pem = [key.text EXCEPT !.padded = FALSE]
      /\ row.algorithm = key.algorithm
  BY <1>1 DEF Entity
<1>5. /\ row.pem \in PemText
      /\ row.pem.block = key.text.block /\ row.pem.words = key.text.words
      /\ row.pem.material = key.text.material
  BY <1>2, <1>4 DEF PemText
<1> QED BY <1>2, <1>3, <1>4, <1>5 DEF IsPrivate, IsValid

(* In the beginning there is neither a payload nor a row.                  *)
LEMMA KInvInit == Init => KInv
  BY DEF Init, KInv

(* A request that is submitted, checked or saved keeps the invariant.      *)
LEMMA KInvNext == KInv /\ [Next]_vars => KInv'
<1> SUFFICES ASSUME KInv, [Next]_vars PROVE KInv'
  OBVIOUS
<1>1. ASSUME NEW n \in Nat, NEW keys \in [1 .. n -> SubmittedKey], Submit(keys)
      PROVE  KInv'
  <2>1. /\ payload = <<>> /\ payload' = keys /\ answer' = "none"
        /\ UNCHANGED <<validated, stored>>
    BY <1>1 DEF Submit
  <2>2. keys \in Seq(SubmittedKey) /\ Len(keys) \in Nat
    OBVIOUS
  <2>3. Len(validated) = 0
    BY <2>1 DEF KInv
  <2> QED BY <2>1, <2>2, <2>3 DEF KInv
<1>2. CASE CheckKey
  <2> DEFINE key == NextSubmitted
  <2>1. /\ Len(validated) < Len(payload) /\ UNCHANGED stored
        /\ key \in SubmittedKey
    BY <1>2 DEF CheckKey, KInv, NextSubmitted
  <2>2. CASE Objection(key) = "none"
    <3>1. validated' = Append(validated, Entity(key)) /\ UNCHANGED <<payload, answer>>
      BY <1>2, <2>2 DEF CheckKey
    <3>2. Entity(key) \in SoundEntities
      BY <2>1, <2>2 DEF SoundEntities, Sound
    <3>3. validated' \in Seq(SoundEntities) /\ Len(validated') = Len(validated) + 1
      BY <3>1, <3>2 DEF KInv
    <3>4. \A n \in 1 .. Len(validated) + 1 : Sound(payload[n])
      BY <2>2 DEF KInv, Sound, NextSubmitted
    <3> HIDE DEF key
    <3> QED BY <2>1, <3>1, <3>3, <3>4 DEF KInv
  <2>3. CASE Objection(key) # "none"
    BY <1>2, <2>1, <2>3 DEF CheckKey, Finish, Objection, KInv
  <2> QED BY <2>2, <2>3
<1>3. CASE Save
  <2>1. /\ payload' = <<>> /\ validated' = <<>>
        /\ stored' = stored \/ stored' = stored \cup ToSet(validated)
    BY <1>3 DEF Save, Finish
  <2>2. ToSet(validated) \subseteq SoundEntities
    BY DEF KInv, ToSet
  <2>3. ~ \E row \in ToSet(validated) : Constrained(row)
    BY <2>2, SoundKeys DEF Constrained
  <2>4. answer' \in {"duplicate", "created"}
    BY <1>3, <2>3 DEF Save, Finish
  <2> QED BY <2>1, <2>2, <2>4 DEF KInv
<1>4. CASE UNCHANGED vars
  BY <1>4 DEF vars, KInv
<1> QED BY <1>1, <1>2, <1>3, <1>4, BoundsAssumption DEF Next

(* The invariant of the loop over the keys of a payload.                    *)
THEOREM KeysInductive == Spec => []KInv
  BY KInvInit, KInvNext, PTL DEF Spec

(* The types of a request under way, of its answer and of the stored rows. *)
THEOREM KeysTypeOK == Spec => []TypeOK
<1>1. KInv => TypeOK
  BY SoundKeys DEF KInv, TypeOK
<1> QED BY <1>1, KeysInductive, PTL

(* register_agent.py: nothing with a private key gets past the guard, and   *)
(* chk_no_private_key never fires.                                          *)
THEOREM GuardIsEnough == Spec => []GuardSparesTheConstraint
<1>1. KInv => GuardSparesTheConstraint
  BY SoundKeys DEF KInv, GuardSparesTheConstraint
<1> QED BY <1>1, KeysInductive, PTL

(* key_verifier_service.py: a key that passed validation for its algorithm  *)
(* takes the branch of that algorithm when its signatures are verified.     *)
THEOREM RegisteredKeysVerify == Spec => []StoredKeysVerify
<1>1. KInv => StoredKeysVerify
  <2> SUFFICES ASSUME KInv, NEW row \in stored, NEW signer \in Materials
               PROVE  VerifySignature(row.pem, signer, Promised(row.algorithm)) =
                          (signer = row.pem.material)
    BY DEF StoredKeysVerify
  <2> DEFINE kind == Kind[row.pem.material]
  <2>1. /\ row.algorithm \in Algorithms /\ row.pem.block = "public"
        /\ Suits(kind, row.algorithm)
    BY SoundKeys DEF KInv
  <2>2. SchemeOf(kind) = Promised(row.algorithm)
    <3>1. CASE row.algorithm = "ED25519"
      BY <2>1, <3>1 DEF Suits, SchemeOf, Promised, Curves
    <3>2. CASE row.algorithm = "RSA_4096"
      BY <2>1, <3>2 DEF Suits, SchemeOf, Promised, Curves
    <3>3. CASE row.algorithm \in {"ECDSA_P256", "SECP256K1"}
      BY <2>1, <3>3 DEF Suits, SchemeOf, Promised, Curves
    <3> QED BY <2>1, <3>1, <3>2, <3>3 DEF Algorithms
  <2> QED BY <2>1, <2>2 DEF VerifySignature
<1> QED BY <1>1, KeysInductive, PTL

(* register_agent.py: the loop ends at the first key with anything wrong,  *)
(* and looks for a private key there before it validates.                  *)
THEOREM FaultsDecideInOrder == Spec => FirstFaultDecides
<1>1. ASSUME KInv, [Next]_vars, answer = "none",
             answer' \in {"PRIVATE_KEY_FORBIDDEN", "INVALID_PUBLIC_KEY"}
      PROVE  \E n \in DOMAIN payload :
                /\ \A k \in 1 .. n - 1 :
                        /\ payload[k].text.block = "public" /\ ~Alarming(payload[k].text)
                        /\ Suits(Kind[payload[k].text.material], payload[k].algorithm)
                /\ IF answer' = "PRIVATE_KEY_FORBIDDEN" THEN Alarming(payload[n].text)
                   ELSE /\ ~Alarming(payload[n].text)
                        /\ payload[n].text.block = "public" =>
                                ~Suits(Kind[payload[n].text.material], payload[n].algorithm)
  <2> DEFINE n == Len(validated) + 1
  <2>1. CheckKey
    BY <1>1 DEF Next, Submit, Save, Finish, vars
  <2>2. /\ n \in DOMAIN payload
        /\ Objection(payload[n]) # "none" /\ answer' = Objection(payload[n])
    BY <1>1, <2>1 DEF CheckKey, Finish, NextSubmitted, KInv
  <2>3. ASSUME NEW k \in 1 .. n - 1
        PROVE  /\ payload[k].text.block = "public" /\ ~Alarming(payload[k].text)
               /\ Suits(Kind[payload[k].text.material], payload[k].algorithm)
    <3>1. k \in 1 .. Len(validated)
      BY <1>1 DEF KInv
    <3>2. Sound(payload[k])
      BY <1>1, <3>1 DEF KInv
    <3> QED BY <3>2 DEF Sound, Objection, IsPrivate, IsValid, Alarming
  <2>4. IF answer' = "PRIVATE_KEY_FORBIDDEN" THEN Alarming(payload[n].text)
        ELSE /\ ~Alarming(payload[n].text)
             /\ payload[n].text.block = "public" =>
                     ~Suits(Kind[payload[n].text.material], payload[n].algorithm)
    BY <2>2 DEF Objection, IsPrivate, IsValid, Alarming
  <2> HIDE DEF n
  <2> QED BY <2>2, <2>3, <2>4
<1> QED BY <1>1, KeysInductive, PTL DEF Spec, FirstFaultDecides

=============================================================================
