SPECIFICATION Spec
CONSTANTS
    ed = ed
    rsa = rsa
    short = short
    p256 = p256
    k1 = k1
    p384 = p384
    other = other
    Materials = {ed, rsa, short, p256, k1, p384, other}
    Kind <- KindOf
    Encodings = {"lf", "crlf"}
    Texts <- Submitted
    MaxKeys = 2
    MaxRows = 4
CHECK_DEADLOCK FALSE
INVARIANTS TypeOK GuardSparesTheConstraint StoredKeysVerify
PROPERTY FirstFaultDecides
