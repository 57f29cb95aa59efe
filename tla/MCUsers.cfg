CONSTANTS
    Ids = {u1}
    Emails = {e1, e2}
    Codes = {c1, c2}
    Slots = {r1, r2}
    MaxAttempts = 2
    None = None
SPECIFICATION Spec
SYMMETRY Perms
INVARIANTS TypeOK VerifiedWasProved OneUsableCode RetiredStaysUsed VerificationSticks
CHECK_DEADLOCK FALSE
