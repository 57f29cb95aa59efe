\* One seeded setting, with two requests at once.
SPECIFICATION Spec
CONSTANTS
    Keys = {k1}
    Seeded = {k1}
    Ids = {i1, i2, i3}
    Texts = {"1", "true"}
    Numerals = {"1"}
    Truths = {"1", "true"}
    Types = {"number", "boolean", "json"}
    DefaultText = "1"
    Slots = {r1, r2}
    None = None
SYMMETRY Perms
INVARIANTS
    TypeOK
    KeptIsCached
    CacheAgrees
