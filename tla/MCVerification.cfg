SPECIFICATION Spec
CONSTANTS
    Bytes <- MCBytes
    MODULUS = 10007
    None = None
    Mints = {1, 2, 3, 4, 5}
    FewMints = {1, 2}
    Symbols = {"s", "t"}
    Keys = {"a", "b"}
    MAX_PROOF = 3
    MAX_FEW_PROOF = 1
INVARIANTS
    WhitelistExact
    ClaimsNeedSignatures
\* The longest proof has been tried.
CHECK_DEADLOCK FALSE
