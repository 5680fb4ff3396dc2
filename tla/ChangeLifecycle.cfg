CONSTANTS
    Givens <- MCGivens
SPECIFICATION Spec
INVARIANTS
    TypeOK
    AuthorizedIsEarned
    RollbackBehindChange
    DestructiveIsDecided
