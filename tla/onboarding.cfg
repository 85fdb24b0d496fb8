\* Three requests for one address, two tokens; Redis may fail at any time.
SPECIFICATION Spec
CONSTANTS
    Emails = {e1}
    Tokens = {t1, t2}
    AdminRoles = {operator, system_admin}
    Requests = {p1, p2, p3}
    RedisFails = TRUE
    Nil = Nil
SYMMETRY Symmetry
INVARIANTS
    TypeOK
    AtMostOneActive
    StoredTokensWereMailed
    RegistrationExposesOnlyInvited
PROPERTIES
    EnteredByToken
    AccountsAreNotTakenOver
    TokensLiveOnce
