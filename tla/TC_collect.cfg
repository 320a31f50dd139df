SPECIFICATION Spec
CONSTANTS
    Units <- MCUnits
    NonRuntime = {TRUE, FALSE}
INVARIANTS
    TypeOK
    EveryTaggedReported
    NothingUnasked
    OwnMembersComplete
    ReportedOnce
    RegistrationsAsAsked
    MembersSayTheirType
    OffersForwardDeclarations
CHECK_DEADLOCK FALSE
