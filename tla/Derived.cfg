CONSTANTS
    Chunks = {1, 2, 3, 4}
    Procs = {p1, p2}
    Kinds <- MCKinds
    Limits <- MCLimits
    TextOf <- MCTextOf
    ClaimsIn <- MCClaimsIn
    RelationsIn <- MCRelationsIn
    ClaimOf <- MCClaimOf
    Mentioned <- MCMentioned
    LinksIn <- MCLinksIn
    Targets <- MCTargets
    Scope <- MCScope
    Position <- MCPosition
    About <- MCAbout
    Spaces = {1, 2}
    Models = {1, 2}
    Entities = {1, 2, 3, 4}
    Unborn = 4
    Users = {"u1"}
SPECIFICATION Spec
SYMMETRY Symmetry
INVARIANTS
    TypeOK
    UserFactsSurvive
    BuildsVerify
    ContradictionsAreOpen
    RedirectsEnd
    ActiveSpaceCovers
    RejectedClaimsLeave
    ActiveTopicsAreCurrent
    ArtifactsAgree
PROPERTIES
    VerifiedOnOneModel
CHECK_DEADLOCK FALSE
