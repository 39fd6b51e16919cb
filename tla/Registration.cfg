SPECIFICATION Spec
CONSTANTS
    Users = {u1}
    Requests = {r1, r2}
    MaxTokens = 3
    None = None
INVARIANTS
    TypeOK
    OnlyForUsers
    LinkWorks
    UsedLinkIsDead
PROPERTIES
    ReplacedStaysDead
    EditsSurvive
    RegisteredIsServed
CHECK_DEADLOCK FALSE
