SPECIFICATION Spec
CONSTANTS
    Slots <- MCSlots
    Earlier = "earlier"
    Products <- MCProducts
    Times <- MCTimes
    None = None
    Gone = Gone
    Half = 524288
    Scenarios <- MCScenarios
INVARIANTS
    TypeOK
    SuccessMeansDone
    MailsAddUp
    PagesMissLittle
PROPERTIES
    Authorised
CHECK_DEADLOCK FALSE
