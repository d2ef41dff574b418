SPECIFICATION HubSpec
CONSTANTS
    laptopB = laptopB
    phoneB = phoneB
    phoneA = phoneA
    Hub = Hub
    Device = {laptopB, phoneB, phoneA}
    NodeAuthorized = {laptopB, phoneB}
    Policy <- MCPolicy
    FaultKinds = {"duplicate", "damage", "sendError", "restartHub"}
    MaxSend = 2
    MaxHello = 1
    MaxFaults = 2
    MaxEntries = 3
CHECK_DEADLOCK FALSE
INVARIANTS
    TypeOK NonceNeverAhead AtMostOncePerSession RegisteredIsKnown
    PolicyHolds  PendingHasTimer AnswersFollowLastEntry
PROPERTIES BehindForGood DeliverySpec
