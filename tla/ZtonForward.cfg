SPECIFICATION Spec
CONSTANTS
    laptopB = laptopB
    phoneB = phoneB
    phoneA = phoneA
    Hub = Hub
    Device = {laptopB, phoneB}
    NodeAuthorized = {laptopB, phoneB}
    Policy <- MCPolicy
    FaultKinds = {}
    MaxSend = 1
    MaxHello = 1
    MaxFaults = 0
CHECK_DEADLOCK FALSE
INVARIANT ForwardedIsDecrypted
