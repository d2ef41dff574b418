SPECIFICATION Spec
CONSTANTS
    laptopB = laptopB
    phoneB = phoneB
    phoneA = phoneA
    Hub = Hub
    Device = {laptopB}
    NodeAuthorized = {laptopB}
    Policy <- MCPolicy
    FaultKinds = {"duplicate"}
    MaxSend = 1
    MaxHello = 2
    MaxFaults = 2
CHECK_DEADLOCK FALSE
INVARIANT ReplayIsDropped
