SPECIFICATION FairSpec
CONSTANTS
    laptopB = laptopB
    phoneB = phoneB
    phoneA = phoneA
    Hub = Hub
    Device = {laptopB}
    NodeAuthorized = {laptopB}
    Policy <- MCPolicy
    FaultKinds = {"lose", "restartNode", "restartHub"}
    MaxSend = 1
    MaxHello = 2
    MaxFaults = 1
CHECK_DEADLOCK FALSE
PROPERTIES EventuallyRegistered 
