\* TUN client: up to two network failures, three packets from the device.
CONSTANTS
    MaxFails = 2
    MaxPkts = 3
SPECIFICATION Spec
INVARIANT PacketsReachLiveConn
\* A healthy tunnel waits in transportClient for good; the model then rests.
CHECK_DEADLOCK FALSE
