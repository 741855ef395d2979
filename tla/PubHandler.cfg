SPECIFICATION Spec
CONSTANTS
    hap = hap
    mid360 = mid360
    Lidar = {hap, mid360}
    Synced = {hap}
    ClockLead = 2
    Interval = 2
    MaxTime = 4
    Loads <- ThreeLoads
INVARIANTS PointsConserved HostFrameRate SyncFrameSpacing
CHECK_DEADLOCK FALSE
