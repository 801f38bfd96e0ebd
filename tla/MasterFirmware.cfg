SPECIFICATION FairSpec
CONSTANTS
    DETECT_WINDOW_SIZE = 2
    MEDIUM_WINDOW_SIZE = 2
    MEDIUM_CONFIRM_COUNT = 2
    WEAK_CONFIRM_COUNT = 2
    ALERT_RELEASE_COUNT = 2
    STRONG_SDS_THRESHOLD = 135
    MEDIUM_SDS_THRESHOLD = 100
    WEAK_SDS_THRESHOLD = 85
    STRONG_NCC_THRESHOLD = 50
    FREQ_MATCH_TOLERANCE_MHZ = 60
    Reports <- MCReports
    START_SCAN_PERIOD = 1
    HEARTBEAT_TIMEOUT = 2
    TICK_MOD = 5
    INBOX_BOUND = 1
INVARIANTS
    HeartbeatTimerBounded
    StateFollowsLatch
PROPERTIES
    KeepsHandshake
    AlertEndsEarned
    SilenceFaults
    ScanRequestRepeats
