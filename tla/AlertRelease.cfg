SPECIFICATION Spec
CONSTANTS
    DETECT_WINDOW_SIZE = 5
    MEDIUM_WINDOW_SIZE = 3
    MEDIUM_CONFIRM_COUNT = 2
    WEAK_CONFIRM_COUNT = 3
    ALERT_RELEASE_COUNT = 5
    STRONG_SDS_THRESHOLD = 135
    MEDIUM_SDS_THRESHOLD = 100
    WEAK_SDS_THRESHOLD = 85
    STRONG_NCC_THRESHOLD = 50
    FREQ_MATCH_TOLERANCE_MHZ = 60
    Reports <- MCReports
PROPERTIES
    StrongHoldsAlert
