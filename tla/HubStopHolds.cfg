SPECIFICATION Spec
CONSTANTS
    scan1 = scan1
    scan2 = scan2
    work1 = work1
    work2 = work2
    Scans = {scan1, scan2}
    Workers = {work1, work2}
    RA8P1_REQUIRED = TRUE
    FORCE_CALIBRATION_REQUIRED = TRUE
    SEQ_MOD = 2
    QUEUE_BOUND = 1
    Disturbing = {"click", "link", "exception", "STOP_SCAN", "RUN_CALIBRATION"}
    DISTURBANCES = 1
PROPERTY
    StopHolds
CHECK_DEADLOCK FALSE
