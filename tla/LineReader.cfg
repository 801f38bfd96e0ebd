SPECIFICATION ReaderSpec
CONSTANTS
    UART_RX_RING_SIZE = 3
    LINE_BUFFER_SIZE = 3
    MAX_LINE = 4
    Lines = {line1, line2}
    Bytes <- MCBytes
    NUL <- MCNul
SYMMETRY MCSymmetry
INVARIANTS
    ReaderTypeOK
    LinesAreRuns
    LinesMergeOnlyWithoutEnd
    RingContinuesLine
PROPERTIES
    KeepsFifo
