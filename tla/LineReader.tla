----------------------------- MODULE LineReader -----------------------------
(***************************************************************************)
(* How the main loop of hal_entry.c makes lines of the bytes in the ring:  *)
(* RxRing with process_rx_char as its reader and a stream of lines as its  *)
(* input.  A byte of the stream carries where it stands in which line, so  *)
(* that a line handed to process_line can be compared with the line that   *)
(* was sent; the firmware looks at its kind only.                          *)
(***************************************************************************)
EXTENDS RxRing, FiniteSets

CONSTANTS
    LINE_BUFFER_SIZE,
    Lines,              \* names for the lines of the stream, used in turns
    MAX_LINE            \* bound on the characters in a line of the stream

ASSUME LineAssumption ==
    LINE_BUFFER_SIZE \in Nat \ {0, 1} /\ MAX_LINE \in Nat \ {0}

\* "char" stands for text, "end" for '\n', "skip" for '\r' and '\0'.  pos is
\* the number of characters of the line up to the byte; an end that is sent
\* after a loss has 0, for no property looks at its pos.
Byte(kind, line, pos) == [kind |-> kind, line |-> line, pos |-> pos]
SkipByte == Byte("skip", "none", 0)
StreamBytes ==
    {Byte("char", line, pos) : line \in Lines, pos \in 1 .. MAX_LINE}
      \cup {Byte("end", line, pos) : line \in Lines, pos \in 0 .. MAX_LINE}
      \cup {SkipByte}

ASSUME StreamAssumption == Bytes = StreamBytes /\ NUL = SkipByte

VARIABLES
    g_line_buffer,  \* its first g_line_len characters
    pending,        \* uart_pop_char returned a byte process_rx_char has to see
    handed,         \* what the latest byte made process_line get, if anything
                    \* (LINE_OVERFLOW: the fault of an overlong line)
    sending,        \* the line on the wire and how much of it was sent
    dropped,        \* a byte of the stream was lost in a full ring (history)
    endDropped      \* ... and it was the end of a line (history)

lineVars == <<g_line_buffer, handed>>
streamVars == <<sending, dropped, endDropped>>
readerVars == <<vars, lineVars, pending, streamVars>>

LINE_OVERFLOW == <<SkipByte>>

ReaderInit ==
    /\ Init
    /\ g_line_buffer = <<>>
    /\ pending = FALSE
    /\ handed = <<>>
    /\ sending \in [line : Lines, pos : {0}]
    /\ dropped = FALSE
    /\ endDropped = FALSE

\* The next byte of the stream reaches the UART: one more character of the
\* line, its end (of a line that is not empty), or a byte nobody looks at.
Arrive(b) ==
    /\ \/ /\ b = Byte("char", sending.line, sending.pos + 1)
          /\ sending' = [sending EXCEPT !.pos = @ + 1]
       \/ /\ b = Byte("end", sending.line, IF dropped THEN 0 ELSE sending.pos)
          /\ sending.pos > 0
          /\ sending' \in [line : Lines \ {sending.line}, pos : {0}]
       \/ /\ b = SkipByte
          /\ UNCHANGED sending
    /\ RxChar(b)
    /\ dropped' = (dropped \/ (RingFull /\ b.kind # "skip"))
    /\ endDropped' = (endDropped \/ (RingFull /\ b.kind = "end"))
    /\ UNCHANGED <<lineVars, pending>>

Pop ==
    /\ ~pending
    /\ PopCopy \/ PopAdvance
    /\ pending' = copied
    /\ UNCHANGED <<lineVars, streamVars>>

\* process_rx_char on the byte that was popped.
Ignore ==
    /\ popped.kind = "skip"
    /\ handed' = <<>>
    /\ UNCHANGED g_line_buffer

\* Mutant: g_line_len is not set back at the end of a line.
EndLineKeepsBuffer ==
    /\ popped.kind = "end"
    /\ handed' = g_line_buffer
    /\ UNCHANGED g_line_buffer

EndLine ==
    /\ popped.kind = "end"
    /\ handed' = g_line_buffer      \* an empty line is not handed on
    /\ g_line_buffer' = <<>>

\* Mutant: no room is left for the terminating '\0'.
KeepCharOneMore ==
    /\ popped.kind = "char"
    /\ Len(g_line_buffer) < LINE_BUFFER_SIZE
    /\ g_line_buffer' = Append(g_line_buffer, popped)
    /\ handed' = <<>>

KeepChar ==
    /\ popped.kind = "char"
    /\ Len(g_line_buffer) < LINE_BUFFER_SIZE - 1
    /\ g_line_buffer' = Append(g_line_buffer, popped)
    /\ handed' = <<>>

\* Mutant: the character that does not fit starts the next line.
OverflowLineKeepsChar ==
    /\ popped.kind = "char"
    /\ Len(g_line_buffer) >= LINE_BUFFER_SIZE - 1
    /\ g_line_buffer' = <<popped>>
    /\ handed' = LINE_OVERFLOW

OverflowLine ==
    /\ popped.kind = "char"
    /\ Len(g_line_buffer) >= LINE_BUFFER_SIZE - 1
    /\ g_line_buffer' = <<>>
    /\ handed' = LINE_OVERFLOW

ProcessRxChar ==
    /\ pending
    /\ Ignore \/ EndLine \/ KeepChar \/ OverflowLine
    /\ pending' = FALSE
    /\ UNCHANGED <<vars, streamVars>>

ReaderNext == (\E b \in Bytes : Arrive(b)) \/ Pop \/ ProcessRxChar

ReaderSpec == ReaderInit /\ [][ReaderNext]_readerVars

-----------------------------------------------------------------------------
ReaderTypeOK ==
    /\ TypeOK
    /\ g_line_buffer \in Seq(Bytes) /\ Len(g_line_buffer) < LINE_BUFFER_SIZE
    /\ handed \in Seq(Bytes) /\ Len(handed) < LINE_BUFFER_SIZE
    /\ pending \in BOOLEAN
    /\ sending \in [line : Lines, pos : 0 .. MAX_LINE]
    /\ dropped \in BOOLEAN
    /\ endDropped \in BOOLEAN

\* s is a run of characters of one line, none skipped.
IsRun(s) ==
    \A i \in DOMAIN s :
        s[i].line = s[1].line /\ s[i].pos = s[1].pos + i - 1

(***************************************************************************)
(* As long as no byte was dropped, every line handed to process_line is an *)
(* unbroken run of one line that was sent, up to where that line ends.  It *)
(* starts where the line starts, or behind an overflow: process_rx_char    *)
(* then throws away LINE_BUFFER_SIZE characters and goes on with the rest  *)
(* as a line.                                                              *)
(***************************************************************************)
LinesAreRuns ==
    ~dropped /\ handed # <<>> /\ handed # LINE_OVERFLOW =>
        /\ IsRun(handed)
        /\ handed[1].pos % LINE_BUFFER_SIZE = 1
        /\ ~pending =>     \* popped is still the end of the line
              popped = Byte("end", handed[1].line, handed[Len(handed)].pos)

(***************************************************************************)
(* Characters dropped from a full ring leave a shorter line, but never one *)
(* made of two lines: that takes the loss of a line end.                   *)
(***************************************************************************)
LinesMergeOnlyWithoutEnd ==
    ~endDropped /\ handed # <<>> =>
        \A i \in DOMAIN handed : handed[i].line = handed[1].line

(***************************************************************************)
(* The characters of a line survive the way from the interrupt to the line *)
(* buffer: what waits in the ring goes on exactly where the line buffer    *)
(* stops, in any interleaving, while nothing is dropped.                   *)
(***************************************************************************)
FirstText(s, i) ==
    i \in DOMAIN s /\ s[i].kind # "skip" /\ \A k \in 1 .. i - 1 : s[k].kind = "skip"

RingContinuesLine ==
    ~dropped /\ ~pending /\ ~copied /\ g_line_buffer # <<>> =>
        LET last == g_line_buffer[Len(g_line_buffer)]
        IN  \A i \in DOMAIN Waiting : FirstText(Waiting, i) =>
                Waiting[i] \in {Byte("char", last.line, last.pos + 1),
                                Byte("end", last.line, last.pos)}
=============================================================================
