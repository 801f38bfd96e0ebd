---------------------------- MODULE RxRingProofs ----------------------------
(***************************************************************************)
(* The ring of hal_entry.c is a lossy first-in first-out buffer for every  *)
(* ring size and every interleaving of the interrupt with uart_pop_char,   *)
(* and the lines made of its bytes are those sent, for every size of ring  *)
(* and line buffer.                                                        *)
(***************************************************************************)
EXTENDS LineReader, TLAPS, SequenceTheorems

LEMMA AdvanceValue ==
    ASSUME NEW i \in Slots
    PROVE  /\ Advance(i) = IF i = UART_RX_RING_SIZE - 1 THEN 0 ELSE i + 1
           /\ Advance(i) \in Slots
BY RingAssumption DEF Advance, Slots

LEMMA RingTypeStep == TypeOK /\ [Next]_vars => TypeOK'
<1> SUFFICES ASSUME TypeOK, [Next]_vars PROVE TypeOK'
  OBVIOUS
<1>1. ASSUME NEW b \in Bytes, RxChar(b) PROVE TypeOK'
  BY <1>1, AdvanceValue DEF RxChar, RingFull, TypeOK, ringVars
<1>2. CASE PopCopy
  BY <1>2 DEF PopCopy, TypeOK, ringVars
<1>3. CASE PopAdvance
  BY <1>3, AdvanceValue DEF PopAdvance, TypeOK
<1>4. CASE UNCHANGED vars
  BY <1>4 DEF vars, ringVars, TypeOK
<1> QED
  BY <1>1, <1>2, <1>3, <1>4 DEF Next

(***************************************************************************)
(* The indices stay inside the ring and every slot holds a byte.           *)
(***************************************************************************)
THEOREM RingTypeCorrect == Spec => []TypeOK
<1>1. Init => TypeOK
  <2> SUFFICES ASSUME Init PROVE TypeOK
    OBVIOUS
  <2>1. 0 \in Slots
    BY RingAssumption DEF Slots
  <2>2. g_rx_ring \in [Slots -> Bytes]
    BY RingAssumption DEF Init
  <2> QED
    BY <2>1, <2>2, RingAssumption DEF Init, TypeOK
<1> QED
  BY <1>1, RingTypeStep, PTL DEF Spec

LEMMA StableStep == TypeOK /\ PopIsStable /\ [Next]_vars => PopIsStable'
<1> SUFFICES ASSUME TypeOK, PopIsStable, [Next]_vars PROVE PopIsStable'
  OBVIOUS
<1>1. ASSUME NEW b \in Bytes, RxChar(b) PROVE PopIsStable'
  BY <1>1, AdvanceValue DEF RxChar, RingFull, TypeOK, ringVars, PopIsStable
<1>2. CASE PopCopy
  BY <1>2 DEF PopCopy, ringVars, PopIsStable
<1>3. CASE PopAdvance
  BY <1>3 DEF PopAdvance, PopIsStable
<1>4. CASE UNCHANGED vars
  BY <1>4 DEF vars, ringVars, PopIsStable
<1> QED
  BY <1>1, <1>2, <1>3, <1>4 DEF Next

(***************************************************************************)
(* The byte uart_pop_char has copied stays in its slot until the index has *)
(* moved past it.                                                          *)
(***************************************************************************)
THEOREM RingPopIsStable == Spec => []PopIsStable
<1>1. Init => PopIsStable
  BY DEF Init, PopIsStable
<1> QED
  BY <1>1, StableStep, RingTypeCorrect, PTL DEF Spec

-----------------------------------------------------------------------------
\* The number of bytes waiting, without the modulus.
LEMMA OccupiedValue ==
    ASSUME TypeOK
    PROVE  /\ Occupied = IF g_rx_write_index >= g_rx_read_index
                         THEN g_rx_write_index - g_rx_read_index
                         ELSE g_rx_write_index + UART_RX_RING_SIZE
                                - g_rx_read_index
           /\ Occupied \in Slots
BY RingAssumption DEF Occupied, TypeOK, Slots

LEMMA SlotValue ==
    ASSUME NEW r \in Slots, NEW i \in 1 .. UART_RX_RING_SIZE
    PROVE  /\ (r + i - 1) % UART_RX_RING_SIZE =
                IF r + i - 1 < UART_RX_RING_SIZE
                THEN r + i - 1 ELSE r + i - 1 - UART_RX_RING_SIZE
           /\ (r + i - 1) % UART_RX_RING_SIZE \in Slots
BY RingAssumption DEF Slots

LEMMA WaitingType ==
    TypeOK => Waiting \in Seq(Bytes) /\ Len(Waiting) = Occupied
<1> SUFFICES ASSUME TypeOK
             PROVE  Waiting \in Seq(Bytes) /\ Len(Waiting) = Occupied
  OBVIOUS
<1>1. Occupied \in Nat /\ \A i \in 1 .. Occupied : i \in 1 .. UART_RX_RING_SIZE
  BY OccupiedValue, RingAssumption DEF Slots
<1>2. \A i \in 1 .. Occupied :
        g_rx_ring[(g_rx_read_index + i - 1) % UART_RX_RING_SIZE] \in Bytes
  BY <1>1, SlotValue DEF TypeOK
<1> QED
  BY <1>1, <1>2 DEF Waiting

LEMMA WaitingTypeNext ==
    TypeOK' => (Waiting \in Seq(Bytes) /\ Len(Waiting) = Occupied)'
BY WaitingType, PTL

\* The test of the interrupt is neither early nor late.
LEMMA FullRing ==
    ASSUME TypeOK, RingFull
    PROVE  Occupied = UART_RX_RING_SIZE - 1
<1>1. g_rx_write_index \in Slots /\ g_rx_read_index \in Slots
  BY DEF TypeOK
<1>2. g_rx_read_index = IF g_rx_write_index = UART_RX_RING_SIZE - 1
                        THEN 0 ELSE g_rx_write_index + 1
  BY <1>1, AdvanceValue DEF RingFull
<1> QED
  BY <1>1, <1>2, OccupiedValue, RingAssumption DEF Slots

-----------------------------------------------------------------------------
\* Each step of the ring, seen through the bytes that wait in it.
LEMMA AcceptStep ==
    ASSUME TypeOK, NEW b \in Bytes, RxChar(b), ~RingFull
    PROVE  Len(Waiting) < UART_RX_RING_SIZE - 1 /\ Waiting' = Append(Waiting, b)
<1> DEFINE w == g_rx_write_index
           r == g_rx_read_index
           n == Occupied
           S == UART_RX_RING_SIZE
<1>1. /\ r' = r
      /\ w' = Advance(w)
      /\ g_rx_ring' = [g_rx_ring EXCEPT ![w] = b]
  BY DEF RxChar
<1>2. /\ w \in Slots /\ r \in Slots /\ S \in Nat \ {0}
      /\ g_rx_ring \in [Slots -> Bytes]
  BY RingAssumption DEF TypeOK
<1>3. /\ n = IF w >= r THEN w - r ELSE w + S - r
      /\ n \in Nat
  BY OccupiedValue DEF Slots
<1>4. w' = IF w = S - 1 THEN 0 ELSE w + 1
  BY <1>1, <1>2, AdvanceValue
<1>5. w' # r
  BY <1>1 DEF RingFull
<1>6. n < S - 1
  BY <1>2, <1>3, <1>4, <1>5 DEF Slots
<1>7. Occupied' = n + 1
  <2>1. Occupied' = (w' + S - r) % S
    BY <1>1 DEF Occupied
  <2>2. w' \in Slots
    BY <1>2, <1>4 DEF Slots
  <2>3. (w' + S - r) % S = IF w' >= r THEN w' - r ELSE w' + S - r
    BY <1>2, <2>2, SMTT(30) DEF Slots
  <2> QED
    BY <1>2, <1>3, <1>4, <1>5, <2>1, <2>3 DEF Slots
<1>8. ASSUME NEW i \in 1 .. n + 1
      PROVE  Waiting'[i] = Append(Waiting, b)[i]
  <2>1. i \in 1 .. S
    BY <1>2, <1>3, <1>6
  <2> DEFINE slot == (r + i - 1) % S
  <2>2. slot = (IF r + i - 1 < S THEN r + i - 1 ELSE r + i - 1 - S)
        /\ slot \in Slots
    BY <1>2, <2>1, SlotValue
  <2>3. Waiting'[i] = g_rx_ring'[slot]
    BY <1>1, <1>7 DEF Waiting
  <2>4. Waiting \in Seq(Bytes) /\ Len(Waiting) = n
    BY WaitingType
  <2>5. CASE i = n + 1
    <3>1. slot = w
      BY <1>2, <1>3, <2>2, <2>5 DEF Slots
    <3>2. Append(Waiting, b)[i] = b
      BY <2>4, <2>5
    <3> QED
      BY <1>1, <1>2, <2>3, <3>1, <3>2
  <2>6. CASE i # n + 1
    <3>1. i \in 1 .. n
      BY <1>3, <2>6
    <3>2. slot # w
      BY <1>2, <1>3, <2>2, <3>1, <1>6 DEF Slots
    <3>3. Append(Waiting, b)[i] = Waiting[i]
      BY <2>4, <3>1
    <3>4. Waiting[i] = g_rx_ring[slot]
      BY <3>1 DEF Waiting
    <3> QED
      BY <1>1, <1>2, <2>2, <2>3, <3>2, <3>3, <3>4
  <2> QED
    BY <2>5, <2>6
<1>9. Waiting \in Seq(Bytes) /\ Len(Waiting) = n
  BY WaitingType
<1>10. Waiting' \in Seq(Bytes) /\ Len(Waiting') = n + 1
  <2>1. TypeOK'
    BY RingTypeStep DEF Next
  <2> QED
    BY <1>7, <2>1, WaitingTypeNext
<1>11. Append(Waiting, b) \in Seq(Bytes) /\ Len(Append(Waiting, b)) = n + 1
  BY <1>9
<1> QED
  BY <1>6, <1>8, <1>9, <1>10, <1>11, SeqEqual

LEMMA TakeStep ==
    ASSUME TypeOK, PopIsStable, PopAdvance
    PROVE  /\ Waiting # <<>>
           /\ byte = Head(Waiting)
           /\ Waiting' = Tail(Waiting)
<1> DEFINE w == g_rx_write_index
           r == g_rx_read_index
           n == Occupied
           S == UART_RX_RING_SIZE
<1>1. /\ r' = Advance(r)
      /\ w' = w
      /\ g_rx_ring' = g_rx_ring
      /\ r # w
      /\ byte = g_rx_ring[r]
  BY DEF PopAdvance, PopIsStable
<1>2. /\ w \in Slots /\ r \in Slots /\ S \in Nat \ {0}
  BY RingAssumption DEF TypeOK
<1>3. /\ n = IF w >= r THEN w - r ELSE w + S - r
      /\ n \in Nat
  BY OccupiedValue DEF Slots
<1>4. r' = IF r = S - 1 THEN 0 ELSE r + 1
  BY <1>1, <1>2, AdvanceValue
<1>5. n > 0
  BY <1>1, <1>2, <1>3 DEF Slots
<1>6. Occupied' = n - 1
  <2>1. Occupied' = (w + S - r') % S
    BY <1>1 DEF Occupied
  <2>2. r' \in Slots
    BY <1>2, <1>4 DEF Slots
  <2>3. (w + S - r') % S = IF w >= r' THEN w - r' ELSE w + S - r'
    BY <1>2, <2>2 DEF Slots
  <2> QED
    BY <1>1, <1>2, <1>3, <1>4, <2>1, <2>3 DEF Slots
<1>7. Waiting \in Seq(Bytes) /\ Len(Waiting) = n
  BY WaitingType
<1>8. Waiting # <<>>
  BY <1>5, <1>7
<1>9. Waiting[1] = g_rx_ring[r]
  <2>1. Waiting[1] = g_rx_ring[(r + 1 - 1) % S]
    BY <1>3, <1>5 DEF Waiting
  <2>2. (r + 1 - 1) % S = r
    BY <1>2 DEF Slots
  <2> QED
    BY <2>1, <2>2
<1>10. Waiting' \in Seq(Bytes) /\ Len(Waiting') = n - 1
  <2>1. TypeOK'
    BY RingTypeStep DEF Next
  <2> QED
    BY <1>6, <2>1, WaitingTypeNext
<1>11. Tail(Waiting) \in Seq(Bytes) /\ Len(Tail(Waiting)) = n - 1
  BY <1>7, <1>8, HeadTailProperties
<1>12. ASSUME NEW i \in 1 .. n - 1
       PROVE  Waiting'[i] = Tail(Waiting)[i]
  <2>0. i \in 1 .. S /\ i + 1 \in 1 .. S /\ i + 1 \in 1 .. n /\ r' \in Slots
    BY <1>2, <1>3, <1>4 DEF Slots
  <2>1. Waiting'[i] = g_rx_ring[(r' + i - 1) % S]
    BY <1>1, <1>6 DEF Waiting
  <2>2. Tail(Waiting)[i] = Waiting[i + 1]
    BY <1>7, <1>8, <1>11, HeadTailProperties
  <2>3. Waiting[i + 1] = g_rx_ring[(r + (i + 1) - 1) % S]
    BY <2>0 DEF Waiting
  <2>4. (r' + i - 1) % S = IF r' + i - 1 < S THEN r' + i - 1
                                            ELSE r' + i - 1 - S
    BY <2>0, SlotValue
  <2>5. (r + (i + 1) - 1) % S = IF r + (i + 1) - 1 < S
                                THEN r + (i + 1) - 1
                                ELSE r + (i + 1) - 1 - S
    BY <1>2, <2>0, SlotValue
  <2>6. (r' + i - 1) % S = (r + (i + 1) - 1) % S
    BY <1>2, <1>4, <2>0, <2>4, <2>5 DEF Slots
  <2> QED
    BY <2>1, <2>2, <2>3, <2>6
<1>13. Waiting' = Tail(Waiting)
  BY <1>10, <1>11, <1>12, SeqEqual
<1> QED
  BY <1>1, <1>8, <1>9, <1>13

(***************************************************************************)
(* The ring is a lossy first-in first-out buffer of UART_RX_RING_SIZE - 1  *)
(* bytes: every step of the interrupt or of uart_pop_char is a step of     *)
(* LossyFifo, or none.                                                     *)
(***************************************************************************)
THEOREM RingKeepsFifo == Spec => KeepsFifo
<1>1. Init => Fifo!Init
  <2> SUFFICES ASSUME Init PROVE Fifo!Init
    OBVIOUS
  <2>1. Occupied = 0
    BY RingAssumption DEF Init, Occupied
  <2>2. Waiting = <<>>
    BY <2>1 DEF Waiting
  <2> QED
    BY <2>2, RingAssumption DEF Init, Fifo!Init
<1>2. TypeOK /\ PopIsStable /\ [Next]_vars => [Fifo!Next]_(Fifo!vars)
  <2> SUFFICES ASSUME TypeOK, PopIsStable, [Next]_vars
               PROVE  [Fifo!Next]_(Fifo!vars)
    OBVIOUS
  <2>1. ASSUME NEW b \in Bytes, RxChar(b), ~RingFull
        PROVE  Fifo!Accept(b)
    BY <2>1, AcceptStep DEF RxChar, Fifo!Accept
  <2>2. ASSUME NEW b \in Bytes, RxChar(b), RingFull
        PROVE  Fifo!Lose
    <3>1. UNCHANGED <<Waiting, popped>>
      BY <2>2 DEF RxChar, ringVars, Waiting, Occupied
    <3>2. lost' = TRUE
      BY <2>2 DEF RxChar
    <3>3. Len(Waiting) = UART_RX_RING_SIZE - 1
      BY <2>2, FullRing, WaitingType
    <3> QED
      BY <3>1, <3>2, <3>3 DEF Fifo!Lose
  <2>3. CASE PopCopy
    BY <2>3 DEF PopCopy, ringVars, Waiting, Occupied, Fifo!vars
  <2>4. CASE PopAdvance
    <3>1. Fifo!Take
      BY <2>4, TakeStep DEF PopAdvance, Fifo!Take
    <3> QED
      BY <3>1 DEF Fifo!Next
  <2>5. CASE UNCHANGED vars
    BY <2>5 DEF vars, ringVars, Waiting, Occupied, Fifo!vars
  <2> QED
    BY <2>1, <2>2, <2>3, <2>4, <2>5 DEF Next, Fifo!Next
<1> QED
  BY <1>1, <1>2, RingTypeCorrect, RingPopIsStable, PTL
  DEF Spec, KeepsFifo, Fifo!Spec

-----------------------------------------------------------------------------
(***************************************************************************)
(* The bytes that process_rx_char has yet to see, in the order of their    *)
(* arrival.                                                                *)
(***************************************************************************)
Stream == IF pending THEN <<popped>> \o Waiting ELSE Waiting

Consecutive(s, i, j) ==
    /\ i \in DOMAIN s /\ j \in DOMAIN s /\ i < j
    /\ s[i].kind # "skip" /\ s[j].kind # "skip"
    /\ \A k \in i + 1 .. j - 1 : s[k].kind = "skip"

LastText(s, i) ==
    /\ i \in DOMAIN s /\ s[i].kind # "skip"
    /\ \A k \in i + 1 .. Len(s) : s[k].kind = "skip"

NoText(s) == \A i \in DOMAIN s : s[i].kind = "skip"

\* Which bytes of a sequence follow each other once a byte is added to it.
LEMMA AppendedText ==
    ASSUME NEW s \in Seq(Bytes), NEW b \in Bytes, NEW t, t = Append(s, b)
    PROVE  /\ t \in Seq(Bytes) /\ Len(t) = Len(s) + 1
           /\ \A i, j : Consecutive(t, i, j) =>
                \/ Consecutive(s, i, j) /\ t[i] = s[i] /\ t[j] = s[j]
                \/ /\ LastText(s, i) /\ t[i] = s[i]
                   /\ j = Len(t) /\ t[j] = b /\ b.kind # "skip"
           /\ \A i : FirstText(t, i) =>
                \/ FirstText(s, i) /\ t[i] = s[i]
                \/ NoText(s) /\ t[i] = b /\ b.kind # "skip"
           /\ \A i : LastText(t, i) =>
                \/ i = Len(t) /\ t[i] = b /\ b.kind # "skip"
                \/ LastText(s, i) /\ t[i] = s[i] /\ b.kind = "skip"
           /\ NoText(t) => NoText(s) /\ b.kind = "skip"
<1>1. /\ t \in Seq(Bytes) /\ Len(t) = Len(s) + 1 /\ Len(s) \in Nat
      /\ DOMAIN t = 1 .. Len(s) + 1 /\ DOMAIN s = 1 .. Len(s)
      /\ \A k \in 1 .. Len(s) : t[k] = s[k]
      /\ t[Len(s) + 1] = b
  OBVIOUS
<1>2. ASSUME NEW i, NEW j, Consecutive(t, i, j)
      PROVE  \/ Consecutive(s, i, j) /\ t[i] = s[i] /\ t[j] = s[j]
             \/ /\ LastText(s, i) /\ t[i] = s[i]
                /\ j = Len(t) /\ t[j] = b /\ b.kind # "skip"
  BY <1>1, <1>2 DEF Consecutive, LastText
<1>3. ASSUME NEW i, FirstText(t, i)
      PROVE  \/ FirstText(s, i) /\ t[i] = s[i]
             \/ NoText(s) /\ t[i] = b /\ b.kind # "skip"
  BY <1>1, <1>3 DEF FirstText, NoText
<1>4. ASSUME NEW i, LastText(t, i)
      PROVE  \/ i = Len(t) /\ t[i] = b /\ b.kind # "skip"
             \/ LastText(s, i) /\ t[i] = s[i] /\ b.kind = "skip"
  BY <1>1, <1>4 DEF LastText
<1>5. NoText(t) => NoText(s) /\ b.kind = "skip"
  BY <1>1 DEF NoText
<1> QED
  BY <1>1, <1>2, <1>3, <1>4, <1>5

\* ... and once its first byte is taken away.
Taken(s, t) ==
    /\ \A i, j : Consecutive(t, i, j) =>
          Consecutive(s, i + 1, j + 1) /\ t[i] = s[i + 1] /\ t[j] = s[j + 1]
    /\ \A i : FirstText(t, i) =>
          /\ t[i] = s[i + 1]
          /\ IF s[1].kind = "skip" THEN FirstText(s, i + 1)
                                   ELSE Consecutive(s, 1, i + 1)
    /\ \A i : LastText(t, i) => LastText(s, i + 1) /\ t[i] = s[i + 1]
    /\ NoText(t) => IF s[1].kind = "skip" THEN NoText(s) ELSE LastText(s, 1)
    /\ s[1].kind # "skip" => FirstText(s, 1)

LEMMA TakenText ==
    ASSUME NEW s \in Seq(Bytes), s # <<>>, NEW t, t = Tail(s)
    PROVE  Taken(s, t)
<1>1. /\ Len(s) \in Nat \ {0} /\ Len(t) = Len(s) - 1
      /\ DOMAIN t = 1 .. Len(s) - 1 /\ DOMAIN s = 1 .. Len(s)
      /\ \A k \in 1 .. Len(s) - 1 : t[k] = s[k + 1]
  BY HeadTailProperties
<1>2. \A k \in 2 .. Len(s) : k - 1 \in 1 .. Len(s) - 1 /\ s[k] = t[k - 1]
  BY <1>1
<1>3. ASSUME NEW i, NEW j, Consecutive(t, i, j)
      PROVE  /\ Consecutive(s, i + 1, j + 1)
             /\ t[i] = s[i + 1] /\ t[j] = s[j + 1]
  <2>1. /\ i \in 1 .. Len(s) - 1 /\ j \in 1 .. Len(s) - 1 /\ i < j
        /\ t[i] = s[i + 1] /\ t[j] = s[j + 1]
    BY <1>1, <1>3 DEF Consecutive
  <2>2. ASSUME NEW k \in (i + 1) + 1 .. (j + 1) - 1
        PROVE  s[k].kind = "skip"
    <3>1. k \in 2 .. Len(s) /\ k - 1 \in i + 1 .. j - 1
      BY <1>1, <2>1
    <3> QED
      BY <1>2, <1>3, <3>1 DEF Consecutive
  <2> QED
    BY <1>1, <1>3, <2>1, <2>2 DEF Consecutive
<1>4. ASSUME NEW i, FirstText(t, i)
      PROVE  /\ t[i] = s[i + 1]
             /\ IF s[1].kind = "skip" THEN FirstText(s, i + 1)
                                      ELSE Consecutive(s, 1, i + 1)
  <2>1. i \in 1 .. Len(s) - 1 /\ t[i] = s[i + 1]
    BY <1>1, <1>4 DEF FirstText
  <2>2. ASSUME NEW k \in 2 .. i
        PROVE  s[k].kind = "skip"
    <3>1. k \in 2 .. Len(s) /\ k - 1 \in 1 .. i - 1
      BY <1>1, <2>1
    <3> QED
      BY <1>2, <1>4, <3>1 DEF FirstText
  <2>3. s[i + 1].kind # "skip"
    BY <1>4, <2>1 DEF FirstText
  <2> QED
    BY <1>1, <2>1, <2>2, <2>3 DEF FirstText, Consecutive
<1>5. ASSUME NEW i, LastText(t, i)
      PROVE  LastText(s, i + 1) /\ t[i] = s[i + 1]
  <2>1. i \in 1 .. Len(s) - 1 /\ t[i] = s[i + 1]
    BY <1>1, <1>5 DEF LastText
  <2>2. ASSUME NEW k \in (i + 1) + 1 .. Len(s)
        PROVE  s[k].kind = "skip"
    <3>1. k \in 2 .. Len(s) /\ k - 1 \in i + 1 .. Len(t)
      BY <1>1, <2>1
    <3> QED
      BY <1>2, <1>5, <3>1 DEF LastText
  <2> QED
    BY <1>1, <1>5, <2>1, <2>2 DEF LastText
<1>6. NoText(t) => IF s[1].kind = "skip" THEN NoText(s) ELSE LastText(s, 1)
  <2> SUFFICES ASSUME NoText(t)
               PROVE  IF s[1].kind = "skip" THEN NoText(s) ELSE LastText(s, 1)
    OBVIOUS
  <2>1. \A k \in 2 .. Len(s) : s[k].kind = "skip"
    BY <1>1, <1>2 DEF NoText
  <2> QED
    BY <1>1, <2>1 DEF NoText, LastText
<1>7. s[1].kind # "skip" => FirstText(s, 1)
  BY <1>1 DEF FirstText
<1> QED
  BY <1>3, <1>4, <1>5, <1>6, <1>7 DEF Taken
-----------------------------------------------------------------------------
LEMMA StreamType ==
    ASSUME TypeOK, pending \in BOOLEAN
    PROVE  Stream \in Seq(Bytes)
<1>1. Waiting \in Seq(Bytes) /\ popped \in Bytes
  BY WaitingType DEF TypeOK
<1>2. <<popped>> \in Seq(Bytes)
  BY <1>1
<1>3. <<popped>> \o Waiting \in Seq(Bytes)
  BY <1>1, <1>2, ConcatProperties
<1> QED
  BY <1>1, <1>3 DEF Stream

\* The interrupt adds to the end of the stream, or leaves it alone.
LEMMA ArriveStream ==
    ASSUME TypeOK, pending \in BOOLEAN, NEW b \in Bytes, Arrive(b)
    PROVE  Stream' = IF RingFull THEN Stream ELSE Append(Stream, b)
<1>1. RxChar(b) /\ pending' = pending /\ popped' = popped
  BY DEF Arrive, lineVars, RxChar
<1>2. Waiting \in Seq(Bytes) /\ popped \in Bytes
  BY WaitingType DEF TypeOK
<1>3. CASE RingFull
  <2>1. Waiting' = Waiting
    BY <1>1, <1>3 DEF RxChar, ringVars, Waiting, Occupied
  <2> QED
    BY <1>1, <1>3, <2>1 DEF Stream
<1>4. CASE ~RingFull
  <2>1. Waiting' = Append(Waiting, b)
    BY <1>1, <1>4, AcceptStep
  <2>2. <<popped>> \o Append(Waiting, b) = Append(<<popped>> \o Waiting, b)
    <3>1. <<popped>> \in Seq(Bytes) /\ <<b>> \in Seq(Bytes)
      BY <1>2
    <3>2. Append(Waiting, b) = Waiting \o <<b>>
      BY <1>2, AppendIsConcat
    <3>3. <<popped>> \o Waiting \in Seq(Bytes)
      BY <1>2, <3>1, ConcatProperties
    <3>4. Append(<<popped>> \o Waiting, b) = (<<popped>> \o Waiting) \o <<b>>
      BY <3>3, AppendIsConcat
    <3> QED
      BY <1>2, <3>1, <3>2, <3>4, ConcatAssociative
  <2> QED
    BY <1>1, <1>4, <2>1, <2>2 DEF Stream
<1> QED
  BY <1>3, <1>4

\* uart_pop_char only moves a byte within the stream.
LEMMA PopStream ==
    ASSUME TypeOK, PopIsStable, Pop
    PROVE  Stream' = Stream
<1>1. ~pending /\ pending' = copied /\ (PopCopy \/ PopAdvance)
  BY DEF Pop
<1>2. CASE PopCopy
  <2>1. ~copied /\ Waiting' = Waiting
    BY <1>2 DEF PopCopy, ringVars, Waiting, Occupied
  <2> QED
    BY <1>1, <2>1 DEF Stream
<1>3. CASE PopAdvance
  <2>1. copied /\ popped' = byte
    BY <1>3 DEF PopAdvance
  <2>2. Waiting # <<>> /\ byte = Head(Waiting) /\ Waiting' = Tail(Waiting)
    BY <1>3, TakeStep
  <2>3. Waiting \in Seq(Bytes)
    BY WaitingType
  <2>4. <<Head(Waiting)>> \o Tail(Waiting) = Waiting
    BY <2>2, <2>3
  <2> QED
    BY <1>1, <2>1, <2>2, <2>4 DEF Stream
<1> QED
  BY <1>1, <1>2, <1>3

\* process_rx_char takes the first byte of the stream.
LEMMA ProcessStream ==
    ASSUME TypeOK, pending \in BOOLEAN, ProcessRxChar
    PROVE  /\ Stream # <<>> /\ Stream[1] = popped /\ Stream' = Tail(Stream)
           /\ popped \in Bytes
<1>1. pending /\ ~pending' /\ Waiting' = Waiting
  BY DEF ProcessRxChar, vars, ringVars, Waiting, Occupied
<1>2. Waiting \in Seq(Bytes) /\ popped \in Bytes
  BY WaitingType DEF TypeOK
<1>3. /\ <<popped>> \o Waiting # <<>> /\ (<<popped>> \o Waiting)[1] = popped
      /\ Tail(<<popped>> \o Waiting) = Waiting
  BY <1>2
<1> QED
  BY <1>1, <1>2, <1>3 DEF Stream

-----------------------------------------------------------------------------
\* A quotient and a remainder determine each other.
LEMMA RemainderUnique ==
    ASSUME NEW L \in Nat, L >= 2, NEW q \in Int, NEW r \in 0 .. L - 1,
           NEW p \in Int, p = q * L + r
    PROVE  p % L = r
<1> DEFINE d == p \div L
           m == p % L
<1> SUFFICES m = r
  OBVIOUS
<1>1. d \in Int /\ m \in 0 .. L - 1 /\ p = L * d + m
  OBVIOUS
<1> HIDE DEF d, m
<1>2. (q - d) * L = m - r
  BY <1>1
<1>3. CASE q - d >= 1
  <2>1. (q - d - 1) * L >= 0
    BY <1>1, <1>3
  <2> QED
    BY <1>1, <1>2, <2>1
<1>4. CASE d - q >= 1
  <2>1. (d - q - 1) * L >= 0
    BY <1>1, <1>4
  <2> QED
    BY <1>1, <1>2, <2>1
<1>5. CASE d = q
  BY <1>1, <1>2, <1>5
<1>6. q \in Int /\ d \in Int
  BY <1>1
<1> QED
  BY <1>3, <1>4, <1>5, <1>6

LEMMA RemainderSteps ==
    ASSUME NEW L \in Nat, L >= 2, NEW p \in Nat
    PROVE  /\ 1 % L = 1 /\ 0 % L = 0
           /\ p % L = 0 => (p + 1) % L = 1
           /\ p % L = 1 => (p + L - 1) % L = 0
<1> DEFINE d == p \div L
           m == p % L
<1>1. d \in Int /\ m \in 0 .. L - 1 /\ p = L * d + m
  OBVIOUS
<1>2. 1 % L = 1 /\ 0 % L = 0
  OBVIOUS
<1>3. ASSUME NEW q \in Int, p = L * q PROVE (p + 1) % L = 1
  <2>1. p + 1 = q * L + 1
    BY <1>3
  <2>2. p + 1 \in Int /\ 1 \in 0 .. L - 1
    OBVIOUS
  <2> QED
    BY <2>1, <2>2, RemainderUnique
<1>4. ASSUME NEW q \in Int, p = L * q + 1 PROVE (p + L - 1) % L = 0
  <2> DEFINE e == q + 1
  <2>1. p + L - 1 = e * L + 0
    BY <1>4
  <2>2. p + L - 1 \in Int /\ 0 \in 0 .. L - 1 /\ e \in Int
    OBVIOUS
  <2> HIDE DEF e
  <2> QED
    BY <2>1, <2>2, RemainderUnique
<1> HIDE DEF d
<1>5. m = 0 => (p + 1) % L = 1
  BY <1>1, <1>3
<1>6. m = 1 => (p + L - 1) % L = 0
  BY <1>1, <1>4
<1> QED
  BY <1>2, <1>5, <1>6

\* Where a line may start in the line buffer: with its first character, or
\* behind so many full buffers.
StartsAt(pos) == pos % LINE_BUFFER_SIZE = 1

LEMMA StartArithmetic ==
    ASSUME NEW p \in Nat
    PROVE  /\ StartsAt(1) /\ 0 % LINE_BUFFER_SIZE = 0
           /\ p % LINE_BUFFER_SIZE = 0 => StartsAt(p + 1)
           /\ StartsAt(p) => (p + LINE_BUFFER_SIZE - 1) % LINE_BUFFER_SIZE = 0
<1>1. LINE_BUFFER_SIZE \in Nat /\ LINE_BUFFER_SIZE >= 2
  BY LineAssumption
<1> QED
  BY <1>1, RemainderSteps DEF StartsAt

-----------------------------------------------------------------------------
(***************************************************************************)
(* While nothing is dropped, each byte in the stream follows the one       *)
(* before it, the last one is where the sender is, and the first one goes  *)
(* on where the line buffer stops.                                         *)
(***************************************************************************)
Follows(a, b) ==
    IF a.kind = "char"
    THEN b \in {Byte("char", a.line, a.pos + 1), Byte("end", a.line, a.pos)}
    ELSE b.kind = "char" /\ b.pos = 1

IsPlace(a, place) ==
    IF a.kind = "char" THEN place.line = a.line /\ place.pos = a.pos
                       ELSE place.pos = 0

Places == [line : Lines, pos : 0 .. MAX_LINE]

Unbroken(s, buffer, place) ==
    /\ \A i, j : Consecutive(s, i, j) => Follows(s[i], s[j])
    /\ \A i : LastText(s, i) => IsPlace(s[i], place)
    /\ \A i : FirstText(s, i) =>
          IF buffer # <<>> THEN Follows(buffer[Len(buffer)], s[i])
                           ELSE s[i].kind = "end" \/ StartsAt(s[i].pos)
    /\ NoText(s) =>
          IF buffer # <<>> THEN IsPlace(buffer[Len(buffer)], place)
                           ELSE place.pos % LINE_BUFFER_SIZE = 0
    /\ \A i \in DOMAIN buffer : buffer[i].kind = "char"
    /\ IsRun(buffer)
    /\ buffer # <<>> => StartsAt(buffer[1].pos)

\* The sender sends b and goes from one place to the next.
Sends(b, place, next) ==
    \/ /\ b = Byte("char", place.line, place.pos + 1)
       /\ next = [place EXCEPT !.pos = @ + 1]
    \/ /\ b.kind = "end" /\ b = Byte("end", place.line, b.pos)
       /\ place.pos > 0 /\ next.pos = 0
    \/ b = SkipByte /\ next = place

LEMMA ByteKinds ==
    ASSUME NEW b \in Bytes
    PROVE  \/ b.kind = "char" /\ b.line \in Lines /\ b.pos \in 1 .. MAX_LINE
              /\ b = Byte("char", b.line, b.pos)
           \/ b.kind = "end" /\ b.line \in Lines /\ b.pos \in 0 .. MAX_LINE
              /\ b = Byte("end", b.line, b.pos)
           \/ b.kind = "skip" /\ b = SkipByte
BY StreamAssumption DEF StreamBytes, Byte, SkipByte

LEMMA UnbrokenAppend ==
    ASSUME NEW s \in Seq(Bytes), NEW b \in Bytes, NEW buffer \in Seq(Bytes),
           NEW place \in Places, NEW next \in Places,
           Unbroken(s, buffer, place), Sends(b, place, next),
           b.kind = "end" => b.pos = place.pos
    PROVE  Unbroken(Append(s, b), buffer, next)
<1> DEFINE t == Append(s, b)
<1>1. /\ \A i, j : Consecutive(t, i, j) =>
           \/ Consecutive(s, i, j) /\ t[i] = s[i] /\ t[j] = s[j]
           \/ /\ LastText(s, i) /\ t[i] = s[i]
              /\ j = Len(t) /\ t[j] = b /\ b.kind # "skip"
      /\ \A i : FirstText(t, i) =>
           \/ FirstText(s, i) /\ t[i] = s[i]
           \/ NoText(s) /\ t[i] = b /\ b.kind # "skip"
      /\ \A i : LastText(t, i) =>
           \/ i = Len(t) /\ t[i] = b /\ b.kind # "skip"
           \/ LastText(s, i) /\ t[i] = s[i] /\ b.kind = "skip"
      /\ NoText(t) => NoText(s) /\ b.kind = "skip"
  BY AppendedText
<1> HIDE DEF t
<1>2. \/ /\ b.kind = "char" /\ b = Byte("char", place.line, place.pos + 1)
         /\ b.line = place.line /\ b.pos = place.pos + 1
         /\ next.line = place.line /\ next.pos = place.pos + 1
      \/ /\ b.kind = "end" /\ b = Byte("end", place.line, place.pos)
         /\ place.pos > 0 /\ next.pos = 0
      \/ b.kind = "skip" /\ next = place
  BY DEF Sends, Byte, SkipByte, Places
<1>3. place.pos \in Nat
  BY DEF Places
<1>4. ASSUME NEW a, IsPlace(a, place), b.kind # "skip"
      PROVE  Follows(a, b)
  BY <1>2, <1>3, <1>4 DEF IsPlace, Follows
<1>5. \A i, j : Consecutive(t, i, j) => Follows(t[i], t[j])
  BY <1>1, <1>4 DEF Unbroken
<1>6. \A i : LastText(t, i) => IsPlace(t[i], next)
  BY <1>1, <1>2 DEF Unbroken, IsPlace
<1>7. ASSUME NEW i, FirstText(t, i)
      PROVE  IF buffer # <<>> THEN Follows(buffer[Len(buffer)], t[i])
                              ELSE t[i].kind = "end" \/ StartsAt(t[i].pos)
  <2>1. CASE FirstText(s, i) /\ t[i] = s[i]
    BY <2>1 DEF Unbroken
  <2>2. CASE NoText(s) /\ t[i] = b /\ b.kind # "skip"
    <3>1. CASE buffer # <<>>
      BY <1>4, <2>2, <3>1 DEF Unbroken
    <3>2. CASE buffer = <<>>
      <4>1. place.pos % LINE_BUFFER_SIZE = 0
        BY <2>2, <3>2 DEF Unbroken
      <4> QED
        BY <1>2, <1>3, <2>2, <3>2, <4>1, StartArithmetic
    <3> QED
      BY <3>1, <3>2
  <2> QED
    BY <1>1, <1>7, <2>1, <2>2
<1>8. NoText(t) =>
          IF buffer # <<>> THEN IsPlace(buffer[Len(buffer)], next)
                           ELSE next.pos % LINE_BUFFER_SIZE = 0
  BY <1>1, <1>2 DEF Unbroken
<1> QED
  BY <1>5, <1>6, <1>7, <1>8 DEF Unbroken, t

\* What follows a byte is first, once that byte and those before it are gone.
TextFollows(s, t, place) ==
    /\ \A i, j : Consecutive(t, i, j) => Follows(t[i], t[j])
    /\ \A i : LastText(t, i) => IsPlace(t[i], place)
    /\ s[1].kind # "skip" =>
          /\ \A i : FirstText(t, i) => Follows(s[1], t[i])
          /\ NoText(t) => IsPlace(s[1], place)

LEMMA TakenFollows ==
    ASSUME NEW s \in Seq(Bytes), s # <<>>, NEW t, t = Tail(s),
           NEW buffer, NEW place, Unbroken(s, buffer, place)
    PROVE  TextFollows(s, t, place)
<1>0. Taken(s, t)
  BY TakenText
<1>1. \A i, j : Consecutive(t, i, j) =>
          /\ Consecutive(s, i + 1, j + 1)
          /\ t[i] = s[i + 1] /\ t[j] = s[j + 1]
  BY <1>0 DEF Taken
<1>2. \A i : LastText(t, i) =>
          LastText(s, i + 1) /\ t[i] = s[i + 1]
  BY <1>0 DEF Taken
<1>3. s[1].kind # "skip" =>
          /\ \A i : FirstText(t, i) =>
                t[i] = s[i + 1] /\ Consecutive(s, 1, i + 1)
          /\ NoText(t) => LastText(s, 1)
  BY <1>0 DEF Taken
<1> QED
  BY <1>1, <1>2, <1>3 DEF Unbroken, TextFollows

LEMMA UnbrokenSkip ==
    ASSUME NEW s \in Seq(Bytes), s # <<>>, NEW t, t = Tail(s),
           NEW buffer, NEW place,
           Unbroken(s, buffer, place), s[1].kind = "skip"
    PROVE  Unbroken(t, buffer, place)
<1>0. TextFollows(s, t, place) /\ Taken(s, t)
  BY TakenFollows, TakenText
<1>1. /\ \A i : FirstText(t, i) =>
            t[i] = s[i + 1] /\ FirstText(s, i + 1)
      /\ NoText(t) => NoText(s)
  BY <1>0 DEF Taken
<1> QED
  BY <1>1, <1>0 DEF Unbroken, TextFollows

LEMMA UnbrokenEnd ==
    ASSUME NEW s \in Seq(Bytes), s # <<>>, NEW t, t = Tail(s),
           NEW buffer, NEW place,
           Unbroken(s, buffer, place), s[1].kind = "end"
    PROVE  Unbroken(t, <<>>, place)
<1>0. TextFollows(s, t, place)
  BY TakenFollows
<1>1. StartsAt(1) /\ 0 % LINE_BUFFER_SIZE = 0
  BY StartArithmetic
<1>2. /\ \A i : FirstText(t, i) => StartsAt(t[i].pos)
      /\ NoText(t) => place.pos % LINE_BUFFER_SIZE = 0
  BY <1>1, <1>0 DEF Follows, IsPlace, TextFollows
<1>3. DOMAIN <<>> = {}
  OBVIOUS
<1>4. IsRun(<<>>) /\ \A i \in DOMAIN <<>> : <<>>[i].kind = "char"
  BY <1>3 DEF IsRun
<1> QED
  BY <1>2, <1>0, <1>4 DEF Unbroken, TextFollows

\* A character that is taken goes on where the line buffer stops.
LEMMA TakenGoesOn ==
    ASSUME NEW s \in Seq(Bytes), s # <<>>, NEW t, t = Tail(s),
           NEW buffer \in Seq(Bytes), NEW place,
           Unbroken(s, buffer, place), s[1].kind = "char"
    PROVE  /\ buffer = <<>> => StartsAt(s[1].pos)
           /\ buffer # <<>> =>
                /\ s[1].line = buffer[1].line
                /\ s[1].pos = buffer[1].pos + Len(buffer)
                /\ buffer[1].pos \in Nat /\ StartsAt(buffer[1].pos)
<1>1. FirstText(s, 1)
  BY TakenText DEF Taken
<1>2. buffer = <<>> => StartsAt(s[1].pos)
  BY <1>1 DEF Unbroken
<1>3. ASSUME buffer # <<>>
      PROVE  /\ s[1].line = buffer[1].line
             /\ s[1].pos = buffer[1].pos + Len(buffer)
             /\ buffer[1].pos \in Nat /\ StartsAt(buffer[1].pos)
  <2> DEFINE n == Len(buffer)
  <2>1. n \in Nat \ {0} /\ 1 \in DOMAIN buffer /\ n \in DOMAIN buffer
    BY <1>3
  <2>2. /\ buffer[n].kind = "char" /\ buffer[1].kind = "char"
        /\ buffer[n].line = buffer[1].line
        /\ buffer[n].pos = buffer[1].pos + n - 1
    BY <2>1 DEF Unbroken, IsRun
  <2>3. buffer[1] \in Bytes
    BY <2>1
  <2>4. buffer[1].pos \in Nat
    BY <2>2, <2>3, ByteKinds
  <2>5. Follows(buffer[n], s[1])
    BY <1>1, <1>3 DEF Unbroken
  <2>6. s[1].line = buffer[n].line /\ s[1].pos = buffer[n].pos + 1
    BY <2>2, <2>5 DEF Follows, Byte
  <2>7. StartsAt(buffer[1].pos)
    BY <1>3 DEF Unbroken
  <2> HIDE DEF n
  <2>8. s[1].pos = buffer[1].pos + n
    <3>1. ASSUME NEW p, NEW q \in Nat, NEW m \in Nat, p = q + m - 1
          PROVE  p + 1 = q + m
      BY <3>1
    <3> QED
      BY <2>1, <2>2, <2>4, <2>6, <3>1
  <2> QED
    BY <2>2, <2>4, <2>6, <2>7, <2>8 DEF n
<1> QED
  BY <1>2, <1>3

\* The end that is taken is the end of the line in the line buffer.
LEMMA TakenEnd ==
    ASSUME NEW s \in Seq(Bytes), s # <<>>, NEW buffer \in Seq(Bytes),
           NEW place, Unbroken(s, buffer, place), s[1].kind = "end",
           buffer # <<>>
    PROVE  s[1] = Byte("end", buffer[1].line, buffer[Len(buffer)].pos)
<1> DEFINE n == Len(buffer)
<1>1. FirstText(s, 1)
  BY TakenText DEF Taken
<1>2. n \in Nat \ {0} /\ n \in DOMAIN buffer
  OBVIOUS
<1>3. buffer[n].kind = "char" /\ buffer[n].line = buffer[1].line
  BY <1>2 DEF Unbroken, IsRun
<1>4. Follows(buffer[n], s[1])
  BY <1>1 DEF Unbroken
<1> QED
  BY <1>3, <1>4 DEF Follows, Byte

LEMMA UnbrokenKeep ==
    ASSUME NEW s \in Seq(Bytes), s # <<>>, NEW t, t = Tail(s),
           NEW buffer \in Seq(Bytes), NEW place,
           Unbroken(s, buffer, place), s[1].kind = "char"
    PROVE  Unbroken(t, Append(buffer, s[1]), place)
<1>0. TextFollows(s, t, place)
  BY TakenFollows
<1> DEFINE n == Len(buffer)
           longer == Append(buffer, s[1])
<1>1. s[1] \in Bytes
  OBVIOUS
<1>2. /\ n \in Nat /\ Len(longer) = n + 1 /\ longer # <<>>
      /\ DOMAIN longer = 1 .. n + 1 /\ DOMAIN buffer = 1 .. n
      /\ \A i \in 1 .. n : longer[i] = buffer[i]
      /\ longer[n + 1] = s[1]
  BY <1>1
<1> HIDE DEF longer
<1>3. \A i \in DOMAIN longer : longer[i].kind = "char"
  BY <1>2 DEF Unbroken
<1>4. IsRun(longer) /\ StartsAt(longer[1].pos)
  <2>1. CASE buffer = <<>>
    <3>1. n = 0
      BY <2>1
    <3>2. s[1].pos \in Nat
      BY <1>1, ByteKinds
    <3>3. \A i \in DOMAIN longer : i = 1
      BY <1>2, <3>1
    <3>4. longer[1] = s[1]
      BY <1>2, <3>1
    <3>5. StartsAt(longer[1].pos)
      BY <2>1, <3>4, TakenGoesOn
    <3> QED
      BY <3>2, <3>3, <3>4, <3>5 DEF IsRun
  <2>2. CASE buffer # <<>>
    <3>1. n > 0
      BY <2>2
    <3>2. /\ s[1].line = buffer[1].line /\ s[1].pos = buffer[1].pos + n
          /\ buffer[1].pos \in Nat /\ StartsAt(buffer[1].pos)
      BY <2>2, TakenGoesOn
    <3>3. longer[1] = buffer[1]
      BY <1>2, <3>1
    <3>4. ASSUME NEW i \in 1 .. n + 1
          PROVE  /\ longer[i].line = longer[1].line
                 /\ longer[i].pos = longer[1].pos + i - 1
      <4>1. CASE i \in 1 .. n
        BY <1>2, <3>3, <4>1 DEF Unbroken, IsRun
      <4>2. CASE i = n + 1
        BY <1>2, <3>2, <3>3, <4>2
      <4> QED
        BY <1>2, <4>1, <4>2
    <3> QED
      BY <1>2, <3>2, <3>3, <3>4 DEF IsRun
  <2> QED
    BY <2>1, <2>2
<1>5. /\ \A i : FirstText(t, i) => Follows(longer[Len(longer)], t[i])
      /\ NoText(t) => IsPlace(longer[Len(longer)], place)
  BY <1>2, <1>0 DEF TextFollows
<1> QED
  BY <1>2, <1>3, <1>4, <1>5, <1>0 DEF Unbroken, longer, TextFollows

LEMMA UnbrokenOverflow ==
    ASSUME NEW s \in Seq(Bytes), s # <<>>, NEW t, t = Tail(s),
           NEW buffer \in Seq(Bytes),
           NEW place \in Places, Unbroken(s, buffer, place),
           s[1].kind = "char", Len(buffer) = LINE_BUFFER_SIZE - 1
    PROVE  Unbroken(t, <<>>, place)
<1>0. TextFollows(s, t, place)
  BY TakenFollows
<1>1. LINE_BUFFER_SIZE \in Nat /\ LINE_BUFFER_SIZE >= 2
  BY LineAssumption
<1>2. buffer # <<>>
  BY <1>1
<1>3. /\ s[1].pos = buffer[1].pos + (LINE_BUFFER_SIZE - 1)
      /\ buffer[1].pos \in Nat /\ StartsAt(buffer[1].pos)
  BY <1>2, TakenGoesOn
<1>4. /\ s[1].pos \in Nat
      /\ s[1].pos = buffer[1].pos + LINE_BUFFER_SIZE - 1
  BY <1>1, <1>3
<1>5. s[1].pos % LINE_BUFFER_SIZE = 0
  BY <1>3, <1>4, StartArithmetic
<1>6. StartsAt(s[1].pos + 1)
  BY <1>4, <1>5, StartArithmetic
<1>7. ASSUME NEW i, FirstText(t, i)
      PROVE  t[i].kind = "end" \/ StartsAt(t[i].pos)
  <2>1. t[i] \in {Byte("char", s[1].line, s[1].pos + 1),
                 Byte("end", s[1].line, s[1].pos)}
    BY <1>0, <1>7 DEF Follows, TextFollows
  <2>2. ASSUME NEW a, a \in {Byte("char", s[1].line, s[1].pos + 1),
                            Byte("end", s[1].line, s[1].pos)}
        PROVE  a.kind = "end" \/ StartsAt(a.pos)
    <3>1. CASE a = Byte("char", s[1].line, s[1].pos + 1)
      <4>1. a.pos = s[1].pos + 1
        BY <3>1 DEF Byte
      <4> QED
        BY <1>6, <4>1
    <3>2. CASE a = Byte("end", s[1].line, s[1].pos)
      BY <3>2 DEF Byte
    <3> QED
      BY <2>2, <3>1, <3>2
  <2> QED
    BY <2>1, <2>2
<1>8. NoText(t) => place.pos % LINE_BUFFER_SIZE = 0
  BY <1>5, <1>0 DEF IsPlace, TextFollows
<1>9. DOMAIN <<>> = {}
  OBVIOUS
<1>10. IsRun(<<>>) /\ \A i \in DOMAIN <<>> : <<>>[i].kind = "char"
  BY <1>9 DEF IsRun
<1> QED
  BY <1>7, <1>8, <1>0, <1>10 DEF Unbroken, TextFollows

-----------------------------------------------------------------------------
(***************************************************************************)
(* While no line end is dropped, a character is of the line of the text    *)
(* behind it, in the stream, in the line buffer and across the two.        *)
(***************************************************************************)
OneLine(s, buffer, place) ==
    /\ \A i, j : Consecutive(s, i, j) /\ s[i].kind = "char" =>
                    s[j].line = s[i].line
    /\ \A i : LastText(s, i) /\ s[i].kind = "char" => s[i].line = place.line
    /\ buffer # <<>> =>
          /\ \A i : FirstText(s, i) => s[i].line = buffer[1].line
          /\ NoText(s) => place.line = buffer[1].line
    /\ \A i \in DOMAIN buffer : buffer[i].line = buffer[1].line

LEMMA OneLineAppend ==
    ASSUME NEW s \in Seq(Bytes), NEW b \in Bytes, NEW buffer \in Seq(Bytes),
           NEW place \in Places, NEW next \in Places,
           OneLine(s, buffer, place), Sends(b, place, next)
    PROVE  OneLine(Append(s, b), buffer, next)
<1> DEFINE t == Append(s, b)
<1>1. /\ \A i, j : Consecutive(t, i, j) =>
           \/ Consecutive(s, i, j) /\ t[i] = s[i] /\ t[j] = s[j]
           \/ /\ LastText(s, i) /\ t[i] = s[i]
              /\ j = Len(t) /\ t[j] = b /\ b.kind # "skip"
      /\ \A i : FirstText(t, i) =>
           \/ FirstText(s, i) /\ t[i] = s[i]
           \/ NoText(s) /\ t[i] = b /\ b.kind # "skip"
      /\ \A i : LastText(t, i) =>
           \/ i = Len(t) /\ t[i] = b /\ b.kind # "skip"
           \/ LastText(s, i) /\ t[i] = s[i] /\ b.kind = "skip"
      /\ NoText(t) => NoText(s) /\ b.kind = "skip"
  BY AppendedText
<1> HIDE DEF t
<1>2. \/ b.kind = "char" /\ b.line = place.line /\ next.line = place.line
      \/ b.kind = "end" /\ b.line = place.line
      \/ b.kind = "skip" /\ next = place
  BY DEF Sends, Byte, SkipByte, Places
<1>3. \A i, j : Consecutive(t, i, j) /\ t[i].kind = "char" =>
                   t[j].line = t[i].line
  BY <1>1, <1>2 DEF OneLine
<1>4. \A i : LastText(t, i) /\ t[i].kind = "char" => t[i].line = next.line
  BY <1>1, <1>2 DEF OneLine
<1>5. ASSUME buffer # <<>>
      PROVE  /\ \A i : FirstText(t, i) => t[i].line = buffer[1].line
             /\ NoText(t) => next.line = buffer[1].line
  BY <1>1, <1>2, <1>5 DEF OneLine
<1> QED
  BY <1>3, <1>4, <1>5 DEF OneLine, t

\* Characters that are dropped leave what is there alone.
LEMMA OneLineDrop ==
    ASSUME NEW s, NEW b, NEW buffer, NEW place \in Places, NEW next \in Places,
           OneLine(s, buffer, place), Sends(b, place, next), b.kind # "end"
    PROVE  OneLine(s, buffer, next)
<1>1. next.line = place.line
  BY DEF Sends, Byte, Places
<1> QED
  BY <1>1 DEF OneLine

\* What one line means for a stream whose first byte is taken.
LineGoesOn(s, t, place) ==
    /\ \A i, j : Consecutive(t, i, j) /\ t[i].kind = "char" =>
                    t[j].line = t[i].line
    /\ \A i : LastText(t, i) /\ t[i].kind = "char" => t[i].line = place.line
    /\ s[1].kind = "char" =>
          /\ \A i : FirstText(t, i) => t[i].line = s[1].line
          /\ NoText(t) => place.line = s[1].line

LEMMA TakenLine ==
    ASSUME NEW s \in Seq(Bytes), s # <<>>, NEW t, t = Tail(s),
           NEW buffer, NEW place, OneLine(s, buffer, place)
    PROVE  LineGoesOn(s, t, place)
<1>0. Taken(s, t)
  BY TakenText
<1>1. /\ \A i, j : Consecutive(s, i, j) /\ s[i].kind = "char" =>
                      s[j].line = s[i].line
      /\ \A i : LastText(s, i) /\ s[i].kind = "char" => s[i].line = place.line
  BY DEF OneLine
<1>2. \A i, j : Consecutive(t, i, j) =>
          /\ Consecutive(s, i + 1, j + 1)
          /\ t[i] = s[i + 1] /\ t[j] = s[j + 1]
  BY <1>0 DEF Taken
<1>3. \A i : LastText(t, i) => LastText(s, i + 1) /\ t[i] = s[i + 1]
  BY <1>0 DEF Taken
<1>4. s[1].kind = "char" =>
          /\ \A i : FirstText(t, i) =>
                t[i] = s[i + 1] /\ Consecutive(s, 1, i + 1)
          /\ NoText(t) => LastText(s, 1)
  BY <1>0 DEF Taken
<1>5. ASSUME NEW i, NEW j, Consecutive(t, i, j), t[i].kind = "char"
      PROVE  t[j].line = t[i].line
  <2>1. /\ Consecutive(s, i + 1, j + 1)
        /\ t[i] = s[i + 1] /\ t[j] = s[j + 1]
    BY <1>2, <1>5
  <2> QED
    BY <1>1, <1>5, <2>1
<1>6. \A i : LastText(t, i) /\ t[i].kind = "char" => t[i].line = place.line
  BY <1>1, <1>3
<1>7. ASSUME s[1].kind = "char"
      PROVE  /\ \A i : FirstText(t, i) => t[i].line = s[1].line
             /\ NoText(t) => place.line = s[1].line
  <2>1. ASSUME NEW i, FirstText(t, i) PROVE t[i].line = s[1].line
    <3>1. t[i] = s[i + 1] /\ Consecutive(s, 1, i + 1)
      BY <1>4, <1>7, <2>1
    <3>2. \A j : Consecutive(s, 1, j) => s[j].line = s[1].line
      BY <1>1, <1>7
    <3>3. s[i + 1].line = s[1].line
      BY <3>1, <3>2
    <3> QED
      BY <3>1, <3>3
  <2>2. NoText(t) => place.line = s[1].line
    BY <1>1, <1>4, <1>7
  <2> QED
    BY <2>1, <2>2
<1> QED
  BY <1>5, <1>6, <1>7 DEF LineGoesOn

LEMMA OneLineSkip ==
    ASSUME NEW s \in Seq(Bytes), s # <<>>, NEW t, t = Tail(s),
           NEW buffer, NEW place, OneLine(s, buffer, place),
           s[1].kind = "skip"
    PROVE  OneLine(t, buffer, place)
<1>1. LineGoesOn(s, t, place) /\ Taken(s, t)
  BY TakenLine, TakenText
<1>2. /\ \A i : FirstText(t, i) => t[i] = s[i + 1] /\ FirstText(s, i + 1)
      /\ NoText(t) => NoText(s)
  BY <1>1 DEF Taken
<1>3. ASSUME buffer # <<>>
      PROVE  /\ \A i : FirstText(t, i) => t[i].line = buffer[1].line
             /\ NoText(t) => place.line = buffer[1].line
  <2>1. /\ \A i : FirstText(s, i) => s[i].line = buffer[1].line
        /\ NoText(s) => place.line = buffer[1].line
    BY <1>3 DEF OneLine
  <2>2. ASSUME NEW i, FirstText(t, i) PROVE t[i].line = buffer[1].line
    <3>1. t[i] = s[i + 1] /\ FirstText(s, i + 1)
      BY <1>2, <2>2
    <3> QED
      BY <2>1, <3>1
  <2> QED
    BY <1>2, <2>1, <2>2
<1>4. \A i \in DOMAIN buffer : buffer[i].line = buffer[1].line
  BY DEF OneLine
<1> QED
  BY <1>1, <1>3, <1>4 DEF OneLine, LineGoesOn

LEMMA OneLineEmpty ==
    ASSUME NEW s \in Seq(Bytes), s # <<>>, NEW t, t = Tail(s),
           NEW buffer, NEW place, OneLine(s, buffer, place)
    PROVE  OneLine(t, <<>>, place)
<1>1. LineGoesOn(s, t, place)
  BY TakenLine
<1>2. DOMAIN <<>> = {}
  OBVIOUS
<1> QED
  BY <1>1, <1>2 DEF OneLine, LineGoesOn

LEMMA OneLineKeep ==
    ASSUME NEW s \in Seq(Bytes), s # <<>>, NEW t, t = Tail(s),
           NEW buffer \in Seq(Bytes), NEW place, OneLine(s, buffer, place),
           s[1].kind = "char"
    PROVE  OneLine(t, Append(buffer, s[1]), place)
<1> DEFINE longer == Append(buffer, s[1])
<1>1. LineGoesOn(s, t, place) /\ Taken(s, t)
  BY TakenLine, TakenText
<1>2. /\ longer # <<>> /\ DOMAIN longer = 1 .. Len(buffer) + 1
      /\ DOMAIN buffer = 1 .. Len(buffer) /\ Len(buffer) \in Nat
      /\ \A i \in 1 .. Len(buffer) : longer[i] = buffer[i]
      /\ longer[Len(buffer) + 1] = s[1]
      /\ buffer = <<>> => Len(buffer) = 0
      /\ buffer # <<>> => Len(buffer) > 0
  OBVIOUS
<1> HIDE DEF longer
<1>3. buffer # <<>> => s[1].line = buffer[1].line
  <2>1. FirstText(s, 1)
    BY <1>1 DEF Taken
  <2> QED
    BY <2>1 DEF OneLine
<1>4. longer[1].line = s[1].line
  BY <1>2, <1>3
<1>5. \A i \in DOMAIN longer : longer[i].line = longer[1].line
  BY <1>2, <1>3, <1>4 DEF OneLine
<1>6. /\ \A i : FirstText(t, i) => t[i].line = longer[1].line
      /\ NoText(t) => place.line = longer[1].line
  BY <1>1, <1>4 DEF LineGoesOn
<1> QED
  BY <1>1, <1>2, <1>5, <1>6 DEF OneLine, LineGoesOn, longer

-----------------------------------------------------------------------------
LEMMA ReaderStepsRing == ReaderNext => [Next]_vars
BY DEF ReaderNext, Arrive, Pop, ProcessRxChar, Next

\* What the line on the wire does when one of its bytes arrives.
LEMMA ArriveSends ==
    ASSUME sending \in Places, NEW b \in Bytes, Arrive(b)
    PROVE  /\ Sends(b, sending, sending') /\ sending' \in Places
           /\ ~dropped /\ b.kind = "end" => b.pos = sending.pos
<1>0. ~dropped /\ b.kind = "end" => b.pos = sending.pos
  <2>1. \/ b = Byte("char", sending.line, sending.pos + 1)
        \/ b = Byte("end", sending.line, IF dropped THEN 0 ELSE sending.pos)
        \/ b = SkipByte
    BY DEF Arrive
  <2>2. CASE b = Byte("end", sending.line, IF dropped THEN 0 ELSE sending.pos)
    BY <2>2 DEF Byte
  <2> QED
    BY <2>1, <2>2 DEF Byte, SkipByte
<1> SUFFICES Sends(b, sending, sending') /\ sending' \in Places
  BY <1>0
<1>1. CASE /\ b = Byte("char", sending.line, sending.pos + 1)
           /\ sending' = [sending EXCEPT !.pos = @ + 1]
  <2>1. b.kind = "char" /\ b.pos = sending.pos + 1
    BY <1>1 DEF Byte
  <2>2. sending.pos + 1 \in 0 .. MAX_LINE
    BY <2>1, ByteKinds, LineAssumption
  <2> QED
    BY <1>1, <2>2 DEF Sends, Places
<1>2. CASE /\ b = Byte("end", sending.line, IF dropped THEN 0 ELSE sending.pos)
           /\ sending.pos > 0
           /\ sending' \in [line : Lines \ {sending.line}, pos : {0}]
  <2>1. b.kind = "end" /\ b = Byte("end", sending.line, b.pos)
    BY <1>2 DEF Byte
  <2>2. sending'.pos = 0 /\ sending' \in Places
    BY <1>2, LineAssumption DEF Places
  <2> QED
    BY <1>2, <2>1, <2>2 DEF Sends
<1>3. CASE b = SkipByte /\ sending' = sending
  BY <1>3 DEF Sends, Places
<1> QED
  BY <1>1, <1>2, <1>3 DEF Arrive

LEMMA ReaderTypeStep ==
    ReaderTypeOK /\ [ReaderNext]_readerVars => ReaderTypeOK'
<1> SUFFICES ASSUME ReaderTypeOK, [ReaderNext]_readerVars
             PROVE  ReaderTypeOK'
  OBVIOUS
<1>1. TypeOK'
  <2>1. [Next]_vars
    BY ReaderStepsRing DEF readerVars, vars, ringVars
  <2> QED
    BY <2>1, RingTypeStep DEF ReaderTypeOK
<1>2. LINE_BUFFER_SIZE \in Nat /\ LINE_BUFFER_SIZE >= 2
  BY LineAssumption
<1>3. ASSUME NEW b \in Bytes, Arrive(b) PROVE ReaderTypeOK'
  <2>1. sending' \in Places
    BY <1>3, ArriveSends DEF ReaderTypeOK, Places
  <2> QED
    BY <1>1, <1>3, <2>1 DEF Arrive, lineVars, ReaderTypeOK, Places
<1>4. CASE Pop
  <2>1. copied \in BOOLEAN
    BY DEF ReaderTypeOK, TypeOK
  <2> QED
    BY <1>1, <1>4, <2>1 DEF Pop, lineVars, streamVars, ReaderTypeOK
<1>5. CASE ProcessRxChar
  <2>1. /\ g_line_buffer' \in Seq(Bytes)
        /\ Len(g_line_buffer') < LINE_BUFFER_SIZE
        /\ handed' \in Seq(Bytes) /\ Len(handed') < LINE_BUFFER_SIZE
    <3>1. popped \in Bytes /\ SkipByte \in Bytes
      BY StreamAssumption DEF ReaderTypeOK, TypeOK, StreamBytes
    <3>2. /\ <<>> \in Seq(Bytes) /\ Len(<<>>) = 0
          /\ LINE_OVERFLOW \in Seq(Bytes) /\ Len(LINE_OVERFLOW) = 1
      BY <3>1 DEF LINE_OVERFLOW
    <3>3. CASE Ignore
      BY <1>2, <3>2, <3>3 DEF Ignore, ReaderTypeOK
    <3>4. CASE EndLine
      BY <1>2, <3>2, <3>4 DEF EndLine, ReaderTypeOK
    <3>5. CASE KeepChar
      BY <1>2, <3>1, <3>2, <3>5 DEF KeepChar, ReaderTypeOK
    <3>6. CASE OverflowLine
      BY <1>2, <3>2, <3>6 DEF OverflowLine, ReaderTypeOK
    <3> QED
      BY <1>5, <3>3, <3>4, <3>5, <3>6 DEF ProcessRxChar
  <2> QED
    BY <1>1, <1>5, <2>1 DEF ProcessRxChar, streamVars, ReaderTypeOK
<1>6. CASE UNCHANGED readerVars
  BY <1>1, <1>6 DEF readerVars, lineVars, streamVars, ReaderTypeOK
<1> QED
  BY <1>3, <1>4, <1>5, <1>6 DEF ReaderNext

LEMMA ReaderStart == ReaderInit => ReaderTypeOK
<1> SUFFICES ASSUME ReaderInit PROVE ReaderTypeOK
  OBVIOUS
<1>1. 0 \in Slots
  BY RingAssumption DEF Slots
<1>2. g_rx_ring \in [Slots -> Bytes]
  BY RingAssumption DEF ReaderInit, Init
<1>3. TypeOK
  BY <1>1, <1>2, RingAssumption DEF ReaderInit, Init, TypeOK
<1>4. sending \in [line : Lines, pos : 0 .. MAX_LINE]
  BY LineAssumption DEF ReaderInit
<1>5. <<>> \in Seq(Bytes) /\ Len(<<>>) = 0 /\ 0 < LINE_BUFFER_SIZE
  BY LineAssumption
<1> QED
  BY <1>3, <1>4, <1>5 DEF ReaderInit, ReaderTypeOK

(***************************************************************************)
(* The line buffer keeps room for its terminating '\0', and so does a line *)
(* that is handed on (process_rx_char), whatever the bytes that arrive.    *)
(***************************************************************************)
THEOREM ReaderTypeCorrect == ReaderSpec => []ReaderTypeOK
BY ReaderStart, ReaderTypeStep, PTL DEF ReaderSpec

-----------------------------------------------------------------------------
(***************************************************************************)
(* The inductive invariant behind the properties of the lines: what is yet *)
(* to be read fits what the line buffer holds.                             *)
(***************************************************************************)
LinesInv ==
    /\ ReaderTypeOK
    /\ PopIsStable
    /\ ~dropped => Unbroken(Stream, g_line_buffer, sending)
    /\ ~endDropped => OneLine(Stream, g_line_buffer, sending)
    /\ LinesAreRuns
    /\ LinesMergeOnlyWithoutEnd

LEMMA LinesStart == ReaderInit => LinesInv
<1> SUFFICES ASSUME ReaderInit PROVE LinesInv
  OBVIOUS
<1>1. ReaderTypeOK /\ PopIsStable
  BY ReaderStart DEF ReaderInit, Init, PopIsStable
<1>2. Stream = <<>>
  <2>1. Occupied = 0
    BY RingAssumption DEF ReaderInit, Init, Occupied
  <2>2. Waiting = <<>>
    BY <2>1 DEF Waiting
  <2> QED
    BY <2>2 DEF ReaderInit, Stream
<1>3. DOMAIN <<>> = {}
  OBVIOUS
<1>4. g_line_buffer = <<>> /\ handed = <<>> /\ sending.pos = 0
  BY DEF ReaderInit
<1>5. Unbroken(<<>>, <<>>, sending)
  BY <1>3, <1>4, StartArithmetic
  DEF Unbroken, Consecutive, LastText, FirstText, IsRun
<1>6. OneLine(<<>>, <<>>, sending)
  BY <1>3 DEF OneLine, Consecutive, LastText
<1> QED
  BY <1>1, <1>2, <1>4, <1>5, <1>6
  DEF LinesInv, LinesAreRuns, LinesMergeOnlyWithoutEnd

LEMMA LinesArrive ==
    ASSUME LinesInv, NEW b \in Bytes, Arrive(b)
    PROVE  /\ ~dropped' => Unbroken(Stream, g_line_buffer, sending)'
           /\ ~endDropped' => OneLine(Stream, g_line_buffer, sending)'
<1>1. /\ Sends(b, sending, sending') /\ sending \in Places
      /\ sending' \in Places
      /\ ~dropped /\ b.kind = "end" => b.pos = sending.pos
  BY ArriveSends DEF LinesInv, ReaderTypeOK, Places
<1>2. /\ Stream \in Seq(Bytes) /\ g_line_buffer \in Seq(Bytes)
      /\ Stream' = IF RingFull THEN Stream ELSE Append(Stream, b)
  BY StreamType, ArriveStream DEF LinesInv, ReaderTypeOK
<1>3. /\ dropped' = (dropped \/ (RingFull /\ b.kind # "skip"))
      /\ endDropped' = (endDropped \/ (RingFull /\ b.kind = "end"))
      /\ g_line_buffer' = g_line_buffer
  BY DEF Arrive, lineVars
<1>4. CASE RingFull
  <2>1. b.kind = "skip" => sending' = sending
    BY <1>1 DEF Sends, Byte
  <2>2. b.kind = "skip" => b.kind # "end"
    OBVIOUS
  <2>3. ~dropped' => Unbroken(Stream', g_line_buffer', sending')
    BY <1>2, <1>3, <1>4, <2>1 DEF LinesInv
  <2>4. ~endDropped' => OneLine(Stream, g_line_buffer, sending')
    BY <1>1, <1>3, <1>4, OneLineDrop DEF LinesInv
  <2> QED
    BY <1>2, <1>3, <1>4, <2>3, <2>4
<1>5. CASE ~RingFull
  <2>1. ~dropped' => Unbroken(Append(Stream, b), g_line_buffer, sending')
    BY <1>1, <1>2, <1>3, UnbrokenAppend DEF LinesInv
  <2>2. ~endDropped' => OneLine(Append(Stream, b), g_line_buffer, sending')
    BY <1>1, <1>2, <1>3, OneLineAppend DEF LinesInv
  <2> QED
    BY <1>2, <1>3, <1>5, <2>1, <2>2
<1> QED
  BY <1>4, <1>5

LEMMA LinesProcess ==
    ASSUME LinesInv, ProcessRxChar
    PROVE  /\ ~dropped' => Unbroken(Stream, g_line_buffer, sending)'
           /\ ~endDropped' => OneLine(Stream, g_line_buffer, sending)'
           /\ LinesAreRuns' /\ LinesMergeOnlyWithoutEnd'
<1> DEFINE s == Stream
           t == Tail(Stream)
           buffer == g_line_buffer
<1>1. /\ s \in Seq(Bytes) /\ s # <<>> /\ s[1] = popped /\ Stream' = t
      /\ buffer \in Seq(Bytes) /\ Len(buffer) < LINE_BUFFER_SIZE
      /\ LINE_BUFFER_SIZE \in Nat /\ sending \in Places
  BY StreamType, ProcessStream, LineAssumption
  DEF LinesInv, ReaderTypeOK, Places
<1>2. sending' = sending /\ dropped' = dropped /\ endDropped' = endDropped
  BY DEF ProcessRxChar, streamVars
<1>3. /\ ~dropped => Unbroken(s, buffer, sending)
      /\ ~endDropped => OneLine(s, buffer, sending)
  BY DEF LinesInv
<1> HIDE DEF s
<1>4. SUFFICES /\ ~dropped => Unbroken(t, g_line_buffer', sending)
               /\ ~endDropped => OneLine(t, g_line_buffer', sending)
               /\ LinesAreRuns' /\ LinesMergeOnlyWithoutEnd'
  BY <1>1, <1>2
<1>5. handed' = <<>> => LinesAreRuns' /\ LinesMergeOnlyWithoutEnd'
  BY DEF LinesAreRuns, LinesMergeOnlyWithoutEnd
<1>6. t = Tail(s)
  BY DEF s
<1> HIDE DEF t
<1>7. CASE Ignore
  <2>1. /\ s[1].kind = "skip" /\ g_line_buffer' = buffer /\ handed' = <<>>
    BY <1>1, <1>7 DEF Ignore
  <2> QED
    BY <1>1, <1>3, <1>5, <1>6, <2>1, UnbrokenSkip, OneLineSkip
<1>8. CASE EndLine
  <2>1. s[1].kind = "end" /\ g_line_buffer' = <<>> /\ handed' = buffer
    BY <1>1, <1>8 DEF EndLine
  <2>2. ASSUME ~dropped, buffer # <<>>
        PROVE  /\ IsRun(buffer) /\ buffer[1].pos % LINE_BUFFER_SIZE = 1
               /\ popped = Byte("end", buffer[1].line, buffer[Len(buffer)].pos)
    <3>1. Unbroken(s, buffer, sending)
      BY <1>3, <2>2
    <3>2. IsRun(buffer) /\ buffer[1].pos % LINE_BUFFER_SIZE = 1
      BY <2>2, <3>1 DEF Unbroken, StartsAt
    <3>3. s[1] = Byte("end", buffer[1].line, buffer[Len(buffer)].pos)
      BY <1>1, <2>1, <2>2, <3>1, TakenEnd
    <3> QED
      BY <1>1, <3>2, <3>3
  <2>3. ~endDropped =>
            \A i \in DOMAIN buffer : buffer[i].line = buffer[1].line
    BY <1>3 DEF OneLine
  <2>4. LinesAreRuns'
    <3>1. popped' = popped
      BY DEF ProcessRxChar, vars
    <3> QED
      BY <1>2, <2>1, <2>2, <3>1 DEF LinesAreRuns, IsRun
  <2>5. LinesMergeOnlyWithoutEnd'
    BY <1>2, <2>1, <2>3 DEF LinesMergeOnlyWithoutEnd
  <2> QED
    BY <1>1, <1>3, <1>6, <2>1, <2>4, <2>5, UnbrokenEnd, OneLineEmpty
<1>9. CASE KeepChar
  <2>1. /\ s[1].kind = "char" /\ g_line_buffer' = Append(buffer, s[1])
        /\ handed' = <<>>
    BY <1>1, <1>9 DEF KeepChar
  <2> QED
    BY <1>1, <1>3, <1>5, <1>6, <2>1, UnbrokenKeep, OneLineKeep
<1>10. CASE OverflowLine
  <2>1. /\ s[1].kind = "char" /\ g_line_buffer' = <<>>
        /\ handed' = LINE_OVERFLOW
        /\ Len(buffer) >= LINE_BUFFER_SIZE - 1
    BY <1>1, <1>10 DEF OverflowLine
  <2>2. Len(buffer) = LINE_BUFFER_SIZE - 1
    BY <1>1, <2>1
  <2>3. \A i \in DOMAIN LINE_OVERFLOW : i = 1
    BY DEF LINE_OVERFLOW
  <2>4. LinesAreRuns' /\ LinesMergeOnlyWithoutEnd'
    BY <2>1, <2>3 DEF LinesAreRuns, LinesMergeOnlyWithoutEnd, LINE_OVERFLOW
  <2> QED
    BY <1>1, <1>3, <1>6, <2>1, <2>2, <2>4, UnbrokenOverflow, OneLineEmpty
<1> QED
  BY <1>7, <1>8, <1>9, <1>10 DEF ProcessRxChar

LEMMA LinesStep == LinesInv /\ [ReaderNext]_readerVars => LinesInv'
<1> SUFFICES ASSUME LinesInv, [ReaderNext]_readerVars PROVE LinesInv'
  OBVIOUS
<1>1. ReaderTypeOK'
  BY ReaderTypeStep DEF LinesInv
<1>2. PopIsStable'
  <2>1. [Next]_vars
    BY ReaderStepsRing DEF readerVars, vars, ringVars
  <2> QED
    BY <2>1, StableStep DEF LinesInv, ReaderTypeOK
<1>3. /\ UNCHANGED <<handed, dropped, endDropped>>
      /\ pending' \/ (~pending /\ UNCHANGED popped)
      => LinesAreRuns' /\ LinesMergeOnlyWithoutEnd'
  BY DEF LinesInv, LinesAreRuns, LinesMergeOnlyWithoutEnd, IsRun
<1>4. ASSUME NEW b \in Bytes, Arrive(b) PROVE LinesInv'
  <2>1. /\ handed' = handed /\ pending' = pending /\ popped' = popped
        /\ dropped \in BOOLEAN /\ endDropped \in BOOLEAN
        /\ dropped' = (dropped \/ (RingFull /\ b.kind # "skip"))
        /\ endDropped' = (endDropped \/ (RingFull /\ b.kind = "end"))
    BY <1>4 DEF Arrive, RxChar, lineVars, LinesInv, ReaderTypeOK
  <2>2. LinesAreRuns' /\ LinesMergeOnlyWithoutEnd'
    BY <2>1 DEF LinesInv, LinesAreRuns, LinesMergeOnlyWithoutEnd, IsRun
  <2> QED
    BY <1>1, <1>2, <1>4, <2>2, LinesArrive DEF LinesInv
<1>5. CASE Pop
  <2>1. Stream' = Stream
    BY <1>5, PopStream DEF LinesInv, ReaderTypeOK
  <2>2. UNCHANGED <<g_line_buffer, handed, sending, dropped, endDropped>>
    BY <1>5 DEF Pop, lineVars, streamVars
  <2>3. pending' \/ (~pending /\ popped' = popped)
    BY <1>5 DEF Pop, PopCopy, PopAdvance
  <2> QED
    BY <1>1, <1>2, <1>3, <2>1, <2>2, <2>3 DEF LinesInv
<1>6. CASE ProcessRxChar
  BY <1>1, <1>2, <1>6, LinesProcess DEF LinesInv
<1>7. CASE UNCHANGED readerVars
  <2>1. Stream' = Stream
    BY <1>7 DEF readerVars, vars, ringVars, Stream, Waiting, Occupied
  <2>2. /\ UNCHANGED <<g_line_buffer, handed, sending, dropped, endDropped>>
        /\ UNCHANGED <<pending, popped>>
    BY <1>7 DEF readerVars, vars, lineVars, streamVars
  <2>3. LinesAreRuns' /\ LinesMergeOnlyWithoutEnd'
    BY <2>2 DEF LinesInv, LinesAreRuns, LinesMergeOnlyWithoutEnd, IsRun
  <2> QED
    BY <1>1, <1>2, <2>1, <2>2, <2>3 DEF LinesInv
<1> QED
  BY <1>4, <1>5, <1>6, <1>7 DEF ReaderNext

LEMMA LinesInvariant == ReaderSpec => []LinesInv
BY LinesStart, LinesStep, PTL DEF ReaderSpec

(***************************************************************************)
(* While no byte is dropped, a line handed to process_line is an unbroken  *)
(* run of one line that was sent, from where process_rx_char may start.    *)
(***************************************************************************)
THEOREM LinesUnbroken == ReaderSpec => []LinesAreRuns
<1>1. LinesInv => LinesAreRuns
  BY DEF LinesInv
<1> QED
  BY <1>1, LinesInvariant, PTL

(***************************************************************************)
(* A line that process_line gets is made of two lines only when the end of *)
(* a line was dropped from a full ring.                                    *)
(***************************************************************************)
THEOREM LinesApart == ReaderSpec => []LinesMergeOnlyWithoutEnd
<1>1. LinesInv => LinesMergeOnlyWithoutEnd
  BY DEF LinesInv
<1> QED
  BY <1>1, LinesInvariant, PTL

(***************************************************************************)
(* What waits in the ring goes on exactly where the line buffer stops, in  *)
(* any interleaving of UART9_Callback with the main loop.                  *)
(***************************************************************************)
THEOREM RingContinues == ReaderSpec => []RingContinuesLine
<1>1. LinesInv => RingContinuesLine
  <2> SUFFICES ASSUME LinesInv, ~dropped, ~pending, g_line_buffer # <<>>,
                      NEW i \in DOMAIN Waiting, FirstText(Waiting, i)
               PROVE  LET last == g_line_buffer[Len(g_line_buffer)]
                      IN  Waiting[i] \in {Byte("char", last.line, last.pos + 1),
                                          Byte("end", last.line, last.pos)}
    BY DEF RingContinuesLine
  <2> DEFINE n == Len(g_line_buffer)
  <2>1. Unbroken(Waiting, g_line_buffer, sending)
    BY DEF LinesInv, Stream
  <2>2. Follows(g_line_buffer[n], Waiting[i])
    BY <2>1 DEF Unbroken
  <2>3. g_line_buffer[n].kind = "char"
    <3>1. n \in DOMAIN g_line_buffer
      BY DEF LinesInv, ReaderTypeOK
    <3> QED
      BY <2>1, <3>1 DEF Unbroken
  <2> QED
    BY <2>2, <2>3 DEF Follows
<1> QED
  BY <1>1, LinesInvariant, PTL

(***************************************************************************)
(* The bytes of the lines go through the same lossy first-in first-out     *)
(* buffer: process_rx_char disturbs neither the ring nor its indices.      *)
(***************************************************************************)
THEOREM ReaderKeepsFifo == ReaderSpec => KeepsFifo
<1>1. ReaderInit => Init
  BY DEF ReaderInit
<1>2. [ReaderNext]_readerVars => [Next]_vars
  BY ReaderStepsRing DEF readerVars, vars, ringVars
<1>3. ReaderSpec => Spec
  BY <1>1, <1>2, PTL DEF ReaderSpec, Spec
<1> QED
  BY <1>3, RingKeepsFifo, PTL
=============================================================================
