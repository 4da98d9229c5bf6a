--------------------------- MODULE DevicesProofs ---------------------------
(***************************************************************************)
(* The safety properties of the serial line and of the drivers, as         *)
(* theorems of Devices.  Nothing that is printed is lost, whatever the     *)
(* depth of the FIFO, the length of the frame, the messages and the number *)
(* of tasks; and the drivers are right against blocks of any speed, for    *)
(* words of any width, transfers of any length, any commands and any pins. *)
(***************************************************************************)
EXTENDS Devices, FiniteSetTheorems, TLAPS

LEMMA UartConstants ==
  /\ Depth \in Nat /\ Depth > 1 /\ DataBits \in Nat /\ DataBits > 0
  /\ "kernel" \notin Tasks /\ "idle" \notin Tasks
  /\ "launch" \notin Tasks /\ "halted" \notin Tasks
  /\ \A m \in Tasks \cup {"boot", "switch", "woken", "fault"} :
       Message[m] \in Seq(Byte) /\ Message[m] # <<>>
BY UartAssumption

-----------------------------------------------------------------------------
(* The FIFO: what it holds, in the order of its places.                    *)

Fifos == [array : [Ptr -> Byte], w_ptr : Ptr, r_ptr : Ptr,
          full : BOOLEAN, empty : BOOLEAN]

\* The pointers meet when the FIFO is full and when it is empty, and the flags
\* tell which.
FifoOK(f) ==
  /\ f \in Fifos
  /\ f.w_ptr = f.r_ptr <=> f.full \/ f.empty
  /\ ~ (f.full /\ f.empty)

Held(f) == IF f.full THEN Depth
           ELSE IF f.w_ptr >= f.r_ptr THEN f.w_ptr - f.r_ptr
           ELSE f.w_ptr - f.r_ptr + Depth

Place(p, i) == IF p + i <= Depth THEN p + i - 1 ELSE p + i - 1 - Depth
Stored(f, i) == f.array[Place(f.r_ptr, i)]

LEMMA SuccIs ==
  ASSUME NEW p \in Ptr
  PROVE  /\ Succ(p) \in Ptr
         /\ Succ(p) = IF p + 1 = Depth THEN 0 ELSE p + 1
<1>1. p \in Nat /\ p < Depth /\ Depth \in Nat /\ Depth > 1
  BY UartConstants DEF Ptr
<1>2. CASE p + 1 < Depth
  <2>1. (p + 1) % Depth = p + 1
    BY <1>1, <1>2
  <2> QED
    BY <1>1, <1>2, <2>1 DEF Succ, Ptr
<1>3. CASE p + 1 = Depth
  <2>1. Depth % Depth = 0
    BY <1>1
  <2> QED
    BY <1>1, <1>3, <2>1 DEF Succ, Ptr
<1> QED
  BY <1>1, <1>2, <1>3

LEMMA HeldType ==
  ASSUME NEW f, FifoOK(f)
  PROVE  /\ Held(f) \in 0 .. Depth
         /\ f.empty <=> Held(f) = 0
         /\ f.full <=> Held(f) = Depth
<1>1. /\ f.w_ptr \in Ptr /\ f.r_ptr \in Ptr
      /\ f.full \in BOOLEAN /\ f.empty \in BOOLEAN
  BY DEF FifoOK, Fifos
<1>2. /\ f.w_ptr = f.r_ptr <=> f.full \/ f.empty
      /\ ~ (f.full /\ f.empty)
  BY DEF FifoOK
<1>3. Depth \in Nat /\ Depth > 1
  BY UartConstants
<1> QED
  BY <1>1, <1>2, <1>3 DEF Held, Ptr

LEMMA StoredType ==
  ASSUME NEW f, FifoOK(f), NEW i \in 1 .. Depth
  PROVE  Place(f.r_ptr, i) \in Ptr /\ Stored(f, i) \in Byte
<1>1. f.r_ptr \in Ptr /\ f.array \in [Ptr -> Byte]
  BY DEF FifoOK, Fifos
<1>2. Place(f.r_ptr, i) \in Ptr
  BY <1>1, UartConstants DEF Place, Ptr
<1> QED
  BY <1>1, <1>2 DEF Stored

(***************************************************************************)
(* A clock of the FIFO gives back its oldest byte when it is read and adds *)
(* the byte written behind the others; the others stay where they are.     *)
(* It is read only when it is not empty and written only when it is not    *)
(* full.                                                                   *)
(***************************************************************************)
LEMMA UFIFOStep ==
  ASSUME FifoOK(fifo), NEW wr \in BOOLEAN, NEW w_data \in Byte, NEW rd \in BOOLEAN,
         rd => ~fifo.empty, wr => ~fifo.full
  PROVE  LET f == UFIFO(wr, w_data, rd)
             gone == IF rd THEN 1 ELSE 0
             come == IF wr THEN 1 ELSE 0
         IN /\ FifoOK(f)
            /\ Held(f) = Held(fifo) - gone + come
            /\ \A i \in 1 .. Held(fifo) - gone : Stored(f, i) = Stored(fifo, i + gone)
            /\ wr => Stored(f, Held(f)) = w_data
<1> DEFINE f == UFIFO(wr, w_data, rd)
           w == fifo.w_ptr
           r == fifo.r_ptr
<1>1. /\ w \in Ptr /\ r \in Ptr /\ fifo.array \in [Ptr -> Byte]
      /\ fifo.full \in BOOLEAN /\ fifo.empty \in BOOLEAN
      /\ w = r <=> fifo.full \/ fifo.empty
      /\ ~ (fifo.full /\ fifo.empty)
  BY DEF FifoOK, Fifos
<1>2. Depth \in Nat /\ Depth > 1
  BY UartConstants
<1>3. /\ f.array = IF wr THEN [fifo.array EXCEPT ![w] = w_data] ELSE fifo.array
      /\ f.w_ptr = IF wr THEN Succ(w) ELSE w
      /\ f.r_ptr = IF rd THEN Succ(r) ELSE r
  BY DEF UFIFO
<1>3a. (wr <=> rd) => f.full = fifo.full /\ f.empty = fifo.empty
  BY DEF UFIFO, full_next, empty_next
<1>3b. wr /\ ~rd => f.full = (Succ(w) = r) /\ f.empty = FALSE
  BY DEF UFIFO, full_next, empty_next
<1>3c. ~wr /\ rd => f.full = FALSE /\ f.empty = (Succ(r) = w)
  BY DEF UFIFO, full_next, empty_next
<1> DEFINE sw == Succ(w)
           sr == Succ(r)
<1>4. /\ sw \in Ptr /\ sw = IF w + 1 = Depth THEN 0 ELSE w + 1
      /\ sr \in Ptr /\ sr = IF r + 1 = Depth THEN 0 ELSE r + 1
  BY <1>1, SuccIs
<1>5. f \in Fifos
  <2>1. f.array \in [Ptr -> Byte]
    BY <1>1, <1>3
  <2>2. f.w_ptr \in Ptr /\ f.r_ptr \in Ptr /\ f.full \in BOOLEAN /\ f.empty \in BOOLEAN
    BY <1>1, <1>3, <1>4, <1>3a, <1>3b, <1>3c
  <2>3. f = [array |-> f.array, w_ptr |-> f.w_ptr, r_ptr |-> f.r_ptr,
             full |-> f.full, empty |-> f.empty]
    BY DEF UFIFO
  <2> QED
    BY <2>1, <2>2, <2>3 DEF Fifos
<1> HIDE DEF f, sw, sr
<1>6. f.w_ptr = f.r_ptr <=> f.full \/ f.empty
  BY <1>1, <1>2, <1>3, <1>4, <1>3a, <1>3b, <1>3c DEF sw, sr, Ptr
<1>7. ~ (f.full /\ f.empty)
  BY <1>1, <1>2, <1>3, <1>4, <1>3a, <1>3b, <1>3c DEF sw, sr, Ptr
<1>8. FifoOK(f)
  BY <1>5, <1>6, <1>7 DEF FifoOK
<1>9. Held(f) = Held(fifo) - (IF rd THEN 1 ELSE 0) + (IF wr THEN 1 ELSE 0)
  <2>1. w \in Nat /\ w < Depth /\ r \in Nat /\ r < Depth
    BY <1>1, <1>2 DEF Ptr
  <2>2. CASE wr /\ rd
    <3>1. ~fifo.full /\ ~fifo.empty /\ w # r /\ f.w_ptr = sw /\ f.r_ptr = sr
          /\ ~f.full
      BY <1>1, <1>3, <1>3a, <1>3b, <1>3c, <2>2 DEF sw, sr
    <3> QED
      BY <1>2, <1>4, <2>1, <2>2, <3>1 DEF sw, sr, Held
  <2>3. CASE wr /\ ~rd
    <3>1. ~fifo.full /\ (fifo.empty <=> w = r) /\ f.w_ptr = sw /\ f.r_ptr = r
          /\ (f.full <=> sw = r)
      BY <1>1, <1>3, <1>3a, <1>3b, <1>3c, <2>3 DEF sw, sr
    <3> QED
      BY <1>2, <1>4, <2>1, <2>3, <3>1 DEF sw, sr, Held
  <2>4. CASE ~wr /\ rd
    <3>1. ~fifo.empty /\ (fifo.full <=> w = r) /\ f.w_ptr = w /\ f.r_ptr = sr
          /\ ~f.full
      BY <1>1, <1>3, <1>3a, <1>3b, <1>3c, <2>4 DEF sw, sr
    <3> QED
      BY <1>2, <1>4, <2>1, <2>4, <3>1 DEF sw, sr, Held
  <2>5. CASE ~wr /\ ~rd
    <3>1. (f.full <=> fifo.full) /\ f.w_ptr = w /\ f.r_ptr = r
      BY <1>1, <1>3, <1>3a, <1>3b, <1>3c, <2>5 DEF sw, sr
    <3> QED
      BY <1>2, <2>1, <2>5, <3>1 DEF Held
  <2> QED
    BY <2>2, <2>3, <2>4, <2>5
<1>10. Held(fifo) \in 0 .. Depth /\ (fifo.empty <=> Held(fifo) = 0)
       /\ (fifo.full <=> Held(fifo) = Depth)
  BY HeldType
<1>11. ASSUME NEW i \in 1 .. Held(fifo) - (IF rd THEN 1 ELSE 0)
       PROVE  Stored(f, i) = Stored(fifo, i + (IF rd THEN 1 ELSE 0))
  <2> DEFINE gone == IF rd THEN 1 ELSE 0
             old == Place(r, i + gone)
  <2>1. Place(f.r_ptr, i) = old
    <3>1. i \in Nat /\ i > 0 /\ i + gone <= Depth /\ r \in Nat /\ r < Depth
      BY <1>1, <1>2, <1>10 DEF Ptr
    <3>2. f.r_ptr = IF rd THEN (IF r + 1 = Depth THEN 0 ELSE r + 1) ELSE r
      BY <1>3, <1>4 DEF sr
    <3> QED
      BY <1>2, <3>1, <3>2 DEF Place
  <2>2. old \in Ptr
    BY <1>1, <1>2, <1>10 DEF Ptr, Place
  <2>3. wr => old # w
    BY <1>1, <1>2, <1>10 DEF Ptr, Place, Held
  <2> HIDE DEF old
  <2>4. f.array[old] = fifo.array[old]
    BY <1>1, <1>3, <2>2, <2>3
  <2> QED
    BY <2>1, <2>4 DEF Stored, old
<1>12. ASSUME wr PROVE Stored(f, Held(f)) = w_data
  <2>1. Place(f.r_ptr, Held(f)) = w
    <3>1. w \in Nat /\ w < Depth /\ r \in Nat /\ r < Depth /\ ~fifo.full
          /\ (fifo.empty <=> w = r)
      BY <1>1, <1>2, <1>12 DEF Ptr
    <3>2. Held(fifo) = IF w >= r THEN w - r ELSE w - r + Depth
      BY <3>1 DEF Held
    <3>3. CASE rd
      <4>1. w # r /\ Held(f) = Held(fifo)
        BY <1>1, <1>9, <1>10, <1>12, <3>3
      <4>2. f.r_ptr = IF r + 1 = Depth THEN 0 ELSE r + 1
        BY <1>3, <1>4, <3>3 DEF sr
      <4> QED
        BY <1>2, <3>1, <3>2, <4>1, <4>2 DEF Place
    <3>4. CASE ~rd
      <4>1. f.r_ptr = r /\ Held(f) = Held(fifo) + 1
        BY <1>3, <1>9, <1>10, <1>12, <3>4
      <4> QED
        BY <1>2, <3>1, <3>2, <4>1 DEF Place
    <3> QED
      BY <3>3, <3>4
  <2>2. f.array[w] = w_data
    BY <1>1, <1>3, <1>12
  <2> QED
    BY <2>1, <2>2 DEF Stored
<1> QED
  BY <1>8, <1>9, <1>11, <1>12 DEF f

-----------------------------------------------------------------------------
(***************************************************************************)
(* The inductive invariant.  What is expected on the line is what the FIFO *)
(* holds and then what the one who executes has still to store; the        *)
(* serialiser works on the oldest byte of the FIFO, which stays there      *)
(* until its stop bit is over.                                             *)
(***************************************************************************)

\* The line has shown the bits of byte before the first of left.
Split(byte, shown, left) ==
  /\ shown \in Seq({0, 1}) /\ left \in Seq({0, 1})
  /\ Len(shown) + Len(left) = DataBits
  /\ \A i \in 1 .. Len(shown) : shown[i] = byte[i]
  /\ \A i \in 1 .. Len(left) : left[i] = byte[Len(shown) + i]

TxOK ==
  /\ tx.state \in {"idle", "start", "data", "stop"}
  /\ tx.state # "idle" => ~fifo.empty
  /\ tx.state = "start" => tx.data = Stored(fifo, 1)
  /\ tx.state = "data" =>
       /\ Split(Stored(fifo, 1), frame, tx.data)
       /\ tx.count \in Nat /\ tx.count = Len(frame) /\ tx.count < DataBits
  /\ tx.state = "stop" => frame = Stored(fifo, 1)

\* bytes is what f holds, followed by rest.
Queued(f, bytes, rest) ==
  /\ bytes \in Seq(Byte) /\ rest \in Seq(Byte)
  /\ Len(bytes) = Held(f) + Len(rest)
  /\ \A i \in 1 .. Held(f) : bytes[i] = Stored(f, i)
  /\ \A i \in 1 .. Len(rest) : bytes[Held(f) + i] = rest[i]

Rest == IF core \in Printers THEN text[core] ELSE <<>>

\* A task loses the core only between two messages, or for ever; the FIFO
\* that was polled has room until the byte is stored.
PrintersOK ==
  /\ core \in Printers \cup {"idle"}
  /\ text \in [Printers -> Seq(Byte)] /\ polled \in [Printers -> BOOLEAN]
  /\ \A p \in Printers : p # core => text[p] = <<>>
  /\ \A p \in Printers : polled[p] =>
       \/ p = core /\ ~fifo.full /\ text[p] # <<>>
       \/ p # "kernel" /\ core = "kernel" /\ next = "halted"

UartInv ==
  /\ FifoOK(fifo) /\ TxOK /\ PrintersOK
  /\ Queued(fifo, expected, Rest)

LEMMA UartInitInv == UartInit => UartInv
<1> SUFFICES ASSUME UartInit PROVE UartInv
  OBVIOUS
<1>1. Zeros \in Byte /\ 0 \in Ptr /\ Depth \in Nat /\ Depth > 1
  BY UartConstants DEF Zeros, Byte, Ptr
<1>2. FifoOK(fifo)
  <2>1. fifo = [array |-> [i \in Ptr |-> Zeros], w_ptr |-> 0, r_ptr |-> 0,
                full |-> FALSE, empty |-> TRUE]
    BY DEF UartInit
  <2> QED
    BY <1>1, <2>1 DEF FifoOK, Fifos
<1>3. Held(fifo) = 0
  BY <1>1 DEF UartInit, Held
<1>4. TxOK
  BY DEF UartInit, TxOK
<1>5. Message["boot"] \in Seq(Byte) /\ "kernel" \in Printers
  BY UartConstants DEF Printers
<1>6. /\ core = "kernel" /\ expected = Message["boot"]
      /\ text = [p \in Printers |-> IF p = "kernel" THEN Message["boot"] ELSE <<>>]
      /\ polled = [p \in Printers |-> FALSE]
  BY DEF UartInit
<1>7. PrintersOK
  <2>1. <<>> \in Seq(Byte)
    OBVIOUS
  <2> QED
    BY <1>5, <1>6, <2>1 DEF PrintersOK
<1>8. Rest = Message["boot"]
  BY <1>5, <1>6 DEF Rest
<1>9. Queued(fifo, expected, Rest)
  BY <1>3, <1>5, <1>6, <1>8 DEF Queued
<1> QED
  BY <1>2, <1>4, <1>7, <1>9 DEF UartInv

-----------------------------------------------------------------------------
(* A clock of the hardware.                                                *)

Popped(bitEnd) == tx.state = "stop" /\ bitEnd

LEMMA FifoClock ==
  ASSUME FifoOK(fifo), TxOK, NEW wr \in BOOLEAN, NEW w_data \in Byte,
         NEW bitEnd \in BOOLEAN, UartClock(wr, w_data, bitEnd), wr => ~fifo.full
  PROVE  LET gone == IF Popped(bitEnd) THEN 1 ELSE 0
             come == IF wr THEN 1 ELSE 0
         IN /\ FifoOK(fifo')
            /\ Held(fifo') = Held(fifo) - gone + come
            /\ \A i \in 1 .. Held(fifo) - gone :
                 Stored(fifo', i) = Stored(fifo, i + gone)
            /\ wr => Stored(fifo', Held(fifo')) = w_data
<1>1. Popped(bitEnd) => ~fifo.empty
  BY DEF Popped, TxOK
<1>2. Popped(bitEnd) \in BOOLEAN /\ tx_done(bitEnd) = Popped(bitEnd)
  BY DEF Popped, tx_done
<1>3. fifo' = UFIFO(wr, w_data, Popped(bitEnd))
  BY <1>2 DEF UartClock
<1> HIDE DEF Popped
<1> QED
  BY <1>1, <1>2, <1>3, UFIFOStep

LEMMA ByteIsSeq ==
  ASSUME NEW b \in Byte
  PROVE  b \in Seq({0, 1}) /\ Len(b) = DataBits
BY UartConstants DEF Byte

LEMMA SplitStart ==
  ASSUME NEW b \in Byte
  PROVE  Split(b, <<>>, b)
BY ByteIsSeq, UartConstants DEF Split

LEMMA SplitStep ==
  ASSUME NEW b \in Byte, NEW shown, NEW left,
         Split(b, shown, left), Len(shown) < DataBits
  PROVE  /\ left # <<>>
         /\ Split(b, Append(shown, Head(left)), Tail(left))
         /\ Len(Append(shown, Head(left))) = Len(shown) + 1
<1>1. /\ shown \in Seq({0, 1}) /\ left \in Seq({0, 1})
      /\ Len(shown) + Len(left) = DataBits
      /\ \A i \in 1 .. Len(shown) : shown[i] = b[i]
      /\ \A i \in 1 .. Len(left) : left[i] = b[Len(shown) + i]
  BY DEF Split
<1>2. Len(left) > 0 /\ left # <<>> /\ Len(shown) \in Nat /\ Len(left) \in Nat
  BY <1>1, UartConstants
<1>3. /\ Head(left) = left[1] /\ Head(left) \in {0, 1}
      /\ Tail(left) \in Seq({0, 1}) /\ Len(Tail(left)) = Len(left) - 1
      /\ \A i \in 1 .. Len(Tail(left)) : Tail(left)[i] = left[i + 1]
  BY <1>1, <1>2
<1> DEFINE s == Append(shown, Head(left))
           l == Tail(left)
<1>4. /\ s \in Seq({0, 1}) /\ Len(s) = Len(shown) + 1
      /\ s[Len(shown) + 1] = Head(left)
      /\ \A i \in 1 .. Len(shown) : s[i] = shown[i]
  BY <1>1, <1>3
<1> HIDE DEF s, l
<1>5. \A i \in 1 .. Len(s) : s[i] = b[i]
  <2> TAKE i \in 1 .. Len(s)
  <2>1. CASE i = Len(shown) + 1
    BY <1>1, <1>2, <1>3, <1>4, <2>1
  <2>2. CASE i <= Len(shown)
    BY <1>1, <1>2, <1>4, <2>2
  <2> QED
    BY <1>2, <1>4, <2>1, <2>2
<1>6. \A i \in 1 .. Len(l) : l[i] = b[Len(s) + i]
  <2> TAKE i \in 1 .. Len(l)
  <2>1. l[i] = left[i + 1] /\ i + 1 \in 1 .. Len(left)
    BY <1>2, <1>3 DEF l
  <2>2. left[i + 1] = b[Len(shown) + (i + 1)]
    BY <1>1, <2>1
  <2>3. Len(shown) + (i + 1) = Len(s) + i
    BY <1>2, <1>4
  <2> QED
    BY <2>1, <2>2, <2>3
<1>7. Len(s) + Len(l) = DataBits
  BY <1>1, <1>2, <1>3, <1>4 DEF l
<1>8. Split(b, s, l)
  BY <1>3, <1>4, <1>5, <1>6, <1>7 DEF Split, l
<1> QED
  BY <1>2, <1>4, <1>8 DEF s, l

LEMMA SplitDone ==
  ASSUME NEW b \in Byte, NEW shown, NEW left,
         Split(b, shown, left), Len(shown) = DataBits
  PROVE  shown = b
<1>1. /\ shown \in Seq({0, 1}) /\ \A i \in 1 .. DataBits : shown[i] = b[i]
  BY DEF Split
<1>2. shown \in [1 .. DataBits -> {0, 1}]
  BY <1>1, UartConstants
<1> QED
  BY <1>1, <1>2 DEF Byte

LEMMA TxClock ==
  ASSUME FifoOK(fifo), TxOK, NEW wr \in BOOLEAN, NEW w_data \in Byte,
         NEW bitEnd \in BOOLEAN, UartClock(wr, w_data, bitEnd), wr => ~fifo.full
  PROVE  TxOK'
<1> DEFINE h == Stored(fifo, 1)
<1>1. /\ FifoOK(fifo')
      /\ Held(fifo') = Held(fifo) - (IF Popped(bitEnd) THEN 1 ELSE 0)
                                  + (IF wr THEN 1 ELSE 0)
      /\ \A i \in 1 .. Held(fifo) - (IF Popped(bitEnd) THEN 1 ELSE 0) :
           Stored(fifo', i) = Stored(fifo, i + (IF Popped(bitEnd) THEN 1 ELSE 0))
  BY FifoClock
<1>2. ~fifo.empty => h \in Byte /\ Held(fifo) \in Nat /\ Held(fifo) >= 1
  BY HeldType, StoredType, UartConstants
<1>3. ~fifo.empty /\ ~Popped(bitEnd) => Stored(fifo', 1) = h /\ ~fifo'.empty
  <2> SUFFICES ASSUME ~fifo.empty, ~Popped(bitEnd)
               PROVE  Stored(fifo', 1) = h /\ ~fifo'.empty
    OBVIOUS
  <2>1. Held(fifo') = Held(fifo) + (IF wr THEN 1 ELSE 0)
    BY <1>1, <1>2
  <2>2. Held(fifo') # 0
    BY <1>2, <2>1
  <2>3. \A i \in 1 .. Held(fifo) - 0 : Stored(fifo', i) = Stored(fifo, i + 0)
    BY <1>1
  <2>4. 1 \in 1 .. Held(fifo) - 0 /\ 1 + 0 = 1
    BY <1>2
  <2>5. Stored(fifo', 1) = Stored(fifo, 1 + 0)
    BY <2>3, <2>4
  <2> QED
    BY <1>1, <2>2, <2>4, <2>5, HeldType
<1>4. TxOK' <=>
        /\ tx'.state \in {"idle", "start", "data", "stop"}
        /\ tx'.state # "idle" => ~fifo'.empty
        /\ tx'.state = "start" => tx'.data = Stored(fifo', 1)
        /\ tx'.state = "data" =>
             /\ Split(Stored(fifo', 1), frame', tx'.data)
             /\ tx'.count \in Nat /\ tx'.count = Len(frame') /\ tx'.count < DataBits
        /\ tx'.state = "stop" => frame' = Stored(fifo', 1)
  BY DEF TxOK
<1>5. /\ bitEnd => tx.state # "idle" /\ tx.line = Level
      /\ tx' = UART_TX(bitEnd)
      /\ frame' = IF tx.state = "data" /\ bitEnd THEN Append(frame, tx.line)
                  ELSE IF tx.state = "start" THEN <<>> ELSE frame
  BY DEF UartClock
<1>6. CASE tx.state = "idle"
  <2>1. ~bitEnd /\ ~Popped(bitEnd)
    BY <1>5, <1>6 DEF Popped
  <2>2. CASE fifo.empty
    <3>1. tx'.state = "idle"
      BY <1>5, <1>6, <2>2 DEF UART_TX
    <3> QED
      BY <1>4, <3>1
  <2>3. CASE ~fifo.empty
    <3>1. tx'.state = "start" /\ tx'.data = fifo.array[fifo.r_ptr]
      BY <1>5, <1>6, <2>3 DEF UART_TX
    <3>2. Place(fifo.r_ptr, 1) = fifo.r_ptr
      BY UartConstants DEF Place, FifoOK, Fifos, Ptr
    <3> QED
      BY <1>3, <1>4, <2>1, <2>3, <3>1, <3>2 DEF Stored
  <2> QED
    BY <2>2, <2>3
<1>7. CASE tx.state # "idle" /\ ~bitEnd
  <2>1. ~Popped(bitEnd) /\ ~fifo.empty
    BY <1>7 DEF Popped, TxOK
  <2>2. tx'.state = tx.state /\ tx'.count = tx.count /\ tx'.data = tx.data
    BY <1>5, <1>7 DEF UART_TX
  <2>3. tx.state # "start" => frame' = frame
    BY <1>5, <1>7
  <2> QED
    BY <1>3, <1>4, <2>1, <2>2, <2>3 DEF TxOK
<1>8. CASE tx.state = "start" /\ bitEnd
  <2>1. ~Popped(bitEnd) /\ ~fifo.empty
    BY <1>8 DEF Popped, TxOK
  <2>2. /\ tx'.state = "data" /\ tx'.count = 0 /\ tx'.data = h /\ frame' = <<>>
    BY <1>5, <1>8 DEF UART_TX, TxOK
  <2>3. Split(h, <<>>, h)
    BY <1>2, <2>1, SplitStart
  <2> HIDE DEF h
  <2> QED
    BY <1>3, <1>4, <2>1, <2>2, <2>3, UartConstants
<1>9. CASE tx.state = "data" /\ bitEnd
  <2>1. ~Popped(bitEnd) /\ ~fifo.empty
    BY <1>9 DEF Popped, TxOK
  <2>2. Split(h, frame, tx.data) /\ tx.count = Len(frame) /\ tx.count < DataBits
        /\ tx.count \in Nat
    BY <1>9 DEF TxOK
  <2>3. frame' = Append(frame, Head(tx.data))
    BY <1>5, <1>9 DEF Level
  <2>4. Split(h, frame', Tail(tx.data)) /\ Len(frame') = tx.count + 1
    BY <1>2, <2>1, <2>2, <2>3, SplitStep
  <2>5. CASE tx.count = DataBits - 1
    <3>1. tx'.state = "stop"
      BY <1>5, <1>9, <2>5 DEF UART_TX
    <3>2. Len(frame') = DataBits
      BY <2>4, <2>5, UartConstants
    <3>3. frame' = h
      BY <1>2, <2>1, <2>4, <3>2, SplitDone
    <3> QED
      BY <1>3, <1>4, <2>1, <3>1, <3>3
  <2>6. CASE tx.count # DataBits - 1
    <3>1. tx'.state = "data" /\ tx'.count = tx.count + 1 /\ tx'.data = Tail(tx.data)
      BY <1>5, <1>9, <2>6 DEF UART_TX
    <3>2. tx.count + 1 < DataBits
      BY <2>2, <2>6, UartConstants
    <3> HIDE DEF h
    <3> QED
      BY <1>3, <1>4, <2>1, <2>2, <2>4, <3>1, <3>2
  <2> QED
    BY <2>5, <2>6
<1>10. CASE tx.state = "stop" /\ bitEnd
  <2>1. tx'.state = "idle"
    BY <1>5, <1>10 DEF UART_TX
  <2> QED
    BY <1>4, <2>1
<1> QED
  BY <1>6, <1>7, <1>8, <1>9, <1>10 DEF TxOK

-----------------------------------------------------------------------------
(* What is expected, clock by clock.                                       *)

\* A message begun goes behind all that is expected, when nobody is printing.
LEMMA QueueMessage ==
  ASSUME NEW f, FifoOK(f), NEW e, Queued(f, e, <<>>), NEW m \in Seq(Byte)
  PROVE  Queued(f, e \o m, m)
<1>1. /\ e \in Seq(Byte) /\ Len(e) = Held(f) /\ Held(f) \in Nat
      /\ \A i \in 1 .. Held(f) : e[i] = Stored(f, i)
  BY HeldType, UartConstants DEF Queued
<1> DEFINE em == e \o m
<1>2. /\ em \in Seq(Byte) /\ Len(em) = Len(e) + Len(m)
      /\ \A i \in 1 .. Len(e) : em[i] = e[i]
      /\ \A i \in 1 .. Len(m) : em[Len(e) + i] = m[i]
  BY <1>1
<1> HIDE DEF em
<1> QED
  BY <1>1, <1>2 DEF Queued, em

\* What a fault leaves unstored is expected no more.
LEMMA CutMessage ==
  ASSUME NEW f, FifoOK(f), NEW e, NEW rest, Queued(f, e, rest)
  PROVE  Queued(f, SubSeq(e, 1, Len(e) - Len(rest)), <<>>)
<1>1. /\ e \in Seq(Byte) /\ rest \in Seq(Byte)
      /\ Len(e) = Held(f) + Len(rest) /\ Held(f) \in Nat
      /\ \A i \in 1 .. Held(f) : e[i] = Stored(f, i)
  BY HeldType, UartConstants DEF Queued
<1> DEFINE c == SubSeq(e, 1, Held(f))
<1>2. /\ Len(e) - Len(rest) = Held(f) /\ Held(f) <= Len(e)
  BY <1>1
<1>3. /\ c \in Seq(Byte) /\ Len(c) = Held(f)
      /\ \A i \in 1 .. Held(f) : c[i] = e[i]
  BY <1>1, <1>2
<1> HIDE DEF c
<1>4. Queued(f, c, <<>>)
  BY <1>1, <1>3 DEF Queued
<1> QED
  BY <1>2, <1>4 DEF c

(***************************************************************************)
(* The byte whose stop bit ends leaves the front of what is expected as it *)
(* leaves the FIFO; the byte that is stored moves from the text that is    *)
(* printed to the end of the FIFO.                                         *)
(***************************************************************************)
LEMMA QueueClock ==
  ASSUME FifoOK(fifo), TxOK, NEW rest, Queued(fifo, expected, rest),
         NEW wr \in BOOLEAN, NEW w_data \in Byte, NEW bitEnd \in BOOLEAN,
         UartClock(wr, w_data, bitEnd), wr => ~fifo.full,
         wr => rest # <<>> /\ w_data = Head(rest)
  PROVE  Queued(fifo', StillExpected(bitEnd), IF wr THEN Tail(rest) ELSE rest)
<1> DEFINE gone == IF Popped(bitEnd) THEN 1 ELSE 0
           come == IF wr THEN 1 ELSE 0
           e == StillExpected(bitEnd)
           n == Held(fifo)
           left == IF wr THEN Tail(rest) ELSE rest
<1>1. /\ FifoOK(fifo')
      /\ Held(fifo') = n - gone + come
      /\ \A i \in 1 .. n - gone : Stored(fifo', i) = Stored(fifo, i + gone)
      /\ wr => Stored(fifo', Held(fifo')) = w_data
  BY FifoClock
<1>2. n \in Nat /\ n >= gone
  <2>1. Popped(bitEnd) => ~fifo.empty
    BY DEF Popped, TxOK
  <2> QED
    BY <2>1, HeldType, UartConstants
<1>3. /\ expected \in Seq(Byte) /\ rest \in Seq(Byte)
      /\ Len(expected) = n + Len(rest)
      /\ \A i \in 1 .. n : expected[i] = Stored(fifo, i)
      /\ \A i \in 1 .. Len(rest) : expected[n + i] = rest[i]
  BY DEF Queued
<1>4. /\ e \in Seq(Byte) /\ Len(e) = Len(expected) - gone
      /\ \A i \in 1 .. Len(e) : e[i] = expected[i + gone]
  <2>1. CASE Popped(bitEnd)
    <3>1. e = SubSeq(expected, 2, Len(expected)) /\ gone = 1
      BY <2>1 DEF StillExpected, Popped
    <3>2. Len(expected) >= 1
      BY <1>2, <1>3, <2>1
    <3> QED
      BY <1>3, <3>1, <3>2
  <2>2. CASE ~Popped(bitEnd)
    <3>1. e = expected /\ gone = 0
      BY <2>2 DEF StillExpected, Popped
    <3> QED
      BY <1>3, <3>1
  <2> QED
    BY <2>1, <2>2
<1>5. /\ left \in Seq(Byte) /\ Len(left) = Len(rest) - come
      /\ \A i \in 1 .. Len(left) : left[i] = rest[i + come]
      /\ wr => w_data = rest[1] /\ Len(rest) >= 1
  BY <1>3
<1>6. gone \in {0, 1} /\ come \in {0, 1} /\ (wr <=> come = 1)
  OBVIOUS
<1> HIDE DEF gone, come, e, n, left
<1>7. Len(e) = Held(fifo') + Len(left)
  BY <1>1, <1>2, <1>3, <1>4, <1>5, <1>6
<1>8. \A i \in 1 .. Held(fifo') : e[i] = Stored(fifo', i)
  <2> TAKE i \in 1 .. Held(fifo')
  <2>1. e[i] = expected[i + gone]
    <3>1. Held(fifo') \in Nat /\ Len(left) \in Nat
      BY <1>1, <1>2, <1>5, <1>6
    <3>2. i \in 1 .. Len(e)
      BY <1>7, <3>1
    <3> QED
      BY <1>4, <3>2
  <2>2. CASE i <= n - gone
    <3>1. i \in 1 .. n - gone /\ i + gone \in 1 .. n
      BY <1>2, <1>6, <2>2
    <3> QED
      BY <1>1, <1>3, <2>1, <3>1
  <2>3. CASE i > n - gone
    <3>1. wr /\ i = Held(fifo') /\ i + gone = n + 1
      BY <1>1, <1>2, <1>6, <2>3
    <3>2. expected[n + 1] = rest[1]
      BY <1>3, <1>5, <3>1
    <3> QED
      BY <1>1, <1>5, <2>1, <3>1, <3>2
  <2> QED
    BY <1>2, <1>6, <2>2, <2>3
<1>9. \A i \in 1 .. Len(left) : e[Held(fifo') + i] = left[i]
  <2> TAKE i \in 1 .. Len(left)
  <2>1. Held(fifo') + i \in 1 .. Len(e) /\ Len(left) \in Nat
    BY <1>1, <1>2, <1>5, <1>6, <1>7
  <2>2. e[Held(fifo') + i] = expected[Held(fifo') + i + gone]
    BY <1>4, <2>1
  <2>3. Held(fifo') + i + gone = n + (i + come)
    BY <1>1, <1>2, <1>6
  <2>4. expected[n + (i + come)] = rest[i + come]
    BY <1>3, <1>5, <1>6
  <2> QED
    BY <1>5, <2>2, <2>3, <2>4
<1> QED
  BY <1>4, <1>5, <1>7, <1>8, <1>9 DEF Queued, e, left

LEMMA ClockNoAccess ==
  ASSUME UartInv, NEW bitEnd \in BOOLEAN, NoAccess(bitEnd)
  PROVE  /\ FifoOK(fifo') /\ TxOK'
         /\ Queued(fifo', StillExpected(bitEnd), Rest)
         /\ fifo'.full => fifo.full
<1>1. FifoOK(fifo) /\ TxOK /\ Queued(fifo, expected, Rest)
  BY DEF UartInv
<1>2. Zeros \in Byte /\ UartClock(FALSE, Zeros, bitEnd)
  BY DEF Zeros, Byte, NoAccess
<1>3. /\ FifoOK(fifo')
      /\ Held(fifo') = Held(fifo) - (IF Popped(bitEnd) THEN 1 ELSE 0) + 0
  BY <1>1, <1>2, FifoClock
<1>4. TxOK'
  BY <1>1, <1>2, TxClock
<1>5. Queued(fifo', StillExpected(bitEnd), Rest)
  BY <1>1, <1>2, QueueClock
<1>6. fifo'.full => fifo.full
  BY <1>1, <1>3, HeldType, UartConstants
<1> QED
  BY <1>3, <1>4, <1>5, <1>6

\* Nobody was printing: m, which is the text of the one who executes next,
\* follows what is expected.
LEMMA BeginMessage ==
  ASSUME UartInv, NEW bitEnd \in BOOLEAN, NoAccess(bitEnd), Rest = <<>>,
         NEW m \in Seq(Byte), expected' = StillExpected(bitEnd) \o m, Rest' = m,
         PrintersOK'
  PROVE  UartInv'
<1>1. /\ FifoOK(fifo') /\ TxOK'
      /\ Queued(fifo', StillExpected(bitEnd), <<>>)
  BY ClockNoAccess
<1>2. Queued(fifo', expected', m)
  BY <1>1, QueueMessage
<1> QED
  BY <1>1, <1>2 DEF UartInv

LEMMA CopiesType ==
  ASSUME NEW m \in Seq(Byte), m # <<>>, NEW n \in Nat
  PROVE  Copies(m, n) \in Seq(Byte)
<1>1. Len(m) \in Nat /\ Len(m) > 0 /\ m \in [1 .. Len(m) -> Byte]
  OBVIOUS
<1> DEFINE l == Len(m)
<1>2. n * l \in Nat
  BY <1>1
<1>3. \A i \in 1 .. n * l : m[((i - 1) % l) + 1] \in Byte
  <2> TAKE i \in 1 .. n * l
  <2>1. i - 1 \in Nat
    BY <1>2
  <2>2. (i - 1) % l \in 0 .. l - 1
    BY <1>1, <2>1
  <2>3. ((i - 1) % l) + 1 \in 1 .. l
    BY <1>1, <2>2
  <2> QED
    BY <1>1, <2>3
<1> DEFINE c == [i \in 1 .. n * l |-> m[((i - 1) % l) + 1]]
<1>4. c \in [1 .. n * l -> Byte]
  BY <1>3
<1> HIDE DEF c
<1>5. c \in Seq(Byte)
  BY <1>2, <1>4
<1> QED
  BY <1>5 DEF Copies, c

-----------------------------------------------------------------------------
(* The actions.                                                            *)

LEMMA PollInv ==
  ASSUME UartInv, NEW bitEnd \in BOOLEAN, Poll(bitEnd)
  PROVE  UartInv'
<1>1. PICK p \in Printers : Printing(p) /\ ~polled[p]
                            /\ polled' = [polled EXCEPT ![p] = ~fifo.full]
  BY DEF Poll
<1>2. NoAccess(bitEnd) /\ expected' = StillExpected(bitEnd)
      /\ core' = core /\ next' = next /\ text' = text
  BY DEF Poll
<1>3. /\ FifoOK(fifo') /\ TxOK' /\ Queued(fifo', expected', Rest)
      /\ fifo'.full => fifo.full
  BY <1>2, ClockNoAccess
<1>4. Rest' = Rest
  BY <1>2 DEF Rest
<1>5. PrintersOK'
  <2>1. fifo.full \in BOOLEAN
    BY DEF UartInv, FifoOK, Fifos
  <2>2. polled' \in [Printers -> BOOLEAN]
    BY <1>1, <2>1 DEF UartInv, PrintersOK
  <2>3. ASSUME NEW q \in Printers, polled'[q]
        PROVE  \/ q = core /\ ~fifo'.full /\ text[q] # <<>>
               \/ q # "kernel" /\ core = "kernel" /\ next = "halted"
    <3>1. CASE q = p
      <4>1. ~fifo.full
        BY <1>1, <2>3, <3>1 DEF UartInv, PrintersOK
      <4> QED
        BY <1>1, <1>3, <3>1, <4>1 DEF Printing
    <3>2. CASE q # p
      <4>1. polled[q]
        BY <1>1, <2>3, <3>2 DEF UartInv, PrintersOK
      <4> QED
        BY <1>3, <4>1 DEF UartInv, PrintersOK
    <3> QED
      BY <3>1, <3>2
  <2> QED
    BY <1>2, <2>2, <2>3 DEF UartInv, PrintersOK
<1> QED
  BY <1>2, <1>3, <1>4, <1>5 DEF UartInv

\* The byte is not dropped: the FIFO has had room since it was polled.
LEMMA StoreInv ==
  ASSUME UartInv, NEW bitEnd \in BOOLEAN, Store(bitEnd)
  PROVE  UartInv'
<1>1. PICK p \in Printers :
        /\ Printing(p) /\ polled[p]
        /\ UartClock(TRUE, Head(text[p]), bitEnd)
        /\ text' = [text EXCEPT ![p] = Tail(@)]
        /\ polled' = [polled EXCEPT ![p] = FALSE]
  BY DEF Store
<1>2. expected' = StillExpected(bitEnd) /\ core' = core /\ next' = next
  BY DEF Store
<1>3. FifoOK(fifo) /\ TxOK /\ PrintersOK /\ Queued(fifo, expected, Rest)
  BY DEF UartInv
<1>4. /\ core = p /\ text \in [Printers -> Seq(Byte)]
      /\ polled \in [Printers -> BOOLEAN]
      /\ text[p] \in Seq(Byte) /\ text[p] # <<>>
  BY <1>1, <1>3 DEF PrintersOK, Printing
<1>5. ~fifo.full
  BY <1>1, <1>3, <1>4 DEF PrintersOK
<1>6. Rest = text[p] /\ Rest' = Tail(text[p]) /\ Head(text[p]) \in Byte
      /\ Tail(text[p]) \in Seq(Byte)
  BY <1>1, <1>2, <1>4 DEF Rest
<1>7. FifoOK(fifo')
  BY <1>1, <1>3, <1>5, <1>6, FifoClock
<1>8. TxOK'
  BY <1>1, <1>3, <1>5, <1>6, TxClock
<1>9. Queued(fifo', expected', Rest')
  BY <1>1, <1>2, <1>3, <1>4, <1>5, <1>6, QueueClock
<1>10. PrintersOK'
  <2>1. text' \in [Printers -> Seq(Byte)] /\ polled' \in [Printers -> BOOLEAN]
    BY <1>1, <1>4, <1>6
  <2>2. \A q \in Printers : q # core => text'[q] = <<>>
    BY <1>1, <1>3, <1>4 DEF PrintersOK
  <2>3. \A q \in Printers : polled'[q] => q # p /\ polled[q]
    BY <1>1, <1>4
  <2>4. \A q \in Printers : polled'[q] =>
          q # "kernel" /\ core = "kernel" /\ next = "halted"
    BY <1>3, <1>4, <2>3 DEF PrintersOK
  <2> QED
    BY <1>2, <1>3, <2>1, <2>2, <2>4 DEF PrintersOK
<1> QED
  BY <1>7, <1>8, <1>9, <1>10 DEF UartInv

\* One who prints nothing has polled nothing, unless a fault has ended it.
LEMMA SilentIs ==
  ASSUME PrintersOK, NEW p \in Printers, Silent(p),
         ~ (core = "kernel" /\ next = "halted")
  PROVE  /\ Rest = <<>>
         /\ \A q \in Printers : text[q] = <<>> /\ ~polled[q]
BY DEF PrintersOK, Silent, Rest

LEMMA ResumeInv ==
  ASSUME UartInv, NEW bitEnd \in BOOLEAN, NoAccess(bitEnd),
         Silent("kernel"), next # "halted",
         NEW t \in Tasks \cup {"idle"}, Resume(t, bitEnd)
  PROVE  UartInv'
<1>1. PrintersOK /\ "kernel" \in Printers
  BY DEF UartInv, Printers
<1>2. Rest = <<>> /\ \A q \in Printers : text[q] = <<>> /\ ~polled[q]
  BY <1>1, SilentIs
<1>3. core' = t /\ polled' = polled /\ next' = next
  BY DEF Resume
<1>4. text \in [Printers -> Seq(Byte)] /\ polled \in [Printers -> BOOLEAN]
  BY <1>1 DEF PrintersOK
<1>5. CASE t \in Tasks
  <2>1. text' = [text EXCEPT ![t] = Message[t]]
        /\ expected' = StillExpected(bitEnd) \o Message[t]
    BY <1>5 DEF Resume, write_uart
  <2>2. Message[t] \in Seq(Byte) /\ t \in Printers
    BY <1>5, UartConstants DEF Printers
  <2>3. Rest' = Message[t]
    BY <1>3, <1>4, <2>1, <2>2 DEF Rest
  <2>4. PrintersOK'
    BY <1>2, <1>3, <1>4, <2>1, <2>2 DEF PrintersOK
  <2> QED
    BY <1>2, <2>1, <2>2, <2>3, <2>4, BeginMessage
<1>6. CASE t \notin Tasks
  <2>1. text' = text /\ expected' = StillExpected(bitEnd) /\ t = "idle"
    BY <1>6 DEF Resume
  <2>2. Rest' = <<>>
    BY <1>3, <2>1, UartConstants DEF Rest, Printers
  <2>3. PrintersOK'
    BY <1>2, <1>3, <1>4, <2>1 DEF PrintersOK
  <2>4. FifoOK(fifo') /\ TxOK' /\ Queued(fifo', StillExpected(bitEnd), Rest)
    BY ClockNoAccess
  <2> QED
    BY <1>2, <2>1, <2>2, <2>3, <2>4 DEF UartInv
<1> QED
  BY <1>5, <1>6

LEMMA EnterInv ==
  ASSUME UartInv, NEW bitEnd \in BOOLEAN, Rest = <<>>,
         \A q \in Printers : text[q] = <<>> /\ ~polled[q],
         NEW m \in Seq(Byte), NEW n, Enter(m, n, bitEnd)
  PROVE  UartInv'
<1>1. /\ core' = "kernel" /\ polled' = polled /\ NoAccess(bitEnd)
      /\ text' = [text EXCEPT !["kernel"] = m]
      /\ expected' = StillExpected(bitEnd) \o m
  BY DEF Enter, write_uart
<1>2. /\ "kernel" \in Printers /\ text \in [Printers -> Seq(Byte)]
      /\ polled \in [Printers -> BOOLEAN]
  BY DEF UartInv, PrintersOK, Printers
<1>3. Rest' = m
  BY <1>1, <1>2 DEF Rest
<1>4. PrintersOK'
  BY <1>1, <1>2 DEF PrintersOK
<1> QED
  BY <1>1, <1>3, <1>4, BeginMessage

LEMMA DelayInv ==
  ASSUME UartInv, NEW bitEnd \in BOOLEAN, Delay(bitEnd)
  PROVE  UartInv'
<1>1. PICK t \in Tasks, n \in Tasks \cup {"idle"} :
        Silent(t) /\ Enter(Message["switch"], n, bitEnd)
  BY DEF Delay
<1>2. t \in Printers /\ t # "kernel" /\ core = t
  BY <1>1, UartConstants DEF Printers, Silent
<1>3. Rest = <<>> /\ \A q \in Printers : text[q] = <<>> /\ ~polled[q]
  BY <1>1, <1>2, SilentIs DEF UartInv
<1>4. Message["switch"] \in Seq(Byte)
  BY UartConstants
<1> QED
  BY <1>1, <1>3, <1>4, EnterInv

LEMMA TickInv ==
  ASSUME UartInv, NEW bitEnd \in BOOLEAN, Tick(bitEnd)
  PROVE  UartInv'
<1>1. PICK n \in 1 .. Cardinality(Tasks), t \in Tasks :
        core = "idle" /\ Enter(Copies(Message["woken"], n), t, bitEnd)
  BY DEF Tick
<1>2. "idle" \notin Printers
  BY UartConstants DEF Printers
<1>3. Rest = <<>> /\ \A q \in Printers : text[q] = <<>> /\ ~polled[q]
  BY <1>1, <1>2 DEF UartInv, PrintersOK, Rest
<1>4. Copies(Message["woken"], n) \in Seq(Byte)
  <2>1. n \in Nat
    BY UartAssumption, FS_CardinalityType
  <2>2. Message["woken"] \in Seq(Byte) /\ Message["woken"] # <<>>
    BY UartConstants
  <2> QED
    BY <2>1, <2>2, CopiesType
<1> QED
  BY <1>1, <1>3, <1>4, EnterInv

\* What the task had still to store is cut off what is expected.
LEMMA FaultInv ==
  ASSUME UartInv, NEW bitEnd \in BOOLEAN, Fault(bitEnd)
  PROVE  UartInv'
<1> DEFINE e == StillExpected(bitEnd)
<1>1. PICK t \in Tasks :
    /\ core = t /\ core' = "kernel" /\ next' = "halted"
    /\ text' = [text EXCEPT ![t] = <<>>, !["kernel"] = Message["fault"]]
    /\ expected' = SubSeq(e, 1, Len(e) - Len(text[t])) \o Message["fault"]
    /\ NoAccess(bitEnd) /\ polled' = polled
  BY DEF Fault
<1>2. /\ t \in Printers /\ "kernel" \in Printers /\ t # "kernel"
      /\ Message["fault"] \in Seq(Byte)
  BY UartConstants DEF Printers
<1>3. /\ text \in [Printers -> Seq(Byte)] /\ polled \in [Printers -> BOOLEAN]
      /\ \A q \in Printers : q # t => text[q] = <<>> /\ ~polled[q]
  BY <1>1, <1>2 DEF UartInv, PrintersOK
<1>4. Rest = text[t] /\ Rest' = Message["fault"]
  BY <1>1, <1>2, <1>3 DEF Rest
<1>5. FifoOK(fifo') /\ TxOK' /\ Queued(fifo', e, Rest)
  BY <1>1, ClockNoAccess
<1>6. Queued(fifo', SubSeq(e, 1, Len(e) - Len(text[t])), <<>>)
  BY <1>4, <1>5, CutMessage
<1>7. Queued(fifo', expected', Rest')
  BY <1>1, <1>2, <1>4, <1>5, <1>6, QueueMessage
<1>8. PrintersOK'
  <2>1. text' \in [Printers -> Seq(Byte)]
        /\ \A q \in Printers : q # "kernel" => text'[q] = <<>>
    BY <1>1, <1>2, <1>3
  <2> QED
    BY <1>1, <1>2, <1>3, <2>1 DEF PrintersOK
<1> QED
  BY <1>5, <1>7, <1>8 DEF UartInv

LEMMA ElsewhereInv ==
  ASSUME UartInv, NEW bitEnd \in BOOLEAN, Elsewhere(bitEnd)
  PROVE  UartInv'
<1>1. /\ NoAccess(bitEnd) /\ expected' = StillExpected(bitEnd)
      /\ core' = core /\ next' = next /\ text' = text /\ polled' = polled
  BY DEF Elsewhere
<1>2. /\ FifoOK(fifo') /\ TxOK' /\ Queued(fifo', expected', Rest)
      /\ fifo'.full => fifo.full
  BY <1>1, ClockNoAccess
<1>3. PrintersOK' /\ Rest' = Rest
  BY <1>1, <1>2 DEF UartInv, PrintersOK, Rest
<1> QED
  BY <1>2, <1>3 DEF UartInv

LEMMA UartStep ==
  ASSUME UartInv, UartNext
  PROVE  UartInv'
<1>1. PICK bitEnd \in BOOLEAN :
        Program(bitEnd) \/ Tick(bitEnd) \/ Fault(bitEnd) \/ Elsewhere(bitEnd)
  BY DEF UartNext
<1>2. CASE Poll(bitEnd)
  BY <1>2, PollInv
<1>3. CASE Store(bitEnd)
  BY <1>3, StoreInv
<1>4. CASE Launch(bitEnd)
  <2>1. PICK t \in Tasks : Resume(t, bitEnd)
    BY <1>4 DEF Launch
  <2> QED
    BY <1>4, <2>1, ResumeInv DEF Launch
<1>5. CASE Delay(bitEnd)
  BY <1>5, DelayInv
<1>6. CASE KernelReturns(bitEnd)
  <2>1. next # "halted"
    BY <1>6, UartConstants DEF KernelReturns
  <2> QED
    BY <1>6, <2>1, ResumeInv DEF KernelReturns
<1>7. CASE Tick(bitEnd)
  BY <1>7, TickInv
<1>8. CASE Fault(bitEnd)
  BY <1>8, FaultInv
<1>9. CASE Elsewhere(bitEnd)
  BY <1>9, ElsewhereInv
<1> QED
  BY <1>1, <1>2, <1>3, <1>4, <1>5, <1>6, <1>7, <1>8, <1>9 DEF Program

LEMMA UartStutter ==
  ASSUME UartInv, UNCHANGED uartVars
  PROVE  UartInv'
BY DEF UartInv, FifoOK, TxOK, PrintersOK, Queued, Held, Stored, Place, Rest,
       Split, uartVars, uart

\* Devices lets nothing but the UART change the state of the UART.
LEMMA DeviceStep == [Next]_vars => [UartNext]_uartVars
BY DEF Next, vars

THEOREM UartInvHolds == Spec => []UartInv
<1>1. Init => UartInv
  BY UartInitInv DEF Init
<1>2. UartInv /\ [Next]_vars => UartInv'
  BY DeviceStep, UartStep, UartStutter
<1> QED
  BY <1>1, <1>2, PTL DEF Spec

(***************************************************************************)
(* When nobody prints and the status says "empty", everything printed has  *)
(* left the line (bare_metal_rtos.c:345), for every depth of the FIFO.     *)
(***************************************************************************)
THEOREM EmptyIsDelivered == Spec => []EmptyMeansDelivered
<1>1. UartInv => EmptyMeansDelivered
  <2> SUFFICES ASSUME UartInv, fifo.empty, \A p \in Printers : text[p] = <<>>
               PROVE  expected = <<>> /\ tx.state = "idle"
    BY DEF EmptyMeansDelivered
  <2>1. Held(fifo) = 0
    BY HeldType DEF UartInv
  <2>2. Rest = <<>>
    BY DEF Rest
  <2>3. expected \in Seq(Byte) /\ Len(expected) = 0
    BY <2>1, <2>2 DEF UartInv, Queued
  <2> QED
    BY <2>3 DEF UartInv, TxOK
<1> QED
  BY <1>1, UartInvHolds, PTL

(***************************************************************************)
(* Every byte printed arrives, once, in order and with its bits.           *)
(***************************************************************************)
THEOREM BytesArrive == Spec => BytesArriveInOrder
<1>1. UartInv /\ [Next]_vars =>
        [tx.state = "stop" /\ tx'.state = "idle"
           => expected # <<>> /\ frame = Head(expected)]_uartVars
  <2> SUFFICES ASSUME UartInv, tx.state = "stop"
               PROVE  expected # <<>> /\ frame = Head(expected)
    OBVIOUS
  <2>1. FifoOK(fifo) /\ ~fifo.empty /\ frame = Stored(fifo, 1)
    BY DEF UartInv, TxOK
  <2>2. Held(fifo) \in Nat /\ Held(fifo) >= 1
    BY <2>1, HeldType, UartConstants
  <2>3. /\ expected \in Seq(Byte) /\ Len(expected) >= 1
        /\ expected[1] = Stored(fifo, 1)
    BY <2>2 DEF UartInv, Queued
  <2> QED
    BY <2>1, <2>3
<1> QED
  BY <1>1, UartInvHolds, PTL DEF Spec, BytesArriveInOrder

-----------------------------------------------------------------------------
(***************************************************************************)
(* The drivers.                                                            *)
(***************************************************************************)

(* I2C.                                                                    *)

(***************************************************************************)
(* Once the driver has seen the transfer begin, either it is still under   *)
(* way, or it is over and its answer stands in the status register: the    *)
(* block begins no other before the caller commands one.                   *)
(***************************************************************************)
Answered == ~i2c.tip /\ i2c.cmd = "none" /\ i2c.rxack = ~answers.last

I2cTypes ==
  /\ i2c \in [enabled : BOOLEAN, tx : 0 .. 1, cmd : I2cCommands \cup {"none"},
             tip : BOOLEAN, rxack : BOOLEAN, busy : BOOLEAN]
  /\ i2cCall \in [pc : {"setup", "ready", "commanded", "rise", "fall", "answer"},
                  ack : BOOLEAN]
  /\ answers \in [last : BOOLEAN, missed : BOOLEAN]

I2cInv ==
  /\ I2cTypes
  /\ i2c.tip => i2c.cmd # "none"
  /\ i2cCall.pc = "fall" => i2c.tip \/ Answered
  /\ i2cCall.pc = "answer" => Answered

LEMMA I2cStep == I2cInv /\ [I2cNext]_i2cVars => I2cInv'
<1> SUFFICES ASSUME I2cInv, [I2cNext]_i2cVars PROVE I2cInv'
  OBVIOUS
<1>1. CASE i2c_setup
  <2>1. /\ i2c' = [i2c EXCEPT !.enabled = TRUE] /\ answers' = answers
        /\ i2cCall' = [i2cCall EXCEPT !.pc = "ready"]
    BY <1>1 DEF i2c_setup
  <2> QED
    BY <2>1 DEF I2cTypes, I2cInv, Answered
<1>2. CASE i2c_send_data
  BY <1>2 DEF i2c_send_data, I2cTypes, I2cInv, Answered
<1>3. CASE i2c_send_command
  BY <1>3 DEF i2c_send_command, I2cTypes, I2cInv, Answered, I2cCommands
<1>4. CASE i2c_get_ack
  BY <1>4 DEF i2c_get_ack, I2cTypes, I2cInv, Answered
<1>5. CASE AwaitRise
  BY <1>5 DEF AwaitRise, I2cTypes, I2cInv, Answered
<1>6. CASE AwaitFall
  BY <1>6 DEF AwaitFall, I2cTypes, I2cInv, Answered
<1>7. CASE GetAckReturns
  BY <1>7 DEF GetAckReturns, I2cTypes, I2cInv, Answered
<1>8. CASE I2cBegin
  BY <1>8 DEF I2cBegin, I2cTypes, I2cInv, Answered
<1>9. CASE I2cEnd
  <2>1. PICK acked \in BOOLEAN :
          /\ i2c' = [i2c EXCEPT !.tip = FALSE, !.cmd = "none", !.rxack = ~acked,
                       !.busy = i2c.cmd \notin {"I2C_STOP_WRITE", "I2C_STOP_READ"}]
          /\ answers' = [last |-> acked,
                         missed |-> i2cCall.pc \in {"commanded", "rise"}]
    BY <1>9 DEF I2cEnd
  <2>2. i2cCall' = i2cCall /\ i2c.tip
    BY <1>9 DEF I2cEnd
  <2>3. Answered'
    BY <2>1 DEF Answered, I2cInv, I2cTypes
  <2>4. ~ i2c'.tip
    BY <2>1 DEF I2cInv, I2cTypes
  <2>5. i2c' \in [enabled : BOOLEAN, tx : 0 .. 1, cmd : I2cCommands \cup {"none"},
                  tip : BOOLEAN, rxack : BOOLEAN, busy : BOOLEAN]
    <3> DEFINE open == i2c.cmd \notin {"I2C_STOP_WRITE", "I2C_STOP_READ"}
    <3>1. open \in BOOLEAN
      BY Zenon
    <3>2. (~acked) \in BOOLEAN
      BY Zenon
    <3> HIDE DEF open
    <3> QED
      BY <2>1, <3>1, <3>2 DEF I2cInv, I2cTypes, open
  <2>6. answers' \in [last : BOOLEAN, missed : BOOLEAN]
    BY <2>1
  <2> QED
    BY <2>2, <2>3, <2>4, <2>5, <2>6 DEF I2cInv, I2cTypes
<1>10. CASE UNCHANGED i2cVars
  BY <1>10 DEF i2cVars, I2cTypes, I2cInv, Answered
<1> QED
  BY <1>1, <1>2, <1>3, <1>4, <1>5, <1>6, <1>7, <1>8, <1>9, <1>10
     DEF I2cNext, I2cProgress

LEMMA DriverSteps ==
  [Next]_vars => [I2cNext]_i2cVars /\ [GpioNext]_gpioVars /\ [SpiNext]_spiVars
BY DEF Next, vars

THEOREM I2cInvHolds == Spec => []I2cInv
<1>1. Init => I2cInv
  BY DEF Init, I2cInit, I2cTypes, I2cInv, Answered
<1>2. I2cInv /\ [Next]_vars => I2cInv'
  BY I2cStep, DriverSteps
<1> QED
  BY <1>1, <1>2, PTL DEF Spec

(***************************************************************************)
(* i2c_get_ack returns the answer to the transfer commanded before it.     *)
(***************************************************************************)
THEOREM AckIsOfThisTransfer == Spec => AckIsFresh
<1>1. I2cInv /\ [Next]_vars =>
        [i2cCall.pc = "answer" /\ i2cCall'.pc = "ready"
           => i2c.cmd = "none" /\ i2cCall'.ack = answers.last]_i2cVars
  <2> SUFFICES ASSUME I2cInv, I2cNext,
                      i2cCall.pc = "answer", i2cCall'.pc = "ready"
               PROVE  i2c.cmd = "none" /\ i2cCall'.ack = answers.last
    BY DriverSteps
  <2>1. i2c.cmd = "none" /\ i2c.rxack = ~answers.last /\ answers.last \in BOOLEAN
    BY DEF I2cInv, I2cTypes, Answered
  <2>2. i2cCall' # i2cCall
    OBVIOUS
  <2>3. GetAckReturns
    BY <2>2 DEF I2cNext, I2cProgress, i2c_setup, i2c_send_data, i2c_send_command,
               i2c_get_ack, AwaitRise, AwaitFall, I2cBegin, I2cEnd
  <2>4. i2cCall'.ack = ~i2c.rxack
    BY <2>3 DEF GetAckReturns
  <2> QED
    BY <2>1, <2>4
<1> QED
  BY <1>1, I2cInvHolds, PTL DEF Spec, AckIsFresh

-----------------------------------------------------------------------------
(* GPIO.                                                                   *)

Names == {"PADDIR", "PADOUT", "INTEN", "INTTYPE0", "INTTYPE1", "PADFUN",
          "RES_STATUS"}
Addresses == {0, 4, 8, 12, 16, 20, 4096, 8192}

LEMMA RegistersAre ==
  /\ GPIO_REG["PADDIR"] = 0 /\ GPIO_REG["PADIN"] = 4
  /\ GPIO_REG["PADOUT"] = 8 /\ GPIO_REG["INTEN"] = 12
  /\ GPIO_REG["INTTYPE0"] = 16 /\ GPIO_REG["INTTYPE1"] = 20
  /\ GPIO_REG["PADFUN"] = 4096 /\ GPIO_REG["RES_STATUS"] = 8192
  /\ DOMAIN GPIO_REG = Names \cup {"PADIN"}
  /\ DOMAIN GPIO_REG \ {"PADIN"} = Names
  /\ {GPIO_REG[r] : r \in DOMAIN GPIO_REG} = Addresses
<1>1. /\ GPIO_REG["PADDIR"] = 0 /\ GPIO_REG["PADIN"] = 4
      /\ GPIO_REG["PADOUT"] = 8 /\ GPIO_REG["INTEN"] = 12
      /\ GPIO_REG["INTTYPE0"] = 16 /\ GPIO_REG["INTTYPE1"] = 20
      /\ GPIO_REG["PADFUN"] = 4096 /\ GPIO_REG["RES_STATUS"] = 8192
  BY DEF GPIO_REG
<1>2. DOMAIN GPIO_REG = Names \cup {"PADIN"}
  BY DEF GPIO_REG, Names
<1>3. DOMAIN GPIO_REG \ {"PADIN"} = Names
  BY <1>2 DEF Names
<1>4. {GPIO_REG[r] : r \in DOMAIN GPIO_REG} = Addresses
  BY <1>1, <1>2 DEF Names, Addresses
<1> QED
  BY <1>1, <1>2, <1>3, <1>4

(***************************************************************************)
(* Every register holds, for every pin, what was last asked for it, and an *)
(* output shows on its pad what it is driven with.                         *)
(***************************************************************************)
Agrees(file, want) ==
  /\ file \in [Addresses -> [Pins -> 0 .. 1]]
  /\ want \in [Names -> [Pins -> 0 .. 1]]
  /\ \A r \in Names : file[GPIO_REG[r]] = want[r]
  /\ \A p \in Pins : want["PADDIR"][p] = 1 => file[4][p] = want["PADOUT"][p]

LEMMA SetPinAgrees ==
  ASSUME NEW file, NEW want, Agrees(file, want),
         NEW name \in Names, NEW pin \in Pins, NEW bit \in 0 .. 1
  PROVE  Agrees(SetPin(file, name, pin, bit), [want EXCEPT ![name][pin] = bit])
<1> DEFINE reg == GPIO_REG[name]
           w == [want EXCEPT ![name][pin] = bit]
           f == [file EXCEPT ![reg][pin] = bit]
           in == [p \in Pins |-> IF f[0][p] = 1 THEN f[8][p] ELSE f[4][p]]
           g == [f EXCEPT ![4] = in]
<1>1. /\ file \in [Addresses -> [Pins -> 0 .. 1]]
      /\ want \in [Names -> [Pins -> 0 .. 1]]
      /\ \A r \in Names : file[GPIO_REG[r]] = want[r]
  BY DEF Agrees
<1>2. reg \in Addresses \ {4} /\ \A r \in Names : GPIO_REG[r] \in Addresses \ {4}
  BY RegistersAre DEF Names, Addresses
<1>3. \A r \in Names : GPIO_REG[r] = reg => r = name
  BY RegistersAre DEF Names
<1>4. SetPin(file, name, pin, bit) = g
  BY RegistersAre DEF SetPin, Pads
<1>5. 4 \in Addresses /\ 0 \in Addresses /\ 8 \in Addresses
      /\ "PADDIR" \in Names /\ "PADOUT" \in Names
  BY DEF Addresses, Names
<1> HIDE DEF reg
<1>6. /\ w \in [Names -> [Pins -> 0 .. 1]] /\ w[name] = [want[name] EXCEPT ![pin] = bit]
      /\ \A r \in Names : r # name => w[r] = want[r]
  BY <1>1
<1>7. /\ f \in [Addresses -> [Pins -> 0 .. 1]]
      /\ f[reg] = [file[reg] EXCEPT ![pin] = bit]
      /\ \A a \in Addresses : a # reg => f[a] = file[a]
  BY <1>1, <1>2
<1> HIDE DEF w, f
<1>8. in \in [Pins -> 0 .. 1]
  BY <1>5, <1>7
<1>9. /\ g \in [Addresses -> [Pins -> 0 .. 1]] /\ g[4] = in
      /\ \A a \in Addresses \ {4} : g[a] = f[a]
  BY <1>5, <1>7, <1>8
<1>10. \A r \in Names : f[GPIO_REG[r]] = w[r]
  <2> TAKE r \in Names
  <2>1. CASE r = name
    BY <1>1, <1>6, <1>7, <2>1 DEF reg
  <2>2. CASE r # name
    BY <1>1, <1>2, <1>3, <1>6, <1>7, <2>2
  <2> QED
    BY <2>1, <2>2
<1>11. \A r \in Names : g[GPIO_REG[r]] = w[r]
  BY <1>2, <1>9, <1>10
<1>12. f[0] = w["PADDIR"] /\ f[8] = w["PADOUT"]
  BY <1>5, <1>10, RegistersAre
<1> HIDE DEF g
<1>13. \A p \in Pins : w["PADDIR"][p] = 1 => g[4][p] = w["PADOUT"][p]
  BY <1>9, <1>12
<1> QED
  BY <1>4, <1>6, <1>9, <1>11, <1>13 DEF Agrees, w

LEMMA SetAgrees ==
  ASSUME Agrees(gpio, asked), NEW name \in Names, NEW pin \in Pins,
         NEW bit \in 0 .. 1, Set(pin, name, bit)
  PROVE  Agrees(gpio', asked')
BY SetPinAgrees DEF Set

LEMMA IrqTypeAgrees ==
  ASSUME Agrees(gpio, asked), NEW pin \in Pins, set_gpio_pin_irq_type(pin)
  PROVE  Agrees(gpio', asked')
<1>1. PICK type \in 0 .. 3 :
        /\ gpio' = IrqType(pin, type)
        /\ asked' = [asked EXCEPT !["INTTYPE0"][pin] = type % 2,
                                  !["INTTYPE1"][pin] = type \div 2]
  BY DEF set_gpio_pin_irq_type
<1> DEFINE low == type % 2
           high == type \div 2
           half == [asked EXCEPT !["INTTYPE0"][pin] = low]
           file == SetPin(gpio, "INTTYPE0", pin, low)
<1>2. low \in 0 .. 1 /\ high \in 0 .. 1
  OBVIOUS
<1>3. "INTTYPE0" \in Names /\ "INTTYPE1" \in Names
  BY DEF Names
<1>4. gpio' = SetPin(file, "INTTYPE1", pin, high)
  BY <1>1 DEF IrqType
<1>5. asked' = [half EXCEPT !["INTTYPE1"][pin] = high]
  BY <1>1
<1> HIDE DEF low, high
<1>6. Agrees(file, half)
  BY <1>2, <1>3, SetPinAgrees
<1> HIDE DEF file, half
<1> QED
  BY <1>2, <1>3, <1>4, <1>5, <1>6, SetPinAgrees

LEMMA EocAgrees ==
  ASSUME Agrees(gpio, asked), eoc
  PROVE  Agrees(gpio', asked')
<1> DEFINE Status(failed) == [p \in Pins |-> IF p = 0 THEN failed ELSE 0]
<1>1. PICK failed \in 0 .. 1 :
        /\ gpio' = SetPin(SetPin(SetPin(
                      [gpio EXCEPT ![GPIO_REG["RES_STATUS"]] = Status(failed)],
                      "PADFUN", EocPin, 1), "PADDIR", EocPin, 1), "PADOUT", EocPin, 1)
        /\ asked' = [asked EXCEPT !["RES_STATUS"] = Status(failed),
                       !["PADFUN"][EocPin] = 1, !["PADDIR"][EocPin] = 1,
                       !["PADOUT"][EocPin] = 1]
  BY DEF eoc
<1> DEFINE f0 == [gpio EXCEPT ![8192] = Status(failed)]
           f1 == SetPin(f0, "PADFUN", EocPin, 1)
           f2 == SetPin(f1, "PADDIR", EocPin, 1)
           w0 == [asked EXCEPT !["RES_STATUS"] = Status(failed)]
           w1 == [w0 EXCEPT !["PADFUN"][EocPin] = 1]
           w2 == [w1 EXCEPT !["PADDIR"][EocPin] = 1]
<1>2. /\ gpio' = SetPin(f2, "PADOUT", EocPin, 1)
      /\ asked' = [w2 EXCEPT !["PADOUT"][EocPin] = 1]
  BY <1>1, RegistersAre
<1>3. Status(failed) \in [Pins -> 0 .. 1]
  OBVIOUS
<1> HIDE DEF Status
<1>4. Agrees(f0, w0)
  <2>1. f0 \in [Addresses -> [Pins -> 0 .. 1]] /\ w0 \in [Names -> [Pins -> 0 .. 1]]
    BY <1>3 DEF Agrees, Names, Addresses
  <2>2. \A r \in Names : f0[GPIO_REG[r]] = w0[r]
    BY RegistersAre DEF Agrees, Names, Addresses
  <2>3. f0[4] = gpio[4] /\ w0["PADDIR"] = asked["PADDIR"]
        /\ w0["PADOUT"] = asked["PADOUT"]
    BY DEF Agrees, Names, Addresses
  <2> QED
    BY <2>1, <2>2, <2>3 DEF Agrees
<1> HIDE DEF f0, w0
<1>5. EocPin \in Pins /\ "PADFUN" \in Names /\ "PADDIR" \in Names
      /\ "PADOUT" \in Names /\ 1 \in 0 .. 1
  BY DriversAssumption DEF Names
<1>6. Agrees(f1, w1)
  BY <1>4, <1>5, SetPinAgrees
<1> HIDE DEF f1, w1
<1>7. Agrees(f2, w2)
  BY <1>5, <1>6, SetPinAgrees
<1> HIDE DEF f2, w2
<1> QED
  BY <1>2, <1>5, <1>7, SetPinAgrees

LEMMA GpioStep == Agrees(gpio, asked) /\ [GpioNext]_gpioVars => Agrees(gpio', asked')
<1> SUFFICES ASSUME Agrees(gpio, asked), GpioNext PROVE Agrees(gpio', asked')
  BY DEF gpioVars
<1>1. CASE eoc
  BY <1>1, EocAgrees
<1>2. ASSUME NEW pin \in Pins,
             \/ set_pin_function(pin) \/ set_gpio_pin_direction(pin)
             \/ set_gpio_pin_value(pin) \/ set_gpio_pin_irq_en(pin)
      PROVE  Agrees(gpio', asked')
  <2>1. PICK name \in Names, bit \in 0 .. 1 : Set(pin, name, bit)
    BY <1>2 DEF set_pin_function, set_gpio_pin_direction, set_gpio_pin_value,
                set_gpio_pin_irq_en, Names
  <2> QED
    BY <2>1, SetAgrees
<1> QED
  BY <1>1, <1>2, IrqTypeAgrees DEF GpioNext

LEMMA GpioInitAgrees == GpioInit => Agrees(gpio, asked)
<1> SUFFICES ASSUME GpioInit PROVE Agrees(gpio, asked)
  OBVIOUS
<1>1. /\ gpio = [a \in Addresses |-> [p \in Pins |-> 0]]
      /\ asked = [r \in Names |-> [p \in Pins |-> 0]]
  BY RegistersAre DEF GpioInit
<1>2. \A r \in Names : GPIO_REG[r] \in Addresses
  BY RegistersAre DEF Names, Addresses
<1>3. 4 \in Addresses /\ "PADDIR" \in Names /\ "PADOUT" \in Names
  BY DEF Addresses, Names
<1> QED
  BY <1>1, <1>2, <1>3 DEF Agrees

(***************************************************************************)
(* After any calls, every pin has what was last asked of it, whatever was  *)
(* asked of the others.                                                    *)
(***************************************************************************)
THEOREM PinsAreOwn == Spec => []PinsReadBack
<1>1. Init => Agrees(gpio, asked)
  BY GpioInitAgrees DEF Init
<1>2. Agrees(gpio, asked) /\ [Next]_vars => Agrees(gpio, asked)'
  <2>1. Agrees(gpio, asked)' <=> Agrees(gpio', asked')
    BY DEF Agrees
  <2> QED
    BY <2>1, GpioStep, DriverSteps
<1>3. Agrees(gpio, asked) => PinsReadBack
  <2> SUFFICES ASSUME Agrees(gpio, asked), NEW p \in Pins
               PROVE  /\ get_pin_function(p) = asked["PADFUN"][p]
                      /\ asked["PADDIR"][p] = 1 =>
                           get_gpio_pin_value(p) = asked["PADOUT"][p]
                      /\ \A r \in {"INTEN", "INTTYPE0", "INTTYPE1", "RES_STATUS"} :
                           Register(r)[p] = asked[r][p]
    BY DEF PinsReadBack
  <2>1. \A r \in Names : Register(r) = asked[r]
    BY DEF Agrees, Register
  <2>2. Register("PADIN") = gpio[4]
    BY RegistersAre DEF Register
  <2> QED
    BY <2>1, <2>2 DEF Agrees, Names, get_pin_function, get_gpio_pin_value
<1> QED
  BY <1>1, <1>2, <1>3, PTL DEF Spec

-----------------------------------------------------------------------------
(* SPI.                                                                    *)

LEMMA DivideIs ==
  ASSUME NEW x \in Nat, NEW d \in Nat \ {0}, NEW q \in Nat, NEW r \in 0 .. d - 1,
         x = (d * q) + r
  PROVE  x \div d = q /\ x % d = r
<1> DEFINE q2 == x \div d
           r2 == x % d
<1>1. /\ q2 \in Int /\ r2 \in 0 .. d - 1 /\ x = (d * q2) + r2
  OBVIOUS
<1> HIDE DEF q2, r2
<1>2. CASE q2 >= q + 1
  <2>1. d * q2 >= d * (q + 1)
    BY <1>1, <1>2
  <2>2. d * (q + 1) = (d * q) + d
    OBVIOUS
  <2> QED
    BY <1>1, <2>1, <2>2
<1>3. CASE q2 <= q - 1
  <2>1. d * q2 <= d * (q - 1)
    BY <1>1, <1>3
  <2>2. d * (q - 1) = (d * q) - d
    OBVIOUS
  <2> QED
    BY <1>1, <2>1, <2>2
<1>4. q2 = q
  BY <1>1, <1>2, <1>3
<1> QED
  BY <1>1, <1>4 DEF q2, r2

(***************************************************************************)
(* The driver, which counts whole words of the length it was given and     *)
(* then looks for a broken one, and the block, which rounds up the length  *)
(* that fitted into its register, come to the same number of words.        *)
(***************************************************************************)
LEMMA WordsAgree ==
  ASSUME NEW n \in Nat
  PROVE  /\ num_words(n) \in Nat
         /\ WordsOnWire(n % DatalenSize) = num_words(n)
<1> DEFINE W == WordBits
           q == n \div W
           r == n % W
           a == q \div Counts
           b == q % Counts
           cut == (W * b) + r
<1>1. W \in Nat \ {0} /\ Counts \in Nat \ {0}
  BY DriversAssumption
<1>2. q \in Nat /\ r \in 0 .. W - 1 /\ n = (W * q) + r
  BY <1>1
<1>3. a \in Nat /\ b \in 0 .. Counts - 1 /\ q = (Counts * a) + b
  BY <1>1, <1>2
<1>4. num_words(n) = b + (IF r # 0 THEN 1 ELSE 0)
  BY DEF num_words
<1>5. DatalenSize = W * Counts
  BY DEF DatalenSize
<1> HIDE DEF q, r, a, b, W
<1>6. W * b \in Nat
  BY <1>1, <1>3
<1>7. W * Counts \in Nat \ {0}
  BY <1>1
<1>8. n % (W * Counts) = cut
  <2>1. W * q = ((W * Counts) * a) + (W * b)
    <3>1. W * q = W * ((Counts * a) + b)
      BY <1>3
    <3>2. W * ((Counts * a) + b) = (W * (Counts * a)) + (W * b)
      BY <1>1, <1>3
    <3>3. W * (Counts * a) = (W * Counts) * a
      BY <1>1, <1>3
    <3> QED
      BY <3>1, <3>2, <3>3
  <2>2. cut \in Nat /\ cut < W * Counts
    <3>1. W * b <= W * (Counts - 1)
      BY <1>1, <1>3
    <3>2. W * (Counts - 1) = (W * Counts) - W
      BY <1>1
    <3> QED
      BY <1>1, <1>2, <1>6, <1>7, <3>1, <3>2
  <2>3. n = ((W * Counts) * a) + cut
    BY <1>1, <1>2, <1>3, <1>6, <1>7, <2>1
  <2> HIDE DEF cut
  <2> QED
    BY <1>3, <1>7, <2>2, <2>3, DivideIs
<1>9. (cut + W - 1) \div W = b + (IF r # 0 THEN 1 ELSE 0)
  <2>1. CASE r = 0
    <3>1. cut + W - 1 = (W * b) + (W - 1) /\ W - 1 \in 0 .. W - 1
      BY <1>1, <1>6, <2>1
    <3>2. cut + W - 1 \in Nat
      BY <1>1, <1>6, <3>1
    <3> HIDE DEF cut
    <3>3. (cut + W - 1) \div W = b
      BY <1>1, <1>3, <3>1, <3>2, DivideIs
    <3> QED
      BY <1>3, <2>1, <3>3
  <2>2. CASE r # 0
    <3>1. W * (b + 1) = (W * b) + W
      BY <1>1, <1>3
    <3>2. cut + W - 1 = (W * (b + 1)) + (r - 1) /\ r - 1 \in 0 .. W - 1
      BY <1>1, <1>2, <1>6, <2>2, <3>1
    <3>3. cut + W - 1 \in Nat
      BY <1>1, <1>2, <1>6
    <3>4. b + 1 \in Nat
      BY <1>1, <1>3
    <3> DEFINE q3 == b + 1
               x == cut + W - 1
    <3> HIDE DEF cut, q3, x
    <3>5. x \div W = q3
      BY <1>1, <3>2, <3>3, <3>4, DivideIs DEF q3, x
    <3> QED
      BY <2>2, <3>5 DEF q3, x
  <2> QED
    BY <2>1, <2>2
<1>10. WordsOnWire(n % DatalenSize) = (cut + W - 1) \div W
  BY <1>5, <1>8 DEF WordsOnWire, W
<1>11. num_words(n) \in Nat
  BY <1>3, <1>4
<1> QED
  BY <1>4, <1>9, <1>10, <1>11

LEMMA MoveOne ==
  ASSUME NEW a \in Nat, NEW b \in Nat, NEW c \in Nat
  PROVE  /\ (a + 1) + (b - 1) = a + b
         /\ (a + 1) + (b - 1) + c = a + b + c
         /\ a + (b + 1) + (c - 1) = a + b + c
OBVIOUS

-----------------------------------------------------------------------------
(* The words of s are those of the transfer from word number first on.     *)
Numbered(s, first) == \A k \in 1 .. Len(s) : s[k] = first + k - 1

LEMMA NumberedAppend ==
  ASSUME NEW s \in Seq(Nat), NEW first \in Nat, Numbered(s, first)
  PROVE  /\ Append(s, first + Len(s)) \in Seq(Nat)
         /\ Len(Append(s, first + Len(s))) = Len(s) + 1
         /\ Numbered(Append(s, first + Len(s)), first)
<1> DEFINE x == first + Len(s)
           t == Append(s, x)
<1>1. x \in Nat /\ Len(s) \in Nat
  OBVIOUS
<1> HIDE DEF x
<1>2. /\ t \in Seq(Nat) /\ Len(t) = Len(s) + 1 /\ t[Len(s) + 1] = x
      /\ \A k \in 1 .. Len(s) : t[k] = s[k]
  BY <1>1
<1> HIDE DEF t
<1>3. Numbered(t, first)
  <2> SUFFICES ASSUME NEW k \in 1 .. Len(t) PROVE t[k] = first + k - 1
    BY DEF Numbered
  <2>1. CASE k = Len(s) + 1
    BY <1>1, <1>2, <2>1 DEF x
  <2>2. CASE k # Len(s) + 1
    BY <1>1, <1>2, <2>2 DEF Numbered
  <2> QED
    BY <2>1, <2>2
<1> QED
  BY <1>2, <1>3 DEF t, x

LEMMA NumberedTail ==
  ASSUME NEW s \in Seq(Nat), NEW first \in Nat, Numbered(s, first), s # <<>>
  PROVE  /\ Head(s) = first
         /\ Tail(s) \in Seq(Nat) /\ Len(Tail(s)) = Len(s) - 1
         /\ Numbered(Tail(s), first + 1)
<1>1. Len(s) \in Nat /\ Len(s) > 0
  OBVIOUS
<1>2. /\ Head(s) = s[1] /\ Tail(s) \in Seq(Nat) /\ Len(Tail(s)) = Len(s) - 1
      /\ \A k \in 1 .. Len(s) - 1 : Tail(s)[k] = s[k + 1]
  BY <1>1
<1>3. Numbered(Tail(s), first + 1)
  <2> SUFFICES ASSUME NEW k \in 1 .. Len(s) - 1
               PROVE  Tail(s)[k] = first + 1 + k - 1
    BY <1>2 DEF Numbered
  <2>1. s[k + 1] = first + (k + 1) - 1
    BY <1>1 DEF Numbered
  <2> QED
    BY <1>2, <2>1
<1>4. s[1] = first + 1 - 1
  BY <1>1 DEF Numbered
<1> QED
  BY <1>2, <1>3, <1>4

(***************************************************************************)
(* The inductive invariant.  What has arrived, what stands in the FIFO and *)
(* what is still to come make up the transfer the driver counts, at every  *)
(* point of its loops; the block is idle only outside a transfer.          *)
(***************************************************************************)
Total == num_words(spiCall.datalen)

SpiTypes ==
  /\ spi \in [cmd : SpiReg, cmdlen : Nat, datalen : Nat, dummy : 0 .. 1,
             tx : Seq(Nat), rx : Seq(Nat), mode : {"idle", "read", "write"},
             left : Nat]
  /\ spiCall \in [pc : {"setup", "length", "start", "poll", "move"},
                  cmd : Seq({0, 1}), datalen : Nat, i : Nat]
  /\ slave \in Seq(Nat)

CommandSent ==
  /\ spi.cmdlen = Len(spiCall.cmd)
  /\ \A b \in 1 .. spi.cmdlen : spi.cmd[b] = spiCall.cmd[b]

IdleOK ==
  /\ spiCall.pc \in {"setup", "length", "start"}
  /\ spi.tx = <<>> /\ spi.rx = <<>>

WriteOK ==
  /\ spiCall.pc \in {"poll", "move"} /\ spi.rx = <<>>
  /\ Numbered(spi.tx, Len(slave)) /\ Len(slave) + Len(spi.tx) = spiCall.i
  /\ Len(slave) + spi.left = Total /\ spiCall.i <= Total
  /\ Len(spi.tx) <= TxLimit
  /\ spiCall.pc = "move" => spiCall.i < Total /\ Len(spi.tx) < TxLimit

ReadOK ==
  /\ spiCall.pc \in {"poll", "move"} /\ spi.tx = <<>>
  /\ Numbered(spi.rx, Len(slave)) /\ Len(slave) = spiCall.i
  /\ Len(slave) + Len(spi.rx) + spi.left = Total
  /\ spiCall.pc = "move" => spi.rx # <<>>

SpiInv ==
  /\ SpiTypes /\ Numbered(slave, 0)
  /\ spiCall.pc # "setup" => CommandSent
  /\ spiCall.pc \in {"start", "poll", "move"} =>
       spi.datalen = spiCall.datalen % DatalenSize
  /\ spi.mode = "idle" => IdleOK
  /\ spi.mode = "write" => WriteOK
  /\ spi.mode = "read" => ReadOK

LEMMA SpiConstants ==
  /\ WordBits \in Nat /\ Counts \in Nat /\ TxLimit \in Nat /\ TxLimit > 0
  /\ RxDepth \in Nat /\ Lengths \subseteq Nat
  /\ \A c \in Commands : c \in Seq({0, 1}) /\ Len(c) \in Nat /\ Len(c) <= WordBits
BY DriversAssumption

LEMMA SpiInitInv == SpiInit => SpiInv
<1> SUFFICES ASSUME SpiInit PROVE SpiInv
  OBVIOUS
<1>1. Zero \in SpiReg
  BY DEF Zero, SpiReg
<1>2. /\ spi = [cmd |-> Zero, cmdlen |-> 0, datalen |-> 0, dummy |-> 0,
                tx |-> <<>>, rx |-> <<>>, mode |-> "idle", left |-> 0]
      /\ spiCall = [pc |-> "setup", cmd |-> <<>>, datalen |-> 0, i |-> 0]
      /\ slave = <<>>
  BY DEF SpiInit
<1>3. SpiTypes
  <2>1. <<>> \in Seq(Nat) /\ <<>> \in Seq({0, 1}) /\ 0 \in Nat
    OBVIOUS
  <2> QED
    BY <1>1, <1>2, <2>1 DEF SpiTypes
<1> QED
  BY <1>2, <1>3 DEF SpiInv, IdleOK, Numbered

LEMMA SetupInv == SpiInv /\ spi_setup_cmd_addr => SpiInv'
<1> SUFFICES ASSUME SpiInv, spi_setup_cmd_addr PROVE SpiInv'
  OBVIOUS
<1>1. PICK c \in Commands : \E reg \in Aligned(c) :
        /\ spi' = [spi EXCEPT !.cmd = reg, !.cmdlen = Len(c), !.datalen = 0]
        /\ spiCall' = [spiCall EXCEPT !.pc = "length", !.cmd = c]
  BY DEF spi_setup_cmd_addr
<1>2. PICK reg \in Aligned(c) :
        /\ spi' = [spi EXCEPT !.cmd = reg, !.cmdlen = Len(c), !.datalen = 0]
        /\ spiCall' = [spiCall EXCEPT !.pc = "length", !.cmd = c]
  BY <1>1
<1>3. spiCall.pc = "setup" /\ slave' = slave
  BY DEF spi_setup_cmd_addr
<1>4. c \in Seq({0, 1}) /\ Len(c) \in Nat /\ Len(c) <= WordBits /\ WordBits \in Nat
  BY SpiConstants
<1>5. reg \in SpiReg /\ \A b \in 1 .. Len(c) : reg[b] = c[b]
  <2>1. CASE c = <<>>
    BY <2>1 DEF Aligned
  <2>2. CASE c # <<>>
    <3>1. reg = [b \in 1 .. WordBits |-> IF b <= Len(c) THEN c[b] ELSE 0]
      BY <2>2 DEF Aligned
    <3>2. \A b \in 1 .. WordBits : b <= Len(c) => c[b] \in {0, 1}
      BY <1>4
    <3> QED
      BY <1>4, <3>1, <3>2 DEF SpiReg
  <2> QED
    BY <2>1, <2>2
<1>6. spi.mode = "idle" /\ spi.tx = <<>> /\ spi.rx = <<>>
  BY <1>3 DEF SpiInv, SpiTypes, IdleOK, WriteOK, ReadOK
<1>7. SpiTypes'
  BY <1>2, <1>3, <1>4, <1>5 DEF SpiInv, SpiTypes
<1>8. CommandSent'
  BY <1>2, <1>5 DEF CommandSent, SpiInv, SpiTypes
<1>9. spi'.mode = "idle" /\ spi'.tx = <<>> /\ spi'.rx = <<>> /\ spiCall'.pc = "length"
  BY <1>2, <1>6 DEF SpiInv, SpiTypes
<1> QED
  BY <1>3, <1>7, <1>8, <1>9 DEF SpiInv, IdleOK

LEMMA DatalenInv == SpiInv /\ spi_set_datalen => SpiInv'
<1> SUFFICES ASSUME SpiInv, spi_set_datalen PROVE SpiInv'
  OBVIOUS
<1>1. PICK n \in Lengths :
        /\ spi' = [spi EXCEPT !.datalen = n % DatalenSize]
        /\ spiCall' = [spiCall EXCEPT !.pc = "start", !.datalen = n]
  BY DEF spi_set_datalen
<1>2. spiCall.pc = "length" /\ slave' = slave
  BY DEF spi_set_datalen
<1>3. n \in Nat /\ n % DatalenSize \in Nat
  <2>1. DatalenSize \in Nat \ {0}
    BY DriversAssumption DEF DatalenSize
  <2> QED
    BY <2>1, SpiConstants
<1>4. SpiTypes'
  BY <1>1, <1>2, <1>3 DEF SpiInv, SpiTypes
<1>5. spi.mode = "idle" /\ spi.tx = <<>> /\ spi.rx = <<>>
  BY <1>2 DEF SpiInv, SpiTypes, IdleOK, WriteOK, ReadOK
<1>6. /\ spi'.mode = "idle" /\ spi'.tx = <<>> /\ spi'.rx = <<>>
      /\ spiCall'.pc = "start" /\ spi'.datalen = spiCall'.datalen % DatalenSize
      /\ spi'.cmd = spi.cmd /\ spi'.cmdlen = spi.cmdlen /\ spiCall'.cmd = spiCall.cmd
  BY <1>1, <1>5 DEF SpiInv, SpiTypes
<1> QED
  BY <1>2, <1>4, <1>6 DEF SpiInv, IdleOK, CommandSent

LEMMA DummyInv == SpiInv /\ spi_setup_dummy => SpiInv'
<1> SUFFICES ASSUME SpiInv, spi_setup_dummy PROVE SpiInv'
  OBVIOUS
<1>1. PICK cycles \in 0 .. 1 : spi' = [spi EXCEPT !.dummy = cycles]
  BY DEF spi_setup_dummy
<1>2. spiCall' = spiCall /\ slave' = slave
  BY DEF spi_setup_dummy
<1>3. SpiTypes'
  BY <1>1, <1>2 DEF SpiInv, SpiTypes
<1>4. /\ spi'.mode = spi.mode /\ spi'.tx = spi.tx /\ spi'.rx = spi.rx
      /\ spi'.left = spi.left /\ spi'.datalen = spi.datalen
      /\ spi'.cmd = spi.cmd /\ spi'.cmdlen = spi.cmdlen
  BY <1>1 DEF SpiInv, SpiTypes
<1> QED
  BY <1>2, <1>3, <1>4
     DEF SpiInv, IdleOK, WriteOK, ReadOK, CommandSent, Numbered, Total

LEMMA StartInv == SpiInv /\ spi_start_transaction => SpiInv'
<1> SUFFICES ASSUME SpiInv, spi_start_transaction PROVE SpiInv'
  OBVIOUS
<1>1. PICK mode \in {"read", "write"} :
        /\ spi' = [spi EXCEPT !.mode = mode, !.left = WordsOnWire(spi.datalen)]
        /\ spiCall' = [spiCall EXCEPT !.pc = "poll", !.i = 0]
  BY DEF spi_start_transaction
<1>2. spiCall.pc = "start" /\ spi.mode = "idle" /\ slave' = <<>>
  BY DEF spi_start_transaction
<1>3. WordsOnWire(spi.datalen) = Total /\ Total \in Nat
  BY <1>2, WordsAgree DEF SpiInv, SpiTypes, Total
<1>4. SpiTypes'
  <2>1. <<>> \in Seq(Nat)
    OBVIOUS
  <2> QED
    BY <1>1, <1>2, <1>3, <2>1 DEF SpiInv, SpiTypes
<1>5. /\ spi'.mode = mode /\ spi'.tx = <<>> /\ spi'.rx = <<>>
      /\ spi'.left = Total /\ spi'.datalen = spi.datalen
      /\ spi'.cmd = spi.cmd /\ spi'.cmdlen = spi.cmdlen
      /\ spiCall'.pc = "poll" /\ spiCall'.i = 0
      /\ spiCall'.cmd = spiCall.cmd /\ spiCall'.datalen = spiCall.datalen
  BY <1>1, <1>2, <1>3 DEF SpiInv, SpiTypes, IdleOK
<1>6. Total' = Total
  BY <1>5 DEF Total
<1> QED
  BY <1>2, <1>3, <1>4, <1>5, <1>6, SpiConstants
     DEF SpiInv, WriteOK, ReadOK, CommandSent, Numbered

LEMMA PollStepInv == SpiInv /\ SpiPoll => SpiInv'
<1> SUFFICES ASSUME SpiInv, SpiPoll PROVE SpiInv'
  OBVIOUS
<1> DEFINE pc == IF IF spi.mode = "write" THEN Len(spi.tx) < TxLimit ELSE spi.rx # <<>>
                 THEN "move" ELSE "poll"
<1>1. /\ spiCall.pc = "poll" /\ spiCall.i < Total
      /\ spiCall' = [spiCall EXCEPT !.pc = pc]
      /\ spi' = spi /\ slave' = slave
  BY DEF SpiPoll, Total
<1>2. pc \in {"poll", "move"}
  OBVIOUS
<1>3. pc = "move" => IF spi.mode = "write" THEN Len(spi.tx) < TxLimit ELSE spi.rx # <<>>
  OBVIOUS
<1> HIDE DEF pc
<1>4. /\ spiCall'.pc = pc /\ spiCall'.cmd = spiCall.cmd /\ spiCall'.i = spiCall.i
      /\ spiCall'.datalen = spiCall.datalen
  BY <1>1 DEF SpiInv, SpiTypes
<1>5. SpiTypes'
  BY <1>1, <1>2 DEF SpiInv, SpiTypes
<1>6. Total' = Total
  BY <1>4 DEF Total
<1>7. spi.mode # "idle"
  BY <1>1 DEF SpiInv, IdleOK
<1> QED
  BY <1>1, <1>2, <1>3, <1>4, <1>5, <1>6, <1>7
     DEF SpiInv, WriteOK, ReadOK, CommandSent, Numbered

LEMMA WriteFifoInv == SpiInv /\ spi_write_fifo => SpiInv'
<1> SUFFICES ASSUME SpiInv, spi_write_fifo PROVE SpiInv'
  OBVIOUS
<1>1. /\ spiCall.pc = "move" /\ spi.mode = "write"
      /\ spi' = [spi EXCEPT !.tx = Append(@, spiCall.i)]
      /\ spiCall' = [spiCall EXCEPT !.pc = "poll", !.i = @ + 1]
      /\ slave' = slave
  BY DEF spi_write_fifo
<1>2. WriteOK /\ SpiTypes
  BY <1>1 DEF SpiInv
<1>3. /\ spi.tx \in Seq(Nat) /\ slave \in Seq(Nat) /\ Len(slave) \in Nat
      /\ spiCall.i \in Nat /\ Len(spi.tx) \in Nat
  BY <1>2 DEF SpiTypes
<1>4. spiCall.i = Len(slave) + Len(spi.tx)
  BY <1>2 DEF WriteOK
<1> DEFINE queue == Append(spi.tx, spiCall.i)
<1>5. queue \in Seq(Nat) /\ Len(queue) = Len(spi.tx) + 1 /\ Numbered(queue, Len(slave))
  BY <1>2, <1>3, <1>4, NumberedAppend DEF WriteOK
<1> HIDE DEF queue
<1>6. /\ spi'.tx = queue /\ spi'.mode = "write" /\ spi'.rx = spi.rx
      /\ spi'.left = spi.left /\ spi'.datalen = spi.datalen
      /\ spi'.cmd = spi.cmd /\ spi'.cmdlen = spi.cmdlen
      /\ spiCall'.pc = "poll" /\ spiCall'.i = spiCall.i + 1
      /\ spiCall'.cmd = spiCall.cmd /\ spiCall'.datalen = spiCall.datalen
  BY <1>1, <1>2 DEF SpiTypes, queue
<1>7. SpiTypes'
  <2>1. spi' = [spi EXCEPT !.tx = queue] /\ spiCall.i + 1 \in Nat
    BY <1>1, <1>3 DEF queue
  <2> QED
    BY <1>1, <1>2, <1>5, <2>1 DEF SpiTypes
<1>8. Total' = Total /\ Total \in Nat
  BY <1>2, <1>6, WordsAgree DEF Total, SpiTypes
<1>9. WriteOK'
  <2>1. Numbered(spi'.tx, Len(slave'))
    BY <1>1, <1>5, <1>6
  <2>2. spiCall.i < Total /\ Len(spi.tx) < TxLimit /\ Len(slave) + spi.left = Total
    BY <1>1, <1>2 DEF WriteOK
  <2>3. Len(slave') + Len(spi'.tx) = spiCall'.i
    BY <1>1, <1>3, <1>4, <1>5, <1>6
  <2>4. Len(slave') + spi'.left = Total' /\ spiCall'.i <= Total'
    BY <1>1, <1>3, <1>6, <1>8, <2>2
  <2>5. Len(spi'.tx) <= TxLimit
    BY <1>3, <1>5, <1>6, <2>2, SpiConstants
  <2>6. spiCall'.pc = "poll" /\ spi'.rx = <<>>
    BY <1>2, <1>6 DEF WriteOK
  <2> QED
    BY <2>1, <2>3, <2>4, <2>5, <2>6 DEF WriteOK
<1> QED
  BY <1>1, <1>6, <1>7, <1>8, <1>9 DEF SpiInv, CommandSent

LEMMA ReadFifoInv == SpiInv /\ spi_read_fifo => SpiInv'
<1> SUFFICES ASSUME SpiInv, spi_read_fifo PROVE SpiInv'
  OBVIOUS
<1>1. /\ spiCall.pc = "move" /\ spi.mode = "read"
      /\ spi' = [spi EXCEPT !.rx = Tail(@)]
      /\ slave' = Append(slave, Head(spi.rx))
      /\ spiCall' = [spiCall EXCEPT !.pc = "poll", !.i = @ + 1]
  BY DEF spi_read_fifo
<1>2. ReadOK /\ SpiTypes /\ Numbered(slave, 0)
  BY <1>1 DEF SpiInv
<1>3. /\ spi.rx \in Seq(Nat) /\ slave \in Seq(Nat) /\ Len(slave) \in Nat
      /\ spiCall.i \in Nat /\ Len(spi.rx) \in Nat /\ spi.left \in Nat
  BY <1>2 DEF SpiTypes
<1> DEFINE rx == Tail(spi.rx)
           got == Append(slave, Head(spi.rx))
<1>4. /\ Head(spi.rx) = Len(slave) /\ rx \in Seq(Nat) /\ Len(rx) = Len(spi.rx) - 1
      /\ Numbered(rx, Len(slave) + 1)
  BY <1>1, <1>2, <1>3, NumberedTail DEF ReadOK
<1>5. got \in Seq(Nat) /\ Len(got) = Len(slave) + 1 /\ Numbered(got, 0)
  <2>1. 0 + Len(slave) = Len(slave) /\ 0 \in Nat
    BY <1>3
  <2> QED
    BY <1>2, <1>3, <1>4, <2>1, NumberedAppend
<1> HIDE DEF rx, got
<1>6. /\ spi'.rx = rx /\ spi'.mode = "read" /\ spi'.tx = spi.tx
      /\ spi'.left = spi.left /\ spi'.datalen = spi.datalen
      /\ spi'.cmd = spi.cmd /\ spi'.cmdlen = spi.cmdlen
      /\ spiCall'.pc = "poll" /\ spiCall'.i = spiCall.i + 1
      /\ spiCall'.cmd = spiCall.cmd /\ spiCall'.datalen = spiCall.datalen
      /\ slave' = got
  BY <1>1, <1>2 DEF SpiTypes, rx, got
<1>7. SpiTypes'
  <2>1. spi' = [spi EXCEPT !.rx = rx] /\ spiCall.i + 1 \in Nat
    BY <1>1, <1>3 DEF rx
  <2>2. rx \in Seq(Nat)
    BY <1>4 DEF rx
  <2> QED
    BY <1>1, <1>2, <1>5, <1>6, <2>1, <2>2 DEF SpiTypes
<1>8. Total' = Total /\ Total \in Nat
  BY <1>2, <1>6, WordsAgree DEF Total, SpiTypes
<1>9. ReadOK'
  <2>1. Len(slave) = spiCall.i /\ Len(slave) + Len(spi.rx) + spi.left = Total
    BY <1>2 DEF ReadOK
  <2>2. Len(rx) = Len(spi.rx) - 1 /\ Numbered(rx, Len(got))
    BY <1>4, <1>5 DEF rx
  <2>3. Numbered(spi'.rx, Len(slave')) /\ Len(slave') = spiCall'.i
    BY <1>3, <1>5, <1>6, <2>1, <2>2
  <2>4. Len(slave') + Len(spi'.rx) + spi'.left = Total'
    <3>1. /\ Len(slave') = Len(slave) + 1 /\ Len(spi'.rx) = Len(spi.rx) - 1
          /\ spi'.left = spi.left
      BY <1>5, <1>6, <2>2
    <3>2. (Len(slave) + 1) + (Len(spi.rx) - 1) + spi.left = Total
      BY <1>3, <2>1, MoveOne
    <3> QED
      BY <1>8, <3>1, <3>2
  <2>5. spiCall'.pc = "poll" /\ spi'.tx = <<>>
    BY <1>2, <1>6 DEF ReadOK
  <2> QED
    BY <2>3, <2>4, <2>5 DEF ReadOK
<1> QED
  BY <1>1, <1>5, <1>6, <1>7, <1>8, <1>9 DEF SpiInv, CommandSent

LEMMA StatusInv == SpiInv /\ spi_get_status => SpiInv'
<1> SUFFICES ASSUME SpiInv, spi_get_status PROVE SpiInv'
  OBVIOUS
<1>1. spiCall.pc = "poll" /\ spiCall.i = Total /\ slave' = slave
  BY DEF spi_get_status, Total
<1>2. CASE spi.left = 0
  <2>1. /\ spi' = [spi EXCEPT !.mode = "idle"]
        /\ spiCall' = [spiCall EXCEPT !.pc = "setup"]
    BY <1>2 DEF spi_get_status
  <2>2. spi.tx = <<>> /\ spi.rx = <<>>
    <3>1. /\ spi.tx \in Seq(Nat) /\ spi.rx \in Seq(Nat) /\ Len(slave) \in Nat
          /\ spi.mode \in {"idle", "read", "write"}
      BY DEF SpiInv, SpiTypes
    <3>2. Total \in Nat
      BY WordsAgree DEF Total, SpiInv, SpiTypes
    <3>3. CASE spi.mode = "write"
      <4>1. Len(spi.tx) = 0
        BY <1>1, <1>2, <3>1, <3>2, <3>3 DEF SpiInv, WriteOK
      <4> QED
        BY <3>1, <3>3, <4>1 DEF SpiInv, WriteOK
    <3>4. CASE spi.mode = "read"
      <4>1. Len(spi.rx) = 0
        BY <1>1, <1>2, <3>1, <3>2, <3>4 DEF SpiInv, ReadOK
      <4> QED
        BY <3>1, <3>4, <4>1 DEF SpiInv, ReadOK
    <3>5. CASE spi.mode = "idle"
      BY <3>5 DEF SpiInv, IdleOK
    <3> QED
      BY <3>1, <3>3, <3>4, <3>5
  <2>3. /\ spi'.mode = "idle" /\ spi'.tx = spi.tx /\ spi'.rx = spi.rx
        /\ spiCall'.pc = "setup"
    BY <2>1 DEF SpiInv, SpiTypes
  <2>4. SpiTypes'
    BY <1>1, <2>1 DEF SpiInv, SpiTypes
  <2> QED
    BY <1>1, <2>2, <2>3, <2>4 DEF SpiInv, IdleOK
<1>3. CASE spi.left # 0
  <2>1. spi' = spi /\ spiCall' = spiCall
    BY <1>3 DEF spi_get_status
  <2> QED
    BY <1>1, <2>1 DEF SpiInv, SpiTypes, IdleOK, WriteOK, ReadOK, CommandSent,
                      Numbered, Total
<1> QED
  BY <1>2, <1>3

LEMMA WireInv == SpiInv /\ SpiWire => SpiInv'
<1> SUFFICES ASSUME SpiInv, SpiWire PROVE SpiInv'
  OBVIOUS
<1>1. /\ spi.left > 0 /\ spiCall' = spiCall /\ Total' = Total
  BY DEF SpiWire, Total
<1>2. SpiTypes /\ Numbered(slave, 0)
  BY DEF SpiInv
<1>3. /\ spi.tx \in Seq(Nat) /\ spi.rx \in Seq(Nat) /\ slave \in Seq(Nat)
      /\ Len(slave) \in Nat /\ Len(spi.tx) \in Nat /\ Len(spi.rx) \in Nat
      /\ spi.left \in Nat /\ spiCall.i \in Nat
  BY <1>2 DEF SpiTypes
<1>4. Total \in Nat
  BY <1>2, WordsAgree DEF Total, SpiTypes
<1>5. CASE spi.mode = "write"
  <2>1. /\ spi.tx # <<>> /\ slave' = Append(slave, Head(spi.tx))
        /\ spi' = [spi EXCEPT !.tx = Tail(@), !.left = @ - 1]
    BY <1>5 DEF SpiWire
  <2>2. WriteOK
    BY <1>5 DEF SpiInv
  <2> DEFINE queue == Tail(spi.tx)
             sent == Append(slave, Head(spi.tx))
  <2>3. /\ Head(spi.tx) = Len(slave) /\ queue \in Seq(Nat) /\ Len(queue) = Len(spi.tx) - 1
        /\ Numbered(queue, Len(slave) + 1)
    BY <1>3, <2>1, <2>2, NumberedTail DEF WriteOK
  <2>4. sent \in Seq(Nat) /\ Len(sent) = Len(slave) + 1 /\ Numbered(sent, 0)
    <3>1. 0 + Len(slave) = Len(slave) /\ 0 \in Nat
      BY <1>3
    <3> QED
      BY <1>2, <1>3, <2>3, <3>1, NumberedAppend
  <2> HIDE DEF queue, sent
  <2>5. /\ spi'.tx = queue /\ spi'.mode = "write" /\ spi'.rx = spi.rx
        /\ spi'.left = spi.left - 1 /\ spi'.datalen = spi.datalen
        /\ spi'.cmd = spi.cmd /\ spi'.cmdlen = spi.cmdlen /\ slave' = sent
    BY <1>2, <1>5, <2>1 DEF SpiTypes, queue, sent
  <2>6. SpiTypes'
    <3>1. spi.left - 1 \in Nat
      BY <1>1, <1>3
    <3> QED
      BY <1>1, <1>2, <2>1, <2>3, <2>4, <2>5, <3>1 DEF SpiTypes, queue
  <2>7. WriteOK'
    <3>1. /\ Len(slave) + Len(spi.tx) = spiCall.i /\ Len(spi.tx) <= TxLimit
          /\ Len(slave) + spi.left = Total /\ spiCall.i <= Total
          /\ spiCall.pc = "move" => spiCall.i < Total /\ Len(spi.tx) < TxLimit
          /\ spiCall.pc \in {"poll", "move"} /\ spi.rx = <<>>
      BY <2>2 DEF WriteOK
    <3>2. Len(queue) = Len(spi.tx) - 1 /\ Numbered(queue, Len(sent))
      BY <2>3, <2>4 DEF queue
    <3>3. Len(slave') + Len(spi'.tx) = spiCall'.i
      <4>1. Len(slave') = Len(slave) + 1 /\ Len(spi'.tx) = Len(spi.tx) - 1
        BY <2>4, <2>5, <3>2
      <4>2. (Len(slave) + 1) + (Len(spi.tx) - 1) = spiCall.i
        BY <1>3, <3>1, MoveOne
      <4> QED
        BY <1>1, <4>1, <4>2
    <3>4. Len(slave') + spi'.left = Total' /\ spiCall'.i <= Total'
      <4>1. Len(slave') = Len(slave) + 1 /\ spi'.left = spi.left - 1
        BY <2>4, <2>5
      <4>2. (Len(slave) + 1) + (spi.left - 1) = Total
        BY <1>3, <3>1, MoveOne
      <4> QED
        BY <1>1, <3>1, <4>1, <4>2
    <3>5. Len(spi'.tx) <= TxLimit
      BY <1>3, <2>5, <3>1, <3>2, SpiConstants
    <3>6. spiCall'.pc = "move" => spiCall'.i < Total' /\ Len(spi'.tx) < TxLimit
      BY <1>1, <1>3, <2>5, <3>1, <3>2, SpiConstants
    <3>7. Numbered(spi'.tx, Len(slave')) /\ spi'.rx = <<>>
          /\ spiCall'.pc \in {"poll", "move"}
      BY <1>1, <2>5, <3>1, <3>2
    <3> QED
      BY <3>3, <3>4, <3>5, <3>6, <3>7 DEF WriteOK
  <2> QED
    BY <1>1, <2>4, <2>5, <2>6, <2>7 DEF SpiInv, CommandSent
<1>6. CASE spi.mode = "read"
  <2> DEFINE word == WordsOnWire(spi.datalen) - spi.left
             rx == Append(spi.rx, word)
  <2>1. spi' = [spi EXCEPT !.left = @ - 1, !.rx = rx] /\ slave' = slave
    BY <1>6 DEF SpiWire
  <2>2. ReadOK
    BY <1>6 DEF SpiInv
  <2>3. WordsOnWire(spi.datalen) = Total
    BY <1>2, <2>2, WordsAgree DEF SpiInv, SpiTypes, ReadOK, Total
  <2>4. word = Len(slave) + Len(spi.rx)
    BY <1>3, <1>4, <2>2, <2>3 DEF ReadOK
  <2>5. rx \in Seq(Nat) /\ Len(rx) = Len(spi.rx) + 1 /\ Numbered(rx, Len(slave))
    BY <1>3, <2>2, <2>4, NumberedAppend DEF ReadOK
  <2> HIDE DEF rx
  <2>6. /\ spi'.rx = rx /\ spi'.mode = "read" /\ spi'.tx = spi.tx
        /\ spi'.left = spi.left - 1 /\ spi'.datalen = spi.datalen
        /\ spi'.cmd = spi.cmd /\ spi'.cmdlen = spi.cmdlen
    BY <1>2, <1>6, <2>1 DEF SpiTypes
  <2>7. SpiTypes'
    <3>1. spi.left - 1 \in Nat
      BY <1>1, <1>3
    <3> QED
      BY <1>1, <1>2, <2>1, <2>5, <3>1 DEF SpiTypes
  <2>8. ReadOK'
    <3>1. /\ Len(slave) = spiCall.i /\ Len(slave) + Len(spi.rx) + spi.left = Total
          /\ spiCall.pc \in {"poll", "move"} /\ spi.tx = <<>>
      BY <2>2 DEF ReadOK
    <3>2. rx # <<>>
      BY <1>3, <2>5
    <3>3. Len(slave') + Len(spi'.rx) + spi'.left = Total'
      <4>1. /\ Len(slave') = Len(slave) /\ Len(spi'.rx) = Len(spi.rx) + 1
            /\ spi'.left = spi.left - 1
        BY <2>1, <2>5, <2>6
      <4> DEFINE a == Len(slave)
                 b == Len(spi.rx)
                 c == spi.left
      <4>2. a \in Nat /\ b \in Nat /\ c \in Nat /\ a + b + c = Total
        BY <1>3, <3>1
      <4> HIDE DEF a, b, c
      <4>3. a + (b + 1) + (c - 1) = Total
        BY <4>2, MoveOne
      <4> QED
        BY <1>1, <4>1, <4>3 DEF a, b, c
    <3>4. Numbered(spi'.rx, Len(slave')) /\ Len(slave') = spiCall'.i
      BY <1>1, <2>1, <2>5, <2>6, <3>1
    <3>5. spiCall'.pc \in {"poll", "move"} /\ spi'.tx = <<>> /\ spi'.rx # <<>>
      BY <1>1, <2>6, <3>1, <3>2
    <3> QED
      BY <3>3, <3>4, <3>5 DEF ReadOK
  <2> QED
    BY <1>1, <1>2, <2>1, <2>6, <2>7, <2>8 DEF SpiInv, CommandSent
<1> QED
  BY <1>5, <1>6 DEF SpiWire

LEMMA SpiStep == SpiInv /\ [SpiNext]_spiVars => SpiInv'
<1>1. SpiInv /\ UNCHANGED spiVars => SpiInv'
  BY DEF spiVars, SpiInv, SpiTypes, IdleOK, WriteOK, ReadOK, CommandSent, Numbered,
         Total
<1> QED
  BY <1>1, SetupInv, DatalenInv, DummyInv, StartInv, PollStepInv, WriteFifoInv,
     ReadFifoInv, StatusInv, WireInv DEF SpiNext, SpiProgress

(***************************************************************************)
(* Every word of every transfer arrives, in order and once, after the      *)
(* command that was asked for, and none is put into a full FIFO.           *)
(***************************************************************************)
THEOREM WordsInOrder == Spec => []SpiWordsInOrder
<1>1. Init => SpiInv
  BY SpiInitInv DEF Init
<1>2. SpiInv /\ [Next]_vars => SpiInv'
  BY SpiStep, DriverSteps
<1>3. SpiInv => SpiWordsInOrder
  <2> SUFFICES ASSUME SpiInv PROVE SpiWordsInOrder
    OBVIOUS
  <2>1. slave \in Seq(Nat) /\ DOMAIN slave = 1 .. Len(slave)
        /\ spi.mode \in {"idle", "read", "write"}
    BY DEF SpiInv, SpiTypes
  <2>2. \A k \in DOMAIN slave : slave[k] = k - 1
    <3> TAKE k \in DOMAIN slave
    <3>1. slave[k] = 0 + k - 1 /\ k \in Nat
      BY <2>1 DEF SpiInv, Numbered
    <3> QED
      BY <3>1
  <2>3. Len(spi.tx) <= TxLimit
    BY <2>1, SpiConstants DEF SpiInv, IdleOK, WriteOK, ReadOK
  <2>4. spi.mode # "idle" => CommandSent
    BY <2>1 DEF SpiInv, WriteOK, ReadOK
  <2>5. spi.mode = "idle" => spi.tx = <<>> /\ spi.rx = <<>>
    BY DEF SpiInv, IdleOK
  <2> QED
    BY <2>2, <2>3, <2>4, <2>5 DEF SpiWordsInOrder, CommandSent
<1> QED
  BY <1>1, <1>2, <1>3, PTL DEF Spec
=============================================================================
