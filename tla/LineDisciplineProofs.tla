------------------------ MODULE LineDisciplineProofs ------------------------
(***************************************************************************)
(* Proofs about LineDiscipline, for every buffer size, alphabet and set of *)
(* readers: no access leaves the line buffer and no reader sleeps on data  *)
(* whatever is typed; one step alone breaks the documented order of the    *)
(* three indices; and as long as it holds the buffer implements            *)
(* ConsoleStream.                                                          *)
(***************************************************************************)
EXTENDS LineDiscipline, SequenceTheorems, TLAPS

\* The indices of the buffer
Cells == 0..(LINE_BUF_SIZE - 1)

\* Storing a byte stays inside the buffer.
LEMMA StoreType ==
  ASSUME TypeOK, NEW b \in Byte, Store(b)
  PROVE  /\ LINE_BUF' \in [Cells -> Byte \cup {Zero}]
         /\ LINE_E' \in 0..LINE_BUF_SIZE
         /\ LINE_E' >= LINE_E
         /\ LINE_E < LINE_BUF_SIZE => LINE_E' = LINE_E + 1
BY LineAssumption DEF TypeOK, Store, Cells

\* What read_line copies lies between LINE_R and LINE_W.
LEMMA ReadType ==
  ASSUME TypeOK, NEW len \in 1..LINE_BUF_SIZE, LINE_R < LINE_W
  PROVE  LET n == Smaller(len, LINE_W - LINE_R)
         IN /\ n \in 1..(LINE_W - LINE_R)
            /\ LINE_R + n \in 0..LINE_BUF_SIZE
            /\ LINE_R + n <= LINE_W
            /\ [i \in 1..n |-> LINE_BUF[LINE_R + i - 1]] \in Seq(Byte \cup {Zero})
<1> DEFINE n == Smaller(len, LINE_W - LINE_R)
<1>1. n \in 1..(LINE_W - LINE_R) /\ LINE_R + n \in 0..LINE_BUF_SIZE /\ LINE_R + n <= LINE_W
  BY LineAssumption DEF TypeOK, Smaller
<1> HIDE DEF n
<1>2. \A i \in 1..n : LINE_BUF[LINE_R + i - 1] \in Byte \cup {Zero}
  BY <1>1, LineAssumption DEF TypeOK
<1>3. n \in Nat
  BY <1>1, LineAssumption DEF TypeOK
<1>4. [i \in 1..n |-> LINE_BUF[LINE_R + i - 1]] \in Seq(Byte \cup {Zero})
  BY <1>2, <1>3
<1> QED
  BY Zenon, <1>1, <1>4 DEF n

-----------------------------------------------------------------------------

\* The inductive invariant for everything that is typed
Inv == TypeOK /\ NoLostWake

\* An empty line buffer with nobody blocked satisfies the invariant.
LEMMA InitInv == Init => Inv
<1> SUFFICES ASSUME Init PROVE Inv
  BY Zenon
<1>1. LINE_BUF \in [0..(LINE_BUF_SIZE - 1) -> Byte \cup {Zero}]
  BY Zenon DEF Init
<1>2. got \in Seq(Byte \cup {Zero})
  BY DEF Init
<1> QED
  BY <1>1, <1>2, LineAssumption DEF Init, Inv, TypeOK, NoLostWake, Flags, Cooked

\* A byte from either interrupt keeps the invariant.
LEMMA InputInv ==
  ASSUME Inv, NEW b \in Byte, NEW wake \in BOOLEAN, line_discipline_input(b, wake)
  PROVE  Inv'
<1> USE LineAssumption DEF Inv
<1>1. CASE InputSignal(b, wake)
  BY Zenon, <1>1 DEF InputSignal, lines, TypeOK, NoLostWake
<1>2. CASE InputEnter(b, wake)
  BY Zenon, <1>2 DEF InputEnter, TypeOK, NoLostWake
<1>3. CASE InputErase(b, wake)
  <2>1. KEYBOARD_WAKE_PENDING => KEYBOARD_WAKE_PENDING'
    BY <1>3, Zenon DEF InputErase
  <2>2. KEYBOARD_WAKE_PENDING' \in BOOLEAN
    BY <1>3, Zenon DEF InputErase, TypeOK
  <2> QED
    BY <1>3, <2>1, <2>2 DEF InputErase, TypeOK, NoLostWake
<1>4. CASE InputRawErase(b, wake)
  <2>1. KEYBOARD_WAKE_PENDING => KEYBOARD_WAKE_PENDING'
    BY <1>4, Zenon DEF InputRawErase
  <2>2. KEYBOARD_WAKE_PENDING' \in BOOLEAN
    BY <1>4, Zenon DEF InputRawErase, TypeOK
  <2> QED
    BY Zenon, <1>4, <2>1, <2>2, StoreType DEF InputRawErase, TypeOK, NoLostWake, Cells
<1>5. CASE InputOther(b, wake)
  <2> DEFINE raw == ~lflags.canonical /\ LINE_E < LINE_BUF_SIZE
  <2>1. /\ LINE_W' = IF raw THEN LINE_E + 1 ELSE LINE_W
        /\ KEYBOARD_WAKE_PENDING' = (KEYBOARD_WAKE_PENDING \/ wake \/ raw)
        /\ Store(b)
        /\ UNCHANGED <<LINE_R, lflags, blocked, got>>
    BY Zenon, <1>5 DEF InputOther
  <2>2. (KEYBOARD_WAKE_PENDING \/ raw) => KEYBOARD_WAKE_PENDING'
    BY <2>1, Zenon
  <2>3. KEYBOARD_WAKE_PENDING' \in BOOLEAN
    BY <2>1, Zenon DEF TypeOK
  <2>4. LINE_W' \in 0..LINE_BUF_SIZE
    BY <2>1 DEF TypeOK
  <2>5. TypeOK'
    BY Zenon, <2>1, <2>3, <2>4, StoreType DEF TypeOK, Cells
  <2>6. NoLostWake'
    <3>1. CASE raw
      BY Zenon, <2>2, <3>1 DEF NoLostWake
    <3>2. CASE ~raw
      <4>1. LINE_W' = LINE_W /\ LINE_R' = LINE_R /\ blocked' = blocked
        BY Zenon, <2>1, <3>2
      <4> QED
        BY Zenon, <4>1, <2>2 DEF NoLostWake
    <3> QED
      BY Zenon, <3>1, <3>2
  <2> QED
    BY Zenon, <2>5, <2>6
<1> QED
  BY Zenon, <1>1, <1>2, <1>3, <1>4, <1>5 DEF line_discipline_input

\* read_line keeps the invariant.
LEMMA ReadInv ==
  ASSUME Inv, NEW p \in Readers, NEW len \in 1..LINE_BUF_SIZE, read_line(p, len)
  PROVE  Inv'
<1> DEFINE n == Smaller(len, LINE_W - LINE_R)
           empty == LINE_R + n = LINE_W /\ LINE_E = LINE_W
<1> USE LineAssumption DEF Inv
<1>1. CASE LINE_R < LINE_W
  <2>1. /\ got' = [i \in 1..n |-> LINE_BUF[LINE_R + i - 1]]
        /\ LINE_R' = IF empty THEN 0 ELSE LINE_R + n
        /\ LINE_W' = IF empty THEN 0 ELSE LINE_W
        /\ LINE_E' = IF empty THEN 0 ELSE LINE_E
        /\ UNCHANGED <<blocked, LINE_BUF, lflags, KEYBOARD_WAKE_PENDING>>
    BY <1>1 DEF read_line, TypeOK
  <2>2. /\ LINE_R + n \in 0..LINE_BUF_SIZE /\ LINE_R + n <= LINE_W
        /\ got' \in Seq(Byte \cup {Zero})
    BY Zenon, <1>1, <2>1, ReadType
  <2> HIDE DEF n
  <2>3. TypeOK'
    BY <2>1, <2>2 DEF TypeOK
  <2>4. NoLostWake'
    BY Zenon, <1>1, <2>1, <2>2 DEF NoLostWake, TypeOK
  <2> QED
    BY Zenon, <2>3, <2>4
<1>2. CASE ~(LINE_R < LINE_W)
  BY Zenon, <1>2 DEF read_line, TypeOK, NoLostWake
<1> QED
  BY Zenon, <1>1, <1>2

\* The invariant is inductive.
LEMMA NextInv == Inv /\ [Next]_vars => Inv'
<1> SUFFICES ASSUME Inv, [Next]_vars PROVE Inv'
  BY Zenon
<1>1. CASE Input
  BY Zenon, <1>1, InputInv DEF Input
<1>2. CASE Read
  BY Zenon, <1>2, ReadInv DEF Read
<1>3. CASE \E flags \in Flags : sys_tcsetattr(flags)
  BY <1>3 DEF sys_tcsetattr, lines, Inv, TypeOK, NoLostWake
<1>4. CASE keyboard_wake
  BY Zenon, <1>4 DEF keyboard_wake, lines, Inv, TypeOK, NoLostWake
<1>5. CASE UNCHANGED vars
  BY Zenon, <1>5 DEF vars, Inv, TypeOK, NoLostWake
<1> QED
  BY Zenon, <1>1, <1>2, <1>3, <1>4, <1>5 DEF Next

\* Bounds and wake-ups hold together in every reachable state of the console.
THEOREM Invariance == Spec => []Inv
<1> QED
  BY InitInv, NextInv, PTL DEF Spec

\* No keystroke, read or change of terminal flags takes an index out of the line
\* buffer, for every LINE_BUF_SIZE.
THEOREM TypeCorrect == Spec => []TypeOK
<1>1. Inv => TypeOK
  BY Zenon DEF Inv
<1> QED
  BY <1>1, Invariance, PTL

\* No reader stays asleep on committed data without a wake-up on the way, whatever
\* is typed (erasing past the start of the line included).
THEOREM NoWakeIsLost == Spec => []NoLostWake
<1>1. Inv => NoLostWake
  BY Zenon DEF Inv
<1> QED
  BY <1>1, Invariance, PTL

-----------------------------------------------------------------------------

\* No step breaks the order of the indices unless it erases a committed byte.
LEMMA OrderNext ==
  ASSUME TypeOK, Ordered, [Next]_vars
  PROVE  Ordered' \/ TakesBack
<1> USE LineAssumption
<1>1. ASSUME NEW b \in Byte, NEW wake \in BOOLEAN, line_discipline_input(b, wake)
      PROVE  Ordered' \/ TakesBack
  <2>1. CASE InputSignal(b, wake)
    BY Zenon, <2>1 DEF InputSignal, lines, Ordered
  <2>2. CASE InputEnter(b, wake)
    BY <2>2 DEF InputEnter, Ordered, TypeOK
  <2>3. CASE InputErase(b, wake)
    <3>1. /\ LINE_E' = (IF LINE_E > LINE_R THEN LINE_E - 1 ELSE LINE_E) /\ lflags.canonical
          /\ UNCHANGED <<LINE_BUF, LINE_R, LINE_W, lflags, blocked, got>>
      BY Zenon, <2>3 DEF InputErase
    <3>2. CASE LINE_E > LINE_R /\ LINE_E = LINE_W
      BY <3>1, <3>2 DEF TakesBack, TypeOK
    <3>3. CASE ~(LINE_E > LINE_R /\ LINE_E = LINE_W)
      BY <3>1, <3>3 DEF Ordered, TypeOK
    <3> QED
      BY Zenon, <3>2, <3>3
  <2>4. CASE InputRawErase(b, wake)
    BY <2>4, StoreType DEF InputRawErase, Ordered, TypeOK
  <2>5. CASE InputOther(b, wake)
    BY <2>5, StoreType DEF InputOther, Ordered, TypeOK
  <2> QED
    BY Zenon, <1>1, <2>1, <2>2, <2>3, <2>4, <2>5 DEF line_discipline_input
<1>2. ASSUME NEW p \in Readers, NEW len \in 1..LINE_BUF_SIZE, read_line(p, len)
      PROVE  Ordered' \/ TakesBack
  <2>1. CASE LINE_R < LINE_W
    <3> DEFINE n == Smaller(len, LINE_W - LINE_R)
               empty == LINE_R + n = LINE_W /\ LINE_E = LINE_W
    <3>1. /\ LINE_R' = IF empty THEN 0 ELSE LINE_R + n
          /\ LINE_W' = IF empty THEN 0 ELSE LINE_W
          /\ LINE_E' = IF empty THEN 0 ELSE LINE_E
      BY <1>2, <2>1 DEF read_line, TypeOK
    <3>2. LINE_R + n \in 0..LINE_BUF_SIZE /\ LINE_R + n <= LINE_W
      BY Zenon, <2>1, ReadType
    <3> HIDE DEF n
    <3> QED
      BY <3>1, <3>2 DEF Ordered, TypeOK
  <2>2. CASE ~(LINE_R < LINE_W)
    BY Zenon, <1>2, <2>2 DEF read_line, Ordered
  <2> QED
    BY Zenon, <2>1, <2>2
<1>3. CASE \E flags \in Flags : sys_tcsetattr(flags)
  BY Zenon, <1>3 DEF sys_tcsetattr, lines, Ordered
<1>4. CASE keyboard_wake
  BY Zenon, <1>4 DEF keyboard_wake, lines, Ordered
<1>5. CASE UNCHANGED vars
  BY Zenon, <1>5 DEF vars, Ordered
<1> QED
  BY Zenon, <1>1, <1>2, <1>3, <1>4, <1>5 DEF Next, Input, Read

\* The order r <= w <= e that keyboard.rs documents is broken by no step but a
\* backspace that takes back a committed byte (PointerOrder).
THEOREM OrderKept == Spec => PointerOrder
<1>1. Init => Ordered
  BY DEF Init, Ordered
<1>2. TypeOK /\ [Next]_vars => [Ordered => Ordered' \/ TakesBack]_vars
  BY Zenon, OrderNext
<1> QED
  BY <1>1, <1>2, TypeCorrect, PTL DEF Spec, PointerOrder

-----------------------------------------------------------------------------
(* The buffer implements a stream *)

\* What a cell of the buffer can hold
Bytes == Byte \cup {Zero}

\* What LINE_BUF can hold, and LINE_BUF with one byte stored in it.
Buffers == [Cells -> Bytes]
Stored(new, buf, k, x) == new = [buf EXCEPT ![k] = x]

\* The part of buffer buf from i up to j, as Between takes it.
Segment(buf, i, j) == [k \in 1..(j - i) |-> buf[i + k - 1]]

\* Positions i to j of a buffer, as a sequence.
LEMMA SegmentSeq ==
  ASSUME NEW buf \in Buffers, NEW i \in 0..LINE_BUF_SIZE, NEW j \in 0..LINE_BUF_SIZE,
         i <= j
  PROVE  /\ Segment(buf, i, j) \in Seq(Bytes)
         /\ Len(Segment(buf, i, j)) = j - i
         /\ \A k \in 1..(j - i) : Segment(buf, i, j)[k] = buf[i + k - 1]
<1>1. j - i \in Nat /\ \A k \in 1..(j - i) : i + k - 1 \in Cells
  BY LineAssumption DEF Cells
<1>2. \A k \in 1..(j - i) : buf[i + k - 1] \in Bytes
  BY Zenon, <1>1 DEF Buffers
<1>3. Segment(buf, i, j) \in [1..(j - i) -> Bytes]
  BY Zenon, <1>2 DEF Segment
<1>4. \A k \in 1..(j - i) : Segment(buf, i, j)[k] = buf[i + k - 1]
  BY Zenon DEF Segment
<1> QED
  BY <1>1, <1>3, <1>4

\* Nothing lies between a position and itself.
LEMMA SegmentEmpty ==
  ASSUME NEW buf \in Buffers, NEW i \in 0..LINE_BUF_SIZE
  PROVE  Segment(buf, i, i) = <<>>
<1>1. Segment(buf, i, i) \in Seq(Bytes) /\ Len(Segment(buf, i, i)) = 0
  BY SegmentSeq, LineAssumption
<1> QED
  BY Zenon, <1>1, EmptySeq

\* Two neighbouring parts make one.
LEMMA SegmentConcat ==
  ASSUME NEW buf \in Buffers, NEW i \in 0..LINE_BUF_SIZE, NEW j \in 0..LINE_BUF_SIZE,
         NEW k \in 0..LINE_BUF_SIZE, i <= j, j <= k
  PROVE  Segment(buf, i, j) \o Segment(buf, j, k) = Segment(buf, i, k)
<1> DEFINE a == Segment(buf, i, j)
           b == Segment(buf, j, k)
           c == Segment(buf, i, k)
<1>0. i \in Int /\ j \in Int /\ k \in Int /\ i <= k
  BY LineAssumption
<1>1. /\ a \in Seq(Bytes) /\ Len(a) = j - i /\ \A n \in 1..(j - i) : a[n] = buf[i + n - 1]
      /\ b \in Seq(Bytes) /\ Len(b) = k - j /\ \A n \in 1..(k - j) : b[n] = buf[j + n - 1]
      /\ c \in Seq(Bytes) /\ Len(c) = k - i /\ \A n \in 1..(k - i) : c[n] = buf[i + n - 1]
  BY ZenonT(40), <1>0, SegmentSeq
<1> HIDE DEF a, b, c
<1>2. /\ a \o b \in Seq(Bytes) /\ Len(a \o b) = Len(a) + Len(b)
      /\ \A n \in 1..(Len(a) + Len(b)) : (a \o b)[n] = IF n <= Len(a) THEN a[n] ELSE b[n - Len(a)]
  BY Zenon, <1>1, ConcatProperties
<1>3. Len(a \o b) = Len(c)
  BY <1>0, <1>1, <1>2
<1>4. ASSUME NEW n \in 1..Len(a \o b)
      PROVE  (a \o b)[n] = c[n]
  <2>1. n \in 1..(k - i) /\ c[n] = buf[i + n - 1]
    BY Zenon, <1>0, <1>1, <1>3
  <2>0. n \in Int /\ Len(a) \in Int /\ n \in 1..(Len(a) + Len(b))
    BY <1>0, <1>1, <1>2, <2>1
  <2>2. CASE n <= Len(a)
    BY <1>0, <1>1, <1>2, <2>1, <2>2
  <2>3. CASE ~(n <= Len(a))
    <3>1. n - Len(a) \in 1..(k - j) /\ j + (n - Len(a)) - 1 = i + n - 1
      BY <1>0, <1>1, <2>1, <2>3
    <3>2. (a \o b)[n] = b[n - Len(a)]
      BY Zenon, <1>2, <2>0, <2>3
    <3> QED
      BY Zenon, <1>1, <2>1, <3>1, <3>2
  <2> QED
    BY Zenon, <2>2, <2>3
<1>5. a \o b = c
  BY Zenon, <1>1, <1>2, <1>3, <1>4, SeqEqual
<1> QED
  BY Zenon, <1>5 DEF a, b, c

\* A part of a part.
LEMMA SegmentSub ==
  ASSUME NEW buf \in Buffers, NEW i \in 0..LINE_BUF_SIZE, NEW j \in 0..LINE_BUF_SIZE,
         NEW m \in Nat, NEW n \in Nat, m <= n, i + n <= j
  PROVE  SubSeq(Segment(buf, i, j), m + 1, n) = Segment(buf, i + m, i + n)
<1> DEFINE a == Segment(buf, i, j)
           b == SubSeq(a, m + 1, n)
           c == Segment(buf, i + m, i + n)
<1>0. /\ i \in Int /\ j \in Int /\ i <= j /\ i + m \in 0..LINE_BUF_SIZE
      /\ i + n \in 0..LINE_BUF_SIZE /\ i + m <= i + n /\ m + 1 \in Int
  BY LineAssumption
<1>1. /\ a \in Seq(Bytes) /\ Len(a) = j - i /\ \A k \in 1..(j - i) : a[k] = buf[i + k - 1]
  BY Zenon, <1>0, SegmentSeq
<1>2. /\ c \in Seq(Bytes) /\ Len(c) = (i + n) - (i + m)
      /\ \A k \in 1..((i + n) - (i + m)) : c[k] = buf[(i + m) + k - 1]
  BY Zenon, <1>0, SegmentSeq
<1> HIDE DEF a, c
<1>3. \A k \in (m + 1)..n : k \in 1..(j - i) /\ a[k] \in Bytes
  BY <1>0, <1>1
<1>4. /\ b \in Seq(Bytes) /\ Len(b) = IF m + 1 <= n THEN n - (m + 1) + 1 ELSE 0
      /\ \A k \in 1..(n - (m + 1) + 1) : b[k] = a[(m + 1) + k - 1]
  BY <1>0, <1>3, SubSeqProperties
<1> HIDE DEF b
<1>5. Len(b) = n - m /\ Len(c) = n - m
  BY <1>0, <1>2, <1>4
<1>6. ASSUME NEW k \in 1..Len(b)
      PROVE  b[k] = c[k]
  <2>1. /\ k \in 1..(n - (m + 1) + 1) /\ k \in 1..((i + n) - (i + m))
        /\ (m + 1) + k - 1 \in 1..(j - i) /\ (m + 1) + k - 1 = m + k
        /\ i + (m + k) - 1 = (i + m) + k - 1
    BY <1>0, <1>5
  <2> QED
    BY <1>1, <1>2, <1>4, <2>1
<1>7. b = c
  BY Zenon, <1>2, <1>4, <1>5, <1>6, SeqEqual
<1> QED
  BY Zenon, <1>7 DEF a, b, c

\* What a read of the first n bytes returns, and what erasing the last byte leaves.
LEMMA SegmentPrefix ==
  ASSUME NEW buf \in Buffers, NEW i \in 0..LINE_BUF_SIZE, NEW j \in 0..LINE_BUF_SIZE,
         NEW n \in Nat, i + n <= j
  PROVE  SubSeq(Segment(buf, i, j), 1, n) = Segment(buf, i, i + n)
<1> DEFINE z == 0
<1>1. z \in Nat /\ z <= n /\ z + 1 = 1 /\ i + z = i
  BY LineAssumption
<1> HIDE DEF z
<1>2. SubSeq(Segment(buf, i, j), z + 1, n) = Segment(buf, i + z, i + n)
  BY ZenonT(40), <1>1, SegmentSub
<1> QED
  BY Zenon, <1>1, <1>2

\* What a read of n bytes leaves.
LEMMA SegmentSuffix ==
  ASSUME NEW buf \in Buffers, NEW i \in 0..LINE_BUF_SIZE, NEW j \in 0..LINE_BUF_SIZE,
         NEW n \in Nat, i + n <= j
  PROVE  SubSeq(Segment(buf, i, j), n + 1, j - i) = Segment(buf, i + n, j)
<1> DEFINE m == j - i
<1>1. m \in Nat /\ n <= m /\ i + m = j /\ i + m <= j
  BY LineAssumption
<1>2. SubSeq(Segment(buf, i, j), n + 1, m) = Segment(buf, i + n, i + m)
  <2> HIDE DEF m
  <2>1. \A e \in Nat : n <= e /\ i + e <= j
          => SubSeq(Segment(buf, i, j), n + 1, e) = Segment(buf, i + n, i + e)
    BY ZenonT(40), SegmentSub
  <2> QED
    BY Zenon, <1>1, <2>1
<1> QED
  BY Zenon, <1>1, <1>2

\* Storing at position j changes no part that ends there, and adds one byte to it.
LEMMA SegmentStore ==
  ASSUME NEW buf \in Buffers, NEW i \in 0..LINE_BUF_SIZE, NEW j \in 0..LINE_BUF_SIZE,
         NEW k \in 0..LINE_BUF_SIZE, i <= j, j <= k, k < LINE_BUF_SIZE, NEW x \in Bytes,
         NEW new, Stored(new, buf, k, x)
  PROVE  /\ Segment(new, i, j) = Segment(buf, i, j)
         /\ Segment(new, i, k + 1) = Append(Segment(buf, i, k), x)
<1>0. /\ i \in Int /\ j \in Int /\ k \in Int /\ LINE_BUF_SIZE \in Int /\ k + 1 \in 0..LINE_BUF_SIZE
      /\ i <= k /\ i <= k + 1 /\ k \in Cells
  BY LineAssumption DEF Cells
<1>1. /\ new \in Buffers /\ new[k] = x
      /\ \A n \in Cells : n # k => new[n] = buf[n]
  BY Zenon, <1>0 DEF Stored, Buffers
<1>2. Segment(new, i, j) = Segment(buf, i, j)
  <2>1. \A n \in 1..(j - i) : i + n - 1 \in Cells /\ i + n - 1 # k
    BY <1>0 DEF Cells
  <2>2. \A n \in 1..(j - i) : new[i + n - 1] = buf[i + n - 1]
    BY Zenon, <1>1, <2>1
  <2> QED
    BY Zenon, <2>2 DEF Segment
<1>3. Segment(new, i, k + 1) = Append(Segment(buf, i, k), x)
  <2> DEFINE a == Segment(buf, i, k)
             b == Segment(new, i, k + 1)
             c == Append(a, x)
  <2>1. a \in Seq(Bytes) /\ Len(a) = k - i /\ \A n \in 1..(k - i) : a[n] = buf[i + n - 1]
    BY ZenonT(40), <1>0, SegmentSeq
  <2>2. /\ b \in Seq(Bytes) /\ Len(b) = (k + 1) - i
        /\ \A n \in 1..((k + 1) - i) : b[n] = new[i + n - 1]
    BY ZenonT(40), <1>0, <1>1, SegmentSeq
  <2> HIDE DEF a, b
  <2>3. /\ c \in Seq(Bytes) /\ Len(c) = Len(a) + 1 /\ c[Len(a) + 1] = x
        /\ \A n \in 1..Len(a) : c[n] = a[n]
    BY <2>1, AppendProperties
  <2> HIDE DEF c
  <2>4. ASSUME NEW n \in 1..Len(b)
        PROVE  b[n] = c[n]
    <3>1. n \in 1..((k + 1) - i) /\ b[n] = new[i + n - 1]
      BY Zenon, <2>2
    <3>2. CASE n = Len(a) + 1
      BY <1>0, <1>1, <2>1, <2>3, <3>1, <3>2
    <3>3. CASE n # Len(a) + 1
      <4>1. n \in 1..(k - i) /\ i + n - 1 \in Cells /\ i + n - 1 # k
        BY SMTT(90), <1>0, <2>1, <3>1, <3>3 DEF Cells
      <4> QED
        BY Zenon, <1>1, <2>1, <2>3, <3>1, <4>1
    <3> QED
      BY Zenon, <3>2, <3>3
  <2>5. Len(b) = Len(c)
    <3>1. Len(a) = k - i /\ Len(b) = (k + 1) - i /\ Len(c) = Len(a) + 1 /\ k \in Int /\ i \in Int
      BY <1>0, <2>1, <2>2, <2>3, Zenon
    <3> QED
      BY <3>1
  <2>6. b = c
    BY Zenon, <2>2, <2>3, <2>4, <2>5, SeqEqual
  <2> QED
    BY Zenon, <2>6 DEF a, b, c
<1> QED
  BY Zenon, <1>2, <1>3

\* The abstract state, before and after a step.
Committed == Segment(LINE_BUF, LINE_R, LINE_W)
Edited == Segment(LINE_BUF, LINE_W, LINE_E)

\* The refinement mapping in terms of segments.
LEMMA Mapping ==
  /\ Between(LINE_R, LINE_W) = Committed /\ Between(LINE_W, LINE_E) = Edited
  /\ Between(LINE_R, LINE_W)' = Committed' /\ Between(LINE_W, LINE_E)' = Edited'
BY Zenon DEF Between, Committed, Edited, Segment

\* Types and order in the words of the segment lemmas.
LEMMA OrderedTypes ==
  ASSUME TypeOK, Ordered
  PROVE  /\ LINE_BUF \in Buffers /\ LINE_BUF_SIZE \in Nat
         /\ LINE_R \in 0..LINE_BUF_SIZE /\ LINE_W \in 0..LINE_BUF_SIZE
         /\ LINE_E \in 0..LINE_BUF_SIZE /\ LINE_R <= LINE_W /\ LINE_W <= LINE_E
         /\ LINE_R <= LINE_E
BY LineAssumption DEF TypeOK, Ordered, Cells, Bytes, Buffers

\* A step that leaves buffer, indices and last answer alone is a stutter.
LEMMA StutterStream ==
  ASSUME UNCHANGED <<lines, got>>
  PROVE  UNCHANGED <<Committed, Edited, got>>
BY Zenon DEF lines, Committed, Edited, Segment

\* A byte stored at the end of the line.
LEMMA StoreStream ==
  ASSUME TypeOK, Ordered, NEW b \in Byte, Store(b), UNCHANGED <<LINE_R, got>>,
         \/ LINE_W' = LINE_W
         \/ LINE_W' = LINE_E + 1 /\ LINE_E < LINE_BUF_SIZE
  PROVE  \/ Edited' = Append(Edited, b) /\ UNCHANGED <<Committed, got>>
         \/ /\ Committed' = (Committed \o Edited) \o <<b>>
            /\ Edited' = <<>> /\ UNCHANGED got
         \/ UNCHANGED <<Committed, Edited, got>>
<1>0. /\ LINE_BUF \in Buffers /\ LINE_BUF_SIZE \in Nat
      /\ LINE_R \in 0..LINE_BUF_SIZE /\ LINE_W \in 0..LINE_BUF_SIZE
      /\ LINE_E \in 0..LINE_BUF_SIZE /\ LINE_R <= LINE_W /\ LINE_W <= LINE_E
      /\ LINE_R <= LINE_E /\ b \in Bytes
  BY Zenon, OrderedTypes DEF Bytes
<1>1. CASE ~(LINE_E < LINE_BUF_SIZE)
  <2>1. UNCHANGED <<LINE_BUF, LINE_R, LINE_W, LINE_E>>
    BY Zenon, <1>1 DEF Store
  <2> QED
    BY Zenon, <2>1 DEF Committed, Edited, Segment
<1>2. CASE LINE_E < LINE_BUF_SIZE
  <2> DEFINE new == [LINE_BUF EXCEPT ![LINE_E] = b]
  <2>0. Stored(new, LINE_BUF, LINE_E, b)
    BY Zenon DEF Stored
  <2>1. LINE_BUF' = new /\ LINE_E' = LINE_E + 1
    BY Zenon, <1>2 DEF Store
  <2>5. new \in Buffers /\ LINE_E + 1 \in 0..LINE_BUF_SIZE
    BY <1>0, <1>2 DEF Cells, Buffers
  <2> HIDE DEF new
  <2>2. Segment(new, LINE_R, LINE_W) = Segment(LINE_BUF, LINE_R, LINE_W)
    BY <1>0, <1>2, <2>0, SegmentStore
  <2>3. Segment(new, LINE_W, LINE_E + 1) = Append(Segment(LINE_BUF, LINE_W, LINE_E), b)
    BY <1>0, <1>2, <2>0, SegmentStore
  <2>4. Segment(new, LINE_R, LINE_E + 1) = Append(Segment(LINE_BUF, LINE_R, LINE_E), b)
    BY <1>0, <1>2, <2>0, SegmentStore
  <2>6. CASE LINE_W' = LINE_W
    BY Zenon, <2>1, <2>2, <2>3, <2>6 DEF Committed, Edited
  <2>7. CASE LINE_W' = LINE_E + 1
    <3>1. Committed' = Append(Segment(LINE_BUF, LINE_R, LINE_E), b)
      BY Zenon, <2>1, <2>4, <2>7 DEF Committed
    <3>2. Edited' = <<>>
      BY Zenon, <2>1, <2>5, <2>7, SegmentEmpty DEF Edited
    <3>3. Committed \o Edited = Segment(LINE_BUF, LINE_R, LINE_E)
      BY Zenon, <1>0, SegmentConcat DEF Committed, Edited
    <3>4. Segment(LINE_BUF, LINE_R, LINE_E) \in Seq(Bytes)
      BY Zenon, <1>0, SegmentSeq
    <3>5. Append(Segment(LINE_BUF, LINE_R, LINE_E), b) = Segment(LINE_BUF, LINE_R, LINE_E) \o <<b>>
      BY Zenon, <1>0, <3>4, AppendIsConcat
    <3> QED
      BY Zenon, <3>1, <3>2, <3>3, <3>5
  <2> QED
    BY Zenon, <2>6, <2>7
<1> QED
  BY Zenon, <1>1, <1>2

\* A byte from either interrupt is a step of the stream, or none.
LEMMA InputStream ==
  ASSUME TypeOK, Ordered, Ordered', NEW b \in Byte, NEW wake \in BOOLEAN,
         line_discipline_input(b, wake)
  PROVE  \/ Edited' = Append(Edited, b) /\ UNCHANGED <<Committed, got>>
         \/ /\ Committed' = (Committed \o Edited) \o <<b>>
            /\ Edited' = <<>> /\ UNCHANGED got
         \/ Committed' = Committed \o Edited /\ Edited' = <<>> /\ UNCHANGED got
         \/ /\ Edited # <<>> /\ Edited' = SubSeq(Edited, 1, Len(Edited) - 1)
            /\ UNCHANGED <<Committed, got>>
         \/ UNCHANGED <<Committed, Edited, got>>
<1>0. /\ LINE_BUF \in Buffers /\ LINE_BUF_SIZE \in Nat
      /\ LINE_R \in 0..LINE_BUF_SIZE /\ LINE_W \in 0..LINE_BUF_SIZE
      /\ LINE_E \in 0..LINE_BUF_SIZE /\ LINE_R <= LINE_W /\ LINE_W <= LINE_E
      /\ LINE_R <= LINE_E
  BY Zenon, OrderedTypes
<1>1. CASE InputSignal(b, wake)
  BY Zenon, <1>1, StutterStream DEF InputSignal
<1>2. CASE InputEnter(b, wake)
  <2>1. /\ LINE_W' = LINE_E /\ UNCHANGED <<LINE_BUF, LINE_R, LINE_E, got>>
    BY Zenon, <1>2 DEF InputEnter
  <2>2. Committed \o Edited = Segment(LINE_BUF, LINE_R, LINE_E)
    BY Zenon, <1>0, SegmentConcat DEF Committed, Edited
  <2>3. Committed' = Segment(LINE_BUF, LINE_R, LINE_E) /\ Edited' = Segment(LINE_BUF, LINE_E, LINE_E)
    BY Zenon, <2>1 DEF Committed, Edited
  <2>4. Segment(LINE_BUF, LINE_E, LINE_E) = <<>>
    BY Zenon, <1>0, SegmentEmpty
  <2> QED
    BY Zenon, <2>1, <2>2, <2>3, <2>4
<1>3. CASE InputErase(b, wake)
  <2>1. UNCHANGED <<LINE_BUF, LINE_R, LINE_W, got>>
    BY Zenon, <1>3 DEF InputErase
  <2>2. CASE LINE_E > LINE_W
    <3>1. LINE_E' = LINE_E - 1
      BY <1>0, <1>3, <2>2 DEF InputErase
    <3>2. Edited \in Seq(Bytes) /\ Len(Edited) = LINE_E - LINE_W
      BY Zenon, <1>0, SegmentSeq DEF Edited
    <3> DEFINE n == Len(Edited) - 1
    <3>3. /\ n \in Nat /\ 0 <= n /\ LINE_W + n <= LINE_E /\ LINE_W + n = LINE_E - 1
      BY <1>0, <2>2, <3>2
    <3>4. SubSeq(Edited, 1, n) = Segment(LINE_BUF, LINE_W, LINE_W + n)
      <4> HIDE DEF n
      <4> QED
        BY Zenon, <1>0, <3>3, SegmentPrefix DEF Edited
    <3>5. SubSeq(Edited, 1, n) = Segment(LINE_BUF, LINE_W, LINE_E - 1)
      BY Zenon, <3>3, <3>4
    <3>6. Edited' = Segment(LINE_BUF, LINE_W, LINE_E - 1)
      BY Zenon, <2>1, <3>1 DEF Edited
    <3>7. Edited # <<>>
      BY <3>2, <3>3
    <3>8. UNCHANGED <<Committed, got>>
      BY Zenon, <2>1 DEF Committed
    <3> QED
      BY Zenon, <3>5, <3>6, <3>7, <3>8
  <2>3. CASE ~(LINE_E > LINE_W)
    <3>0. LINE_E' = (IF LINE_E > LINE_R THEN LINE_E - 1 ELSE LINE_E) /\ LINE_W <= LINE_E'
      BY Zenon, <1>3, <2>1 DEF InputErase, Ordered
    <3>1. LINE_E' = LINE_E
      BY <1>0, <2>3, <3>0
    <3> QED
      BY Zenon, <2>1, <3>1, StutterStream DEF lines
  <2> QED
    BY Zenon, <2>2, <2>3
<1>4. CASE InputRawErase(b, wake)
  <2>1. Store(b) /\ LINE_W' = LINE_W /\ UNCHANGED <<LINE_R, got>>
    BY Zenon, <1>4 DEF InputRawErase
  <2> QED
    BY Zenon, <2>1, StoreStream
<1>5. CASE InputOther(b, wake)
  <2>1. /\ Store(b) /\ UNCHANGED <<LINE_R, got>>
        /\ \/ LINE_W' = LINE_W
           \/ LINE_W' = LINE_E + 1 /\ LINE_E < LINE_BUF_SIZE
    BY Zenon, <1>5 DEF InputOther
  <2> QED
    BY Zenon, <2>1, StoreStream
<1> QED
  BY Zenon, <1>1, <1>2, <1>3, <1>4, <1>5 DEF line_discipline_input

\* read_line takes bytes off the front of the stream.
LEMMA ReadStream ==
  ASSUME TypeOK, Ordered, NEW p \in Readers, NEW len \in 1..LINE_BUF_SIZE, read_line(p, len)
  PROVE  \/ \E k \in 1..Len(Committed) :
              /\ got' = SubSeq(Committed, 1, k)
              /\ Committed' = SubSeq(Committed, k + 1, Len(Committed))
              /\ UNCHANGED Edited
         \/ UNCHANGED <<Committed, Edited, got>>
<1>0. /\ LINE_BUF \in Buffers /\ LINE_BUF_SIZE \in Nat
      /\ LINE_R \in 0..LINE_BUF_SIZE /\ LINE_W \in 0..LINE_BUF_SIZE
      /\ LINE_E \in 0..LINE_BUF_SIZE /\ LINE_R <= LINE_W /\ LINE_W <= LINE_E
  BY Zenon, OrderedTypes
<1>1. CASE ~(LINE_R < LINE_W)
  <2>1. UNCHANGED <<LINE_BUF, LINE_R, LINE_W, LINE_E, got>>
    BY Zenon, <1>1 DEF read_line
  <2> QED
    BY Zenon, <2>1, StutterStream DEF lines
<1>2. CASE LINE_R < LINE_W
  <2> DEFINE n == Smaller(len, LINE_W - LINE_R)
             empty == LINE_R + n = LINE_W /\ LINE_E = LINE_W
  <2>1. /\ got' = [i \in 1..n |-> LINE_BUF[LINE_R + i - 1]]
        /\ LINE_R' = IF empty THEN 0 ELSE LINE_R + n
        /\ LINE_W' = IF empty THEN 0 ELSE LINE_W
        /\ LINE_E' = IF empty THEN 0 ELSE LINE_E
        /\ LINE_BUF' = LINE_BUF
    BY <1>0, <1>2 DEF read_line
  <2>2. n \in 1..(LINE_W - LINE_R)
    BY Zenon, <1>2, ReadType
  <2> HIDE DEF n
  <2> DEFINE m == LINE_W - LINE_R
  <2>3. /\ n \in Nat /\ m \in Nat /\ n <= m /\ LINE_R + m = LINE_W /\ LINE_R + m <= LINE_W
        /\ LINE_R + n <= LINE_W
        /\ (LINE_R + n) - LINE_R = n /\ LINE_R + n \in 0..LINE_BUF_SIZE /\ 0 \in 0..LINE_BUF_SIZE
    BY <1>0, <2>2
  <2>4. Committed \in Seq(Bytes) /\ Len(Committed) = m
    BY Zenon, <1>0, SegmentSeq DEF Committed
  <2>5. SubSeq(Committed, n + 1, m) = Segment(LINE_BUF, LINE_R + n, LINE_W)
    BY ZenonT(90), <1>0, <2>3, SegmentSuffix DEF Committed
  <2>6. SubSeq(Committed, 1, n) = Segment(LINE_BUF, LINE_R, LINE_R + n)
    BY <1>0, <2>3, SegmentPrefix DEF Committed
  <2>7. got' = Segment(LINE_BUF, LINE_R, LINE_R + n)
    BY Zenon, <2>1, <2>3 DEF Segment
  <2>8. CASE empty
    <3>1. LINE_R' = 0 /\ LINE_W' = 0 /\ LINE_E' = 0
      BY Zenon, <2>1, <2>8
    <3>2. Committed' = <<>> /\ Edited' = <<>>
      BY Zenon, <1>0, <2>1, <2>3, <3>1, SegmentEmpty DEF Committed, Edited
    <3>3. SubSeq(Committed, n + 1, m) = <<>> /\ Edited = <<>>
      BY Zenon, <1>0, <2>5, <2>8, SegmentEmpty DEF Edited
    <3> QED
      BY Zenon, <2>2, <2>4, <2>6, <2>7, <3>2, <3>3
  <2>9. CASE ~empty
    <3>1. LINE_R' = LINE_R + n /\ LINE_W' = LINE_W /\ LINE_E' = LINE_E
      BY Zenon, <2>1, <2>9
    <3>2. Committed' = Segment(LINE_BUF, LINE_R + n, LINE_W) /\ Edited' = Edited
      BY Zenon, <2>1, <3>1 DEF Committed, Edited
    <3> QED
      BY Zenon, <2>2, <2>4, <2>5, <2>6, <2>7, <3>2
  <2> QED
    BY Zenon, <2>8, <2>9
<1> QED
  BY Zenon, <1>1, <1>2

\* Every step of the console is a step of the stream or a stutter.
LEMMA StreamNext ==
  ASSUME TypeOK, Ordered, Ordered', [Next]_vars
  PROVE  [Stream!Next]_(Stream!streamVars)
<1> USE Mapping
<1>1. ASSUME UNCHANGED <<Committed, Edited, got>>
      PROVE  [Stream!Next]_(Stream!streamVars)
  BY Zenon, <1>1 DEF Stream!streamVars
<1>2. ASSUME NEW b \in Byte, NEW wake \in BOOLEAN, line_discipline_input(b, wake)
      PROVE  [Stream!Next]_(Stream!streamVars)
  <2>1. CASE Edited' = Append(Edited, b) /\ UNCHANGED <<Committed, got>>
    BY Zenon, <2>1 DEF Stream!Next, Stream!Type
  <2>2. CASE /\ Committed' = (Committed \o Edited) \o <<b>>
             /\ Edited' = <<>> /\ UNCHANGED got
    BY Zenon, <2>2 DEF Stream!Next, Stream!TypeRaw
  <2>3. CASE Committed' = Committed \o Edited /\ Edited' = <<>> /\ UNCHANGED got
    BY Zenon, <2>3 DEF Stream!Next, Stream!Commit
  <2>4. CASE /\ Edited # <<>> /\ Edited' = SubSeq(Edited, 1, Len(Edited) - 1)
             /\ UNCHANGED <<Committed, got>>
    BY Zenon, <2>4 DEF Stream!Next, Stream!Erase
  <2> QED
    BY Zenon, <1>1, <1>2, <2>1, <2>2, <2>3, <2>4, InputStream
<1>3. ASSUME NEW p \in Readers, NEW len \in 1..LINE_BUF_SIZE, read_line(p, len)
      PROVE  [Stream!Next]_(Stream!streamVars)
  <2>1. ASSUME NEW k \in 1..Len(Committed), got' = SubSeq(Committed, 1, k),
               Committed' = SubSeq(Committed, k + 1, Len(Committed)), UNCHANGED Edited
        PROVE  [Stream!Next]_(Stream!streamVars)
    BY Zenon, <2>1 DEF Stream!Next, Stream!Read
  <2> QED
    BY Zenon, <1>1, <1>3, <2>1, ReadStream
<1>4. CASE \E flags \in Flags : sys_tcsetattr(flags)
  BY Zenon, <1>1, <1>4, StutterStream DEF sys_tcsetattr
<1>5. CASE keyboard_wake
  BY Zenon, <1>1, <1>5, StutterStream DEF keyboard_wake
<1>6. CASE UNCHANGED vars
  BY Zenon, <1>1, <1>6, StutterStream DEF vars, lines
<1> QED
  BY Zenon, <1>2, <1>3, <1>4, <1>5, <1>6 DEF Next, Input, Read

\* keyboard.rs's buffer of fixed size with its three indices implements a stream of
\* committed bytes, for every buffer size, alphabet and set of readers: each byte is
\* returned by one read, in the order typed, and never before its line is committed,
\* as long as the indices are in order (OrderKept says which step ends that).
THEOREM BufferIsStream == Spec => StreamSpec
<1>1. Init => Stream!Init
  <2> SUFFICES ASSUME Init PROVE Stream!Init
    BY Zenon
  <2>1. /\ LINE_BUF \in Buffers /\ LINE_R = 0 /\ LINE_W = 0 /\ LINE_E = 0 /\ got = <<>>
        /\ 0 \in 0..LINE_BUF_SIZE
    BY LineAssumption DEF Init, Cells, Bytes, Buffers
  <2>2. Committed = <<>> /\ Edited = <<>>
    BY Zenon, <2>1, SegmentEmpty DEF Committed, Edited
  <2> QED
    BY Zenon, <2>1, <2>2, Mapping DEF Stream!Init
<1>2. TypeOK /\ [Next]_vars => [Ordered /\ Ordered' => [Stream!Next]_(Stream!streamVars)]_vars
  BY Zenon, StreamNext
<1> QED
  BY <1>1, <1>2, TypeCorrect, PTL DEF Spec, StreamSpec
=============================================================================
