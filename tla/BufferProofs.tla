---------------------------- MODULE BufferProofs ----------------------------
(***************************************************************************)
(* Proofs about lib/buffer.c for every size and every set of bytes: its    *)
(* stated invariant, that an empty buffer has all its room, and that it is *)
(* a queue.                                                                *)
(***************************************************************************)
EXTENDS Buffer, TLAPS

BufferInv == BufferTypeOK /\ EmptyHasAllItsRoom

(* The unread bytes are a sequence of as many bytes.                       *)
LEMMA WindowLemma ==
    ASSUME data \in [Cells -> Bytes],
           NEW r \in Nat, NEW w \in Nat, r <= w, w <= N
    PROVE  /\ Window(r, w) \in Seq(Bytes)
           /\ Len(Window(r, w)) = w - r
           /\ Window(r, w) \in [1 .. w - r -> Bytes]
  <1>1. \A i \in 1 .. w - r : r + i - 1 \in Cells
    BY NAssumption DEF Cells
  <1>2. Window(r, w) \in [1 .. w - r -> Bytes]
    BY <1>1 DEF Window
  <1>3. w - r \in Nat
    OBVIOUS
  <1> QED
    BY <1>2, <1>3

LEMMA StringsLemma ==
    ASSUME NEW s \in Strings
    PROVE  s \in Seq(Bytes) /\ Len(s) \in 0 .. N /\ s \in [1 .. Len(s) -> Bytes]
  <1>1. PICK n \in 0 .. N : s \in [1 .. n -> Bytes]
    BY DEF Strings
  <1> QED
    BY <1>1, NAssumption

(* lib/buffer.h:23 holds initially.                                        *)
LEMMA InitInv == BufferInit => BufferInv
  BY NAssumption
  DEF BufferInit, BufferInv, BufferTypeOK, EmptyHasAllItsRoom, CanRead, ReadBytes, WriteBytes, Cells

(* Filling the room that buffer_write_ptr tells of.                        *)
LEMMA WriteAdvInv ==
    ASSUME BufferInv, NEW s \in Seq(Bytes), WriteAdv(s)
    PROVE  BufferInv'
  <1> USE DEF BufferInv, BufferTypeOK
  <1>1. data' \in [Cells -> Bytes]
    <2>1. ASSUME NEW i \in Cells, i \in write .. write + Len(s) - 1
          PROVE  s[i - write + 1] \in Bytes
      BY <2>1, NAssumption DEF Cells
    <2> QED
      BY <2>1 DEF WriteAdv, Filled
  <1>2. Len(s) \in Nat
    OBVIOUS
  <1>3. read' \in 0 .. N /\ write' \in read' .. N
    BY <1>2, NAssumption DEF WriteAdv, WriteBytes
  <1>4. EmptyHasAllItsRoom'
    BY <1>2, NAssumption DEF WriteAdv, EmptyHasAllItsRoom, CanRead, ReadBytes, WriteBytes
  <1>5. taken' \in Seq(Bytes)
    BY DEF WriteAdv
  <1> QED
    BY <1>1, <1>3, <1>4, <1>5

(* Reading moves the pointers back to the front when nothing is left.      *)
LEMMA ReadAdvInv ==
    ASSUME BufferInv, NEW k \in Nat, ReadAdv(k)
    PROVE  BufferInv'
  <1> USE DEF BufferInv, BufferTypeOK, ReadBytes
  <1>1. taken' \in Seq(Bytes)
    <2>1. read \in Nat /\ read + k \in Nat /\ read <= read + k /\ read + k <= N
      BY NAssumption DEF ReadAdv
    <2>2. Window(read, read + k) \in Seq(Bytes)
      BY <2>1, WindowLemma
    <2> QED
      BY <2>2 DEF ReadAdv
  <1>2. /\ data' = data
        /\ read' \in 0 .. N /\ write' \in read' .. N
    BY NAssumption DEF ReadAdv, Advanced
  <1>3. EmptyHasAllItsRoom'
    BY NAssumption DEF ReadAdv, Advanced, EmptyHasAllItsRoom, CanRead, WriteBytes
  <1> QED
    BY <1>1, <1>2, <1>3

LEMMA CompactInv ==
    ASSUME BufferInv, Compact
    PROVE  BufferInv'
  <1> USE DEF BufferInv, BufferTypeOK, ReadBytes
  <1>1. data' \in [Cells -> Bytes]
    BY NAssumption DEF Compact, Moved, Cells
  <1>2. /\ read' \in 0 .. N /\ write' \in read' .. N
        /\ EmptyHasAllItsRoom'
    BY NAssumption DEF Compact, EmptyHasAllItsRoom, CanRead, WriteBytes
  <1>3. taken' \in Seq(Bytes)
    BY DEF Compact
  <1> QED
    BY <1>1, <1>2, <1>3

LEMMA NextInv == BufferInv /\ [BufferNext]_bufferVars => BufferInv'
  <1> SUFFICES ASSUME BufferInv, [BufferNext]_bufferVars
               PROVE  BufferInv'
    OBVIOUS
  <1>1. ASSUME NEW s \in Strings, WriteAdv(s)
        PROVE  BufferInv'
    BY <1>1, StringsLemma, WriteAdvInv
  <1>2. ASSUME NEW c \in Bytes, WriteByte(c)
        PROVE  BufferInv'
    <2>1. CASE CanWrite /\ WriteAdv(<<c>>)
      <3>1. <<c>> \in Seq(Bytes)
        OBVIOUS
      <3> QED
        BY <2>1, <3>1, WriteAdvInv
    <2>2. CASE ~CanWrite /\ taken' = <<>> /\ UNCHANGED <<data, read, write>>
      BY <2>2 DEF BufferInv, BufferTypeOK, EmptyHasAllItsRoom, CanRead, ReadBytes, WriteBytes
    <2> QED
      BY <1>2, <2>1, <2>2 DEF WriteByte
  <1>3. ASSUME NEW k \in 0 .. N, ReadAdv(k)
        PROVE  BufferInv'
    BY <1>3, ReadAdvInv
  <1>4. CASE ReadByte
    <2>1. CASE CanRead /\ ReadAdv(1)
      BY <2>1, ReadAdvInv
    <2>2. CASE ~CanRead /\ taken' = <<>> /\ UNCHANGED <<data, read, write>>
      BY <2>2 DEF BufferInv, BufferTypeOK, EmptyHasAllItsRoom, CanRead, ReadBytes, WriteBytes
    <2> QED
      BY <1>4, <2>1, <2>2 DEF ReadByte
  <1>5. CASE Compact
    BY <1>5, CompactInv
  <1>6. CASE Reset
    BY <1>6, NAssumption
    DEF Reset, BufferInv, BufferTypeOK, EmptyHasAllItsRoom, CanRead, ReadBytes, WriteBytes
  <1>7. CASE UNCHANGED bufferVars
    BY <1>7
    DEF bufferVars, BufferInv, BufferTypeOK, EmptyHasAllItsRoom, CanRead, ReadBytes, WriteBytes
  <1> QED
    BY <1>1, <1>2, <1>3, <1>4, <1>5, <1>6, <1>7 DEF BufferNext

(* R <= W <= limit (lib/buffer.h:23): no sequence of operations trips an   *)
(* assert of buffer.c or reaches a byte outside the array.                 *)
THEOREM PointersStayInside == BufferSpec => []BufferTypeOK
  <1>1. BufferInv => BufferTypeOK
    BY DEF BufferInv
  <1> QED
    BY InitInv, NextInv, <1>1, PTL DEF BufferSpec

(* read_command never offers recv an empty range, whose 0 it would take    *)
(* for the end of the connection.                                          *)
THEOREM EmptyBufferHasAllItsRoom == BufferSpec => []EmptyHasAllItsRoom
  <1>1. BufferInv => EmptyHasAllItsRoom
    BY DEF BufferInv
  <1> QED
    BY InitInv, NextInv, <1>1, PTL DEF BufferSpec

----------------------------------------------------------------------------
(* The buffer is a queue.                                                  *)

LEMMA InitFifo == BufferInit => Queue!FifoInit
  <1> SUFFICES ASSUME BufferInit
               PROVE  Queue!FifoInit
    OBVIOUS
  <1>1. Window(read, write) = <<>>
    BY DEF BufferInit, Window
  <1> QED
    BY <1>1 DEF BufferInit, Queue!FifoInit

(* A write appends to the unread bytes.                                    *)
LEMMA WriteAdvFifo ==
    ASSUME BufferInv, NEW s \in Strings, WriteAdv(s)
    PROVE  Queue!Enqueue
  <1> USE DEF BufferInv, BufferTypeOK
  <1> DEFINE q == Window(read, write)
             r == Window(read, write)'
  <1>1. /\ read \in Nat /\ write \in Nat /\ read <= write /\ write <= N
        /\ s \in Seq(Bytes) /\ Len(s) \in Nat /\ write + Len(s) <= N
        /\ read' = read /\ write' = write + Len(s)
    BY StringsLemma, NAssumption DEF WriteAdv, WriteBytes
  <1>2. q \in Seq(Bytes) /\ Len(q) = write - read /\ q = [i \in 1 .. write - read |-> data[read + i - 1]]
    BY <1>1, WindowLemma DEF Window
  <1>3. r = [i \in 1 .. write + Len(s) - read |-> data'[read + i - 1]]
    BY <1>1 DEF Window
  <1>4. q \o s = [i \in 1 .. write - read + Len(s) |->
                    IF i <= write - read THEN q[i] ELSE s[i - (write - read)]]
    BY <1>1, <1>2
  <1>5. ASSUME NEW i \in 1 .. write - read + Len(s)
        PROVE  data'[read + i - 1] =
                 IF i <= write - read THEN q[i] ELSE s[i - (write - read)]
    <2>1. read + i - 1 \in Cells
      BY <1>1, NAssumption DEF Cells
    <2>2. data'[read + i - 1] = IF read + i - 1 \in write .. write + Len(s) - 1
                                  THEN s[read + i - 1 - write + 1] ELSE data[read + i - 1]
      BY <2>1 DEF WriteAdv, Filled
    <2>3. CASE i <= write - read
      BY <2>2, <2>3, <1>1, <1>2
    <2>4. CASE i > write - read
      <3>1. read + i - 1 \in write .. write + Len(s) - 1
        BY <2>4, <1>1
      <3>2. read + i - 1 - write + 1 = i - (write - read)
        BY <1>1
      <3> QED
        BY <2>2, <2>4, <3>1, <3>2, <1>1
    <2> QED
      BY <2>3, <2>4, <1>1
  <1>6. write + Len(s) - read = write - read + Len(s)
    BY <1>1
  <1>7. r = q \o s
    BY <1>3, <1>4, <1>5, <1>6
  <1>8. Len(q) + Len(s) <= N
    <2>1. Len(q) = write - read
      BY <1>2
    <2>2. write - read + Len(s) <= N
      BY <1>1, NAssumption
    <2> QED
      BY <2>1, <2>2
  <1>9. s \in Queue!Strings
    BY DEF Strings, Queue!Strings
  <1> QED
    BY <1>7, <1>8, <1>9 DEF Queue!Enqueue, WriteAdv

(* A read takes a prefix of the unread bytes.                              *)
LEMMA ReadAdvFifo ==
    ASSUME BufferInv, NEW k \in Nat, ReadAdv(k)
    PROVE  Queue!Dequeue
  <1> USE DEF BufferInv, BufferTypeOK
  <1> DEFINE q == Window(read, write)
             r == Window(read, write)'
  <1>1. /\ read \in Nat /\ write \in Nat /\ read <= write /\ write <= N
        /\ k \in 0 .. write - read
    BY NAssumption DEF ReadAdv, ReadBytes
  <1>2. q \in Seq(Bytes) /\ Len(q) = write - read /\ q = [i \in 1 .. write - read |-> data[read + i - 1]]
    BY <1>1, WindowLemma DEF Window
  <1>3. taken' = SubSeq(q, 1, k)
    <2>1. SubSeq(q, 1, k) = [i \in 1 .. k |-> q[i]]
      BY <1>1, <1>2
    <2>2. read + k - read = k
      BY <1>1
    <2>3. Window(read, read + k) = [i \in 1 .. k |-> data[read + i - 1]]
      BY <2>2 DEF Window
    <2>4. \A i \in 1 .. k : q[i] = data[read + i - 1]
      BY <1>1, <1>2
    <2> QED
      BY <2>1, <2>3, <2>4 DEF ReadAdv
  <1>4. r = SubSeq(q, k + 1, Len(q))
    <2>1. SubSeq(q, k + 1, Len(q)) = [i \in 1 .. write - read - k |-> q[k + i]]
      BY <1>1, <1>2
    <2>2. \A i \in 1 .. write - read - k : q[k + i] = data[read + k + i - 1]
      BY <1>1, <1>2
    <2>3. CASE read + k = write /\ read' = 0 /\ write' = 0
      BY <2>1, <2>3, <1>1 DEF Window
    <2>4. CASE read + k < write /\ read' = read + k /\ write' = write
      <3>1. r = [i \in 1 .. write - (read + k) |-> data[read + k + i - 1]]
        BY <2>4 DEF Window, ReadAdv
      <3>2. write - (read + k) = write - read - k
        BY <1>1
      <3> QED
        BY <2>1, <2>2, <3>1, <3>2
    <2> QED
      BY <2>3, <2>4 DEF ReadAdv, Advanced
  <1> QED
    BY <1>1, <1>2, <1>3, <1>4 DEF Queue!Dequeue

(* Moving the unread bytes to the front does not change them.              *)
LEMMA CompactFifo ==
    ASSUME BufferInv, Compact
    PROVE  Queue!Dequeue
  <1> USE DEF BufferInv, BufferTypeOK
  <1> DEFINE q == Window(read, write)
             r == Window(read, write)'
  <1>1. read \in Nat /\ write \in Nat /\ read <= write /\ write <= N
    BY NAssumption
  <1>2. q \in Seq(Bytes) /\ Len(q) = write - read /\ q = [i \in 1 .. write - read |-> data[read + i - 1]]
    BY <1>1, WindowLemma DEF Window
  <1>3. r = q
    <2>1. CASE read = 0 /\ UNCHANGED <<data, read, write>>
      BY <2>1 DEF Window
    <2>2. CASE read = write /\ read' = 0 /\ write' = 0 /\ UNCHANGED data
      BY <2>2, <1>1 DEF Window
    <2>3. CASE data' = Moved /\ read' = 0 /\ write' = ReadBytes
      <3>1. \A i \in 1 .. write - read : i - 1 \in Cells /\ i - 1 < write - read
        BY <1>1, NAssumption DEF Cells
      <3>2. \A i \in 1 .. write - read : data'[i - 1] = data[read + (i - 1)]
        BY <2>3, <3>1 DEF Moved, ReadBytes
      <3>3. \A i \in 1 .. write - read : 0 + i - 1 = i - 1 /\ read + (i - 1) = read + i - 1
        BY <1>1
      <3>4. r = [i \in 1 .. write - read - 0 |-> data'[0 + i - 1]]
        BY <2>3 DEF Window, ReadBytes
      <3>5. write - read - 0 = write - read
        BY <1>1
      <3>6. \A i \in 1 .. write - read : data'[0 + i - 1] = data[read + i - 1]
        BY <3>2, <3>3
      <3> QED
        BY <1>2, <3>4, <3>5, <3>6
    <2> QED
      BY <2>1, <2>2, <2>3 DEF Compact
  <1>4. SubSeq(q, 1, 0) = <<>> /\ SubSeq(q, 1, Len(q)) = q
    BY <1>2
  <1>5. taken' = <<>>
    BY DEF Compact
  <1>6. 0 \in 0 .. Len(q)
    BY <1>1, <1>2
  <1> QED
    BY <1>3, <1>4, <1>5, <1>6 DEF Queue!Dequeue

(* An operation that finds nothing to do hands nothing out.                *)
LEMMA NothingFifo ==
    ASSUME BufferInv, taken' = <<>>, UNCHANGED <<data, read, write>>
    PROVE  Queue!Dequeue
  <1> DEFINE q == Window(read, write)
  <1>1. read \in Nat /\ write \in Nat /\ read <= write /\ write <= N
    BY NAssumption DEF BufferInv, BufferTypeOK
  <1>2. q \in Seq(Bytes)
    BY <1>1, WindowLemma DEF BufferInv, BufferTypeOK
  <1>3. SubSeq(q, 1, 0) = <<>> /\ SubSeq(q, 1, Len(q)) = q /\ 0 \in 0 .. Len(q)
    BY <1>2
  <1>4. Window(read, write)' = q
    BY DEF Window
  <1> QED
    BY <1>3, <1>4 DEF Queue!Dequeue

LEMMA NextFifo == BufferInv /\ [BufferNext]_bufferVars => [Queue!FifoNext]_(Queue!fifoVars)
  <1> SUFFICES ASSUME BufferInv, [BufferNext]_bufferVars
               PROVE  [Queue!FifoNext]_(Queue!fifoVars)
    OBVIOUS
  <1> USE DEF Queue!FifoNext
  <1>1. ASSUME NEW s \in Strings, WriteAdv(s)
        PROVE  Queue!Enqueue
    BY <1>1, WriteAdvFifo
  <1>2. ASSUME NEW c \in Bytes, WriteByte(c)
        PROVE  Queue!Enqueue \/ Queue!Dequeue
    <2>1. <<c>> \in Strings
      <3>1. <<c>> \in [1 .. 1 -> Bytes] /\ 1 \in 0 .. N
        BY NAssumption
      <3> QED
        BY <3>1 DEF Strings
    <2>2. CASE CanWrite /\ WriteAdv(<<c>>)
      BY <2>1, <2>2, WriteAdvFifo
    <2>3. CASE ~CanWrite /\ taken' = <<>> /\ UNCHANGED <<data, read, write>>
      BY <2>3, NothingFifo
    <2> QED
      BY <1>2, <2>2, <2>3 DEF WriteByte
  <1>3. ASSUME NEW k \in 0 .. N, ReadAdv(k)
        PROVE  Queue!Dequeue
    BY <1>3, ReadAdvFifo
  <1>4. CASE ReadByte
    <2>1. CASE CanRead /\ ReadAdv(1)
      BY <2>1, ReadAdvFifo
    <2>2. CASE ~CanRead /\ taken' = <<>> /\ UNCHANGED <<data, read, write>>
      BY <2>2, NothingFifo
    <2> QED
      BY <1>4, <2>1, <2>2 DEF ReadByte
  <1>5. CASE Compact
    BY <1>5, CompactFifo
  <1>6. CASE Reset
    <2>1. Window(read, write)' = <<>>
      BY <1>6 DEF Reset, Window
    <2> QED
      BY <1>6, <2>1 DEF Reset, Queue!Forget
  <1>7. CASE UNCHANGED bufferVars
    BY <1>7 DEF bufferVars, Queue!fifoVars, Window
  <1> QED
    BY <1>1, <1>2, <1>3, <1>4, <1>5, <1>6, <1>7 DEF BufferNext

(* Every behaviour of buffer.c is one of a queue: what was written is read *)
(* in order, unchanged, and once, for every size and every set of bytes.   *)
THEOREM BufferIsFifo == BufferSpec => IsFifo
  BY InitInv, NextInv, InitFifo, NextFifo, PTL DEF BufferSpec, IsFifo, Queue!FifoSpec
=============================================================================
