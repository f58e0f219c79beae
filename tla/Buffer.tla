------------------------------- MODULE Buffer -------------------------------
(***************************************************************************)
(* lib/buffer.c: the byte buffer that a connection keeps for its input and *)
(* for its output. Its pointers are written as offsets from b->data, so    *)
(* that b->limit is N. The bytes at or past `write`, and those before      *)
(* `read`, are what earlier operations left there.                         *)
(*                                                                         *)
(* A caller fills what buffer_write_ptr points at and then advances; here  *)
(* the two are one step, and so are reading through buffer_read_ptr and    *)
(* advancing. A negative count (recv or send failed) advances nothing.     *)
(***************************************************************************)
EXTENDS Integers, Sequences

CONSTANTS Bytes, N

ASSUME NAssumption == N \in Nat \ {0}

VARIABLES
    data,   \* the N bytes
    read,   \* b->read - b->data
    write,  \* b->write - b->data
    taken   \* the bytes that the last operation handed to its caller

bufferVars == <<data, read, write, taken>>

Cells == 0 .. N - 1

(* buffer_init, over the array of a calloc'ed connection_data.             *)
BufferInit ==
    /\ \E zero \in Bytes : data = [i \in Cells |-> zero]
    /\ read = 0 /\ write = 0
    /\ taken = <<>>

ReadBytes  == write - read     \* *nbyte of buffer_read_ptr
WriteBytesUnread == N - ReadBytes
WriteBytes == N - write        \* *nbyte of buffer_write_ptr
CanRead  == ReadBytes > 0
CanWrite == WriteBytes > 0

Window(r, w) == [i \in 1 .. w - r |-> data[r + i - 1]]

----------------------------------------------------------------------------
(* The caller puts the bytes of s where buffer_write_ptr points, as far as *)
(* the room it was told of, and calls buffer_write_adv.                    *)
Filled(s) == [i \in Cells |-> IF i \in write .. write + Len(s) - 1
                                THEN s[i - write + 1] ELSE data[i]]

WriteAdv(s) ==
    /\ Len(s) <= WriteBytes
    /\ data' = Filled(s)
    /\ write' = write + Len(s)
    /\ taken' = <<>>
    /\ UNCHANGED read

(* buffer_write: a byte for which there is no room is dropped.             *)
WriteByte(c) ==
    \/ CanWrite /\ WriteAdv(<<c>>)
    \/ ~CanWrite /\ taken' = <<>> /\ UNCHANGED <<data, read, write>>

(* buffer_read_adv: the pointers go back to data when nothing is left.     *)
AdvancedOnly(k) == read' = read + k /\ write' = write
Advanced(k) ==
    \/ read + k = write /\ read' = 0 /\ write' = 0
    \/ read + k < write /\ read' = read + k /\ write' = write

ReadAdv(k) ==
    /\ k \in 0 .. ReadBytes
    /\ taken' = Window(read, read + k)
    /\ Advanced(k)
    /\ UNCHANGED data

(* buffer_read: one byte, or a 0 that is none when the buffer is empty.    *)
ReadByte ==
    \/ CanRead /\ ReadAdv(1)
    \/ ~CanRead /\ taken' = <<>> /\ UNCHANGED <<data, read, write>>

(* buffer_compact: memmove of the unread bytes to the front.               *)
MovedShort == [i \in Cells |-> IF i < ReadBytes - 1 THEN data[read + i] ELSE data[i]]
Moved      == [i \in Cells |-> IF i < ReadBytes THEN data[read + i] ELSE data[i]]

Compact ==
    /\ taken' = <<>>
    /\ \/ read = 0 /\ UNCHANGED <<data, read, write>>
       \/ read # 0 /\ read = write /\ read' = 0 /\ write' = 0 /\ UNCHANGED data
       \/ /\ read # 0 /\ read # write
          /\ data' = Moved /\ read' = 0 /\ write' = ReadBytes

Reset == read' = 0 /\ write' = 0 /\ taken' = <<>> /\ UNCHANGED data

Strings == UNION {[1 .. n -> Bytes] : n \in 0 .. N}

BufferNext ==
    \/ \E s \in Strings : WriteAdv(s)
    \/ \E c \in Bytes : WriteByte(c)
    \/ \E k \in 0 .. N : ReadAdv(k)
    \/ ReadByte
    \/ Compact
    \/ Reset

BufferSpec == BufferInit /\ [][BufferNext]_bufferVars

----------------------------------------------------------------------------
(* "Invariantes: R <= W <= limit" (lib/buffer.h:23), which buffer.c        *)
(* asserts in every operation that reads or moves a pointer.               *)
BufferTypeOK ==
    /\ data \in [Cells -> Bytes]
    /\ read \in 0 .. N /\ write \in read .. N
    /\ taken \in Seq(Bytes)

(* An empty buffer has all its room. read_command receives exactly when    *)
(* in_buff is empty and takes a 0 from recv for the end of the connection: *)
(* an empty buffer with no room would close a connection that is alive.    *)
EmptyHasAllItsRoom == ~CanRead => WriteBytes = N

(* The buffer is a queue: bytes come out in order, unchanged, once.        *)
Queue == INSTANCE Fifo WITH queue <- Window(read, write)
IsFifo == Queue!FifoSpec
=============================================================================
