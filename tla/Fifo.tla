-------------------------------- MODULE Fifo --------------------------------
(***************************************************************************)
(* What lib/buffer.h promises of a `struct buffer`: the bytes written come *)
(* out in the order they went in, none of them changed, lost or repeated,  *)
(* whatever the two pointers do and however often the bytes are moved.     *)
(***************************************************************************)
EXTENDS Integers, Sequences

CONSTANTS Bytes, N

VARIABLES
    queue,  \* the bytes written and not read
    taken   \* the bytes that the last operation handed out

fifoVars == <<queue, taken>>

FifoInit == queue = <<>> /\ taken = <<>>

Strings == UNION {[1 .. n -> Bytes] : n \in 0 .. N}

Enqueue == \E s \in Strings :
    /\ Len(queue) + Len(s) <= N
    /\ queue' = queue \o s
    /\ taken' = <<>>

Dequeue == \E k \in 0 .. Len(queue) :
    /\ taken' = SubSeq(queue, 1, k)
    /\ queue' = SubSeq(queue, k + 1, Len(queue))

(* buffer_reset forgets what was not read, and hands nothing out.          *)
Forget == queue' = <<>> /\ taken' = <<>>

FifoNext == Enqueue \/ Dequeue \/ Forget
FifoSpec == FifoInit /\ [][FifoNext]_fifoVars
=============================================================================
