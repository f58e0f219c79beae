----------------------------- MODULE RetrProofs -----------------------------
(***************************************************************************)
(* What Retr keeps for any size of out_buff and any messages: the indexes, *)
(* the meaning of crlf_flag, and how many dots a piece can take before a   *)
(* byte is lost (RetrInv); and as long as none is, what the client has at  *)
(* every point of a transfer (DeliveryInv), which is the message stuffed,  *)
(* and from which a plain message comes back (StuffingDecodes).            *)
(***************************************************************************)
EXTENDS Retr, SequenceTheorems, WellFoundedInduction, TLAPS

(* The flag is compared with the message at every step of a transfer.      *)
Underway == pc \in {"call", "copy"} \/ (pc = "send" /\ ~is_finished)

FlagInv ==
    Underway =>
        /\ crlf_flag = "LF" <=> BeginsLine(read_index + 1)
        /\ crlf_flag = "CR" <=> IF read_index = 0 THEN leak = "CR" ELSE mail[read_index] = "r"

(* Between messages nothing is left but the flag.                          *)
Restarts ==
    /\ ~Underway => read_index = 0 /\ is_finished
    /\ pc \in {"idle", "call"} => out = <<>>

(* A piece: what fread was asked for, and, up to the second dot, the bytes *)
(* that out_buff holds.                                                    *)
PieceFits ==
    pc = "copy" =>
        /\ until <= from + n - 1
        /\ last => until = Len(mail) /\ Len(mail) - from + Len(end_msj) + 1 <= n
        /\ stuffs <= 1 => Len(out) <= N - n + (read_index - from) + stuffs

RetrInv == RetrTypeOK /\ FlagInv /\ Restarts /\ PieceFits

----------------------------------------------------------------------------
LEMMA EndLength == Len(end_msj) = 5 /\ end_msj \in Seq(Bytes)
BY DEF end_msj, Bytes

(* buffer_write and try_write never pass the end of the array, and add no  *)
(* more than they are given.                                               *)
LEMMA PutStays ==
    ASSUME NEW b \in Seq(Bytes), NEW bytes \in Seq(Bytes), Len(b) <= N
    PROVE  /\ Put(b, bytes) \in Seq(Bytes)
           /\ Len(Put(b, bytes)) <= N
           /\ Len(Put(b, bytes)) <= Len(b) + Len(bytes)
           /\ Len(b) + Len(bytes) <= N => Len(Put(b, bytes)) = Len(b) + Len(bytes)
<1> USE RetrConstants
<1>1. CASE Len(b) + Len(bytes) <= N
  BY <1>1, ConcatProperties DEF Put
<1>2. CASE ~(Len(b) + Len(bytes) <= N)
  <2> DEFINE t == SubSeq(bytes, 1, N - Len(b))
  <2>1. N - Len(b) \in 0 .. Len(bytes)
    BY <1>2, LenProperties
  <2>2. t \in Seq(Bytes) /\ Len(t) = N - Len(b)
    BY <2>1, SubSeqProperties, LenProperties
  <2> HIDE DEF t
  <2>3. Put(b, bytes) = b \o t
    BY <1>2 DEF Put, t
  <2>4. b \o t \in Seq(Bytes) /\ Len(b \o t) = Len(b) + Len(t)
    BY <2>2, ConcatProperties
  <2> QED BY <1>2, <2>2, <2>3, <2>4, LenProperties
<1> QED BY <1>1, <1>2

LEMMA WrittenBytes ==
    ASSUME NEW byte \in Bytes
    PROVE  /\ Written(byte) \in Seq(Bytes)
           /\ Len(Written(byte)) = IF Stuffed(byte) THEN 2 ELSE 1
<1>1. "." \in Bytes
  BY DEF Bytes
<1>2. <<".", byte>> \in Seq(Bytes) /\ Len(<<".", byte>>) = 2
  BY <1>1
<1>3. <<byte>> \in Seq(Bytes) /\ Len(<<byte>>) = 1
  OBVIOUS
<1> QED BY <1>2, <1>3 DEF Written

----------------------------------------------------------------------------
LEMMA InitInv == Init => RetrInv
<1> SUFFICES ASSUME Init PROVE RetrInv OBVIOUS
<1> USE RetrConstants
<1>1. <<>> \in Seq(Bytes) /\ Len(<<>>) = 0
  OBVIOUS
<1>2. N >= 1
  BY EndLength, LenProperties
<1>3. RetrTypeOK
  <2>1. mail \in Seq(Bytes) /\ out \in Seq(Bytes) /\ got \in Seq(Bytes)
    BY <1>1 DEF Init
  <2>2. Len(out) <= N /\ n \in 1 .. N /\ read_index \in 0 .. Len(mail)
    BY <1>1, <1>2 DEF Init
  <2> QED BY <2>1, <2>2 DEF Init, RetrTypeOK, Flags
<1> QED BY <1>3 DEF Init, RetrInv, FlagInv, Restarts, PieceFits, Underway

LEMMA AskInv ==
    ASSUME RetrInv, NEW m \in Messages, Ask(m)
    PROVE  RetrInv'
<1> USE RetrConstants
<1>1. m \in Seq(Bytes) /\ <<>> \in Seq(Bytes)
  OBVIOUS
<1>2. read_index = 0 /\ is_finished /\ out = <<>>
  BY DEF RetrInv, Restarts, Underway, Ask
<1>3. RetrTypeOK'
  <2>1. read_index' \in 0 .. Len(mail')
    BY <1>1, <1>2, LenProperties DEF Ask
  <2> QED BY <1>1, <2>1 DEF RetrInv, RetrTypeOK, Ask, pieceVars
<1>4. FlagInv'
  <2>1. BeginsLine(1)' <=> leak' = "LF"
    BY DEF BeginsLine
  <2> QED BY <1>2, <2>1 DEF FlagInv, Ask
<1>5. Restarts' /\ PieceFits'
  BY <1>2 DEF Restarts, PieceFits, Underway, Ask
<1> QED BY <1>3, <1>4, <1>5 DEF RetrInv

(* Steps that leave the message, the place in it and the flag as they are. *)
LEMMA FlagStays ==
    ASSUME FlagInv, Underway, UNCHANGED <<mail, read_index, crlf_flag, leak>>
    PROVE  FlagInv'
BY DEF FlagInv, BeginsLine, EndsLine

LEMMA BeginInv == ASSUME RetrInv, Begin PROVE RetrInv'
<1> USE RetrConstants, EndLength
<1> USE DEF RetrInv
<1>1. out = <<>> /\ Underway
  BY DEF Restarts, Underway, Begin
<1>2. out' \in Seq(Bytes) /\ Len(out') <= Len(Heading)
  <2>1. <<>> \in Seq(Bytes) /\ Len(<<>>) = 0
    OBVIOUS
  <2>2. Len(Heading) \in Nat
    BY LenProperties
  <2>3. Len(<<>>) <= N /\ Heading \in Seq(Bytes)
    BY <2>1
  <2>4. Put(<<>>, Heading) \in Seq(Bytes) /\ Len(Put(<<>>, Heading)) <= Len(<<>>) + Len(Heading)
    BY <2>1, <2>3, PutStays
  <2> QED BY <1>1, <2>1, <2>2, <2>4 DEF Begin
<1>3. Len(out') \in Nat /\ n' = N - Len(out') /\ n' \in 1 .. N /\ n' >= 6
  BY <1>2, LenProperties DEF Begin
<1>4. Len(mail) \in Nat /\ read_index \in 0 .. Len(mail)
  BY LenProperties DEF RetrTypeOK
<1>5. /\ until' \in read_index .. Len(mail)
      /\ until' <= read_index + n' - 1
      /\ last' => until' = Len(mail) /\ Len(mail) - read_index + Len(end_msj) + 1 <= n'
      /\ last' \in BOOLEAN
  <2>1. until' = read_index + BytesRead(n')
    BY DEF Begin
  <2>2. last' = (Len(mail) - read_index + Len(end_msj) + 1 <= n')
    BY DEF Begin, IsLast
  <2>3. BytesRead(n') \in 0 .. Len(mail) - read_index /\ BytesRead(n') <= n' - 1
    BY <1>3, <1>4 DEF BytesRead
  <2>4. Len(mail) - read_index + Len(end_msj) + 1 <= n'
          => BytesRead(n') = Len(mail) - read_index
    BY <1>3, <1>4 DEF BytesRead
  <2>5. Len(mail) - read_index + Len(end_msj) + 1 <= n' => until' = Len(mail)
    BY <1>4, <2>1, <2>4
  <2>6. until' \in read_index .. Len(mail) /\ until' <= read_index + n' - 1
    BY <1>3, <1>4, <2>1, <2>3
  <2>7. (Len(mail) - read_index + Len(end_msj) + 1 <= n') \in BOOLEAN
    OBVIOUS
  <2>8. last' \in BOOLEAN
    BY ONLY <2>2, <2>7
  <2>9. last' => until' = Len(mail) /\ Len(mail) - read_index + Len(end_msj) + 1 <= n'
    <3> SUFFICES ASSUME last' PROVE until' = Len(mail) /\ Len(mail) - read_index + Len(end_msj) + 1 <= n'
      OBVIOUS
    <3>1. Len(mail) - read_index + Len(end_msj) + 1 <= n'
      BY ONLY <2>2, last', Zenon
    <3> QED BY <2>5, <3>1
  <2> QED BY <2>6, <2>8, <2>9
<1>6. from' = read_index /\ read_index' = read_index /\ mail' = mail /\ pc' = "copy" /\ stuffs' = 0
  BY DEF Begin
<1>7. RetrTypeOK'
  <2>1. Len(out') <= N
    BY <1>3
  <2> QED BY <1>2, <1>3, <1>4, <1>5, <1>6, <2>1 DEF RetrTypeOK, Begin
<1>8. FlagInv'
  BY <1>1, FlagStays DEF Begin
<1>9. Restarts' /\ PieceFits'
  BY <1>3, <1>4, <1>5, <1>6 DEF Restarts, PieceFits, Underway
<1> QED BY <1>7, <1>8, <1>9

(* A dot that begins a line leaves the next byte one that does; and only   *)
(* a line feed after a return begins one otherwise.                        *)
LEMMA NextBeginsLine ==
    ASSUME mail \in Seq(Bytes), NEW i \in 1 .. Len(mail)
    PROVE  BeginsLine(i + 1) <=>
             EndsLine(i) \/ (mail[i] = "." /\ BeginsLine(i))
<1>1. ASSUME BeginsLine(i + 1), ~EndsLine(i)
      PROVE  mail[i] = "." /\ BeginsLine(i)
  <2>1. CASE leak = "LF" /\ \A k \in 1 .. i : mail[k] = "."
    BY <2>1 DEF BeginsLine
  <2>2. CASE \E j \in 1 .. i : EndsLine(j) /\ \A k \in j + 1 .. i : mail[k] = "."
    <3>1. PICK j \in 1 .. i : EndsLine(j) /\ \A k \in j + 1 .. i : mail[k] = "."
      BY <2>2
    <3>2. j \in 1 .. i - 1
      BY <3>1, <1>1
    <3>3. i \in j + 1 .. i /\ \A k \in j + 1 .. i - 1 : k \in j + 1 .. i
      BY <3>2
    <3> QED BY <3>1, <3>2, <3>3 DEF BeginsLine
  <2>3. i + 1 - 1 = i
    OBVIOUS
  <2> QED BY <1>1, <2>1, <2>2, <2>3 DEF BeginsLine
<1>2. ASSUME EndsLine(i) PROVE BeginsLine(i + 1)
  <2>1. i \in 1 .. i + 1 - 1 /\ \A k \in i + 1 .. i + 1 - 1 : FALSE
    OBVIOUS
  <2> QED BY <1>2, <2>1 DEF BeginsLine
<1>3. ASSUME mail[i] = ".", BeginsLine(i) PROVE BeginsLine(i + 1)
  <2>1. CASE leak = "LF" /\ \A k \in 1 .. i - 1 : mail[k] = "."
    <3>1. \A k \in 1 .. i + 1 - 1 : k \in 1 .. i - 1 \/ k = i
      OBVIOUS
    <3> QED BY <1>3, <2>1, <3>1 DEF BeginsLine
  <2>2. CASE \E j \in 1 .. i - 1 : EndsLine(j) /\ \A k \in j + 1 .. i - 1 : mail[k] = "."
    <3>1. PICK j \in 1 .. i - 1 : EndsLine(j) /\ \A k \in j + 1 .. i - 1 : mail[k] = "."
      BY <2>2
    <3>2. j \in 1 .. i + 1 - 1 /\ \A k \in j + 1 .. i + 1 - 1 : k \in j + 1 .. i - 1 \/ k = i
      OBVIOUS
    <3> QED BY <1>3, <3>1, <3>2 DEF BeginsLine
  <2> QED BY <1>3, <2>1, <2>2 DEF BeginsLine
<1> QED BY <1>1, <1>2, <1>3

LEMMA CopyInv ==
    ASSUME RetrInv, Copy
    PROVE  RetrInv' /\ (dropped' /\ ~dropped => stuffs' >= 2)
<1> USE RetrConstants
<1> DEFINE byte == mail[read_index + 1]
           i    == read_index + 1
<1>1. /\ mail \in Seq(Bytes) /\ out \in Seq(Bytes) /\ Len(out) <= N /\ Len(out) \in Nat
      /\ Len(mail) \in Nat /\ from \in Nat /\ until \in Nat /\ stuffs \in Nat
      /\ read_index \in Nat /\ n \in 1 .. N /\ crlf_flag \in Flags
      /\ from <= read_index /\ read_index < until /\ until <= Len(mail)
  BY LenProperties DEF RetrInv, RetrTypeOK, Copy
<1>2. i \in 1 .. Len(mail) /\ byte \in Bytes
  <2>1. i \in 1 .. Len(mail)
    BY <1>1
  <2>2. mail[i] \in Bytes
    BY <1>1, <2>1, ElementOfSeq
  <2> QED BY <2>1, <2>2
<1>3. /\ crlf_flag' = FlagAfter(byte) /\ out' = Put(out, Written(byte))
      /\ dropped' = (dropped \/ Loses(out, Written(byte)))
      /\ stuffs' = (IF Stuffed(byte) THEN stuffs + 1 ELSE stuffs)
      /\ read_index' = i /\ pc = "copy"
      /\ UNCHANGED <<mail, is_finished, n, from, until, last, pc, got, leak>>
  BY DEF Copy, pieceVars
<1> HIDE DEF byte
<1>4. /\ Written(byte) \in Seq(Bytes) /\ stuffs' \in Nat
      /\ Len(Written(byte)) = 1 + (stuffs' - stuffs) /\ stuffs <= stuffs'
  <2>1. /\ Written(byte) \in Seq(Bytes)
        /\ Len(Written(byte)) = IF Stuffed(byte) THEN 2 ELSE 1
    BY <1>2, WrittenBytes
  <2>2. stuffs \in Nat /\ stuffs' = IF Stuffed(byte) THEN stuffs + 1 ELSE stuffs
    BY <1>1, <1>3
  <2>3. CASE Stuffed(byte)
    BY ONLY <2>1, <2>2, <2>3
  <2>4. CASE ~Stuffed(byte)
    BY ONLY <2>1, <2>2, <2>4
  <2> QED BY <2>3, <2>4
<1>5. out' \in Seq(Bytes) /\ Len(out') <= N /\ Len(out') <= Len(out) + Len(Written(byte))
  BY <1>1, <1>3, <1>4, PutStays
<1>6. Len(out') \in Nat
  BY <1>5, LenProperties
<1>7. FlagAfter(byte) \in Flags
  BY <1>1 DEF FlagAfter, Flags
<1>8. (dropped \/ Loses(out, Written(byte))) \in BOOLEAN
  BY DEF RetrInv, RetrTypeOK
<1>9. RetrTypeOK'
  <2>1. read_index' \in 0 .. Len(mail)' /\ (pc' = "copy" => read_index' \in from' .. until' /\ until' <= Len(mail)')
    BY <1>1, <1>3
  <2>2. dropped' \in BOOLEAN
    BY <1>3, <1>8
  <2> QED BY <1>1, <1>3, <1>4, <1>5, <1>7, <2>1, <2>2 DEF RetrInv, RetrTypeOK
<1>10. stuffs <= 1 => Len(out) <= N - n + (read_index - from) + stuffs
  BY <1>3 DEF RetrInv, PieceFits
<1>11. until <= from + n - 1 /\ (last => until = Len(mail) /\ Len(mail) - from + Len(end_msj) + 1 <= n)
  BY <1>3 DEF RetrInv, PieceFits
<1>12. PieceFits'
  <2>1. stuffs' <= 1 => Len(out') <= N - n + (i - from) + stuffs'
    <3> SUFFICES ASSUME stuffs' <= 1 PROVE Len(out') <= N - n + (i - from) + stuffs'
      OBVIOUS
    <3>1. stuffs <= 1
      BY <1>1, <1>4
    <3>2. Len(out') <= Len(out) + 1 + (stuffs' - stuffs)
      BY <1>1, <1>4, <1>5, <1>6
    <3>3. Len(out) <= N - n + (read_index - from) + stuffs
      BY <1>10, <3>1
    <3>4. /\ N \in Nat /\ n \in Nat /\ read_index \in Nat /\ from \in Nat /\ stuffs \in Nat
          /\ stuffs' \in Nat /\ Len(out) \in Nat /\ Len(out') \in Nat
      BY <1>1, <1>4, <1>6
    <3> QED BY ONLY <3>2, <3>3, <3>4
  <2> QED BY <1>3, <1>11, <2>1 DEF PieceFits
<1>13. Loses(out, Written(byte)) => stuffs' >= 2
  BY <1>1, <1>4, <1>10, <1>11 DEF Loses
<1>14. Restarts'
  BY <1>3 DEF Restarts, Underway
<1>15. FlagInv'
  <2>1. /\ crlf_flag = "LF" <=> BeginsLine(i)
        /\ crlf_flag = "CR" <=> IF read_index = 0 THEN leak = "CR" ELSE mail[read_index] = "r"
    BY <1>3 DEF RetrInv, FlagInv, Underway
  <2>2. EndsLine(i) <=> byte = "n" /\ crlf_flag = "CR"
    <3>1. CASE read_index = 0
      BY <2>1, <3>1 DEF EndsLine, byte
    <3>2. CASE read_index # 0
      <4>1. i # 1 /\ i - 1 = read_index
        BY <1>1, <3>2
      <4> QED BY <2>1, <3>2, <4>1 DEF EndsLine, byte
    <3> QED BY <3>1, <3>2
  <2>3. BeginsLine(i + 1) <=> EndsLine(i) \/ (byte = "." /\ BeginsLine(i))
    BY <1>1, <1>2, NextBeginsLine DEF byte
  <2>4. FlagAfter(byte) = "LF" <=> EndsLine(i) \/ (byte = "." /\ BeginsLine(i))
    BY <2>1, <2>2 DEF FlagAfter, Stuffed
  <2>5. FlagAfter(byte) = "CR" <=> byte = "r"
    BY DEF FlagAfter, Stuffed
  <2>6. BeginsLine(read_index + 1)' <=> BeginsLine(i + 1)
    BY <1>3 DEF BeginsLine, EndsLine
  <2>7. i # 0 /\ (mail[read_index])' = byte
    BY <1>1, <1>3 DEF byte
  <2> QED BY <1>3, <2>3, <2>4, <2>5, <2>6, <2>7 DEF FlagInv
<1> QED BY <1>3, <1>9, <1>12, <1>13, <1>14, <1>15 DEF RetrInv

LEMMA FinishInv ==
    ASSUME RetrInv, Finish
    PROVE  RetrInv' /\ (dropped' /\ ~dropped => stuffs' >= 2)
<1> USE RetrConstants
<1>1. /\ mail \in Seq(Bytes) /\ out \in Seq(Bytes) /\ Len(out) <= N /\ Len(out) \in Nat
      /\ Len(mail) \in Nat /\ from \in Nat /\ stuffs \in Nat /\ n \in 1 .. N
  BY LenProperties DEF RetrInv, RetrTypeOK
<1>2. out' \in Seq(Bytes) /\ Len(out') <= N
  <2>1. Put(out, end_msj) \in Seq(Bytes) /\ Len(Put(out, end_msj)) <= N
    BY <1>1, EndLength, PutStays
  <2> QED BY <2>1 DEF Finish
<1>3. (dropped \/ Loses(out, end_msj)) \in BOOLEAN
  BY DEF RetrInv, RetrTypeOK
<1>4. Loses(out, end_msj) => stuffs >= 2
  <2>1. /\ stuffs <= 1 => Len(out) <= N - n + (read_index - from) + stuffs
        /\ read_index = Len(mail) /\ Len(mail) - from + 5 + 1 <= n
    BY EndLength DEF RetrInv, PieceFits, Finish
  <2> QED BY <1>1, <2>1, EndLength DEF Loses
<1>5. RetrTypeOK'
  <2>1. 0 \in 0 .. Len(mail)
    BY <1>1
  <2>2. dropped' \in BOOLEAN
    BY <1>3 DEF Finish
  <2> QED BY <1>1, <1>2, <2>1, <2>2 DEF RetrInv, RetrTypeOK, Finish, pieceVars
<1>6. FlagInv' /\ Restarts' /\ PieceFits'
  BY DEF FlagInv, Restarts, PieceFits, Underway, Finish
<1> QED BY <1>4, <1>5, <1>6 DEF RetrInv, Finish

LEMMA SuspendInv == ASSUME RetrInv, Suspend PROVE RetrInv'
<1>1. RetrTypeOK'
  BY DEF RetrInv, RetrTypeOK, Suspend, pieceVars
<1>2. FlagInv'
  <2>1. Underway
    BY DEF Underway, Suspend
  <2> QED BY <2>1, FlagStays DEF RetrInv, Suspend
<1>3. Restarts' /\ PieceFits'
  BY DEF RetrInv, Restarts, PieceFits, Underway, Suspend
<1> QED BY <1>1, <1>2, <1>3 DEF RetrInv

LEMMA SendInv == ASSUME RetrInv, Send PROVE RetrInv'
<1> USE RetrConstants
<1>1. got \o out \in Seq(Bytes) /\ <<>> \in Seq(Bytes) /\ Len(<<>>) = 0
  BY ConcatProperties DEF RetrInv, RetrTypeOK
<1>2. RetrTypeOK'
  BY <1>1 DEF RetrInv, RetrTypeOK, Send, pieceVars
<1>3. FlagInv'
  <2>1. CASE is_finished
    BY <2>1 DEF FlagInv, Underway, Send
  <2>2. CASE ~is_finished
    <3>1. Underway
      BY <2>2 DEF Underway, Send
    <3> QED BY <3>1, FlagStays DEF RetrInv, Send
  <2> QED BY <2>1, <2>2
<1>4. Restarts' /\ PieceFits'
  BY DEF RetrInv, Restarts, PieceFits, Underway, Send
<1> QED BY <1>2, <1>3, <1>4 DEF RetrInv

LEMMA StutterInv == ASSUME RetrInv, UNCHANGED vars PROVE RetrInv'
BY DEF RetrInv, RetrTypeOK, FlagInv, Restarts, PieceFits, Underway, BeginsLine,
       EndsLine, vars, pieceVars

LEMMA NextInv == ASSUME RetrInv, [Next]_vars PROVE RetrInv'
<1>1. ASSUME NEW m \in Messages, Ask(m) PROVE RetrInv'
  BY <1>1, AskInv
<1> QED
  BY <1>1, BeginInv, CopyInv, FinishInv, SuspendInv, SendInv, StutterInv DEF Next, Server

LEMMA Invariance == Spec => []RetrInv
<1>1. RetrInv /\ [Next]_vars => RetrInv'
  BY NextInv
<1> QED BY InitInv, <1>1, PTL DEF Spec

(* The indexes stay in the message, and out_buff in its array, for any     *)
(* size of buffer that holds the heading, the end and one byte more.       *)
THEOREM TransferStaysInside == Spec => []RetrTypeOK
<1>1. RetrInv => RetrTypeOK
  BY DEF RetrInv
<1> QED BY Invariance, <1>1, PTL

(* crlf_flag says of every byte whether a dot there is one to stuff,       *)
(* wherever the pieces are cut and whatever the message before left.       *)
THEOREM FlagIsRemembered == Spec => []FlagRemembersLine
<1>1. RetrInv => FlagRemembersLine
  BY DEF RetrInv, FlagInv, FlagRemembersLine, Underway
<1> QED BY Invariance, <1>1, PTL

(* No byte of a message or of its end is lost before a second dot is       *)
(* stuffed in one piece.                                                   *)
THEOREM OneDotFits == Spec => LossNeedsTwoDots
<1>1. ASSUME RetrInv, [Next]_vars PROVE [dropped' /\ ~dropped => stuffs' >= 2]_vars
  <2>1. ASSUME NEW m \in Messages, Ask(m) PROVE dropped' => FALSE
    BY <2>1 DEF Ask
  <2>2. ASSUME Begin \/ Suspend \/ Send PROVE UNCHANGED dropped
    BY <2>2 DEF Begin, Suspend, Send
  <2> QED BY <1>1, <2>1, <2>2, CopyInv, FinishInv DEF Next, Server
<1> QED BY Invariance, <1>1, PTL DEF Spec, LossNeedsTwoDots

----------------------------------------------------------------------------
(* Induction, by the least number that is not in the set.                  *)
LEMMA Least ==
    ASSUME NEW T \in SUBSET Nat, T # {}
    PROVE  \E x \in T : \A y \in T : x <= y
<1> DEFINE R == {p \in Nat \X Nat : p[1] < p[2]}
<1>1. IsWellFoundedOn(R, Nat)
  BY NatLessThanWellFounded DEF OpToRel
<1> HIDE DEF R
<1>2. PICK x \in T : \A y \in T : ~ (<<y, x>> \in R)
  BY <1>1, WFMin
<1>3. ASSUME NEW y \in T PROVE x <= y
  <2>1. x \in Nat /\ y \in Nat
    OBVIOUS
  <2>2. <<y, x>> \in Nat \X Nat
    BY <2>1
  <2>3. ~(<<y, x>>[1] < <<y, x>>[2])
    BY <1>2, <2>2 DEF R
  <2> QED BY <2>1, <2>3
<1> QED BY <1>3

LEMMA Induct ==
    ASSUME NEW T \in SUBSET Nat, 0 \in T, \A i \in T : i + 1 \in T
    PROVE  T = Nat
<1> SUFFICES ASSUME T # Nat PROVE FALSE OBVIOUS
<1>1. PICK x \in Nat \ T : \A y \in Nat \ T : x <= y
  BY Least
<1>2. x - 1 \in Nat /\ x - 1 \in T
  BY <1>1
<1> QED BY <1>1, <1>2

(* The function that FlattenSeq takes its value from.                      *)
Flattens(s, f) ==
    f = [i \in 1 .. Len(s) |-> IF i = 1 THEN s[i] ELSE f[i - 1] \o s[i]]

Steps(s, f) ==
    /\ Len(s) # 0 => f[1] = s[1]
    /\ \A k \in Nat : k # 0 /\ k < Len(s) => f[k + 1] = f[k] \o s[k + 1]

LEMMA FlattensSteps == ASSUME NEW s, NEW f, Len(s) \in Nat, Flattens(s, f) PROVE Steps(s, f)
<1> DEFINE F(g) == [i \in 1 .. Len(s) |-> IF i = 1 THEN s[i] ELSE g[i - 1] \o s[i]]
<1>1. f = F(f)
  BY DEF Flattens
<1>2. ASSUME NEW i \in 1 .. Len(s) PROVE f[i] = IF i = 1 THEN s[i] ELSE f[i - 1] \o s[i]
  <2>1. F(f)[i] = IF i = 1 THEN s[i] ELSE f[i - 1] \o s[i]
    OBVIOUS
  <2> QED BY <1>1, <2>1
<1>3. ASSUME NEW k \in Nat, k # 0, k < Len(s) PROVE f[k + 1] = f[k] \o s[k + 1]
  <2>1. PICK i \in 1 .. Len(s) : i = k + 1 /\ i # 1 /\ i - 1 = k
    BY <1>3
  <2>2. f[i] = IF i = 1 THEN s[i] ELSE f[i - 1] \o s[i]
    BY <1>2
  <2>3. f[i] = f[k] \o s[i]
    BY ONLY <2>1, <2>2, Zenon
  <2> QED BY ONLY <2>1, <2>3, Zenon
<1>4. Len(s) # 0 => f[1] = s[1]
  BY <1>2
<1> QED BY <1>3, <1>4 DEF Steps

LEMMA FlattensSome ==
    ASSUME NEW s, Len(s) \in Nat
    PROVE  \E f : Flattens(s, f)
<1> DEFINE G(m, f) == f = [i \in 1 .. m |-> IF i = 1 THEN s[i] ELSE f[i - 1] \o s[i]]
           T == {m \in Nat : \E f : G(m, f)}
<1>1. 0 \in T
  <2>1. G(0, [i \in 1 .. 0 |-> <<>>])
    OBVIOUS
  <2> QED BY <2>1
<1>2. ASSUME NEW m \in T PROVE m + 1 \in T
  <2>1. PICK f : G(m, f)
    OBVIOUS
  <2> DEFINE g == [i \in 1 .. m + 1 |-> IF i = 1 THEN s[i] ELSE f[i - 1] \o s[i]]
             h == [i \in 1 .. m + 1 |-> IF i = 1 THEN s[i] ELSE g[i - 1] \o s[i]]
  <2>2. ASSUME NEW i \in 1 .. m PROVE g[i] = f[i]
    <3>1. f[i] = IF i = 1 THEN s[i] ELSE f[i - 1] \o s[i]
      BY <2>1
    <3> QED BY <3>1
  <2>3. ASSUME NEW i \in 1 .. m + 1 PROVE g[i] = h[i]
    <3>1. i # 1 => i - 1 \in 1 .. m
      OBVIOUS
    <3> QED BY <2>2, <3>1
  <2>4. g = h
    BY <2>3
  <2>5. G(m + 1, g)
    BY <2>4
  <2> HIDE DEF G, g, h
  <2> QED BY <2>5
<1> HIDE DEF G
<1>3. T = Nat
  BY <1>1, <1>2, Induct
<1>4. \E f : G(Len(s), f)
  BY <1>3
<1> QED BY <1>4 DEF G, Flattens

LEMMA FlattenIsLast ==
    ASSUME NEW s, Len(s) \in Nat
    PROVE  \E f : Steps(s, f) /\ (Len(s) # 0 => FlattenSeq(s) = f[Len(s)])
<1>1. Flattens(s, CHOOSE f : Flattens(s, f))
  BY FlattensSome
<1>2. Len(s) # 0 => FlattenSeq(s) = (CHOOSE f : Flattens(s, f))[Len(s)]
  BY DEF FlattenSeq, Flattens
<1> QED BY <1>1, <1>2, FlattensSteps

LEMMA FlattensAgree ==
    ASSUME NEW s, NEW t, NEW f, NEW g, Steps(s, f), Steps(t, g),
           Len(s) \in Nat, Len(t) \in Nat, Len(s) <= Len(t),
           \A i \in 1 .. Len(s) : t[i] = s[i]
    PROVE  Len(s) # 0 => g[Len(s)] = f[Len(s)]
<1> DEFINE T == {m \in Nat : m \in 1 .. Len(s) => g[m] = f[m]}
<1>1. 0 \in T
  OBVIOUS
<1>2. ASSUME NEW m \in T PROVE m + 1 \in T
  <2> SUFFICES ASSUME m + 1 \in 1 .. Len(s) PROVE g[m + 1] = f[m + 1]
    OBVIOUS
  <2>1. t[m + 1] = s[m + 1] /\ m \in Nat /\ m < Len(s) /\ m < Len(t)
    OBVIOUS
  <2>2. CASE m = 0
    BY <2>1, <2>2 DEF Steps
  <2>3. CASE m # 0
    <3>1. f[m + 1] = f[m] \o s[m + 1]
      BY <2>1, <2>3 DEF Steps
    <3>2. g[m + 1] = g[m] \o t[m + 1]
      BY <2>1, <2>3 DEF Steps
    <3>3. g[m] = f[m]
      BY <2>1, <2>3
    <3> QED BY ONLY <2>1, <3>1, <3>2, <3>3, Zenon
  <2> QED BY <2>2, <2>3
<1>3. T = Nat
  BY <1>1, <1>2, Induct
<1> QED BY <1>3

(* One sequence more is appended.                                          *)
LEMMA FlattenAppend ==
    ASSUME NEW S, NEW s \in Seq(Seq(S)), NEW t \in Seq(Seq(S)), Len(t) = Len(s) + 1,
           \A i \in 1 .. Len(s) : t[i] = s[i]
    PROVE  FlattenSeq(t) = FlattenSeq(s) \o t[Len(t)]
<1>1. Len(s) \in Nat /\ Len(t) \in Nat /\ t[Len(t)] \in Seq(S) /\ Len(s) <= Len(t)
  BY LenProperties
<1>2. PICK f : Steps(s, f) /\ (Len(s) # 0 => FlattenSeq(s) = f[Len(s)])
  BY <1>1, FlattenIsLast
<1>3. PICK g : Steps(t, g) /\ FlattenSeq(t) = g[Len(t)]
  <2>1. PICK g : Steps(t, g) /\ (Len(t) # 0 => FlattenSeq(t) = g[Len(t)])
    BY <1>1, FlattenIsLast
  <2> QED BY <1>1, <2>1
<1>4. CASE Len(s) = 0
  <2>1. s = <<>> /\ FlattenSeq(s) = <<>>
    BY <1>4, EmptySeq DEF FlattenSeq
  <2>2. g[Len(t)] = t[Len(t)]
    BY <1>1, <1>3, <1>4 DEF Steps
  <2> QED BY <1>1, <1>3, <2>1, <2>2
<1>5. CASE Len(s) # 0
  <2>1. g[Len(t)] = g[Len(s)] \o t[Len(t)]
    <3>1. g[Len(s) + 1] = g[Len(s)] \o t[Len(s) + 1]
      <4>1. Len(s) \in Nat /\ Len(s) # 0 /\ Len(s) < Len(t)
        BY <1>1, <1>5
      <4> QED BY ONLY <1>3, <4>1, Zenon DEF Steps
    <3> QED BY ONLY <3>1, Len(t) = Len(s) + 1, Zenon
  <2>2. g[Len(s)] = f[Len(s)]
    BY <1>1, <1>2, <1>3, <1>5, FlattensAgree
  <2> QED BY <1>2, <1>3, <1>5, <2>1, <2>2
<1> QED BY <1>4, <1>5

LEMMA FlattenType == ASSUME NEW S, NEW s \in Seq(Seq(S)) PROVE FlattenSeq(s) \in Seq(S)
<1>1. Len(s) \in Nat
  BY LenProperties
<1>2. CASE Len(s) = 0
  BY <1>2, EmptySeq DEF FlattenSeq
<1>3. CASE Len(s) # 0
  <2>1. PICK f : Steps(s, f) /\ FlattenSeq(s) = f[Len(s)]
    BY <1>1, <1>3, FlattenIsLast
  <2> DEFINE T == {m \in Nat : m \in 1 .. Len(s) => f[m] \in Seq(S)}
  <2>2. 0 \in T
    OBVIOUS
  <2>3. ASSUME NEW m \in T PROVE m + 1 \in T
    <3> SUFFICES ASSUME m + 1 \in 1 .. Len(s) PROVE f[m + 1] \in Seq(S)
      OBVIOUS
    <3>1. s[m + 1] \in Seq(S) /\ m \in Nat /\ m < Len(s)
      BY ElementOfSeq
    <3>2. CASE m = 0
      BY <2>1, <3>1, <3>2 DEF Steps
    <3>3. CASE m # 0
      <4>1. f[m + 1] = f[m] \o s[m + 1]
        BY <2>1, <3>1, <3>3 DEF Steps
      <4> QED BY <3>1, <3>3, <4>1, ConcatProperties
    <3> QED BY <3>2, <3>3
  <2>4. T = Nat
    BY <2>2, <2>3, Induct
  <2> QED BY <1>1, <1>3, <2>1, <2>4
<1> QED BY <1>2, <1>3

----------------------------------------------------------------------------
(* What is sent of a message.                                              *)
LEMMA InParts ==
    ASSUME NEW s \in Seq(Bytes), NEW t \in Seq(Bytes), NEW u \in Seq(Bytes)
    PROVE  (s \o t) \o u = s \o (t \o u)
BY ConcatAssociative

LEMMA EncodedBytes ==
    ASSUME mail \in Seq(Bytes), NEW k \in 1 .. Len(mail)
    PROVE  Encoded(k) \in Seq(Bytes)
<1>1. mail[k] \in Bytes /\ "." \in Bytes
  BY ElementOfSeq DEF Bytes
<1>2. <<".", mail[k]>> \in Seq(Bytes) /\ <<mail[k]>> \in Seq(Bytes)
  BY <1>1
<1> QED BY <1>2 DEF Encoded

LEMMA StuffingType ==
    ASSUME mail \in Seq(Bytes), NEW i \in 0 .. Len(mail)
    PROVE  /\ [k \in 1 .. i |-> Encoded(k)] \in Seq(Seq(Bytes))
           /\ Stuffing(i) \in Seq(Bytes)
<1>1. Len(mail) \in Nat
  BY LenProperties
<1>2. \A k \in 1 .. i : Encoded(k) \in Seq(Bytes)
  BY <1>1, EncodedBytes
<1>3. [k \in 1 .. i |-> Encoded(k)] \in Seq(Seq(Bytes))
  BY <1>1, <1>2
<1> QED BY <1>3, FlattenType DEF Stuffing

LEMMA StuffingNext ==
    ASSUME mail \in Seq(Bytes), NEW i \in 0 .. Len(mail) - 1
    PROVE  Stuffing(i + 1) = Stuffing(i) \o Encoded(i + 1)
<1> DEFINE s == [k \in 1 .. i |-> Encoded(k)]
           t == [k \in 1 .. i + 1 |-> Encoded(k)]
<1>1. Len(mail) \in Nat /\ i \in 0 .. Len(mail) /\ i + 1 \in 0 .. Len(mail)
  BY LenProperties
<1>2. s \in Seq(Seq(Bytes)) /\ t \in Seq(Seq(Bytes))
  BY <1>1, StuffingType
<1>3. Len(s) = i /\ Len(t) = i + 1 /\ t[i + 1] = Encoded(i + 1)
  BY <1>1
<1>4. \A k \in 1 .. i : t[k] = s[k]
  BY <1>1
<1>5. Stuffing(i) = FlattenSeq(s) /\ Stuffing(i + 1) = FlattenSeq(t)
  BY DEF Stuffing
<1> HIDE DEF s, t
<1>6. Len(t) = Len(s) + 1 /\ \A k \in 1 .. Len(s) : t[k] = s[k]
  BY <1>3, <1>4
<1>7. FlattenSeq(t) = FlattenSeq(s) \o t[Len(t)]
  BY <1>2, <1>6, FlattenAppend
<1> QED BY ONLY <1>3, <1>5, <1>7, Zenon

LEMMA NothingStuffed == Stuffing(0) = <<>>
<1>1. [k \in 1 .. 0 |-> Encoded(k)] = <<>>
  OBVIOUS
<1> QED BY <1>1 DEF Stuffing, FlattenSeq

(* The handler decides by the flag, which knows.                           *)
LEMMA WrittenIsEncoded ==
    ASSUME crlf_flag = "LF" <=> BeginsLine(read_index + 1)
    PROVE  Written(mail[read_index + 1]) = Encoded(read_index + 1)
BY DEF Written, Stuffed, Encoded

Whole == Heading \o Stuffing(Len(mail)) \o end_msj
SoFar == Heading \o Stuffing(read_index)

(* The client's copy at every point of a transfer.                         *)
DeliveryInv ==
    /\ pc = "call" /\ is_finished => read_index = 0
    /\ ~dropped =>
        /\ pc = "idle" => got = <<>> \/ got = Whole
        /\ pc = "call" => got = IF is_finished THEN <<>> ELSE SoFar
        /\ pc = "copy" => got \o out = SoFar
        /\ pc = "send" => got \o out = IF is_finished THEN Whole ELSE SoFar

LEMMA SameSoFar ==
    ASSUME UNCHANGED <<mail, leak, read_index>>
    PROVE  SoFar' = SoFar
BY DEF SoFar, Stuffing, Encoded, BeginsLine, EndsLine

LEMMA SameWhole == ASSUME UNCHANGED <<mail, leak>> PROVE Whole' = Whole
BY DEF Whole, Stuffing, Encoded, BeginsLine, EndsLine

LEMMA BeginDelivers == ASSUME RetrInv, DeliveryInv, Begin PROVE DeliveryInv'
<1> USE RetrConstants
<1>1. out = <<>> /\ pc' = "copy" /\ SoFar' = SoFar /\ UNCHANGED <<got, dropped>>
  BY SameSoFar DEF RetrInv, Restarts, Begin
<1>2. ASSUME ~dropped PROVE got \o out' = SoFar
  <2>1. CASE is_finished
    <3>1. read_index = 0 /\ got = <<>> /\ out' = Put(<<>>, Heading)
      BY <1>1, <1>2, <2>1 DEF Begin, DeliveryInv
    <3>2. Len(<<>>) + Len(Heading) <= N
      BY EndLength, LenProperties
    <3>3. out' = <<>> \o Heading
      BY <3>1, <3>2 DEF Put
    <3>4. SoFar = Heading \o <<>>
      BY <3>1, NothingStuffed DEF SoFar
    <3> QED BY <3>1, <3>3, <3>4
  <2>2. CASE ~is_finished
    <3>1. got = SoFar /\ out' = <<>>
      BY <1>1, <1>2, <2>2 DEF DeliveryInv, Begin
    <3>2. got \in Seq(Bytes)
      BY DEF RetrInv, RetrTypeOK
    <3> QED BY <3>1, <3>2
  <2> QED BY <2>1, <2>2
<1> QED BY <1>1, <1>2 DEF DeliveryInv

LEMMA CopyDelivers == ASSUME RetrInv, DeliveryInv, Copy PROVE DeliveryInv'
<1> USE RetrConstants
<1> DEFINE i == read_index
           w == Written(mail[i + 1])
<1>1. /\ mail \in Seq(Bytes) /\ out \in Seq(Bytes) /\ got \in Seq(Bytes)
      /\ Len(mail) \in Nat /\ i \in 0 .. Len(mail) - 1 /\ pc = "copy" /\ pc' = "copy"
      /\ out' = Put(out, w) /\ dropped' = (dropped \/ Loses(out, w))
      /\ read_index' = i + 1 /\ UNCHANGED <<mail, got, leak>>
  BY LenProperties DEF RetrInv, RetrTypeOK, Copy
<1>2. w = Encoded(i + 1)
  BY <1>1, WrittenIsEncoded DEF RetrInv, FlagInv, Underway
<1>3. w \in Seq(Bytes) /\ Stuffing(i) \in Seq(Bytes) /\ Stuffing(i + 1) = Stuffing(i) \o w
  <2>1. i + 1 \in 1 .. Len(mail) /\ i \in 0 .. Len(mail)
    BY <1>1
  <2> QED BY <1>1, <1>2, <2>1, EncodedBytes, StuffingType, StuffingNext
<1>4. SoFar' = Heading \o Stuffing(i + 1)
  BY <1>1 DEF SoFar, Stuffing, Encoded, BeginsLine, EndsLine
<1> HIDE DEF w
<1>5. ASSUME ~dropped' PROVE got \o out' = Heading \o Stuffing(i + 1)
  <2>1. ~dropped /\ out' = out \o w
    <3>1. ~dropped /\ ~Loses(out, w)
      BY <1>1, <1>5, Zenon
    <3>2. Len(out) + Len(w) <= N
      BY <1>1, <3>1, <1>3, LenProperties DEF Loses
    <3> QED BY <1>1, <3>1, <3>2 DEF Put
  <2>2. got \o out = Heading \o Stuffing(i)
    BY <1>1, <2>1 DEF DeliveryInv, SoFar
  <2>3. got \o out' = (got \o out) \o w
    <3>1. (got \o out) \o w = got \o (out \o w)
      <4>1. got \in Seq(Bytes) /\ out \in Seq(Bytes) /\ w \in Seq(Bytes)
        BY <1>1, <1>3
      <4> QED BY <4>1, InParts
    <3> QED BY ONLY <2>1, <3>1, Zenon
  <2>4. (Heading \o Stuffing(i)) \o w = Heading \o (Stuffing(i) \o w)
    BY <1>3, ConcatAssociative
  <2> QED BY <1>3, <2>2, <2>3, <2>4, Zenon
<1> QED BY <1>1, <1>4, <1>5 DEF DeliveryInv

LEMMA FinishDelivers == ASSUME RetrInv, DeliveryInv, Finish PROVE DeliveryInv'
<1> USE RetrConstants
<1>1. /\ mail \in Seq(Bytes) /\ out \in Seq(Bytes) /\ got \in Seq(Bytes)
      /\ pc = "copy" /\ pc' = "send" /\ is_finished' /\ out' = Put(out, end_msj)
      /\ dropped' = (dropped \/ Loses(out, end_msj)) /\ UNCHANGED <<mail, got, leak>>
      /\ read_index = Len(mail)
  BY DEF RetrInv, RetrTypeOK, PieceFits, Finish
<1>2. Whole' = Whole
  BY <1>1, SameWhole
<1>3. ASSUME ~dropped' PROVE got \o out' = Whole
  <2>1. ~dropped /\ out' = out \o end_msj
    <3>1. ~dropped /\ ~Loses(out, end_msj)
      BY <1>1, <1>3, Zenon
    <3>2. Len(out) + Len(end_msj) <= N
      BY <1>1, <3>1, EndLength, LenProperties DEF Loses
    <3> QED BY <1>1, <3>1, <3>2 DEF Put
  <2>2. got \o out = Heading \o Stuffing(Len(mail))
    BY <1>1, <2>1 DEF DeliveryInv, SoFar
  <2>3. got \o out' = (got \o out) \o end_msj
    <3>1. (got \o out) \o end_msj = got \o (out \o end_msj)
      <4>1. got \in Seq(Bytes) /\ out \in Seq(Bytes) /\ end_msj \in Seq(Bytes)
        BY <1>1, EndLength
      <4> QED BY <4>1, InParts
    <3> QED BY ONLY <2>1, <3>1, Zenon
  <2> QED BY <2>2, <2>3 DEF Whole
<1> QED BY <1>1, <1>2, <1>3 DEF DeliveryInv

LEMMA SendDelivers == ASSUME RetrInv, DeliveryInv, Send PROVE DeliveryInv'
<1>1. Whole' = Whole /\ SoFar' = SoFar
  BY SameWhole, SameSoFar DEF Send
<1>2. pc = "send" /\ got' = got \o out /\ UNCHANGED <<is_finished, dropped>>
      /\ pc' = IF is_finished THEN "idle" ELSE "call"
  BY DEF Send
<1> QED BY <1>1, <1>2 DEF DeliveryInv

LEMMA NextDelivers == ASSUME RetrInv, DeliveryInv, [Next]_vars PROVE DeliveryInv'
<1>1. ASSUME NEW m \in Messages, Ask(m) PROVE DeliveryInv'
  BY <1>1 DEF RetrInv, Restarts, Underway, Ask, DeliveryInv
<1>2. ASSUME Suspend PROVE DeliveryInv'
  <2>1. SoFar' = SoFar
    BY <1>2, SameSoFar DEF Suspend
  <2> QED BY <1>2, <2>1 DEF Suspend, DeliveryInv
<1>3. ASSUME UNCHANGED vars PROVE DeliveryInv'
  <2>1. Whole' = Whole /\ SoFar' = SoFar
    BY <1>3, SameWhole, SameSoFar DEF vars
  <2> QED BY <1>3, <2>1 DEF vars, DeliveryInv
<1> QED
  BY <1>1, <1>2, <1>3, BeginDelivers, CopyDelivers, FinishDelivers, SendDelivers DEF Next, Server

LEMMA Delivery == Spec => []DeliveryInv
<1>1. Init => DeliveryInv
  BY DEF Init, DeliveryInv
<1>2. RetrInv /\ DeliveryInv /\ [Next]_vars => DeliveryInv'
  BY NextDelivers
<1> QED BY Invariance, <1>1, <1>2, PTL DEF Spec

(* While nothing was dropped, the client has the heading and the message,  *)
(* stuffed, as far as it was copied, and at last its end: no piece is      *)
(* repeated or left out, wherever the message is cut.                      *)
THEOREM MessageIsStuffed == Spec => []DeliveredIsStuffed
<1>1. DeliveryInv => DeliveredIsStuffed
  BY DEF DeliveryInv, DeliveredIsStuffed, SoFar, Whole
<1> QED BY Delivery, <1>1, PTL

----------------------------------------------------------------------------
(* What a client makes of it. Below, s ends a line after its first p bytes.*)
Returned(s, p) == p >= 2 /\ s[p - 1] = "r" /\ s[p] = "n"

LEMMA AfterReturn ==
    ASSUME NEW s \in Seq(Bytes), NEW p \in Int, p <= Len(s)
    PROVE  After(s, p, <<"r", "n">>) <=> Returned(s, p)
<1> DEFINE t == <<"r", "n">>
<1>1. Len(t) = 2 /\ t[1] = "r" /\ t[2] = "n" /\ t \in Seq(Bytes) /\ DOMAIN t = 1 .. 2
  BY DEF Bytes
<1> HIDE DEF t
<1>2. CASE p >= 2
  <2> DEFINE u == SubSeq(s, p - 1, p)
  <2>1. Len(s) \in Nat /\ p - 1 \in 1 .. Len(s) /\ p \in 1 .. Len(s)
    BY <1>2, LenProperties
  <2>2. u \in Seq(Bytes) /\ Len(u) = 2 /\ u[1] = s[p - 1] /\ u[2] = s[p]
    BY <2>1, <1>2
  <2>3. u = SubSeq(s, p - Len(t) + 1, p)
    BY <1>1
  <2> HIDE DEF u
  <2>4. u = t <=> u[1] = "r" /\ u[2] = "n"
    BY <1>1, <2>2
  <2> QED BY <1>1, <1>2, <2>2, <2>3, <2>4 DEF After, Returned, t
<1>3. CASE ~(p >= 2)
  BY <1>1, <1>3 DEF After, Returned, t
<1> QED BY <1>2, <1>3

LEMMA AfterEnd ==
    ASSUME NEW s \in Seq(Bytes), NEW p \in Int, p <= Len(s)
    PROVE  After(s, p, end_msj) <=>
             p >= 5 /\ Returned(s, p - 3) /\ s[p - 2] = "." /\ Returned(s, p)
<1>1. /\ Len(end_msj) = 5 /\ end_msj \in Seq(Bytes)
      /\ end_msj[1] = "r" /\ end_msj[2] = "n" /\ end_msj[3] = "." /\ end_msj[4] = "r" /\ end_msj[5] = "n"
  BY EndLength DEF end_msj
<1>2. CASE p >= 5
  <2> DEFINE u == SubSeq(s, p - 4, p)
  <2>1. Len(s) \in Nat /\ p - 4 \in 1 .. Len(s) /\ p \in 1 .. Len(s)
    BY <1>2, LenProperties
  <2>2. /\ u \in Seq(Bytes) /\ Len(u) = 5 /\ u[1] = s[p - 4] /\ u[2] = s[p - 3] /\ u[3] = s[p - 2]
        /\ u[4] = s[p - 1] /\ u[5] = s[p]
    BY <2>1, <1>2
  <2>3. u = SubSeq(s, p - Len(end_msj) + 1, p)
    BY <1>1
  <2> HIDE DEF u
  <2>4. u = end_msj <=> u[1] = "r" /\ u[2] = "n" /\ u[3] = "." /\ u[4] = "r" /\ u[5] = "n"
    <3> SUFFICES ASSUME u[1] = "r", u[2] = "n", u[3] = ".", u[4] = "r", u[5] = "n" PROVE u = end_msj
      BY <1>1
    <3>1. \A i \in 1 .. 5 : u[i] = end_msj[i]
      BY <1>1
    <3> QED BY <1>1, <2>2, <3>1, SeqEqual
  <2>5. p - 3 - 1 = p - 4 /\ p - 3 >= 2 /\ p >= 2
    BY <1>2
  <2> QED BY <1>1, <1>2, <2>2, <2>3, <2>4, <2>5 DEF After, Returned
<1>3. CASE ~(p >= 5)
  BY <1>1, <1>3 DEF After
<1> QED BY <1>2, <1>3

(* t is s and one byte more.                                               *)
Longer(t, s, e) ==
    /\ s \in Seq(Bytes) /\ t \in Seq(Bytes) /\ e \in Bytes
    /\ Len(s) \in Nat /\ Len(t) = Len(s) + 1 /\ t[Len(t)] = e
    /\ \A p \in 1 .. Len(s) : t[p] = s[p]

LEMMA AppendIsLonger ==
    ASSUME NEW s \in Seq(Bytes), NEW e \in Bytes PROVE Longer(Append(s, e), s, e)
BY AppendProperties, LenProperties DEF Longer

LEMMA LongerReturned ==
    ASSUME NEW t, NEW s, NEW e, Longer(t, s, e)
    PROVE  /\ \A p \in Int : p <= Len(s) => (Returned(t, p) <=> Returned(s, p))
           /\ Returned(t, Len(t)) <=> Len(s) # 0 /\ s[Len(s)] = "r" /\ e = "n"
<1>1. /\ Len(s) \in Nat /\ Len(t) = Len(s) + 1 /\ t[Len(t)] = e
      /\ \A p \in 1 .. Len(s) : t[p] = s[p]
  BY DEF Longer
<1>2. ASSUME NEW p \in Int, p <= Len(s) PROVE Returned(t, p) <=> Returned(s, p)
  <2>1. p >= 2 => p - 1 \in 1 .. Len(s) /\ p \in 1 .. Len(s)
    BY <1>1, <1>2
  <2> QED BY <1>1, <2>1 DEF Returned
<1>3. Len(t) - 1 = Len(s) /\ (Len(t) >= 2 <=> Len(s) # 0) /\ (Len(s) # 0 => Len(s) \in 1 .. Len(s))
  BY <1>1
<1> QED BY <1>1, <1>2, <1>3 DEF Returned

Kept(s, i) == IF s[i] = "." /\ After(s, i - 1, <<"r", "n">>) THEN <<>> ELSE <<s[i]>>

LEMMA KeptType == ASSUME NEW s \in Seq(Bytes) PROVE [i \in 1 .. Len(s) |-> Kept(s, i)] \in Seq(Seq(Bytes))
<1>1. Len(s) \in Nat
  BY LenProperties
<1>2. ASSUME NEW i \in 1 .. Len(s) PROVE Kept(s, i) \in Seq(Bytes)
  <2>1. s[i] \in Bytes
    BY ElementOfSeq
  <2>2. <<s[i]>> \in Seq(Bytes) /\ <<>> \in Seq(Bytes)
    BY <2>1
  <2> QED BY <2>2 DEF Kept
<1> QED BY <1>1, <1>2

(* A byte more is kept, unless it is a dot that begins a line.             *)
LEMMA UnstuffedLonger ==
    ASSUME NEW t, NEW s, NEW e, Longer(t, s, e)
    PROVE  /\ e = "." /\ Returned(s, Len(s)) => Unstuffed(t) = Unstuffed(s)
           /\ ~(e = "." /\ Returned(s, Len(s))) => Unstuffed(t) = Unstuffed(s) \o <<e>>
<1> DEFINE f == [i \in 1 .. Len(s) |-> Kept(s, i)]
           g == [i \in 1 .. Len(t) |-> Kept(t, i)]
<1>1. /\ s \in Seq(Bytes) /\ t \in Seq(Bytes) /\ Len(s) \in Nat /\ Len(t) = Len(s) + 1
      /\ t[Len(t)] = e /\ \A p \in 1 .. Len(s) : t[p] = s[p]
  BY DEF Longer
<1>2. f \in Seq(Seq(Bytes)) /\ g \in Seq(Seq(Bytes)) /\ Len(f) = Len(s) /\ Len(g) = Len(f) + 1
  BY <1>1, KeptType
<1>3. ASSUME NEW i \in 1 .. Len(t) PROVE After(t, i - 1, <<"r", "n">>) <=> Returned(s, i - 1)
  <2>1. i - 1 \in Int /\ i - 1 <= Len(t) /\ i - 1 <= Len(s)
    BY <1>1
  <2> QED BY <1>1, <2>1, AfterReturn, LongerReturned
<1>4. ASSUME NEW i \in 1 .. Len(f) PROVE g[i] = f[i]
  <2>1. i - 1 \in Int /\ i - 1 <= Len(s) /\ i \in 1 .. Len(t) /\ i \in 1 .. Len(s)
    BY <1>1, <1>2
  <2>2. After(t, i - 1, <<"r", "n">>) <=> After(s, i - 1, <<"r", "n">>)
    BY <1>1, <1>3, <2>1, AfterReturn
  <2>3. Kept(t, i) = Kept(s, i)
    BY <1>1, <2>1, <2>2 DEF Kept
  <2> QED BY <2>1, <2>3
<1>5. Unstuffed(s) = FlattenSeq(f) /\ Unstuffed(t) = FlattenSeq(g)
  BY DEF Unstuffed, Kept
<1>6. g[Len(g)] = Kept(t, Len(t)) /\ Len(t) - 1 = Len(s) /\ Len(t) \in 1 .. Len(t)
  BY <1>1, <1>2
<1> HIDE DEF f, g
<1>7. Unstuffed(t) = Unstuffed(s) \o Kept(t, Len(t))
  <2>1. FlattenSeq(g) = FlattenSeq(f) \o g[Len(g)]
    BY <1>2, <1>4, FlattenAppend
  <2> QED BY ONLY <1>5, <1>6, <2>1, Zenon
<1>8. Unstuffed(s) \in Seq(Bytes)
  BY <1>2, <1>5, FlattenType
<1>9. After(t, Len(t) - 1, <<"r", "n">>) <=> Returned(s, Len(s))
  BY <1>3, <1>6
<1>10. CASE e = "." /\ Returned(s, Len(s))
  <2>1. Kept(t, Len(t)) = <<>>
    BY <1>1, <1>9, <1>10 DEF Kept
  <2>2. Unstuffed(s) \o <<>> = Unstuffed(s)
    BY <1>8
  <2> QED BY ONLY <1>7, <1>10, <2>1, <2>2, Zenon
<1>11. CASE ~(e = "." /\ Returned(s, Len(s)))
  <2>1. Kept(t, Len(t)) = <<e>>
    BY <1>1, <1>9, <1>11 DEF Kept
  <2> QED BY ONLY <1>7, <1>11, <2>1, Zenon
<1> QED BY <1>10, <1>11

(* s is what is sent of the first i bytes of a message: the client gets    *)
(* them back, and a dot that begins a line is never alone.                 *)
Doubled(s) == \A p \in 1 .. Len(s) : s[p] = "." /\ Returned(s, p - 1) => p < Len(s) /\ s[p + 1] = "."

Decodes(s, i) ==
    /\ s \in Seq(Bytes)
    /\ Unstuffed(s) = SubSeq(mail, 1, i)
    /\ Len(s) = 0 <=> i = 0
    /\ i # 0 => s[Len(s)] = mail[i]
    /\ Returned(s, Len(s)) <=> Returned(mail, i)
    /\ Doubled(s)

LEMMA PrefixLonger ==
    ASSUME mail \in Seq(Bytes), NEW i \in 0 .. Len(mail) - 1
    PROVE  SubSeq(mail, 1, i + 1) = SubSeq(mail, 1, i) \o <<mail[i + 1]>>
<1>1. Len(mail) \in Nat /\ mail[i + 1] \in Bytes
  BY LenProperties, ElementOfSeq
<1>2. /\ SubSeq(mail, 1, i) \in Seq(Bytes) /\ SubSeq(mail, 1, i + 1) \in Seq(Bytes)
      /\ Len(SubSeq(mail, 1, i)) = i /\ Len(SubSeq(mail, 1, i + 1)) = i + 1
      /\ \A k \in 1 .. i : SubSeq(mail, 1, i)[k] = mail[k]
      /\ \A k \in 1 .. i + 1 : SubSeq(mail, 1, i + 1)[k] = mail[k]
  BY <1>1
<1> DEFINE s == SubSeq(mail, 1, i)
           t == SubSeq(mail, 1, i + 1)
           u == s \o <<mail[i + 1]>>
<1> HIDE DEF s, t
<1>3. s \in Seq(Bytes) /\ Len(s) = i /\ <<mail[i + 1]>> \in Seq(Bytes)
  BY <1>1, <1>2 DEF s
<1>4. u \in Seq(Bytes) /\ Len(u) = i + 1 /\ \A k \in 1 .. i + 1 : u[k] = IF k = i + 1 THEN mail[k] ELSE s[k]
  BY <1>3, ConcatProperties
<1> HIDE DEF u
<1>5. ASSUME NEW k \in 1 .. i + 1 PROVE t[k] = u[k]
  <2>1. k = i + 1 \/ k \in 1 .. i
    OBVIOUS
  <2> QED BY <1>2, <1>4, <2>1 DEF s, t
<1>6. t \in Seq(Bytes) /\ Len(t) = i + 1
  BY <1>2 DEF t
<1>7. t = u
  BY <1>4, <1>5, <1>6, SeqEqual
<1> QED BY <1>7 DEF t, u, s

LEMMA BareDecodes ==
    ASSUME mail \in Seq(Bytes), NEW i \in 0 .. Len(mail) - 1, NEW s, Decodes(s, i),
           NEW t, Longer(t, s, mail[i + 1]), ~(mail[i + 1] = "." /\ Returned(s, Len(s)))
    PROVE  Decodes(t, i + 1)
<1> DEFINE e == mail[i + 1]
<1>1. /\ s \in Seq(Bytes) /\ t \in Seq(Bytes) /\ Len(s) \in Nat /\ Len(t) = Len(s) + 1
      /\ t[Len(t)] = e /\ \A p \in 1 .. Len(s) : t[p] = s[p]
  BY DEF Longer
<1>2. /\ \A p \in Int : p <= Len(s) => (Returned(t, p) <=> Returned(s, p))
      /\ Returned(t, Len(t)) <=> Len(s) # 0 /\ s[Len(s)] = "r" /\ e = "n"
  BY LongerReturned
<1>3. Unstuffed(t) = SubSeq(mail, 1, i + 1)
  <2>1. Unstuffed(t) = Unstuffed(s) \o <<mail[i + 1]>>
    BY UnstuffedLonger
  <2>2. Unstuffed(s) = SubSeq(mail, 1, i)
    BY DEF Decodes
  <2>3. SubSeq(mail, 1, i + 1) = SubSeq(mail, 1, i) \o <<mail[i + 1]>>
    BY PrefixLonger
  <2> QED BY ONLY <2>1, <2>2, <2>3, Zenon
<1>4. Returned(mail, i + 1) <=> i # 0 /\ mail[i] = "r" /\ e = "n"
  <2>1. i + 1 - 1 = i /\ (i + 1 >= 2 <=> i # 0)
    OBVIOUS
  <2> QED BY <2>1 DEF Returned
<1>5. Returned(t, Len(t)) <=> Returned(mail, i + 1)
  BY <1>2, <1>4 DEF Decodes
<1>6. Doubled(t)
  <2> SUFFICES ASSUME NEW p \in 1 .. Len(t), t[p] = ".", Returned(t, p - 1)
               PROVE  p < Len(t) /\ t[p + 1] = "."
    BY DEF Doubled
  <2>1. Returned(s, p - 1)
    BY <1>1, <1>2
  <2>2. CASE p = Len(t)
    BY <1>1, <2>1, <2>2
  <2>3. CASE p # Len(t)
    <3>1. p \in 1 .. Len(s) /\ s[p] = "."
      BY <1>1, <2>3
    <3>2. p < Len(s) /\ s[p + 1] = "."
      BY <2>1, <3>1 DEF Decodes, Doubled
    <3>3. p + 1 \in 1 .. Len(s)
      BY <1>1, <3>2
    <3> QED BY <1>1, <3>2, <3>3
  <2> QED BY <2>2, <2>3
<1>7. (Len(t) = 0 <=> i + 1 = 0) /\ i + 1 # 0
  BY <1>1
<1> QED BY <1>1, <1>3, <1>5, <1>6, <1>7 DEF Decodes

LEMMA StuffedDecodes ==
    ASSUME mail \in Seq(Bytes), NEW i \in 0 .. Len(mail) - 1, NEW s, Decodes(s, i),
           mail[i + 1] = ".", Returned(s, Len(s)),
           NEW v, Longer(v, s, "."), NEW t, Longer(t, v, ".")
    PROVE  Decodes(t, i + 1)
<1>1. /\ s \in Seq(Bytes) /\ v \in Seq(Bytes) /\ Len(s) \in Nat /\ Len(v) = Len(s) + 1
      /\ v[Len(v)] = "." /\ \A p \in 1 .. Len(s) : v[p] = s[p]
  BY DEF Longer
<1>2. /\ t \in Seq(Bytes) /\ Len(t) = Len(v) + 1
      /\ t[Len(t)] = "." /\ \A p \in 1 .. Len(v) : t[p] = v[p]
  BY DEF Longer
<1>3. /\ \A p \in Int : p <= Len(s) => (Returned(v, p) <=> Returned(s, p))
      /\ ~Returned(v, Len(v))
  <2>1. Returned(v, Len(v)) <=> Len(s) # 0 /\ s[Len(s)] = "r" /\ "." = "n"
    BY LongerReturned
  <2>2. \A p \in Int : p <= Len(s) => (Returned(v, p) <=> Returned(s, p))
    BY LongerReturned
  <2> QED BY <2>1, <2>2
<1>4. /\ \A p \in Int : p <= Len(v) => (Returned(t, p) <=> Returned(v, p))
      /\ ~Returned(t, Len(t))
  <2>1. Returned(t, Len(t)) <=> Len(v) # 0 /\ v[Len(v)] = "r" /\ "." = "n"
    BY LongerReturned
  <2>2. \A p \in Int : p <= Len(v) => (Returned(t, p) <=> Returned(v, p))
    BY LongerReturned
  <2> QED BY <2>1, <2>2
<1>5. Unstuffed(t) = SubSeq(mail, 1, i + 1)
  <2>1. Unstuffed(v) = Unstuffed(s)
    BY UnstuffedLonger
  <2>2. Unstuffed(t) = Unstuffed(v) \o <<".">>
    BY <1>3, UnstuffedLonger
  <2>3. Unstuffed(s) = SubSeq(mail, 1, i)
    BY DEF Decodes
  <2>4. SubSeq(mail, 1, i + 1) = SubSeq(mail, 1, i) \o <<mail[i + 1]>>
    BY PrefixLonger
  <2>5. mail[i + 1] = "."
    OBVIOUS
  <2> QED BY ONLY <2>1, <2>2, <2>3, <2>4, <2>5, Zenon
<1>6. ~Returned(mail, i + 1)
  BY DEF Returned
<1>7. Doubled(t)
  <2> SUFFICES ASSUME NEW p \in 1 .. Len(t), t[p] = ".", Returned(t, p - 1)
               PROVE  p < Len(t) /\ t[p + 1] = "."
    BY DEF Doubled
  <2>1. Returned(v, p - 1)
    BY <1>1, <1>2, <1>4
  <2>2. p # Len(t)
    BY <1>1, <1>2, <1>3, <2>1
  <2>3. CASE p = Len(v)
    BY <1>1, <1>2, <2>3
  <2>4. CASE p # Len(v)
    <3>1. p \in 1 .. Len(s) /\ s[p] = "."
      BY <1>1, <1>2, <2>2, <2>4
    <3>2. Returned(s, p - 1)
      BY <1>1, <1>3, <2>1, <3>1
    <3>3. p < Len(s) /\ s[p + 1] = "."
      BY <3>1, <3>2 DEF Decodes, Doubled
    <3>4. p + 1 \in 1 .. Len(s) /\ p + 1 \in 1 .. Len(v)
      BY <1>1, <3>1, <3>3
    <3> QED BY <1>1, <1>2, <3>3, <3>4
  <2> QED BY <2>3, <2>4
<1>8. (Len(t) = 0 <=> i + 1 = 0) /\ i + 1 # 0
  BY <1>1, <1>2
<1> QED BY <1>2, <1>4, <1>5, <1>6, <1>7, <1>8 DEF Decodes

(* In a plain message only the end of a line makes the next dot one to     *)
(* stuff.                                                                  *)
LEMMA PlainBegins ==
    ASSUME mail \in Seq(Bytes), Plain(mail), NEW i \in 0 .. Len(mail) - 1, mail[i + 1] = "."
    PROVE  BeginsLine(i + 1) <=> Returned(mail, i)
<1>1. Len(mail) \in Nat /\ mail # <<>> /\ mail[1] # "." /\ mail[1] # "n" /\ 1 \in 1 .. Len(mail)
  BY LenProperties DEF Plain
<1>2. ASSUME Returned(mail, i) PROVE BeginsLine(i + 1)
  <2>1. i \in 1 .. i + 1 - 1 /\ i # 1 /\ \A k \in i + 1 .. i + 1 - 1 : FALSE
    BY <1>2 DEF Returned
  <2>2. EndsLine(i)
    BY <1>2, <2>1 DEF EndsLine, Returned
  <2> QED BY <2>1, <2>2 DEF BeginsLine
<1>3. ASSUME BeginsLine(i + 1) PROVE Returned(mail, i)
  <2>1. ~(\A k \in 1 .. i + 1 - 1 : mail[k] = ".")
    <3>1. CASE i = 0
      BY <1>1, <3>1
    <3>2. CASE i # 0
      <4>1. 1 \in 1 .. i + 1 - 1
        BY <3>2
      <4> QED BY <1>1, <4>1
    <3> QED BY <3>1, <3>2
  <2>2. PICK j \in 1 .. i + 1 - 1 : EndsLine(j) /\ \A k \in j + 1 .. i + 1 - 1 : mail[k] = "."
    BY <1>3, <2>1 DEF BeginsLine
  <2>3. j \in 1 .. i /\ j # 1 /\ mail[j] = "n" /\ mail[j - 1] = "r"
    BY <1>1, <2>2 DEF EndsLine
  <2>4. j = i
    <3> SUFFICES ASSUME j # i PROVE FALSE
      OBVIOUS
    <3>1. j + 1 \in j + 1 .. i + 1 - 1 /\ (j + 2 = i + 1 \/ j + 2 \in j + 1 .. i + 1 - 1)
      BY <2>3
    <3>2. mail[j + 1] = "." /\ mail[j + 2] = "."
      BY <2>2, <3>1
    <3> DEFINE u == SubSeq(mail, j - 1, j - 1 + 3)
               v == <<"r", "n", ".", ".">>
    <3>3. j - 1 \in 1 .. Len(mail) - 3
      BY <1>1, <2>3
    <3>4. /\ u \in Seq(Bytes) /\ Len(u) = 4 /\ u[1] = mail[j - 1] /\ u[2] = mail[j]
          /\ u[3] = mail[j + 1] /\ u[4] = mail[j + 2]
      BY <1>1, <2>3, <3>3
    <3>5. v \in Seq(Bytes) /\ Len(v) = 4 /\ v[1] = "r" /\ v[2] = "n" /\ v[3] = "." /\ v[4] = "."
      BY DEF Bytes
    <3>6. u # v
      BY <3>3 DEF Plain
    <3> HIDE DEF u, v
    <3>7. \A k \in 1 .. 4 : u[k] = v[k]
      BY <2>3, <3>2, <3>4, <3>5
    <3> QED BY <3>4, <3>5, <3>6, <3>7, SeqEqual
  <2> QED BY <2>3, <2>4 DEF Returned
<1> QED BY <1>2, <1>3

LEMMA NextDecodes ==
    ASSUME mail \in Seq(Bytes), Plain(mail), NEW i \in 0 .. Len(mail) - 1, Decodes(Stuffing(i), i)
    PROVE  Decodes(Stuffing(i + 1), i + 1)
<1> DEFINE s == Stuffing(i)
           e == mail[i + 1]
<1>1. Stuffing(i + 1) = s \o Encoded(i + 1)
  BY StuffingNext
<1>2. s \in Seq(Bytes) /\ e \in Bytes /\ "." \in Bytes
  BY LenProperties, ElementOfSeq DEF Decodes, Bytes
<1>3. e = "." => (BeginsLine(i + 1) <=> Returned(s, Len(s)))
  BY PlainBegins DEF Decodes
<1> HIDE DEF s
<1>4. CASE ~(e = "." /\ BeginsLine(i + 1))
  <2>1. Encoded(i + 1) = <<e>>
    BY <1>4 DEF Encoded
  <2>2. s \o <<e>> = Append(s, e)
    BY <1>2
  <2>3. Stuffing(i + 1) = Append(s, e)
    BY ONLY <1>1, <2>1, <2>2, Zenon
  <2>4. Longer(Append(s, e), s, e)
    BY <1>2, AppendIsLonger
  <2>5. Decodes(s, i) /\ ~(e = "." /\ Returned(s, Len(s)))
    BY <1>3, <1>4 DEF s
  <2>6. Decodes(Append(s, e), i + 1)
    BY <2>4, <2>5, BareDecodes
  <2> QED BY ONLY <2>3, <2>6, Zenon
<1>5. CASE e = "." /\ BeginsLine(i + 1)
  <2> DEFINE v == Append(s, ".")
             t == Append(v, ".")
  <2>1. Encoded(i + 1) = <<".", ".">>
    BY <1>5 DEF Encoded
  <2>2. s \o <<".", ".">> = t
    BY <1>2
  <2>3. Stuffing(i + 1) = t
    BY ONLY <1>1, <2>1, <2>2, Zenon
  <2>4. Longer(v, s, ".")
    BY <1>2, AppendIsLonger
  <2>5. v \in Seq(Bytes)
    BY <2>4 DEF Longer
  <2> HIDE DEF v
  <2>6. Longer(t, v, ".")
    BY <1>2, <2>5, AppendIsLonger
  <2>7. Decodes(s, i) /\ e = "." /\ Returned(s, Len(s))
    BY <1>3, <1>5 DEF s
  <2> HIDE DEF t
  <2>8. Decodes(t, i + 1)
    BY <2>4, <2>6, <2>7, StuffedDecodes
  <2> QED BY ONLY <2>3, <2>8, Zenon
<1> QED BY <1>4, <1>5

LEMMA NothingDecodes ==
    ASSUME mail \in Seq(Bytes)
    PROVE  Decodes(<<>>, 0)
<1>1. <<>> \in Seq(Bytes) /\ Len(<<>>) = 0 /\ SubSeq(mail, 1, 0) = <<>>
  OBVIOUS
<1>2. Unstuffed(<<>>) = <<>>
  <2>1. [i \in 1 .. Len(<<>>) |-> Kept(<<>>, i)] = <<>>
    OBVIOUS
  <2>2. Unstuffed(<<>>) = FlattenSeq([i \in 1 .. Len(<<>>) |-> Kept(<<>>, i)])
    BY DEF Unstuffed, Kept
  <2>3. FlattenSeq(<<>>) = <<>>
    BY DEF FlattenSeq
  <2> QED BY ONLY <2>1, <2>2, <2>3, Zenon
<1>3. Doubled(<<>>) /\ ~Returned(<<>>, Len(<<>>)) /\ ~Returned(mail, 0)
  BY DEF Doubled, Returned
<1> QED BY <1>1, <1>2, <1>3 DEF Decodes

LEMMA StuffingDecodes ==
    ASSUME mail \in Seq(Bytes), Plain(mail)
    PROVE  Decodes(Stuffing(Len(mail)), Len(mail))
<1> DEFINE T == {i \in Nat : i <= Len(mail) => Decodes(Stuffing(i), i)}
<1>1. Len(mail) \in Nat
  BY LenProperties
<1>2. 0 \in T
  <2>1. Decodes(Stuffing(0), 0)
    BY ONLY NothingDecodes, NothingStuffed, mail \in Seq(Bytes), Zenon
  <2> QED BY <2>1
<1>3. ASSUME NEW i \in T PROVE i + 1 \in T
  <2> SUFFICES ASSUME i + 1 <= Len(mail) PROVE Decodes(Stuffing(i + 1), i + 1)
    OBVIOUS
  <2>1. i \in 0 .. Len(mail) - 1 /\ Decodes(Stuffing(i), i)
    BY <1>1
  <2> QED BY <2>1, NextDecodes
<1>4. T = Nat
  BY <1>2, <1>3, Induct
<1> QED BY <1>1, <1>4

(* With its end after it, the client sees that one end, and takes from     *)
(* what comes before it the message and the end of a line.                 *)
EndsAt(b) == {p \in 1 .. Len(b) : After(b, p, end_msj)}

LEMMA Joined ==
    ASSUME NEW s \in Seq(Bytes), NEW e \in Seq(Bytes)
    PROVE  /\ s \o e \in Seq(Bytes)
           /\ Len(s \o e) = Len(s) + Len(e)
           /\ \A p \in 1 .. Len(s) : (s \o e)[p] = s[p]
           /\ \A j \in 1 .. Len(e) : (s \o e)[Len(s) + j] = e[j]
<1>1. Len(s) \in Nat /\ Len(e) \in Nat
  BY LenProperties
<1> QED BY <1>1, ConcatProperties

LEMMA WithItsEnd ==
    ASSUME NEW s \in Seq(Bytes)
    PROVE  LET b == s \o end_msj  k == Len(s) IN
           /\ b \in Seq(Bytes) /\ Len(b) = k + 5
           /\ \A p \in 1 .. k : b[p] = s[p]
           /\ b[k + 1] = "r" /\ b[k + 2] = "n" /\ b[k + 3] = "." /\ b[k + 4] = "r" /\ b[k + 5] = "n"
<1> DEFINE b == s \o end_msj
           k == Len(s)
<1>1. /\ b \in Seq(Bytes) /\ Len(b) = k + Len(end_msj)
      /\ \A p \in 1 .. k : b[p] = s[p]
      /\ \A j \in 1 .. Len(end_msj) : b[k + j] = end_msj[j]
  BY EndLength, Joined
<1> HIDE DEF b
<1>2. /\ end_msj[1] = "r" /\ end_msj[2] = "n" /\ end_msj[3] = "." /\ end_msj[4] = "r" /\ end_msj[5] = "n"
  BY DEF end_msj
<1>3. /\ b[k + 1] = "r" /\ b[k + 2] = "n" /\ b[k + 3] = "." /\ b[k + 4] = "r" /\ b[k + 5] = "n"
  BY <1>1, <1>2, EndLength
<1> QED BY <1>1, <1>3, EndLength DEF b

LEMMA OneEnd ==
    ASSUME NEW s \in Seq(Bytes), Doubled(s)
    PROVE  EndsAt(s \o end_msj) = {Len(s \o end_msj)}
<1> DEFINE b == s \o end_msj
           L == Len(s)
<1>1. L \in Nat
  BY LenProperties
<1>2. b \in Seq(Bytes) /\ Len(b) = L + 5
  BY WithItsEnd
<1>3. /\ b[L + 1] = "r" /\ b[L + 2] = "n" /\ b[L + 3] = "." /\ b[L + 4] = "r" /\ b[L + 5] = "n"
      /\ \A p \in 1 .. L : b[p] = s[p]
  BY WithItsEnd
<1> HIDE DEF b
<1>4. ASSUME NEW p \in 1 .. Len(b)
      PROVE  After(b, p, end_msj) <=>
               p >= 5 /\ Returned(b, p - 3) /\ b[p - 2] = "." /\ Returned(b, p)
  <2>1. p \in Int /\ p <= Len(b)
    BY <1>2
  <2> QED BY <1>2, <2>1, AfterEnd
<1>5. Len(b) \in EndsAt(b)
  <2>1. L + 5 \in 1 .. Len(b) /\ L + 5 >= 5 /\ L + 5 - 3 = L + 2 /\ L + 5 - 2 = L + 3
        /\ L + 2 - 1 = L + 1 /\ L + 5 - 1 = L + 4
    BY <1>1, <1>2
  <2>2. Returned(b, L + 2) /\ Returned(b, L + 5)
    BY <1>1, <1>3, <2>1 DEF Returned
  <2> QED BY <1>2, <1>3, <1>4, <2>1, <2>2 DEF EndsAt
<1>6. ASSUME NEW p \in EndsAt(b) PROVE p = Len(b)
  <2> SUFFICES ASSUME p # L + 5 PROVE FALSE
    BY <1>2
  <2>1. p \in 1 .. Len(b) /\ p >= 5 /\ Returned(b, p - 3) /\ b[p - 2] = "." /\ Returned(b, p)
    BY <1>4, <1>6 DEF EndsAt
  <2>2. b[p] = "n" /\ b[p - 1] = "r"
    BY <2>1 DEF Returned
  <2>3. p \in 1 .. L \/ p = L + 2
    BY <1>1, <1>2, <1>3, <2>1, <2>2
  <2>4. p - 2 \in 1 .. L /\ p - 3 \in 1 .. L /\ p - 3 - 1 \in 1 .. L
    BY <1>1, <2>1, <2>3
  <2>5. s[p - 2] = "." /\ Returned(s, p - 2 - 1)
    <3>1. p - 2 - 1 = p - 3
      BY <2>1
    <3> QED BY <1>3, <2>1, <2>4, <3>1 DEF Returned
  <2>6. p - 2 < L /\ s[p - 2 + 1] = "."
    BY <2>4, <2>5 DEF Doubled
  <2>7. p - 2 + 1 = p - 1 /\ p - 1 \in 1 .. L
    BY <1>1, <2>1, <2>6
  <2> QED BY <1>3, <2>2, <2>6, <2>7
<1> QED BY <1>5, <1>6 DEF b

LEMMA EndIsCut ==
    ASSUME NEW s \in Seq(Bytes)
    PROVE  SubSeq(s \o end_msj, 1, Len(s \o end_msj) - 3) = Append(Append(s, "r"), "n")
<1> DEFINE b == s \o end_msj
           L == Len(s)
           u == SubSeq(b, 1, L + 2)
           v == Append(s, "r")
           t == Append(v, "n")
<1>1. L \in Nat /\ "r" \in Bytes /\ "n" \in Bytes
  BY LenProperties DEF Bytes
<1>2. b \in Seq(Bytes) /\ Len(b) = L + 5
  BY WithItsEnd
<1>3. b[L + 1] = "r" /\ b[L + 2] = "n" /\ \A p \in 1 .. L : b[p] = s[p]
  BY WithItsEnd
<1> HIDE DEF b
<1>4. u \in Seq(Bytes) /\ Len(u) = L + 2 /\ \A p \in 1 .. L + 2 : u[p] = b[p]
  BY <1>1, <1>2
<1>5. Longer(v, s, "r") /\ v \in Seq(Bytes) /\ Len(v) = L + 1
  BY <1>1, AppendIsLonger DEF Longer
<1> HIDE DEF v, u
<1>6. Longer(t, v, "n")
  BY <1>1, <1>5, AppendIsLonger
<1>7. t \in Seq(Bytes) /\ Len(t) = L + 2 /\ t[L + 2] = "n" /\ \A p \in 1 .. L + 1 : t[p] = v[p]
  BY <1>1, <1>5, <1>6 DEF Longer
<1> HIDE DEF t
<1>8. v[L + 1] = "r" /\ \A p \in 1 .. L : v[p] = s[p]
  BY <1>5 DEF Longer
<1>9. ASSUME NEW p \in 1 .. L + 2 PROVE u[p] = t[p]
  <2>1. p \in 1 .. L \/ p = L + 1 \/ p = L + 2
    BY <1>1
  <2> QED BY <1>1, <1>3, <1>4, <1>7, <1>8, <2>1
<1>10. u = t
  BY <1>4, <1>7, <1>9, SeqEqual
<1>11. Len(b) - 3 = L + 2
  BY <1>1, <1>2
<1> QED BY <1>10, <1>11 DEF b, u, t, v

LEMMA ReadBack ==
    ASSUME NEW s \in Seq(Bytes), mail \in Seq(Bytes), Unstuffed(s) = mail
    PROVE  Unstuffed(Append(Append(s, "r"), "n")) = mail \o <<"r", "n">>
<1> DEFINE v == Append(s, "r")
           t == Append(v, "n")
<1>1. "r" \in Bytes /\ "n" \in Bytes
  BY DEF Bytes
<1>2. Longer(v, s, "r") /\ v \in Seq(Bytes)
  BY <1>1, AppendIsLonger DEF Longer
<1>3. Unstuffed(v) = Unstuffed(s) \o <<"r">>
  BY <1>2, UnstuffedLonger
<1> HIDE DEF v
<1>4. Longer(t, v, "n")
  BY <1>1, <1>2, AppendIsLonger
<1>5. Unstuffed(t) = Unstuffed(v) \o <<"n">>
  BY <1>4, UnstuffedLonger
<1>6. (mail \o <<"r">>) \o <<"n">> = mail \o <<"r", "n">>
  BY <1>1
<1>7. Unstuffed(s) = mail
  OBVIOUS
<1> QED BY ONLY <1>3, <1>5, <1>6, <1>7, Zenon DEF v

LEMMA BodyIsRest ==
    ASSUME NEW b \in Seq(Bytes), NEW h \in Seq(Bytes)
    PROVE  SubSeq(h \o b, Len(h) + 1, Len(h \o b)) = b
<1> DEFINE g == h \o b
           u == SubSeq(g, Len(h) + 1, Len(g))
<1>1. Len(h) \in Nat /\ Len(b) \in Nat
  BY LenProperties
<1>2. /\ g \in Seq(Bytes) /\ Len(g) = Len(h) + Len(b)
      /\ \A i \in 1 .. Len(b) : g[Len(h) + i] = b[i]
  BY <1>1, ConcatProperties
<1> HIDE DEF g
<1>3. /\ u \in Seq(Bytes) /\ Len(u) = Len(b)
      /\ \A i \in 1 .. Len(b) : u[i] = g[Len(h) + i]
  BY <1>1, <1>2
<1> HIDE DEF u
<1>4. u = b
  BY <1>2, <1>3, SeqEqual
<1> QED BY <1>4 DEF u, g

(* The client gets a plain message back, and sees one end, if no byte was  *)
(* dropped: the stuffing, the cut in pieces and the flag between them lose *)
(* nothing and make no end of what is not.                                 *)
THEOREM MessageComesBack == Spec => []MessageIsDecoded
<1>1. ASSUME RetrInv, DeliveryInv PROVE MessageIsDecoded
  <2> SUFFICES ASSUME pc = "idle", got # <<>>, ~dropped, Plain(mail)
               PROVE  /\ Ends = {Len(Body)}
                      /\ Unstuffed(SubSeq(Body, 1, Len(Body) - 3)) = mail \o <<"r", "n">>
    BY DEF MessageIsDecoded
  <2> DEFINE s == Stuffing(Len(mail))
  <2>1. got = Whole
    BY <1>1 DEF DeliveryInv
  <2>2. mail \in Seq(Bytes) /\ Heading \in Seq(Bytes) /\ end_msj \in Seq(Bytes) /\ Len(mail) \in Nat
    BY <1>1, EndLength, RetrConstants, LenProperties DEF RetrInv, RetrTypeOK
  <2>3. Decodes(s, Len(mail))
    BY <2>2, StuffingDecodes
  <2>4. s \in Seq(Bytes) /\ Doubled(s) /\ Unstuffed(s) = SubSeq(mail, 1, Len(mail))
    BY <2>3 DEF Decodes
  <2>5. SubSeq(mail, 1, Len(mail)) = mail
    BY <2>2
  <2> HIDE DEF s
  <2>6. s \o end_msj \in Seq(Bytes)
    BY <2>2, <2>4, ConcatProperties
  <2>7. Whole = Heading \o (s \o end_msj)
    <3>1. (Heading \o s) \o end_msj = Heading \o (s \o end_msj)
      BY <2>2, <2>4, InParts
    <3> QED BY <3>1 DEF Whole, s
  <2>8. Body = s \o end_msj
    <3>1. SubSeq(Heading \o (s \o end_msj), Len(Heading) + 1, Len(Heading \o (s \o end_msj))) = s \o end_msj
      BY <2>2, <2>6, BodyIsRest
    <3> QED BY ONLY <2>1, <2>7, <3>1, Zenon DEF Body
  <2>9. EndsAt(s \o end_msj) = {Len(s \o end_msj)}
    BY <2>4, OneEnd
  <2>10. Ends = EndsAt(Body)
    BY DEF Ends, EndsAt
  <2>11. SubSeq(s \o end_msj, 1, Len(s \o end_msj) - 3) = Append(Append(s, "r"), "n")
    BY <2>4, EndIsCut
  <2>12. Unstuffed(s) = mail
    BY ONLY <2>4, <2>5, Zenon
  <2>13. Unstuffed(Append(Append(s, "r"), "n")) = mail \o <<"r", "n">>
    BY <2>2, <2>4, <2>12, ReadBack
  <2> QED BY ONLY <2>8, <2>9, <2>10, <2>11, <2>13, Zenon
<1> QED BY Invariance, Delivery, <1>1, PTL
=============================================================================
