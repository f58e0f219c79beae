-------------------------------- MODULE Retr --------------------------------
(***************************************************************************)
(* RETR at the level of bytes: retr_handler of server/stm/pop3_stm.c, one  *)
(* connection retrieving messages one after the other. A message that does *)
(* not fit out_buff is sent in pieces: is_finished stays FALSE, and once   *)
(* the piece is sent handle_write runs the handler again. Dots that begin  *)
(* a line are stuffed on the way, with crlf_flag as the only memory of     *)
(* what came before.                                                       *)
(*                                                                         *)
(* Sends take all of out_buff here, so that it is empty when the handler   *)
(* runs; short sends, the other commands and files that vanish are         *)
(* Pop3Server's, where a message is not bytes but pieces.                  *)
(***************************************************************************)
EXTENDS Integers, SequencesExt

CONSTANTS
    N,         \* BUFFER_SIZE
    Heading,   \* "+OK message follows\r\n"
    Messages   \* what the mail files may hold

(* Carriage return, line feed, the dot, and any other byte.                *)
Bytes == {"r", "n", ".", "x"}
Flags == {"ANY_CHARACTER", "CR", "LF"}

end_msj == <<"r", "n", ".", "r", "n">>

ASSUME RetrConstants ==
    /\ Heading \in Seq(Bytes)
    /\ N \in Nat /\ N >= Len(Heading) + Len(end_msj) + 1
    /\ Messages \subseteq Seq(Bytes)

VARIABLES
    mail,         \* the message being retrieved
    read_index,   \* what was copied of it
    is_finished,
    crlf_flag,    \* of the connection: no one resets it
    out,          \* what out_buff holds
    n,            \* the room in out_buff when the piece was begun
    from,         \* read_index then
    until,        \* where what fread gave ends
    last,         \* this piece is the last one
    stuffs,       \* the dots stuffed in this piece
    pc

(* What the client has received of this message, whether buffer_write had  *)
(* to drop a byte of it, and the crlf_flag that the one before left.       *)
VARIABLES got, dropped, leak

pieceVars == <<n, from, until, last>>
vars == <<mail, read_index, is_finished, crlf_flag, out, pieceVars, stuffs, pc,
          got, dropped, leak>>

Init ==
    /\ mail = <<>> /\ read_index = 0 /\ is_finished = TRUE
    /\ crlf_flag = "ANY_CHARACTER"
    /\ out = <<>> /\ n = N /\ from = 0 /\ until = 0 /\ last = FALSE /\ stuffs = 0
    /\ pc = "idle"
    /\ got = <<>> /\ dropped = FALSE /\ leak = "ANY_CHARACTER"

(* buffer_write of each byte, and try_write: what does not fit is lost.    *)
Put(b, bytes) ==
    IF Len(b) + Len(bytes) <= N THEN b \o bytes
    ELSE b \o SubSeq(bytes, 1, N - Len(b))

Loses(b, bytes) == Len(b) + Len(bytes) > N

(* The client asks for a message.                                          *)
Ask(m) ==
    /\ pc = "idle"
    /\ mail' = m
    /\ got' = <<>> /\ dropped' = FALSE /\ leak' = crlf_flag
    /\ pc' = "call"
    /\ UNCHANGED <<read_index, is_finished, crlf_flag, out, pieceVars, stuffs>>

(* Whether the rest of the message, its end and one byte more fit.         *)
IsLastForgetting(room) == Len(mail) + Len(end_msj) + 1 <= room
IsLast(room) == Len(mail) - read_index + Len(end_msj) + 1 <= room

(* fread of n - 1 bytes: one is kept for a dot.                            *)
BytesReadAll(room) ==
    IF room <= Len(mail) - read_index THEN room ELSE Len(mail) - read_index
BytesRead(room) ==
    IF room - 1 <= Len(mail) - read_index THEN room - 1 ELSE Len(mail) - read_index

Begin ==
    /\ pc = "call"
    /\ out' = IF is_finished THEN Put(out, Heading) ELSE out
    /\ n' = N - Len(out')
    /\ last' = IsLast(n')
    /\ from' = read_index
    /\ until' = read_index + BytesRead(n')
    /\ stuffs' = 0
    /\ pc' = "copy"
    /\ UNCHANGED <<mail, read_index, is_finished, crlf_flag, got, dropped, leak>>

Stuffed(byte) == byte = "." /\ crlf_flag = "LF"

(* A stuffed dot leaves the flag as it was.                                *)
FlagAfterAny(byte) ==
    CASE byte = "r" -> "CR"
      [] byte = "n" -> "LF"
      [] Stuffed(byte) -> crlf_flag
      [] OTHER -> "ANY_CHARACTER"

FlagAfter(byte) ==
    CASE byte = "r" -> "CR"
      [] byte = "n" /\ crlf_flag = "CR" -> "LF"
      [] Stuffed(byte) -> crlf_flag
      [] OTHER -> "ANY_CHARACTER"

WrittenBare(byte) == <<byte>>
Written(byte) == IF Stuffed(byte) THEN <<".", byte>> ELSE <<byte>>

Copy ==
    /\ pc = "copy" /\ read_index < until
    /\ LET byte == mail[read_index + 1] IN
         /\ crlf_flag' = FlagAfter(byte)
         /\ out' = Put(out, Written(byte))
         /\ dropped' = (dropped \/ Loses(out, Written(byte)))
         /\ stuffs' = (IF Stuffed(byte) THEN stuffs + 1 ELSE stuffs)
    /\ read_index' = read_index + 1
    /\ UNCHANGED <<mail, is_finished, pieceVars, pc, got, leak>>

FinishNoRewind ==
    /\ pc = "copy" /\ read_index = until /\ last
    /\ out' = Put(out, end_msj)
    /\ dropped' = (dropped \/ Loses(out, end_msj))
    /\ is_finished' = TRUE
    /\ pc' = "send"
    /\ UNCHANGED <<mail, read_index, crlf_flag, pieceVars, stuffs, got, leak>>

Finish ==
    /\ pc = "copy" /\ read_index = until /\ last
    /\ out' = Put(out, end_msj)
    /\ dropped' = (dropped \/ Loses(out, end_msj))
    /\ is_finished' = TRUE /\ read_index' = 0
    /\ pc' = "send"
    /\ UNCHANGED <<mail, crlf_flag, pieceVars, stuffs, got, leak>>

Suspend ==
    /\ pc = "copy" /\ read_index = until /\ ~last
    /\ is_finished' = FALSE
    /\ pc' = "send"
    /\ UNCHANGED <<mail, read_index, crlf_flag, out, pieceVars, stuffs, got, dropped, leak>>

(* stm_write sends, and handle_write runs the handler again unless the     *)
(* reply is whole.                                                         *)
Send ==
    /\ pc = "send"
    /\ got' = got \o out /\ out' = <<>>
    /\ pc' = IF is_finished THEN "idle" ELSE "call"
    /\ UNCHANGED <<mail, read_index, is_finished, crlf_flag, pieceVars, stuffs, dropped, leak>>

Server == Begin \/ Copy \/ Finish \/ Suspend \/ Send
Next   == Server \/ \E m \in Messages : Ask(m)

Spec     == Init /\ [][Next]_vars
FairSpec == Spec /\ WF_vars(Server)

----------------------------------------------------------------------------
(* The indexes of a transfer: what is copied stays in what was read, what  *)
(* was read in the message, and out_buff in its array.                     *)
RetrTypeOK ==
    /\ mail \in Seq(Bytes) /\ out \in Seq(Bytes) /\ got \in Seq(Bytes)
    /\ Len(out) <= N /\ n \in 1 .. N
    /\ from \in Nat /\ until \in Nat /\ stuffs \in Nat
    /\ read_index \in 0 .. Len(mail)
    /\ pc = "copy" => read_index \in from .. until /\ until <= Len(mail)
    /\ is_finished \in BOOLEAN /\ last \in BOOLEAN /\ dropped \in BOOLEAN
    /\ crlf_flag \in Flags /\ leak \in Flags
    /\ pc \in {"idle", "call", "copy", "send"}

(* What makes a dot one to stuff, said of the message and not of the state *)
(* of the loop: nothing but dots between it and the end of a line; where   *)
(* the message begins, the flag of the one before counts as well.          *)
EndsLine(j) ==
    /\ mail[j] = "n"
    /\ IF j = 1 THEN leak = "CR" ELSE mail[j - 1] = "r"

BeginsLine(i) ==
    \/ leak = "LF" /\ \A k \in 1 .. i - 1 : mail[k] = "."
    \/ \E j \in 1 .. i - 1 :
         EndsLine(j) /\ \A k \in j + 1 .. i - 1 : mail[k] = "."

(* crlf_flag knows it, wherever the message was cut in pieces.             *)
FlagRemembersLine ==
    pc \in {"call", "copy"} => (crlf_flag = "LF" <=> BeginsLine(read_index + 1))

(* A byte, of the message or of its end, is lost only if two dots or more  *)
(* were stuffed in the same piece: the byte that fread leaves is enough    *)
(* for one.                                                                *)
LossNeedsTwoDots == [][dropped' /\ ~dropped => stuffs' >= 2]_vars

(* What is sent for a byte, and of the first i bytes of the message.       *)
Encoded(k)  == IF mail[k] = "." /\ BeginsLine(k) THEN <<".", mail[k]>> ELSE <<mail[k]>>
Stuffing(i) == FlattenSeq([k \in 1 .. i |-> Encoded(k)])

(* While nothing was dropped, what the client has and what out_buff holds  *)
(* are the heading, and the message as far as it was copied, stuffed; at   *)
(* last all of it, and the end. So no piece is repeated or left out, and   *)
(* where the message is cut makes no difference.                           *)
DeliveredIsStuffed ==
    ~dropped =>
        /\ pc = "copy" => got \o out = Heading \o Stuffing(read_index)
        /\ pc = "idle" /\ got # <<>> =>
             got = Heading \o Stuffing(Len(mail)) \o end_msj

(* The client's side, as in RFC 1939: the message ends at the first line   *)
(* that is a dot, and of any other line the dot it begins with goes.       *)
Body == SubSeq(got, Len(Heading) + 1, Len(got))

After(s, i, t) == i >= Len(t) /\ SubSeq(s, i - Len(t) + 1, i) = t
Ends == {i \in 1 .. Len(Body) : After(Body, i, end_msj)}

Unstuffed(s) ==
    FlattenSeq([i \in 1 .. Len(s) |->
        IF s[i] = "." /\ After(s, i - 1, <<"r", "n">>) THEN <<>> ELSE <<s[i]>>])

(* The messages that the stuffing is meant for: no line of theirs begins   *)
(* with two dots, and they do not begin with what crlf_flag, left by the   *)
(* message before, could give a meaning to.                                *)
Plain(m) ==
    /\ m # <<>> => m[1] \notin {".", "n"}
    /\ \A i \in 1 .. Len(m) - 3 : SubSeq(m, i, i + 3) # <<"r", "n", ".", ".">>

(* The client gets such a message back, and sees one end, if no byte of it *)
(* was dropped.                                                            *)
MessageIsDecoded ==
    pc = "idle" /\ got # <<>> /\ ~dropped /\ Plain(mail) =>
        /\ Ends = {Len(Body)}
        /\ Unstuffed(SubSeq(Body, 1, Len(Body) - 3)) = mail \o <<"r", "n">>

(* docs/Informe TPE.pdf, pages 3 and 4, of a \r\n.\r\n inside a message:   *)
(* it becomes \r\n..\r\n, so that it is not taken for the end.             *)
NoEarlyEnd == Ends \subseteq {Len(Body)} /\ (Ends # {} => is_finished)

(* Every message that is asked for is sent to its end.                     *)
EveryRetrEnds == pc = "call" ~> pc = "idle"
=============================================================================
