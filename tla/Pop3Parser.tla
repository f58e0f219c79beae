----------------------------- MODULE Pop3Parser -----------------------------
(***************************************************************************)
(* How a connection's bytes become command lines: read_command of          *)
(* server/stm/pop3_stm.c, which feeds in_buff to the state machine of      *)
(* lib/parser.c whose tables are in server/pop3.c and whose actions are in *)
(* server/parser/pop3_parser.c, and drains what is left of a bad line.     *)
(*                                                                         *)
(* A call of read_command runs to its end before anything else happens to  *)
(* the connection; here it takes a step for each byte, and `pc` is the     *)
(* loop that it is in. What the bytes are is left to the kernel: recv      *)
(* gives any of them, cut anywhere.                                        *)
(***************************************************************************)
EXTENDS Integers, SequencesExt

CONSTANTS
    MIN_COMMAND_LENGTH, \* also the length of current_command, less its NUL
    ARGUMENT_LENGTH,    \* the length of argument, less one cell for a NUL
    BUFFER_SIZE,        \* of in_buff
    Chars,              \* the bytes that are not space, CR or LF
    MaxBytes            \* bound: bytes received

ASSUME LengthsAssumption ==
    /\ MIN_COMMAND_LENGTH \in Nat \ {0} /\ ARGUMENT_LENGTH \in Nat \ {0}
    /\ BUFFER_SIZE \in Nat \ {0} /\ MaxBytes \in Nat

SP  == "space"
CR  == "cr"
LF  == "lf"
NUL == "nul"
Bytes == Chars \cup {SP, CR, LF}

ASSUME CharsAssumption == Chars \cap {SP, CR, LF, NUL} = {}

VARIABLES
    pc,           \* "idle" between calls, or where read_command is
    inb,          \* in_buff: what was received and not read
    state,        \* parser->state
    command,      \* current_command, as far as command_length
    argument,     \* argument, as far as argument_length: with its NUL
    is_finished,  \* conn->is_finished
    saw_carriage_return,
    received,     \* every byte received on the connection
    parsed,       \* what was made of them: one record for each line
    cut           \* a drain ended for lack of input, not at a CR LF

lineVars   == <<state, command, argument>>
parserVars == <<pc, inb, lineVars, is_finished, saw_carriage_return, received, parsed, cut>>

ParserInit ==
    /\ pc = "idle" /\ inb = <<>>
    /\ state = "COMMAND" /\ command = <<>> /\ argument = <<>>
    /\ is_finished = TRUE /\ saw_carriage_return = FALSE
    /\ received = <<>> /\ parsed = <<>> /\ cut = FALSE

----------------------------------------------------------------------------
(* read_command receives when in_buff is empty: some bytes, or none while  *)
(* a reply is unfinished (recv fails with EAGAIN). Then an unfinished      *)
(* command goes on, and otherwise the bytes are fed to the parser.         *)
Recv(s) ==
    /\ pc = "idle" /\ inb = <<>>
    /\ Len(s) <= BUFFER_SIZE /\ Len(received) + Len(s) <= MaxBytes
    /\ s # <<>> \/ ~is_finished
    /\ inb' = s
    /\ received' = received \o s
    /\ pc' = IF is_finished THEN "feed" ELSE "resume"
    /\ UNCHANGED <<lineVars, is_finished, saw_carriage_return, parsed, cut>>

GoOn ==
    /\ pc = "idle" /\ inb # <<>>
    /\ pc' = IF is_finished THEN "feed" ELSE "resume"
    /\ UNCHANGED <<inb, lineVars, is_finished, saw_carriage_return, received, parsed, cut>>

(* clean_command, which does nothing while the command is unfinished.      *)
CleanedShort == command' = <<>> /\ UNCHANGED argument
Cleaned      == command' = <<>> /\ argument' = <<>>
CleanCommand(finished) ==
    \/ finished /\ Cleaned
    \/ ~finished /\ UNCHANGED <<command, argument>>

(* The handler runs; only RETR leaves is_finished FALSE.                   *)
Runs == /\ is_finished' \in BOOLEAN
        /\ CleanCommand(is_finished')

Resume ==
    /\ pc = "resume"
    /\ Runs
    /\ pc' = "idle"
    /\ UNCHANGED <<inb, state, saw_carriage_return, received, parsed, cut>>

----------------------------------------------------------------------------
(* parser_feed: each operator is the transition that a byte takes, with    *)
(* what its action does. UNDEFINED goes on, INVALID_COMMAND drains.        *)
Undefined(next) ==
    /\ state' = next /\ pc' = "feed"
    /\ UNCHANGED <<is_finished, saw_carriage_return, parsed, cut>>

Invalid(c, next) ==
    /\ state' = next /\ pc' = "drain" /\ saw_carriage_return' = (c = CR)
    /\ UNCHANGED <<command, argument, is_finished, parsed, cut>>

(* parser_command_state_space and parser_command_state_carriage_return.    *)
EnoughLess == Len(command) >= MIN_COMMAND_LENGTH - 1
Enough     == Len(command) >= MIN_COMMAND_LENGTH
EndOfCommand(c, next) ==
    \/ Enough /\ Undefined(next) /\ UNCHANGED <<command, argument>>
    \/ ~Enough /\ Invalid(c, next)

(* parser_command_state_any                                                *)
CommandAny(c) ==
    \/ /\ Len(command) < MIN_COMMAND_LENGTH
       /\ command' = Append(command, c) /\ Undefined("COMMAND") /\ UNCHANGED argument
    \/ Len(command) >= MIN_COMMAND_LENGTH /\ Invalid(c, "COMMAND")

(* parser_argument_state_any                                               *)
RoomOneMore == Len(argument) <= ARGUMENT_LENGTH
RoomForArgument == Len(argument) < ARGUMENT_LENGTH
ArgumentAny(c) ==
    \/ /\ RoomForArgument
       /\ argument' = Append(argument, c) /\ Undefined("ARGUMENT") /\ UNCHANGED command
    \/ ~RoomForArgument /\ Invalid(c, "ARGUMENT")

(* parser_argument_state_carriage_return                                   *)
ArgumentCarriageReturn ==
    \/ /\ Len(argument) > 0 /\ RoomForArgument
       /\ argument' = Append(argument, NUL) /\ Undefined("END") /\ UNCHANGED command
    \/ (Len(argument) = 0 \/ ~RoomForArgument) /\ Invalid(CR, "END")

(* parser_end_state_line_feed: the command is looked up and run, or is not *)
(* one of this state, which finishes it as well (the run then is ERROR).   *)
EndLineFeed ==
    /\ parsed' = Append(parsed, [ok |-> TRUE, command |-> command, argument |-> argument])
    /\ state' = "COMMAND" /\ pc' = "idle"
    /\ Runs
    /\ UNCHANGED <<saw_carriage_return, cut>>

Transition(c) ==
    \/ state = "COMMAND" /\ c = SP /\ EndOfCommand(c, "ARGUMENT")
    \/ state = "COMMAND" /\ c = CR /\ EndOfCommand(c, "END")
    \/ state = "COMMAND" /\ c \notin {SP, CR} /\ CommandAny(c)
    \/ state = "ARGUMENT" /\ c = CR /\ ArgumentCarriageReturn
    \/ state = "ARGUMENT" /\ c # CR /\ ArgumentAny(c)
    \/ state = "END" /\ c = LF /\ EndLineFeed
    \/ state = "END" /\ c # LF /\ Invalid(c, "COMMAND")

Feed ==
    /\ pc = "feed" /\ inb # <<>>
    /\ inb' = Tail(inb)
    /\ Transition(Head(inb))
    /\ UNCHANGED received

(* The buffer is used up in the middle of a line, whose beginning is kept. *)
FeedEnds ==
    /\ pc = "feed" /\ inb = <<>>
    /\ pc' = "idle"
    /\ UNCHANGED <<inb, lineVars, is_finished, saw_carriage_return, received, parsed, cut>>

(* The rest of a bad line is dropped, as far as in_buff has it. The result *)
(* is ERROR, whose arrival resets the parser.                              *)
ToError ==
    /\ pc' = "idle" /\ state' = "COMMAND"
    /\ CleanCommand(is_finished)
    /\ parsed' = Append(parsed, [ok |-> FALSE, command |-> <<>>, argument |-> <<>>])
    /\ UNCHANGED <<is_finished, saw_carriage_return, received>>

Drain ==
    /\ pc = "drain" /\ inb # <<>>
    /\ inb' = Tail(inb)
    /\ \/ Head(inb) = LF /\ saw_carriage_return /\ ToError /\ UNCHANGED cut
       \/ /\ Head(inb) # LF \/ ~saw_carriage_return
          /\ saw_carriage_return' = (Head(inb) = CR)
          /\ UNCHANGED <<pc, lineVars, is_finished, received, parsed, cut>>

DrainEnds ==
    /\ pc = "drain" /\ inb = <<>>
    /\ ToError /\ cut' = TRUE
    /\ UNCHANGED inb

ParserNext ==
    \/ \E n \in 0 .. BUFFER_SIZE : \E s \in [1 .. n -> Bytes] : Recv(s)
    \/ GoOn \/ Resume \/ Feed \/ FeedEnds \/ Drain \/ DrainEnds

ParserSpec == ParserInit /\ [][ParserNext]_parserVars

----------------------------------------------------------------------------
ParsedLine == [ok : BOOLEAN, command : Seq(Bytes), argument : Seq(Bytes \cup {NUL})]

(* Types, and that no byte is written past current_command[COMMAND_LENGTH] *)
(* or past argument[ARGUMENT_LENGTH], the last cells of the two arrays,    *)
(* whatever the client sends and however it is cut.                        *)
ParserTypeOK ==
    /\ pc \in {"idle", "resume", "feed", "drain"}
    /\ inb \in Seq(Bytes)
    /\ state \in {"COMMAND", "ARGUMENT", "END"}
    /\ command \in Seq(Bytes) /\ Len(command) <= MIN_COMMAND_LENGTH
    /\ argument \in Seq(Bytes \cup {NUL}) /\ Len(argument) <= ARGUMENT_LENGTH
    /\ is_finished \in BOOLEAN /\ saw_carriage_return \in BOOLEAN /\ cut \in BOOLEAN
    /\ received \in Seq(Bytes)
    /\ parsed \in Seq(ParsedLine)

(* A handler that runs, or runs again, finds a command of the right length *)
(* and no argument or one that ends in a NUL: read_command compares and    *)
(* converts them as C strings.                                             *)
IsString(a) == a = <<>> \/ a[Len(a)] = NUL
StringsEnd ==
    /\ \A i \in DOMAIN parsed :
         parsed[i].ok => Len(parsed[i].command) = MIN_COMMAND_LENGTH /\ IsString(parsed[i].argument)
    /\ ~is_finished => Len(command) = MIN_COMMAND_LENGTH /\ IsString(argument)

----------------------------------------------------------------------------
(* The lines of a stream, by a definition that does not know of buffers,   *)
(* states or drains: what comes before each CR LF, and what is open yet.   *)
Line(acc, c) ==
    IF c = LF /\ acc.open # <<>> /\ Last(acc.open) = CR
      THEN [lines |-> Append(acc.lines, Front(acc.open)), open |-> <<>>]
      ELSE [lines |-> acc.lines, open |-> Append(acc.open, c)]

Split(s) ==
    LET after[i \in 0 .. Len(s)] ==
          IF i = 0 THEN [lines |-> <<>>, open |-> <<>>] ELSE Line(after[i - 1], s[i])
    IN  after[Len(s)]

(* A line is a command of MIN_COMMAND_LENGTH bytes, alone or followed by a *)
(* space and an argument; the cell of its NUL counts in ARGUMENT_LENGTH.   *)
Command(l)  == SubSeq(l, 1, MIN_COMMAND_LENGTH)
Argument(l) == SubSeq(l, MIN_COMMAND_LENGTH + 2, Len(l))
Good(l) ==
    /\ Len(l) >= MIN_COMMAND_LENGTH
    /\ \A i \in 1 .. MIN_COMMAND_LENGTH : l[i] \notin {SP, CR}
    /\ Len(l) # MIN_COMMAND_LENGTH =>
         /\ l[MIN_COMMAND_LENGTH + 1] = SP
         /\ Len(l) - MIN_COMMAND_LENGTH - 1 \in 1 .. ARGUMENT_LENGTH - 1
         /\ \A i \in MIN_COMMAND_LENGTH + 2 .. Len(l) : l[i] # CR

Bad == [ok |-> FALSE, command |-> <<>>, argument |-> <<>>]
Meant(l) ==
    IF Good(l)
      THEN [ok |-> TRUE, command |-> Command(l),
            argument |-> Argument(l) \o (IF Argument(l) = <<>> THEN <<>> ELSE <<NUL>>)]
      ELSE Bad

Consumed == SubSeq(received, 1, Len(received) - Len(inb))

(* One verdict for each line, and the right one, wherever the stream was   *)
(* cut by recv or by a reply that had to be finished first: unless a bad   *)
(* line was cut while it was being dropped.                                *)
LinesAreParsed ==
    pc = "idle" /\ ~cut =>
        LET ls == Split(Consumed).lines IN parsed = [i \in DOMAIN ls |-> Meant(ls[i])]
=============================================================================
