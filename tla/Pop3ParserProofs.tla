-------------------------- MODULE Pop3ParserProofs --------------------------
(***************************************************************************)
(* Proofs about the parsing of command lines, for every length of the two  *)
(* arrays, every set of bytes and every way of cutting the stream: nothing *)
(* is written outside the arrays, handlers see whole strings, and each     *)
(* line of the stream has the verdict that its bytes deserve.              *)
(***************************************************************************)
EXTENDS Pop3Parser, SequenceTheorems, WellFoundedInduction, TLAPS

(* What the parser's state says of the two arrays: the command is full     *)
(* from the first space or CR on, the argument is empty until then and has *)
(* its NUL at the end, and an unfinished command keeps both.               *)
Between    == pc \in {"idle", "feed"}
CommandSet == Between /\ state \in {"ARGUMENT", "END"} => Len(command) = MIN_COMMAND_LENGTH
Terminated == Between /\ state = "END" => IsString(argument)
NotYet     == Between /\ state = "COMMAND" /\ is_finished => argument = <<>>
Unfinished == ~is_finished => /\ pc \in {"idle", "resume"} /\ state = "COMMAND"
                              /\ Len(command) = MIN_COMMAND_LENGTH /\ IsString(argument)
Resuming   == pc = "resume" => ~is_finished
ParsedWell == \A i \in DOMAIN parsed :
                parsed[i].ok => /\ Len(parsed[i].command) = MIN_COMMAND_LENGTH
                                /\ IsString(parsed[i].argument)

ParserInv == /\ ParserTypeOK
             /\ CommandSet /\ Terminated /\ NotYet
             /\ Unfinished /\ Resuming
             /\ ParsedWell

LEMMA SameParsed ==
    ASSUME ParserInv, parsed' = parsed
    PROVE  ParsedWell' /\ parsed' \in Seq(ParsedLine)
  BY DEF ParserInv, ParserTypeOK, ParsedWell

(* One more line leaves the earlier ones as they were.                     *)
LEMMA OneMoreParsed ==
    ASSUME ParserInv, NEW r \in ParsedLine, parsed' = Append(parsed, r),
           r.ok => Len(r.command) = MIN_COMMAND_LENGTH /\ IsString(r.argument)
    PROVE  ParsedWell' /\ parsed' \in Seq(ParsedLine)
  <1>1. parsed \in Seq(ParsedLine)
    BY DEF ParserInv, ParserTypeOK
  <1>2. /\ parsed' \in Seq(ParsedLine) /\ Len(parsed') = Len(parsed) + 1
        /\ \A i \in 1 .. Len(parsed) : parsed'[i] = parsed[i]
        /\ parsed'[Len(parsed) + 1] = r
    BY <1>1
  <1>3. DOMAIN parsed' = 1 .. Len(parsed) + 1 /\ DOMAIN parsed = 1 .. Len(parsed)
    BY <1>1, <1>2
  <1>4. ASSUME NEW i \in DOMAIN parsed', parsed'[i].ok
        PROVE  Len(parsed'[i].command) = MIN_COMMAND_LENGTH /\ IsString(parsed'[i].argument)
    <2>1. CASE i \in DOMAIN parsed
      BY <1>2, <1>3, <1>4, <2>1 DEF ParserInv, ParsedWell
    <2>2. CASE i = Len(parsed) + 1
      BY <1>2, <1>4, <2>2
    <2>3. Len(parsed) \in Nat
      BY <1>1
    <2> QED
      BY <1>3, <2>1, <2>2, <2>3
  <1> QED
    BY <1>2, <1>4 DEF ParsedWell

LEMMA InitInv == ParserInit => ParserInv
  <1> SUFFICES ASSUME ParserInit
               PROVE  ParserInv
    OBVIOUS
  <1>1. ParserTypeOK
    <2>1. Len(command) <= MIN_COMMAND_LENGTH /\ Len(argument) <= ARGUMENT_LENGTH
      BY LengthsAssumption DEF ParserInit
    <2>2. /\ command \in Seq(Bytes) /\ argument \in Seq(Bytes \cup {NUL})
          /\ inb \in Seq(Bytes) /\ received \in Seq(Bytes) /\ parsed \in Seq(ParsedLine)
      BY DEF ParserInit
    <2> QED
      BY <2>1, <2>2 DEF ParserInit, ParserTypeOK
  <1>2. CommandSet /\ Terminated /\ NotYet /\ Unfinished /\ Resuming /\ ParsedWell
    BY DEF ParserInit, CommandSet, Terminated, NotYet, Unfinished, Resuming, ParsedWell
  <1> QED
    BY <1>1, <1>2 DEF ParserInv

----------------------------------------------------------------------------
(* The loop of read_command.                                               *)

LEMMA RecvInv ==
    ASSUME ParserInv, NEW s \in Seq(Bytes), Recv(s)
    PROVE  ParserInv'
  <1>1. ParsedWell' /\ parsed' \in Seq(ParsedLine)
    BY SameParsed DEF Recv
  <1>2. ParserTypeOK'
    BY <1>1 DEF ParserInv, ParserTypeOK, Recv, lineVars
  <1>3. CommandSet' /\ Terminated' /\ NotYet' /\ Unfinished' /\ Resuming'
    BY DEF ParserInv, ParserTypeOK, Recv, lineVars, CommandSet, Terminated, NotYet, Unfinished,
           Resuming, Between, IsString
  <1> QED
    BY <1>1, <1>2, <1>3 DEF ParserInv

LEMMA GoOnInv == ASSUME ParserInv, GoOn PROVE ParserInv'
  <1>1. ParsedWell' /\ parsed' \in Seq(ParsedLine)
    BY SameParsed DEF GoOn
  <1>2. ParserTypeOK'
    BY <1>1 DEF ParserInv, ParserTypeOK, GoOn, lineVars
  <1>3. CommandSet' /\ Terminated' /\ NotYet' /\ Unfinished' /\ Resuming'
    BY DEF ParserInv, ParserTypeOK, GoOn, lineVars, CommandSet, Terminated, NotYet, Unfinished,
           Resuming, Between, IsString
  <1> QED
    BY <1>1, <1>2, <1>3 DEF ParserInv

(* A handler that finishes leaves the arrays clean, and one that does not  *)
(* leaves them as it found them.                                           *)
LEMMA RunsInv ==
    ASSUME Runs
    PROVE  /\ is_finished' \in BOOLEAN
           /\ is_finished' => command' = <<>> /\ argument' = <<>>
           /\ ~is_finished' => command' = command /\ argument' = argument
  BY DEF Runs, CleanCommand, Cleaned

LEMMA ResumeInv == ASSUME ParserInv, Resume PROVE ParserInv'
  <1>1. ParsedWell' /\ parsed' \in Seq(ParsedLine)
    BY SameParsed DEF Resume
  <1>2. /\ ~is_finished /\ state = "COMMAND" /\ state' = state
        /\ Len(command) = MIN_COMMAND_LENGTH /\ IsString(argument)
    BY DEF ParserInv, Resume, Resuming, Unfinished
  <1>3. CASE is_finished'
    <2>1. command' = <<>> /\ argument' = <<>> /\ is_finished' = TRUE /\ pc' = "idle"
      BY <1>3, RunsInv DEF Resume
    <2>2. ParserTypeOK'
      BY <1>1, <2>1, LengthsAssumption DEF ParserInv, ParserTypeOK, Resume
    <2>3. CommandSet' /\ Terminated' /\ NotYet' /\ Unfinished' /\ Resuming'
      BY <1>2, <2>1 DEF CommandSet, Terminated, NotYet, Unfinished, Resuming, Between
    <2> QED
      BY <1>1, <2>2, <2>3 DEF ParserInv
  <1>4. CASE ~is_finished'
    <2>1. command' = command /\ argument' = argument /\ is_finished' = FALSE /\ pc' = "idle"
      BY <1>4, RunsInv DEF Resume
    <2>2. ParserTypeOK'
      BY <1>1, <2>1 DEF ParserInv, ParserTypeOK, Resume
    <2>3. CommandSet' /\ Terminated' /\ NotYet' /\ Unfinished' /\ Resuming'
      BY <1>2, <2>1 DEF CommandSet, Terminated, NotYet, Unfinished, Resuming, Between, IsString
    <2> QED
      BY <1>1, <2>2, <2>3 DEF ParserInv
  <1> QED
    BY <1>3, <1>4

LEMMA FeedEndsInv == ASSUME ParserInv, FeedEnds PROVE ParserInv'
  <1>1. ParsedWell' /\ parsed' \in Seq(ParsedLine)
    BY SameParsed DEF FeedEnds
  <1>2. ParserTypeOK'
    BY <1>1 DEF ParserInv, ParserTypeOK, FeedEnds, lineVars
  <1>3. CommandSet' /\ Terminated' /\ NotYet' /\ Unfinished' /\ Resuming'
    BY DEF ParserInv, ParserTypeOK, FeedEnds, lineVars, CommandSet, Terminated, NotYet, Unfinished,
           Resuming, Between, IsString
  <1> QED
    BY <1>1, <1>2, <1>3 DEF ParserInv

----------------------------------------------------------------------------
(* parser_feed.                                                            *)

ParserStates == {"COMMAND", "ARGUMENT", "END"}

(* While bytes are fed the last command is finished.                       *)
LEMMA FeedingIsFinished ==
    ASSUME ParserInv, pc \in {"feed", "drain"}
    PROVE  is_finished = TRUE
  BY DEF ParserInv, ParserTypeOK, Unfinished

(* A byte that goes on: what it must leave in the arrays.                  *)
LEMMA UndefinedInv ==
    ASSUME ParserInv, pc = "feed", inb' \in Seq(Bytes), received' = received,
           NEW next \in ParserStates, Undefined(next),
           command' \in Seq(Bytes), Len(command') <= MIN_COMMAND_LENGTH,
           argument' \in Seq(Bytes \cup {NUL}), Len(argument') <= ARGUMENT_LENGTH,
           next \in {"ARGUMENT", "END"} => Len(command') = MIN_COMMAND_LENGTH,
           next = "END" => IsString(argument'),
           next = "COMMAND" => argument' = <<>>
    PROVE  ParserInv'
  <1>1. ParsedWell' /\ parsed' \in Seq(ParsedLine)
    BY SameParsed DEF Undefined
  <1>2. is_finished' = TRUE /\ pc' = "feed" /\ state' = next
    BY FeedingIsFinished DEF Undefined
  <1>3. ParserTypeOK'
    BY <1>1, <1>2 DEF ParserInv, ParserTypeOK, Undefined, ParserStates
  <1>4. CommandSet' /\ Terminated' /\ NotYet' /\ Unfinished' /\ Resuming'
    BY <1>2 DEF CommandSet, Terminated, NotYet, Unfinished, Resuming, IsString
  <1> QED
    BY <1>1, <1>3, <1>4 DEF ParserInv

LEMMA InvalidInv ==
    ASSUME ParserInv, pc = "feed", inb' \in Seq(Bytes), received' = received,
           NEW c, NEW next \in ParserStates, Invalid(c, next)
    PROVE  ParserInv'
  <1>1. ParsedWell' /\ parsed' \in Seq(ParsedLine)
    BY SameParsed DEF Invalid
  <1>2. is_finished' = TRUE /\ pc' = "drain" /\ saw_carriage_return' \in BOOLEAN
    BY FeedingIsFinished DEF Invalid
  <1>3. ParserTypeOK'
    BY <1>1, <1>2 DEF ParserInv, ParserTypeOK, Invalid, ParserStates
  <1>4. CommandSet' /\ Terminated' /\ NotYet' /\ Unfinished' /\ Resuming'
    BY <1>2 DEF CommandSet, Terminated, NotYet, Unfinished, Resuming, Between
  <1> QED
    BY <1>1, <1>3, <1>4 DEF ParserInv

LEMMA EndLineFeedInv ==
    ASSUME ParserInv, pc = "feed", state = "END", inb' \in Seq(Bytes), received' = received,
           EndLineFeed
    PROVE  ParserInv'
  <1> DEFINE r == [ok |-> TRUE, command |-> command, argument |-> argument]
  <1>1. Len(command) = MIN_COMMAND_LENGTH /\ IsString(argument)
    BY DEF ParserInv, CommandSet, Terminated, Between
  <1>2. r \in ParsedLine
    BY DEF ParserInv, ParserTypeOK, ParsedLine
  <1>3. ParsedWell' /\ parsed' \in Seq(ParsedLine)
    <2>1. parsed' = Append(parsed, r)
      BY DEF EndLineFeed
    <2>2. r.command = command /\ r.argument = argument
      OBVIOUS
    <2> HIDE DEF r
    <2> QED
      BY <1>1, <1>2, <2>1, <2>2, OneMoreParsed
  <1>4. /\ is_finished' \in BOOLEAN
        /\ is_finished' => command' = <<>> /\ argument' = <<>>
        /\ ~is_finished' => command' = command /\ argument' = argument
    BY RunsInv DEF EndLineFeed
  <1>5. state' = "COMMAND" /\ pc' = "idle"
    BY DEF EndLineFeed
  <1>6. ParserTypeOK'
    <2>1. Len(<<>>) = 0 /\ MIN_COMMAND_LENGTH >= 0 /\ ARGUMENT_LENGTH >= 0
      BY LengthsAssumption
    <2>2. /\ command' \in Seq(Bytes) /\ Len(command') <= MIN_COMMAND_LENGTH
          /\ argument' \in Seq(Bytes \cup {NUL}) /\ Len(argument') <= ARGUMENT_LENGTH
      <3>1. CASE is_finished'
        BY <1>4, <2>1, <3>1
      <3>2. CASE ~is_finished'
        BY <1>4, <3>2 DEF ParserInv, ParserTypeOK
      <3> QED
        BY <3>1, <3>2
    <2> QED
      BY <1>3, <1>4, <1>5, <2>2 DEF ParserInv, ParserTypeOK, EndLineFeed
  <1>7. CommandSet' /\ Terminated' /\ NotYet' /\ Unfinished' /\ Resuming'
    BY <1>1, <1>4, <1>5 DEF CommandSet, Terminated, NotYet, Unfinished, Resuming, IsString
  <1> QED
    BY <1>3, <1>6, <1>7 DEF ParserInv

LEMMA FeedInv == ASSUME ParserInv, Feed PROVE ParserInv'
  <1> DEFINE c == Head(inb)
  <1>1. c \in Bytes /\ inb' \in Seq(Bytes) /\ received' = received /\ pc = "feed"
    BY DEF Feed, ParserInv, ParserTypeOK
  <1>2. /\ command \in Seq(Bytes) /\ Len(command) <= MIN_COMMAND_LENGTH
        /\ argument \in Seq(Bytes \cup {NUL}) /\ Len(argument) <= ARGUMENT_LENGTH
        /\ Len(command) \in Nat /\ Len(argument) \in Nat
    BY DEF ParserInv, ParserTypeOK
  <1>3. Transition(c)
    BY DEF Feed
  <1>4. state = "COMMAND" => argument = <<>>
    BY <1>1, FeedingIsFinished DEF ParserInv, NotYet, Between
  <1>5. state \in {"ARGUMENT", "END"} => Len(command) = MIN_COMMAND_LENGTH
    BY <1>1 DEF ParserInv, CommandSet, Between
  <1>6. MIN_COMMAND_LENGTH \in Nat /\ ARGUMENT_LENGTH \in Nat
    BY LengthsAssumption
  <1> HIDE DEF c
  <1>7. ASSUME NEW next \in {"ARGUMENT", "END"}, state = "COMMAND", EndOfCommand(c, next)
        PROVE  ParserInv'
    <2>1. CASE Enough /\ Undefined(next) /\ UNCHANGED <<command, argument>>
      <3>1. Len(command) = MIN_COMMAND_LENGTH
        BY <2>1, <1>2, <1>6 DEF Enough
      <3>2. IsString(argument)
        BY <1>4, <1>7 DEF IsString
      <3> QED
        BY <2>1, <3>1, <3>2, <1>1, <1>2, <1>7, UndefinedInv DEF ParserStates
    <2>2. CASE ~Enough /\ Invalid(c, next)
      BY <2>2, <1>1, InvalidInv DEF ParserStates
    <2> QED
      BY <1>7, <2>1, <2>2 DEF EndOfCommand
  <1>8. ASSUME state = "COMMAND", CommandAny(c)
        PROVE  ParserInv'
    <2>1. CASE /\ Len(command) < MIN_COMMAND_LENGTH
               /\ command' = Append(command, c) /\ Undefined("COMMAND") /\ UNCHANGED argument
      <3>1. command' \in Seq(Bytes) /\ Len(command') = Len(command) + 1
        BY <2>1, <1>1, <1>2
      <3>2. Len(command') <= MIN_COMMAND_LENGTH
        BY <2>1, <3>1, <1>2, <1>6
      <3>3. argument' = <<>>
        BY <2>1, <1>4, <1>8
      <3> QED
        BY <2>1, <3>1, <3>2, <3>3, <1>1, <1>2, UndefinedInv DEF ParserStates
    <2>2. CASE Len(command) >= MIN_COMMAND_LENGTH /\ Invalid(c, "COMMAND")
      BY <2>2, <1>1, InvalidInv DEF ParserStates
    <2> QED
      BY <1>8, <2>1, <2>2 DEF CommandAny
  <1>9. ASSUME state = "ARGUMENT", ArgumentAny(c)
        PROVE  ParserInv'
    <2>1. CASE /\ RoomForArgument
               /\ argument' = Append(argument, c) /\ Undefined("ARGUMENT") /\ UNCHANGED command
      <3>1. argument' \in Seq(Bytes \cup {NUL}) /\ Len(argument') = Len(argument) + 1
        BY <2>1, <1>1, <1>2
      <3>2. Len(argument') <= ARGUMENT_LENGTH
        BY <2>1, <3>1, <1>2, <1>6 DEF RoomForArgument
      <3> QED
        BY <2>1, <3>1, <3>2, <1>1, <1>2, <1>5, <1>9, UndefinedInv DEF ParserStates
    <2>2. CASE ~RoomForArgument /\ Invalid(c, "ARGUMENT")
      BY <2>2, <1>1, InvalidInv DEF ParserStates
    <2> QED
      BY <1>9, <2>1, <2>2 DEF ArgumentAny
  <1>10. ASSUME state = "ARGUMENT", ArgumentCarriageReturn
         PROVE  ParserInv'
    <2>1. CASE /\ Len(argument) > 0 /\ RoomForArgument
               /\ argument' = Append(argument, NUL) /\ Undefined("END") /\ UNCHANGED command
      <3>1. /\ argument' \in Seq(Bytes \cup {NUL}) /\ Len(argument') = Len(argument) + 1
            /\ argument'[Len(argument) + 1] = NUL
        BY <2>1, <1>2
      <3>2. Len(argument') <= ARGUMENT_LENGTH
        BY <2>1, <3>1, <1>2, <1>6 DEF RoomForArgument
      <3>3. IsString(argument')
        BY <3>1 DEF IsString
      <3> QED
        BY <2>1, <3>1, <3>2, <3>3, <1>1, <1>2, <1>5, <1>10, UndefinedInv DEF ParserStates
    <2>2. CASE Invalid(CR, "END")
      BY <2>2, <1>1, InvalidInv DEF ParserStates
    <2> QED
      BY <1>10, <2>1, <2>2 DEF ArgumentCarriageReturn
  <1>11. CASE state = "END" /\ EndLineFeed
    BY <1>11, <1>1, EndLineFeedInv
  <1>12. CASE state = "END" /\ Invalid(c, "COMMAND")
    BY <1>12, <1>1, InvalidInv DEF ParserStates
  <1> QED
    BY <1>3, <1>7, <1>8, <1>9, <1>10, <1>11, <1>12 DEF Transition

----------------------------------------------------------------------------
(* The drain of a bad line.                                                *)

LEMMA ToErrorInv ==
    ASSUME ParserInv, pc = "drain", inb' \in Seq(Bytes), cut' \in BOOLEAN, ToError
    PROVE  ParserInv'
  <1> DEFINE r == [ok |-> FALSE, command |-> <<>>, argument |-> <<>>]
  <1>1. ParsedWell' /\ parsed' \in Seq(ParsedLine)
    <2>1. r \in ParsedLine /\ ~r.ok
      BY DEF ParsedLine
    <2>2. parsed' = Append(parsed, r)
      BY DEF ToError
    <2> HIDE DEF r
    <2> QED
      BY <2>1, <2>2, OneMoreParsed
  <1>2. is_finished' = TRUE /\ command' = <<>> /\ argument' = <<>> /\ pc' = "idle" /\ state' = "COMMAND"
    BY FeedingIsFinished DEF ToError, CleanCommand, Cleaned
  <1>3. ParserTypeOK'
    <2>1. Len(<<>>) = 0 /\ MIN_COMMAND_LENGTH >= 0 /\ ARGUMENT_LENGTH >= 0
      BY LengthsAssumption
    <2> QED
      BY <1>1, <1>2, <2>1 DEF ParserInv, ParserTypeOK, ToError
  <1>4. CommandSet' /\ Terminated' /\ NotYet' /\ Unfinished' /\ Resuming'
    BY <1>2 DEF CommandSet, Terminated, NotYet, Unfinished, Resuming
  <1> QED
    BY <1>1, <1>3, <1>4 DEF ParserInv

LEMMA DrainInv == ASSUME ParserInv, Drain PROVE ParserInv'
  <1>1. inb' \in Seq(Bytes) /\ pc = "drain"
    BY DEF Drain, ParserInv, ParserTypeOK
  <1>2. CASE ToError /\ UNCHANGED cut
    BY <1>1, <1>2, ToErrorInv DEF ParserInv, ParserTypeOK
  <1>3. CASE /\ saw_carriage_return' = (Head(inb) = CR)
             /\ UNCHANGED <<pc, lineVars, is_finished, received, parsed, cut>>
    <2>1. ParsedWell' /\ parsed' \in Seq(ParsedLine)
      BY <1>3, SameParsed
    <2>2. saw_carriage_return' \in BOOLEAN
      BY <1>3
    <2>3. ParserTypeOK'
      BY <1>1, <1>3, <2>1, <2>2 DEF ParserInv, ParserTypeOK, lineVars
    <2>4. CommandSet' /\ Terminated' /\ NotYet' /\ Unfinished' /\ Resuming'
      BY <1>1, <1>3, FeedingIsFinished
      DEF CommandSet, Terminated, NotYet, Unfinished, Resuming, Between
    <2> QED
      BY <2>1, <2>3, <2>4 DEF ParserInv
  <1> QED
    BY <1>2, <1>3 DEF Drain

LEMMA DrainEndsInv == ASSUME ParserInv, DrainEnds PROVE ParserInv'
  BY ToErrorInv DEF DrainEnds, ParserInv, ParserTypeOK

----------------------------------------------------------------------------
LEMMA NextInv == ParserInv /\ [ParserNext]_parserVars => ParserInv'
  <1> SUFFICES ASSUME ParserInv, [ParserNext]_parserVars
               PROVE  ParserInv'
    OBVIOUS
  <1>1. ASSUME NEW n \in 0 .. BUFFER_SIZE, NEW s \in [1 .. n -> Bytes], Recv(s)
        PROVE  ParserInv'
    <2>1. s \in Seq(Bytes)
      BY LengthsAssumption
    <2> QED
      BY <1>1, <2>1, RecvInv
  <1>2. CASE GoOn \/ Resume \/ Feed \/ FeedEnds \/ Drain \/ DrainEnds
    BY <1>2, GoOnInv, ResumeInv, FeedInv, FeedEndsInv, DrainInv, DrainEndsInv
  <1>3. CASE UNCHANGED parserVars
    BY <1>3
    DEF parserVars, lineVars, ParserInv, ParserTypeOK, CommandSet, Terminated, NotYet,
        Unfinished, Resuming, ParsedWell, Between, IsString
  <1> QED
    BY <1>1, <1>2, <1>3 DEF ParserNext

(* No byte is written outside current_command or argument.                 *)
THEOREM ArraysHold == ParserSpec => []ParserTypeOK
  <1>1. ParserInv => ParserTypeOK
    BY DEF ParserInv
  <1> QED
    BY InitInv, NextInv, <1>1, PTL DEF ParserSpec

(* Every command that read_command looks up, and every argument that a     *)
(* handler converts, is a whole C string, also over the calls of a RETR    *)
(* that takes several.                                                     *)
THEOREM HandlersSeeStrings == ParserSpec => []StringsEnd
  <1>1. ParserInv => StringsEnd
    BY DEF ParserInv, ParsedWell, Unfinished, StringsEnd
  <1> QED
    BY InitInv, NextInv, <1>1, PTL DEF ParserSpec

----------------------------------------------------------------------------

(* Induction, by the least number that is not in the set.                  *)
LEMMA Least ==
    ASSUME NEW T \in SUBSET Nat, T # {}
    PROVE  \E x \in T : \A y \in T : x <= y
  <1> DEFINE R == {p \in Nat \X Nat : p[1] < p[2]}
  <1>1. IsWellFoundedOn(R, Nat)
    BY NatLessThanWellFounded DEF OpToRel
  <1> HIDE DEF R
  <1>2. PICK x \in T : \A y \in T : ~ (<<y, x>> \in R)
    BY <1>1, WFMin
  <1>3. ASSUME NEW y \in T PROVE x <= y
    <2>1. x \in Nat /\ y \in Nat
      OBVIOUS
    <2>2. <<y, x>> \in Nat \X Nat
      BY <2>1
    <2>3. ~(<<y, x>>[1] < <<y, x>>[2])
      BY <1>2, <2>2 DEF R
    <2> QED
      BY <2>1, <2>3
  <1> QED
    BY <1>3

LEMMA Induct ==
    ASSUME NEW T \in SUBSET Nat, 0 \in T, \A n \in T : n + 1 \in T
    PROVE  T = Nat
  <1> SUFFICES ASSUME T # Nat PROVE FALSE
    OBVIOUS
  <1>1. PICK x \in Nat \ T : \A y \in Nat \ T : x <= y
    BY Least
  <1>2. x - 1 \in Nat /\ x - 1 \in T
    BY <1>1
  <1> QED
    BY <1>1, <1>2

(* The function that Split takes its value from.                           *)
NoLines == [lines |-> <<>>, open |-> <<>>]
Splits(s, f) == f = [i \in 0 .. Len(s) |-> IF i = 0 THEN NoLines ELSE Line(f[i - 1], s[i])]

LEMMA SplitsSteps ==
    ASSUME NEW s, NEW f, Len(s) \in Nat, Splits(s, f)
    PROVE  /\ f[0] = NoLines
           /\ \A k \in Nat : k < Len(s) => f[k + 1] = Line(f[k], s[k + 1])
  <1> DEFINE F(g) == [i \in 0 .. Len(s) |-> IF i = 0 THEN NoLines ELSE Line(g[i - 1], s[i])]
  <1>1. f = F(f)
    BY DEF Splits
  <1>2. ASSUME NEW i \in 0 .. Len(s) PROVE f[i] = IF i = 0 THEN NoLines ELSE Line(f[i - 1], s[i])
    <2>1. F(f)[i] = IF i = 0 THEN NoLines ELSE Line(f[i - 1], s[i])
      OBVIOUS
    <2> QED
      BY <1>1, <2>1
  <1>3. ASSUME NEW k \in Nat, k < Len(s) PROVE f[k + 1] = Line(f[k], s[k + 1])
    <2>1. PICK i \in 0 .. Len(s) : i = k + 1 /\ i # 0 /\ i - 1 = k
      BY <1>3
    <2>2. f[i] = IF i = 0 THEN NoLines ELSE Line(f[i - 1], s[i])
      BY <1>2
    <2>3. f[i] = Line(f[k], s[i])
      BY ONLY <2>1, <2>2, Zenon
    <2> QED
      BY ONLY <2>1, <2>3, Zenon
  <1>4. f[0] = NoLines
    BY <1>2
  <1> QED
    BY <1>3, <1>4

LEMMA SplitsSome ==
    ASSUME NEW s, Len(s) \in Nat
    PROVE  \E f : Splits(s, f)
  <1> DEFINE G(m, f) == f = [i \in 0 .. m |-> IF i = 0 THEN NoLines ELSE Line(f[i - 1], s[i])]
             T == {m \in Nat : \E f : G(m, f)}
  <1>1. 0 \in T
    <2>1. G(0, [i \in 0 .. 0 |-> NoLines])
      OBVIOUS
    <2> HIDE DEF G
    <2> QED
      BY <2>1
  <1>2. ASSUME NEW m \in T PROVE m + 1 \in T
    <2>1. PICK f : G(m, f)
      OBVIOUS
    <2> DEFINE g == [i \in 0 .. m + 1 |-> IF i = 0 THEN NoLines ELSE Line(f[i - 1], s[i])]
               h == [i \in 0 .. m + 1 |-> IF i = 0 THEN NoLines ELSE Line(g[i - 1], s[i])]
    <2>2. ASSUME NEW i \in 0 .. m PROVE g[i] = f[i]
      <3>1. f[i] = IF i = 0 THEN NoLines ELSE Line(f[i - 1], s[i])
        BY <2>1
      <3> QED
        BY <3>1
    <2>3. ASSUME NEW i \in 0 .. m + 1 PROVE g[i] = h[i]
      <3>1. i # 0 => i - 1 \in 0 .. m
        OBVIOUS
      <3> QED
        BY <2>2, <3>1
    <2>4. g = h
      BY <2>3
    <2>5. G(m + 1, g)
      BY <2>4
    <2> HIDE DEF G, g, h
    <2> QED
      BY <2>5
  <1> HIDE DEF G
  <1>3. T = Nat
    BY <1>1, <1>2, Induct
  <1>4. \E f : G(Len(s), f)
    BY <1>3
  <1> QED
    BY <1>4 DEF G, Splits

LEMMA SplitIsLast ==
    ASSUME NEW s, Len(s) \in Nat
    PROVE  \E f : Splits(s, f) /\ Split(s) = f[Len(s)]
  <1>1. Splits(s, CHOOSE f : Splits(s, f))
    BY SplitsSome
  <1>2. Split(s) = (CHOOSE f : Splits(s, f))[Len(s)]
    BY DEF Split, Splits, NoLines
  <1> QED
    BY <1>1, <1>2

LEMMA SplitNothing == Split(<<>>) = NoLines
  <1>1. Len(<<>>) = 0 /\ Len(<<>>) \in Nat
    OBVIOUS
  <1>2. PICK f : Splits(<<>>, f) /\ Split(<<>>) = f[Len(<<>>)]
    BY <1>1, SplitIsLast
  <1>3. f[0] = NoLines
    BY <1>1, <1>2, SplitsSteps
  <1> QED
    BY ONLY <1>1, <1>2, <1>3, Zenon

(* One byte more of the stream.                                            *)
LEMMA SplitNext ==
    ASSUME NEW s \in Seq(Bytes), NEW c \in Bytes
    PROVE  Split(Append(s, c)) = Line(Split(s), c)
  <1> DEFINE t == Append(s, c)
  <1>1. /\ Len(s) \in Nat /\ Len(t) \in Nat /\ Len(t) = Len(s) + 1 /\ t[Len(s) + 1] = c
        /\ \A i \in 1 .. Len(s) : t[i] = s[i]
    OBVIOUS
  <1> HIDE DEF t
  <1>2. PICK f : Splits(s, f) /\ Split(s) = f[Len(s)]
    BY <1>1, SplitIsLast
  <1>3. PICK g : Splits(t, g) /\ Split(t) = g[Len(t)]
    BY <1>1, SplitIsLast
  <1>4. f[0] = NoLines /\ \A k \in Nat : k < Len(s) => f[k + 1] = Line(f[k], s[k + 1])
    BY <1>1, <1>2, SplitsSteps
  <1>5. g[0] = NoLines /\ \A k \in Nat : k < Len(t) => g[k + 1] = Line(g[k], t[k + 1])
    BY <1>1, <1>3, SplitsSteps
  <1> DEFINE T == {k \in Nat : k <= Len(s) => g[k] = f[k]}
  <1>6. 0 \in T
    BY <1>4, <1>5
  <1>7. ASSUME NEW k \in T PROVE k + 1 \in T
    <2> SUFFICES ASSUME k + 1 <= Len(s) PROVE g[k + 1] = f[k + 1]
      OBVIOUS
    <2>1. k \in Nat /\ k < Len(s) /\ k < Len(t) /\ t[k + 1] = s[k + 1] /\ g[k] = f[k]
      BY <1>1
    <2>2. f[k + 1] = Line(f[k], s[k + 1])
      BY <1>4, <2>1
    <2>3. g[k + 1] = Line(g[k], t[k + 1])
      BY <1>5, <2>1
    <2> QED
      BY ONLY <2>1, <2>2, <2>3, Zenon
  <1>8. T = Nat
    BY <1>6, <1>7, Induct
  <1>9. g[Len(s)] = f[Len(s)]
    BY <1>1, <1>8
  <1>10. g[Len(s) + 1] = Line(g[Len(s)], t[Len(s) + 1])
    <2>1. Len(s) \in Nat /\ Len(s) < Len(t)
      BY <1>1
    <2> QED
      BY ONLY <1>5, <2>1, Zenon
  <1> QED
    BY ONLY <1>1, <1>2, <1>3, <1>9, <1>10, Zenon DEF t

----------------------------------------------------------------------------
(* Lines that are bad before they end. What is open, l, ends as the line w *)
(* if a CR after w continues it, or is its last byte.                      *)
EndsAs(l, w) ==
    /\ Len(l) <= Len(w) + 1
    /\ \A i \in 1 .. Len(l) : l[i] = IF i <= Len(w) THEN w[i] ELSE CR
Doomed(l) == \A w \in Seq(Bytes) : EndsAs(l, w) => ~Good(w)

(* t is s and one byte more.                                               *)
Longer(t, s, c) ==
    /\ s \in Seq(Bytes) /\ t \in Seq(Bytes) /\ c \in Bytes
    /\ Len(s) \in Nat /\ Len(t) = Len(s) + 1 /\ t[Len(t)] = c
    /\ \A i \in 1 .. Len(s) : t[i] = s[i]

LEMMA AppendIsLonger ==
    ASSUME NEW s \in Seq(Bytes), NEW c \in Bytes PROVE Longer(Append(s, c), s, c)
  BY AppendProperties, LenProperties DEF Longer

LEMMA CharIsByte ==
    /\ SP \in Bytes /\ CR \in Bytes /\ LF \in Bytes /\ NUL \notin Bytes
    /\ SP # CR /\ CR # LF /\ SP # LF
  BY CharsAssumption DEF Bytes, SP, CR, LF, NUL

(* What is doomed stays so, whatever comes.                                *)
LEMMA StaysDoomed ==
    ASSUME NEW t, NEW s, NEW c, Longer(t, s, c), Doomed(s)
    PROVE  Doomed(t)
  <1> SUFFICES ASSUME NEW w \in Seq(Bytes), EndsAs(t, w)
               PROVE  EndsAs(s, w)
    BY DEF Doomed
  <1>1. Len(w) \in Nat
    BY LenProperties
  <1>2. /\ Len(s) \in Nat /\ Len(t) = Len(s) + 1
        /\ \A i \in 1 .. Len(s) : t[i] = s[i]
    BY DEF Longer
  <1>3. /\ Len(t) <= Len(w) + 1
        /\ \A i \in 1 .. Len(t) : t[i] = IF i <= Len(w) THEN w[i] ELSE CR
    BY DEF EndsAs
  <1>4. ASSUME NEW i \in 1 .. Len(s) PROVE s[i] = IF i <= Len(w) THEN w[i] ELSE CR
    <2>1. i \in 1 .. Len(t)
      BY <1>2
    <2>2. t[i] = IF i <= Len(w) THEN w[i] ELSE CR
      BY <1>3, <2>1
    <2>3. t[i] = s[i]
      BY <1>2
    <2> QED
      BY ONLY <2>2, <2>3, Zenon
  <1> QED
    BY <1>1, <1>2, <1>3, <1>4 DEF EndsAs

(* A doomed line that ends is bad.                                         *)
LEMMA DoomedIsBad ==
    ASSUME NEW l \in Seq(Bytes), l # <<>>, Last(l) = CR, Doomed(l)
    PROVE  Front(l) \in Seq(Bytes) /\ Meant(Front(l)) = Bad
  <1> DEFINE w == SubSeq(l, 1, Len(l) - 1)
  <1>1. Len(l) \in Nat /\ Len(l) >= 1 /\ l[Len(l)] = CR
    BY LenProperties, EmptySeq DEF Last
  <1>2. w \in Seq(Bytes) /\ Len(w) = Len(l) - 1 /\ \A i \in 1 .. Len(l) - 1 : w[i] = l[i]
    <2>1. PICK k \in 0 .. Len(l) : k = Len(l) - 1
      <3>1. Len(l) \in Nat /\ Len(l) >= 1
        BY <1>1
      <3> DEFINE k == Len(l) - 1
      <3>2. k \in 0 .. Len(l) /\ k = Len(l) - 1
        BY ONLY <3>1
      <3> QED
        BY <3>2
    <2>2. /\ SubSeq(l, 1, k) \in Seq(Bytes) /\ Len(SubSeq(l, 1, k)) = k
          /\ \A i \in 1 .. k : SubSeq(l, 1, k)[i] = l[i]
      BY <1>1
    <2> QED
      BY ONLY <2>1, <2>2, Zenon
  <1>3. Front(l) = w
    BY DEF Front
  <1> HIDE DEF w
  <1>4. EndsAs(l, w)
    <2>1. ASSUME NEW i \in 1 .. Len(l) PROVE l[i] = IF i <= Len(w) THEN w[i] ELSE CR
      <3>1. CASE i = Len(l)
        BY <1>1, <1>2, <3>1
      <3>2. CASE i # Len(l)
        BY <1>1, <1>2, <3>2
      <3> QED
        BY <3>1, <3>2
    <2> QED
      BY <1>1, <1>2, <2>1 DEF EndsAs
  <1>5. ~Good(w)
    BY <1>2, <1>4 DEF Doomed
  <1> QED
    BY <1>2, <1>3, <1>5 DEF Meant

(* The command is too short, and a space or CR is its end.                 *)
LEMMA ShortIsDoomed ==
    ASSUME NEW t, NEW s, NEW c, Longer(t, s, c), c \in {SP, CR}, Len(s) < MIN_COMMAND_LENGTH
    PROVE  Doomed(t)
  <1> SUFFICES ASSUME NEW w \in Seq(Bytes), EndsAs(t, w), Good(w)
               PROVE  FALSE
    BY DEF Doomed
  <1>1. /\ Len(s) \in Nat /\ Len(t) = Len(s) + 1 /\ t[Len(t)] = c /\ Len(w) \in Nat
        /\ Len(t) \in 1 .. MIN_COMMAND_LENGTH /\ Len(t) \in 1 .. Len(t)
    BY LenProperties, LengthsAssumption DEF Longer
  <1>2. Len(w) >= MIN_COMMAND_LENGTH /\ w[Len(t)] \notin {SP, CR}
    BY <1>1 DEF Good
  <1>3. t[Len(t)] = IF Len(t) <= Len(w) THEN w[Len(t)] ELSE CR
    BY <1>1 DEF EndsAs
  <1>4. Len(t) <= Len(w)
    BY <1>1, <1>2, LengthsAssumption
  <1> QED
    BY <1>1, <1>2, <1>3, <1>4

(* The command is whole, and neither a space nor CR follows.               *)
LEMMA LongIsDoomed ==
    ASSUME NEW t, NEW s, NEW c, Longer(t, s, c), c \notin {SP, CR}, Len(s) = MIN_COMMAND_LENGTH
    PROVE  Doomed(t)
  <1> SUFFICES ASSUME NEW w \in Seq(Bytes), EndsAs(t, w), Good(w)
               PROVE  FALSE
    BY DEF Doomed
  <1>1. /\ Len(t) = MIN_COMMAND_LENGTH + 1 /\ t[Len(t)] = c /\ Len(w) \in Nat
        /\ Len(t) \in 1 .. Len(t) /\ MIN_COMMAND_LENGTH \in Nat
    BY LenProperties, LengthsAssumption DEF Longer
  <1>2. t[Len(t)] = IF Len(t) <= Len(w) THEN w[Len(t)] ELSE CR
    BY <1>1 DEF EndsAs
  <1>3. Len(t) <= Len(w) /\ w[Len(t)] # SP
    BY <1>1, <1>2
  <1> QED
    BY <1>1, <1>3 DEF Good

(* A good line and its CR, and no LF after it.                             *)
LEMMA AfterEndIsDoomed ==
    ASSUME NEW l \in Seq(Bytes), Good(l), NEW s, Longer(s, l, CR), NEW t, NEW c, Longer(t, s, c)
    PROVE  Doomed(t)
  <1> SUFFICES ASSUME NEW w \in Seq(Bytes), EndsAs(t, w), Good(w)
               PROVE  FALSE
    BY DEF Doomed
  <1>1. /\ Len(l) \in Nat /\ Len(s) = Len(l) + 1 /\ s[Len(l) + 1] = CR
        /\ Len(t) = Len(l) + 2 /\ Len(w) \in Nat /\ MIN_COMMAND_LENGTH \in Nat
    BY LenProperties, LengthsAssumption DEF Longer
  <1>2. Len(l) + 1 \in 1 .. Len(t) /\ Len(l) + 1 \in 1 .. Len(s)
    BY <1>1
  <1>3. t[Len(l) + 1] = CR
    BY <1>1, <1>2 DEF Longer
  <1>4. Len(l) + 1 <= Len(w)
    BY <1>1 DEF EndsAs
  <1>5. w[Len(l) + 1] = CR
    <2>1. t[Len(l) + 1] = IF Len(l) + 1 <= Len(w) THEN w[Len(l) + 1] ELSE CR
      BY <1>2 DEF EndsAs
    <2> QED
      BY ONLY <1>3, <1>4, <2>1, Zenon
  <1>6. Len(l) >= MIN_COMMAND_LENGTH
    BY DEF Good
  <1>7. Len(w) # MIN_COMMAND_LENGTH /\ w[MIN_COMMAND_LENGTH + 1] = SP
    BY <1>1, <1>4, <1>6 DEF Good
  <1>8. Len(l) + 1 \in MIN_COMMAND_LENGTH + 2 .. Len(w)
    BY <1>1, <1>4, <1>5, <1>6, <1>7, CharIsByte
  <1> QED
    BY <1>5, <1>7, <1>8 DEF Good

(* A whole command, a space, and an argument with no CR.                   *)
Spelled(l, cmd, arg) ==
    /\ l \in Seq(Bytes) /\ arg \in Seq(Bytes \cup {NUL})
    /\ Len(l) = MIN_COMMAND_LENGTH + 1 + Len(arg)
    /\ Command(l) = cmd /\ \A i \in 1 .. MIN_COMMAND_LENGTH : l[i] \notin {SP, CR}
    /\ l[MIN_COMMAND_LENGTH + 1] = SP
    /\ Argument(l) = arg /\ \A i \in MIN_COMMAND_LENGTH + 2 .. Len(l) : l[i] # CR

(* The argument is empty, or there is no room in it for a NUL, at its CR.  *)
LEMMA EmptyIsDoomed ==
    ASSUME NEW l, NEW cmd, NEW arg, Spelled(l, cmd, arg), NEW t, Longer(t, l, CR),
           Len(arg) = 0 \/ Len(arg) >= ARGUMENT_LENGTH
    PROVE  Doomed(t)
  <1> SUFFICES ASSUME NEW w \in Seq(Bytes), EndsAs(t, w), Good(w)
               PROVE  FALSE
    BY DEF Doomed
  <1>1. /\ Len(l) = MIN_COMMAND_LENGTH + 1 + Len(arg) /\ Len(t) = Len(l) + 1 /\ t[Len(t)] = CR
        /\ Len(w) \in Nat /\ Len(arg) \in Nat /\ MIN_COMMAND_LENGTH \in Nat /\ ARGUMENT_LENGTH \in Nat
    BY LenProperties, LengthsAssumption DEF Longer, Spelled
  <1>2. Len(w) + 1 >= Len(t)
    BY DEF EndsAs
  <1>3. /\ Len(w) - MIN_COMMAND_LENGTH - 1 \in 1 .. ARGUMENT_LENGTH - 1
        /\ \A i \in MIN_COMMAND_LENGTH + 2 .. Len(w) : w[i] # CR
    BY <1>1, <1>2 DEF Good
  <1>4. Len(arg) = 0 /\ Len(t) \in MIN_COMMAND_LENGTH + 2 .. Len(w)
    BY <1>1, <1>2, <1>3
  <1>5. t[Len(t)] = w[Len(t)]
    <2>1. Len(t) \in 1 .. Len(t) /\ Len(t) <= Len(w)
      BY <1>1, <1>4
    <2> QED
      BY <2>1 DEF EndsAs
  <1> QED
    BY <1>1, <1>3, <1>4, <1>5

(* There is no room in the argument for one byte more.                     *)
LEMMA FullIsDoomed ==
    ASSUME NEW l, NEW cmd, NEW arg, Spelled(l, cmd, arg), NEW t, NEW c, Longer(t, l, c), c # CR,
           Len(arg) >= ARGUMENT_LENGTH
    PROVE  Doomed(t)
  <1> SUFFICES ASSUME NEW w \in Seq(Bytes), EndsAs(t, w), Good(w)
               PROVE  FALSE
    BY DEF Doomed
  <1>1. /\ Len(l) = MIN_COMMAND_LENGTH + 1 + Len(arg) /\ Len(t) = Len(l) + 1 /\ t[Len(t)] = c
        /\ Len(w) \in Nat /\ Len(arg) \in Nat /\ MIN_COMMAND_LENGTH \in Nat /\ ARGUMENT_LENGTH \in Nat
    BY LenProperties, LengthsAssumption DEF Longer, Spelled
  <1>2. Len(t) <= Len(w) + 1
    BY DEF EndsAs
  <1> QED
    BY <1>1, <1>2 DEF Good

(* What is meant by a command alone, and by one with its argument.         *)
LEMMA CommandIsMeant ==
    ASSUME NEW l \in Seq(Bytes), Len(l) = MIN_COMMAND_LENGTH, \A i \in 1 .. Len(l) : l[i] \notin {SP, CR}
    PROVE  Good(l) /\ Meant(l) = [ok |-> TRUE, command |-> l, argument |-> <<>>]
  <1>1. Good(l)
    BY LengthsAssumption DEF Good
  <1>2. Command(l) = l /\ Argument(l) = <<>>
    BY LengthsAssumption DEF Command, Argument
  <1>3. Argument(l) \o <<>> = <<>>
    BY <1>2
  <1> QED
    BY <1>1, <1>2, <1>3 DEF Meant

LEMMA ArgumentIsMeant ==
    ASSUME NEW l, NEW cmd, NEW arg, Spelled(l, cmd, arg), Len(arg) > 0, Len(arg) < ARGUMENT_LENGTH
    PROVE  Good(l) /\ Meant(l) = [ok |-> TRUE, command |-> cmd, argument |-> Append(arg, NUL)]
  <1>1. Len(arg) \in Nat /\ arg \in Seq(Bytes \cup {NUL}) /\ Len(l) = MIN_COMMAND_LENGTH + 1 + Len(arg)
        /\ MIN_COMMAND_LENGTH \in Nat /\ ARGUMENT_LENGTH \in Nat
    BY LenProperties, LengthsAssumption DEF Spelled
  <1>2. Good(l)
    <2>1. Len(l) >= MIN_COMMAND_LENGTH /\ Len(l) - MIN_COMMAND_LENGTH - 1 \in 1 .. ARGUMENT_LENGTH - 1
      BY <1>1
    <2> QED
      BY <2>1 DEF Good, Spelled
  <1>3. Command(l) = cmd /\ Argument(l) = arg /\ arg # <<>> /\ arg \o <<NUL>> = Append(arg, NUL)
    BY <1>1 DEF Spelled
  <1> QED
    BY <1>2, <1>3 DEF Meant

(* The argument is spelled byte by byte.                                   *)
LEMMA SpaceSpells ==
    ASSUME NEW l, NEW t, Longer(t, l, SP), Len(l) = MIN_COMMAND_LENGTH,
           \A i \in 1 .. Len(l) : l[i] \notin {SP, CR}
    PROVE  Spelled(t, l, <<>>)
  <1>1. /\ l \in Seq(Bytes) /\ t \in Seq(Bytes) /\ Len(t) = Len(l) + 1 /\ t[Len(t)] = SP
        /\ \A i \in 1 .. Len(l) : t[i] = l[i]
        /\ MIN_COMMAND_LENGTH \in Nat
    BY LengthsAssumption DEF Longer
  <1>2. Command(t) = l
    <2> DEFINE u == SubSeq(t, 1, MIN_COMMAND_LENGTH)
    <2>1. u \in Seq(Bytes) /\ Len(u) = Len(l) /\ \A i \in 1 .. Len(l) : u[i] = t[i]
      BY <1>1
    <2> HIDE DEF u
    <2>2. u = l
      BY <1>1, <2>1, SeqEqual
    <2> QED
      BY <2>2 DEF Command, u
  <1>3. Argument(t) = <<>> /\ <<>> \in Seq(Bytes \cup {NUL}) /\ Len(<<>>) = 0
    BY <1>1 DEF Argument
  <1>4. \A i \in MIN_COMMAND_LENGTH + 2 .. Len(t) : FALSE
    BY <1>1
  <1> QED
    BY <1>1, <1>2, <1>3, <1>4 DEF Spelled

LEMMA ByteSpells ==
    ASSUME NEW l, NEW cmd, NEW arg, Spelled(l, cmd, arg), NEW t, NEW c, Longer(t, l, c), c # CR
    PROVE  Spelled(t, cmd, Append(arg, c))
  <1>1. /\ l \in Seq(Bytes) /\ t \in Seq(Bytes) /\ c \in Bytes /\ Len(t) = Len(l) + 1 /\ t[Len(t)] = c
        /\ \A i \in 1 .. Len(l) : t[i] = l[i]
        /\ MIN_COMMAND_LENGTH \in Nat
    BY LengthsAssumption DEF Longer
  <1>2. /\ arg \in Seq(Bytes \cup {NUL}) /\ Len(arg) \in Nat /\ Len(l) = MIN_COMMAND_LENGTH + 1 + Len(arg)
        /\ Command(l) = cmd /\ \A i \in 1 .. MIN_COMMAND_LENGTH : l[i] \notin {SP, CR}
        /\ l[MIN_COMMAND_LENGTH + 1] = SP
        /\ Argument(l) = arg /\ \A i \in MIN_COMMAND_LENGTH + 2 .. Len(l) : l[i] # CR
    BY LenProperties DEF Spelled
  <1>3. Append(arg, c) \in Seq(Bytes \cup {NUL}) /\ Len(Append(arg, c)) = Len(arg) + 1
    BY <1>1, <1>2
  <1>4. Command(t) = cmd
    <2> DEFINE u == SubSeq(t, 1, MIN_COMMAND_LENGTH)
               v == SubSeq(l, 1, MIN_COMMAND_LENGTH)
    <2>1. /\ u \in Seq(Bytes) /\ Len(u) = MIN_COMMAND_LENGTH /\ v \in Seq(Bytes) /\ Len(v) = MIN_COMMAND_LENGTH
          /\ \A i \in 1 .. MIN_COMMAND_LENGTH : u[i] = t[i]
          /\ \A i \in 1 .. MIN_COMMAND_LENGTH : v[i] = l[i]
      BY <1>1, <1>2
    <2> HIDE DEF u, v
    <2>2. \A i \in 1 .. MIN_COMMAND_LENGTH : u[i] = v[i]
      BY <1>1, <1>2, <2>1
    <2>3. u = v
      BY <2>1, <2>2, SeqEqual
    <2> QED
      BY <1>2, <2>3 DEF Command, u, v
  <1>5. Argument(t) = Append(arg, c)
    <2> DEFINE M == MIN_COMMAND_LENGTH
               u == SubSeq(t, M + 2, Len(t))
               v == SubSeq(l, M + 2, Len(l))
               a == Append(arg, c)
    <2>1. /\ u \in Seq(Bytes) /\ Len(u) = Len(arg) + 1
          /\ \A i \in 1 .. Len(arg) + 1 : u[i] = t[M + 1 + i]
      <3> HIDE DEF M
      <3>1. PICK n \in Nat, k \in Nat : n = M + 2 /\ k = Len(arg) + 1
        BY <1>1, <1>2 DEF M
      <3>2. Len(t) = n + k - 1 /\ n \in 1 .. Len(t) /\ Len(t) \in Nat
        BY <1>1, <1>2, <3>1 DEF M
      <3>3. /\ SubSeq(t, n, Len(t)) \in Seq(Bytes) /\ Len(SubSeq(t, n, Len(t))) = k
            /\ \A i \in 1 .. k : SubSeq(t, n, Len(t))[i] = t[n + i - 1]
        BY <1>1, <3>2
      <3>4. \A i \in 1 .. k : n + i - 1 = M + 1 + i
        BY <1>1, <3>1 DEF M
      <3> QED
        BY <3>1, <3>3, <3>4
    <2>2. \A i \in 1 .. Len(arg) : v[i] = l[M + 1 + i]
      BY <1>1, <1>2
    <2>3. v = arg
      BY <1>2 DEF Argument
    <2>4. /\ Len(a) = Len(arg) + 1 /\ a[Len(arg) + 1] = c /\ \A i \in 1 .. Len(arg) : a[i] = arg[i]
      BY <1>1, <1>2
    <2> HIDE DEF u, v, a
    <2>5. ASSUME NEW i \in 1 .. Len(arg) + 1 PROVE u[i] = a[i]
      <3>1. CASE i = Len(arg) + 1
        <4>1. M + 1 + i = Len(t)
          BY <1>1, <1>2, <3>1
        <4> QED
          BY <1>1, <2>1, <2>4, <3>1, <4>1
      <3>2. CASE i # Len(arg) + 1
        <4>1. i \in 1 .. Len(arg) /\ M + 1 + i \in 1 .. Len(l)
          BY <1>1, <1>2, <3>2
        <4> QED
          BY <1>1, <2>1, <2>2, <2>3, <2>4, <4>1
      <3> QED
        BY <3>1, <3>2
    <2>6. u \in Seq(Bytes \cup {NUL}) /\ a \in Seq(Bytes \cup {NUL})
      BY <1>3, <2>1 DEF a
    <2>7. u = a
      BY <2>1, <2>4, <2>5, <2>6, SeqEqual
    <2> QED
      BY <2>7 DEF Argument, u, a
  <1>6. \A i \in MIN_COMMAND_LENGTH + 2 .. Len(t) : t[i] # CR
    <2>1. \A i \in MIN_COMMAND_LENGTH + 2 .. Len(t) :
            i = Len(t) \/ (i \in 1 .. Len(l) /\ i \in MIN_COMMAND_LENGTH + 2 .. Len(l))
      BY <1>1, <1>2
    <2> QED
      BY <1>1, <1>2, <2>1
  <1>7. /\ \A i \in 1 .. MIN_COMMAND_LENGTH + 1 : t[i] = l[i]
        /\ Len(t) = MIN_COMMAND_LENGTH + 1 + Len(Append(arg, c))
        /\ 1 .. MIN_COMMAND_LENGTH \subseteq 1 .. MIN_COMMAND_LENGTH + 1
        /\ MIN_COMMAND_LENGTH + 1 \in 1 .. MIN_COMMAND_LENGTH + 1
    BY <1>1, <1>2, <1>3
  <1> QED
    BY <1>1, <1>2, <1>3, <1>4, <1>5, <1>6, <1>7 DEF Spelled

----------------------------------------------------------------------------
(* The parser's state says what is open of the stream, l: nothing while a  *)
(* command is unfinished, the command, the command and its argument so     *)
(* far, or a whole line and its CR; while it drains, a line already bad.   *)
Ended(l, text) ==
    /\ text \in Seq(Bytes) /\ Longer(l, text, CR) /\ Front(l) = text
    /\ Good(text) /\ Meant(text) = [ok |-> TRUE, command |-> command, argument |-> argument]
NoSpace(l)   == \A i \in 1 .. Len(l) : l[i] \notin {SP, CR}
AtCR(l)      == l # <<>> /\ Last(l) = CR
OpenInv(l) ==
    /\ ~is_finished => l = <<>>
    /\ Between /\ is_finished /\ state = "COMMAND" => l = command /\ argument = <<>> /\ NoSpace(l)
    /\ Between /\ state = "ARGUMENT" => Spelled(l, command, argument)
    /\ Between /\ state = "END" => \E text : Ended(l, text)
    /\ pc = "drain" => Doomed(l) /\ (saw_carriage_return <=> AtCR(l))

(* What is in in_buff is the end of what was received, and the lines       *)
(* before it have their verdicts, in order.                                *)
Suffix ==
    /\ Len(inb) <= Len(received)
    /\ \A i \in 1 .. Len(inb) : inb[i] = received[Len(received) - Len(inb) + i]
Verdicts(ls) == [i \in DOMAIN ls |-> Meant(ls[i])]
Seen(ls, l)  == /\ ls \in Seq(Seq(Bytes)) /\ l \in Seq(Bytes)
                /\ parsed = Verdicts(ls) /\ OpenInv(l)
LineInv ==
    /\ Suffix
    /\ ~cut => \E ls, l : Split(Consumed) = [lines |-> ls, open |-> l] /\ Seen(ls, l)

----------------------------------------------------------------------------
(* What was consumed of the stream.                                        *)

LEMMA EmptyLine == Len(<<>>) = 0 /\ <<>> \in Seq(Bytes)
  OBVIOUS

LEMMA AppendIsAtCR ==
    ASSUME NEW l \in Seq(Bytes), NEW c \in Bytes
    PROVE  AtCR(Append(l, c)) <=> c = CR
  <1> DEFINE t == Append(l, c)
  <1>1. t \in Seq(Bytes) /\ Len(t) = Len(l) + 1 /\ t[Len(l) + 1] = c /\ Len(l) \in Nat
    OBVIOUS
  <1> HIDE DEF t
  <1>2. t # <<>> /\ Last(t) = c
    BY <1>1 DEF Last
  <1> QED
    BY <1>2 DEF AtCR, t

LEMMA FrontOfAppend ==
    ASSUME NEW l \in Seq(Bytes), NEW c \in Bytes
    PROVE  Front(Append(l, c)) = l
  <1> DEFINE t == Append(l, c)
             u == SubSeq(t, 1, Len(l))
  <1>1. t \in Seq(Bytes) /\ Len(t) = Len(l) + 1 /\ Len(l) \in Nat /\ \A i \in 1 .. Len(l) : t[i] = l[i]
    OBVIOUS
  <1> HIDE DEF t
  <1>2. u \in Seq(Bytes) /\ Len(u) = Len(l) /\ \A i \in 1 .. Len(l) : u[i] = t[i]
    BY <1>1
  <1>3. Front(t) = u
    BY <1>1 DEF Front
  <1> HIDE DEF u
  <1>4. u = l
    BY <1>1, <1>2, SeqEqual
  <1> QED
    BY <1>3, <1>4 DEF t

LEMMA ConsumedIsSeq ==
    ASSUME ParserInv, Suffix PROVE Consumed \in Seq(Bytes)
  <1>1. received \in Seq(Bytes) /\ Len(received) \in Nat /\ Len(inb) \in Nat /\ Len(inb) <= Len(received)
    BY DEF ParserInv, ParserTypeOK, Suffix
  <1> DEFINE k == Len(received) - Len(inb)
  <1>2. k \in 0 .. Len(received)
    BY <1>1
  <1>3. SubSeq(received, 1, k) \in Seq(Bytes)
    BY <1>1, <1>2
  <1> QED
    BY <1>3 DEF Consumed

LEMMA NothingIsConsumed ==
    ASSUME Suffix, UNCHANGED <<inb, received>>
    PROVE  Suffix' /\ Consumed' = Consumed
  BY DEF Suffix, Consumed

LEMMA ByteIsConsumed ==
    ASSUME ParserInv, Suffix, inb # <<>>, inb' = Tail(inb), received' = received
    PROVE  Suffix' /\ Head(inb) \in Bytes /\ Consumed' = Append(Consumed, Head(inb))
  <1> DEFINE n == Len(received)
             k == Len(received) - Len(inb)
  <1>1. /\ received \in Seq(Bytes) /\ inb \in Seq(Bytes) /\ n \in Nat /\ Len(inb) \in Nat
        /\ Len(inb) >= 1 /\ Len(inb) <= n
        /\ \A i \in 1 .. Len(inb) : inb[i] = received[k + i]
    BY EmptySeq DEF ParserInv, ParserTypeOK, Suffix
  <1>2. /\ Tail(inb) \in Seq(Bytes) /\ Len(Tail(inb)) = Len(inb) - 1 /\ Head(inb) = inb[1]
        /\ \A i \in 1 .. Len(inb) - 1 : Tail(inb)[i] = inb[i + 1]
    BY <1>1
  <1>3. Head(inb) \in Bytes /\ Head(inb) = received[k + 1]
    BY <1>1, <1>2
  <1>4. Suffix'
    <2>1. Len(inb') = Len(inb) - 1
      BY <1>2
    <2>2. ASSUME NEW i \in 1 .. Len(inb) - 1
          PROVE  inb'[i] = received[n - (Len(inb) - 1) + i]
      <3>1. i + 1 \in 1 .. Len(inb) /\ k + (i + 1) = n - (Len(inb) - 1) + i
        BY <1>1
      <3>2. inb'[i] = inb[i + 1]
        BY <1>2
      <3> QED
        BY <1>1, <3>1, <3>2
    <2> QED
      BY <1>1, <2>1, <2>2 DEF Suffix
  <1>5. Consumed' = Append(Consumed, Head(inb))
    <2>1. PICK m \in Nat : m = k /\ m + 1 \in 0 .. n /\ m \in 0 .. n
      <3>1. n \in Nat /\ Len(inb) \in Nat /\ Len(inb) >= 1 /\ Len(inb) <= n
        BY <1>1
      <3> HIDE DEF n
      <3>2. k = n - Len(inb)
        BY DEF n
      <3> HIDE DEF k
      <3>3. k \in Nat /\ k + 1 \in 0 .. n /\ k \in 0 .. n
        BY <3>1, <3>2
      <3> QED
        BY <3>3
    <2> DEFINE u == SubSeq(received, 1, m + 1)
               v == SubSeq(received, 1, m)
               w == Append(v, received[m + 1])
    <2>2. v \in Seq(Bytes) /\ Len(v) = m /\ \A i \in 1 .. m : v[i] = received[i]
      BY <1>1, <2>1
    <2>3. u \in Seq(Bytes) /\ Len(u) = m + 1 /\ \A i \in 1 .. m + 1 : u[i] = received[i]
      BY <1>1, <2>1
    <2>4. received[m + 1] \in Bytes
      BY <1>1, <2>1
    <2> HIDE DEF v
    <2>5. /\ w \in Seq(Bytes) /\ Len(w) = m + 1 /\ w[m + 1] = received[m + 1]
          /\ \A i \in 1 .. m : w[i] = v[i]
      BY <2>2, <2>4, AppendProperties
    <2> HIDE DEF u, w
    <2>6. ASSUME NEW i \in 1 .. m + 1 PROVE u[i] = w[i]
      <3>1. i = m + 1 \/ i \in 1 .. m
        BY <2>1
      <3> QED
        BY <2>2, <2>3, <2>5, <3>1
    <2>7. u = w
      BY <2>3, <2>5, <2>6, SeqEqual
    <2>8. Consumed = v /\ Consumed' = u
      <3>1. Len(received') - Len(inb') = m + 1
        BY <1>1, <1>2, <2>1
      <3> QED
        BY <2>1, <3>1 DEF Consumed, u, v
    <2> QED
      BY <1>3, <2>1, <2>7, <2>8 DEF w
  <1> QED
    BY <1>3, <1>4, <1>5

----------------------------------------------------------------------------
(* parser_feed: the bytes that do not end a line, by the state that each   *)
(* finds the parser in.                                                    *)

LEMMA Feeding ==
    ASSUME ParserInv, pc = "feed"
    PROVE  /\ is_finished = TRUE /\ Between /\ Len(command) <= MIN_COMMAND_LENGTH
           /\ Len(command) \in Nat /\ MIN_COMMAND_LENGTH \in Nat
           /\ Len(argument) \in Nat /\ ARGUMENT_LENGTH \in Nat
           /\ command \in Seq(Bytes) /\ argument \in Seq(Bytes \cup {NUL})
  BY LengthsAssumption, LenProperties DEF ParserInv, ParserTypeOK, Unfinished, Between

(* What happens to the open line, which the byte does not end.             *)
Grows(l, c) == /\ parsed' = parsed /\ cut' = cut
               /\ OpenInv(Append(l, c))'
               /\ ~(c = LF /\ AtCR(l))

LEMMA DoomedGrows ==
    ASSUME ParserInv, pc = "feed", NEW l \in Seq(Bytes), NEW c \in Bytes, NEW next,
           Invalid(c, next), Doomed(Append(l, c)), ~(c = LF /\ AtCR(l))
    PROVE  Grows(l, c)
  <1>1. is_finished' = TRUE /\ pc' = "drain" /\ (saw_carriage_return' <=> c = CR)
    BY Feeding DEF Invalid
  <1>2. AtCR(Append(l, c)) <=> c = CR
    BY AppendIsAtCR
  <1>3. ~Between'
    BY <1>1 DEF Between
  <1>4. Doomed(Append(l, c))'
    BY DEF Doomed
  <1>5. AtCR(Append(l, c))' <=> c = CR
    BY <1>2
  <1>6. OpenInv(Append(l, c))'
    BY <1>1, <1>3, <1>4, <1>5 DEF OpenInv
  <1> QED
    BY <1>6 DEF Grows, Invalid

LEMMA NotAtCR ==
    ASSUME ParserInv, pc = "feed", NEW l \in Seq(Bytes), OpenInv(l), state # "END"
    PROVE  ~AtCR(l)
  <1> SUFFICES ASSUME AtCR(l) PROVE FALSE
    OBVIOUS
  <1>1. Len(l) \in 1 .. Len(l) /\ l[Len(l)] = CR /\ Len(l) \in Nat
    BY EmptySeq, LenProperties DEF AtCR, Last
  <1>2. CASE state = "COMMAND"
    <2>1. NoSpace(l)
      BY <1>2, Feeding DEF OpenInv
    <2> QED
      BY <1>1, <2>1 DEF NoSpace
  <1>3. CASE state = "ARGUMENT"
    <2>1. Spelled(l, command, argument)
      BY <1>3, Feeding DEF OpenInv
    <2>2. Len(l) = MIN_COMMAND_LENGTH + 1 + Len(argument)
      BY <2>1 DEF Spelled
    <2>3. CASE Len(l) = MIN_COMMAND_LENGTH + 1
      BY <1>1, <2>1, <2>3, CharIsByte DEF Spelled
    <2>4. CASE Len(l) # MIN_COMMAND_LENGTH + 1
      <3>1. Len(l) \in MIN_COMMAND_LENGTH + 2 .. Len(l)
        BY <1>1, <2>2, <2>4, Feeding
      <3> QED
        BY <1>1, <2>1, <3>1 DEF Spelled
    <2> QED
      BY <2>3, <2>4
  <1> QED
    BY <1>2, <1>3 DEF ParserInv, ParserTypeOK

LEMMA CommandGrows ==
    ASSUME ParserInv, pc = "feed", NEW l \in Seq(Bytes), OpenInv(l), NEW c \in Bytes,
           state = "COMMAND", c \notin {SP, CR}, CommandAny(c)
    PROVE  Grows(l, c)
  <1>1. l = command /\ argument = <<>> /\ NoSpace(l) /\ Longer(Append(l, c), l, c)
    BY Feeding, AppendIsLonger DEF OpenInv
  <1>2. ~AtCR(l)
    BY NotAtCR
  <1>3. CASE Len(command) < MIN_COMMAND_LENGTH
    <2>1. /\ command' = Append(command, c) /\ state' = "COMMAND" /\ pc' = "feed" /\ argument' = <<>>
          /\ is_finished' = TRUE /\ parsed' = parsed /\ cut' = cut
      <3>1. command' = Append(command, c) /\ Undefined("COMMAND") /\ UNCHANGED argument
        BY <1>3, Feeding DEF CommandAny
      <3> QED
        BY <1>1, <3>1, Feeding DEF Undefined
    <2>2. NoSpace(Append(l, c))
      <3> DEFINE t == Append(l, c)
      <3>1. Len(t) = Len(l) + 1 /\ t[Len(t)] = c /\ Len(l) \in Nat /\ \A i \in 1 .. Len(l) : t[i] = l[i]
        BY <1>1 DEF Longer
      <3> HIDE DEF t
      <3>2. ASSUME NEW i \in 1 .. Len(t) PROVE t[i] \notin {SP, CR}
        <4>1. i = Len(t) \/ i \in 1 .. Len(l)
          BY <3>1
        <4> QED
          BY <1>1, <3>1, <4>1 DEF NoSpace
      <3> QED
        BY <3>2 DEF NoSpace, t
    <2>3. OpenInv(Append(l, c))'
      <3>1. NoSpace(Append(l, c))'
        BY <2>2 DEF NoSpace
      <3> QED
        BY <1>1, <2>1, <3>1 DEF OpenInv, Between
    <2> QED
      BY <1>2, <2>1, <2>3 DEF Grows
  <1>4. CASE Len(command) >= MIN_COMMAND_LENGTH
    <2>1. Len(l) = MIN_COMMAND_LENGTH
      BY <1>1, <1>4, Feeding
    <2>2. Doomed(Append(l, c))
      BY <1>1, <2>1, LongIsDoomed
    <2>3. Invalid(c, "COMMAND")
      BY <1>4, Feeding DEF CommandAny
    <2> QED
      BY <1>2, <2>2, <2>3, DoomedGrows
  <1> QED
    BY <1>3, <1>4, Feeding

LEMMA CommandEnds ==
    ASSUME ParserInv, pc = "feed", NEW l \in Seq(Bytes), OpenInv(l), NEW c \in Bytes, state = "COMMAND",
           (c = SP /\ EndOfCommand(c, "ARGUMENT")) \/ (c = CR /\ EndOfCommand(c, "END"))
    PROVE  Grows(l, c)
  <1>1. l = command /\ argument = <<>> /\ NoSpace(l) /\ Longer(Append(l, c), l, c)
    BY Feeding, AppendIsLonger DEF OpenInv
  <1>2. ~AtCR(l)
    BY NotAtCR
  <1>3. CASE ~Enough
    <2>1. Doomed(Append(l, c))
      <3>1. c \in {SP, CR} /\ Len(l) < MIN_COMMAND_LENGTH
        BY <1>1, <1>3, Feeding DEF Enough
      <3> QED
        BY <1>1, <3>1, ShortIsDoomed
    <2>2. \E next : Invalid(c, next)
      BY <1>3 DEF EndOfCommand
    <2> QED
      BY <1>2, <2>1, <2>2, DoomedGrows
  <1>4. CASE Enough /\ c = SP
    <2>1. /\ command' = command /\ argument' = argument /\ state' = "ARGUMENT" /\ pc' = "feed"
          /\ is_finished' = TRUE /\ parsed' = parsed /\ cut' = cut
      BY <1>4, CharIsByte, Feeding DEF EndOfCommand, Undefined
    <2>2. Len(l) = MIN_COMMAND_LENGTH
      BY <1>1, <1>4, Feeding DEF Enough
    <2>3. Spelled(Append(l, c), l, <<>>)
      BY <1>1, <1>4, <2>2, SpaceSpells DEF NoSpace
    <2>4. Spelled(Append(l, c), command, argument)'
      BY <1>1, <2>1, <2>3 DEF Spelled
    <2>5. OpenInv(Append(l, c))'
      BY <2>1, <2>4 DEF OpenInv, Between
    <2> QED
      BY <1>2, <2>1, <2>5 DEF Grows
  <1>5. CASE Enough /\ c = CR
    <2>1. /\ command' = command /\ argument' = argument /\ state' = "END" /\ pc' = "feed"
          /\ is_finished' = TRUE /\ parsed' = parsed /\ cut' = cut
      BY <1>5, CharIsByte, Feeding DEF EndOfCommand, Undefined
    <2>2. Len(l) = MIN_COMMAND_LENGTH
      BY <1>1, <1>5, Feeding DEF Enough
    <2>3. Good(l) /\ Meant(l) = [ok |-> TRUE, command |-> l, argument |-> <<>>]
      BY <1>1, <2>2, CommandIsMeant DEF NoSpace
    <2>4. Front(Append(l, c)) = l
      BY FrontOfAppend
    <2>5. Ended(Append(l, c), l)'
      BY <1>1, <1>5, <2>1, <2>3, <2>4 DEF Ended
    <2>6. OpenInv(Append(l, c))'
      BY <2>1, <2>5 DEF OpenInv, Between
    <2> QED
      BY <1>2, <2>1, <2>6 DEF Grows
  <1> QED
    BY <1>3, <1>4, <1>5

LEMMA ArgumentGrows ==
    ASSUME ParserInv, pc = "feed", NEW l \in Seq(Bytes), OpenInv(l), NEW c \in Bytes,
           state = "ARGUMENT", c # CR, ArgumentAny(c)
    PROVE  Grows(l, c)
  <1>1. Spelled(l, command, argument) /\ Longer(Append(l, c), l, c)
    BY Feeding, AppendIsLonger DEF OpenInv
  <1>2. ~AtCR(l)
    BY NotAtCR
  <1>3. CASE RoomForArgument
    <2>1. /\ command' = command /\ argument' = Append(argument, c) /\ state' = "ARGUMENT"
          /\ pc' = "feed" /\ is_finished' = TRUE /\ parsed' = parsed /\ cut' = cut
      BY <1>3, Feeding DEF ArgumentAny, Undefined
    <2>2. Spelled(Append(l, c), command, Append(argument, c))
      BY <1>1, ByteSpells
    <2>3. Spelled(Append(l, c), command, argument)'
      BY <2>1, <2>2 DEF Spelled
    <2>4. OpenInv(Append(l, c))'
      BY <2>1, <2>3 DEF OpenInv, Between
    <2> QED
      BY <1>2, <2>1, <2>4 DEF Grows
  <1>4. CASE ~RoomForArgument
    <2>1. Len(argument) >= ARGUMENT_LENGTH
      BY <1>4, Feeding DEF RoomForArgument
    <2>2. Doomed(Append(l, c))
      BY <1>1, <2>1, FullIsDoomed
    <2>3. Invalid(c, "ARGUMENT")
      BY <1>4 DEF ArgumentAny
    <2> QED
      BY <1>2, <2>2, <2>3, DoomedGrows
  <1> QED
    BY <1>3, <1>4

LEMMA ArgumentEnds ==
    ASSUME ParserInv, pc = "feed", NEW l \in Seq(Bytes), OpenInv(l),
           state = "ARGUMENT", ArgumentCarriageReturn
    PROVE  Grows(l, CR)
  <1> DEFINE t == Append(l, CR)
  <1>1. Spelled(l, command, argument) /\ Longer(t, l, CR) /\ CR \in Bytes
    BY Feeding, AppendIsLonger, CharIsByte DEF OpenInv
  <1>2. ~AtCR(l)
    BY NotAtCR
  <1>3. CASE Len(argument) > 0 /\ RoomForArgument
    <2>1. /\ command' = command /\ argument' = Append(argument, NUL) /\ state' = "END"
          /\ pc' = "feed" /\ is_finished' = TRUE /\ parsed' = parsed /\ cut' = cut
      <3>1. argument' = Append(argument, NUL) /\ Undefined("END") /\ UNCHANGED command
        BY <1>3, Feeding DEF ArgumentCarriageReturn
      <3> QED
        BY <3>1, Feeding DEF Undefined
    <2>2. Good(l) /\ Meant(l) = [ok |-> TRUE, command |-> command, argument |-> Append(argument, NUL)]
      BY <1>1, <1>3, ArgumentIsMeant DEF RoomForArgument
    <2>3. Front(t) = l
      BY <1>1, FrontOfAppend
    <2>4. Ended(t, l)'
      BY <1>1, <2>1, <2>2, <2>3 DEF Ended
    <2>5. OpenInv(t)'
      BY <2>1, <2>4 DEF OpenInv, Between
    <2> QED
      BY <1>2, <2>1, <2>5 DEF Grows
  <1>4. CASE ~(Len(argument) > 0 /\ RoomForArgument)
    <2>1. Len(argument) = 0 \/ Len(argument) >= ARGUMENT_LENGTH
      BY <1>4, Feeding DEF RoomForArgument
    <2>2. Doomed(t)
      BY <1>1, <2>1, EmptyIsDoomed
    <2>3. Invalid(CR, "END")
      BY <1>4 DEF ArgumentCarriageReturn
    <2> QED
      BY <1>1, <1>2, <2>2, <2>3, DoomedGrows
  <1> QED
    BY <1>3, <1>4

LEMMA EndGrows ==
    ASSUME ParserInv, pc = "feed", NEW l \in Seq(Bytes), OpenInv(l), NEW c \in Bytes,
           state = "END", c # LF, Invalid(c, "COMMAND")
    PROVE  Grows(l, c)
  <1>1. PICK text : Ended(l, text)
    BY Feeding DEF OpenInv
  <1>2. Longer(Append(l, c), l, c) /\ text \in Seq(Bytes) /\ Good(text) /\ Longer(l, text, CR)
    BY <1>1, AppendIsLonger DEF Ended
  <1>3. Doomed(Append(l, c))
    BY <1>2, AfterEndIsDoomed
  <1> QED
    BY <1>3, DoomedGrows

----------------------------------------------------------------------------
(* A line ends: its verdict is the one that its bytes have.                *)
Closes(l, c) == /\ c = LF /\ AtCR(l) /\ Front(l) \in Seq(Bytes) /\ cut' = cut
                /\ parsed' = Append(parsed, Meant(Front(l)))
                /\ OpenInv(<<>>)'

LEMMA NothingIsOpen ==
    ASSUME pc' = "idle", state' = "COMMAND", is_finished' => command' = <<>> /\ argument' = <<>>
    PROVE  OpenInv(<<>>)'
  BY EmptyLine DEF OpenInv, NoSpace

LEMMA EndCloses ==
    ASSUME ParserInv, pc = "feed", NEW l \in Seq(Bytes), OpenInv(l), state = "END", EndLineFeed
    PROVE  Closes(l, LF)
  <1>1. PICK text : Ended(l, text)
    BY Feeding DEF OpenInv
  <1>2. /\ text \in Seq(Bytes) /\ Front(l) = text
        /\ Meant(text) = [ok |-> TRUE, command |-> command, argument |-> argument]
        /\ Len(text) \in Nat /\ Len(l) = Len(text) + 1 /\ l[Len(l)] = CR
    BY <1>1 DEF Ended, Longer
  <1>3. AtCR(l)
    BY <1>2 DEF AtCR, Last
  <1>4. OpenInv(<<>>)'
    BY RunsInv, NothingIsOpen DEF EndLineFeed
  <1>5. parsed' = Append(parsed, Meant(Front(l)))
    BY <1>2 DEF EndLineFeed
  <1> QED
    BY <1>2, <1>3, <1>4, <1>5 DEF Closes, EndLineFeed

LEMMA FeedReads ==
    ASSUME ParserInv, NEW l \in Seq(Bytes), OpenInv(l), Feed
    PROVE  \A c \in Bytes : c = Head(inb) => Grows(l, c) \/ Closes(l, c)
  <1> TAKE c \in Bytes
  <1> HAVE c = Head(inb)
  <1>1. pc = "feed" /\ Transition(Head(inb))
    BY DEF Feed
  <1>2. c = Head(inb)
    OBVIOUS
  <1>3. CASE state = "COMMAND" /\ c = SP /\ EndOfCommand(c, "ARGUMENT")
    BY <1>1, <1>2, <1>3, CommandEnds
  <1>4. CASE state = "COMMAND" /\ c = CR /\ EndOfCommand(c, "END")
    BY <1>1, <1>2, <1>4, CommandEnds
  <1>5. CASE state = "COMMAND" /\ c \notin {SP, CR} /\ CommandAny(c)
    BY <1>1, <1>2, <1>5, CommandGrows
  <1>6. CASE state = "ARGUMENT" /\ c = CR /\ ArgumentCarriageReturn
    BY <1>1, <1>2, <1>6, ArgumentEnds
  <1>7. CASE state = "ARGUMENT" /\ c # CR /\ ArgumentAny(c)
    BY <1>1, <1>2, <1>7, ArgumentGrows
  <1>8. CASE state = "END" /\ c = LF /\ EndLineFeed
    BY <1>1, <1>2, <1>8, EndCloses
  <1>9. CASE state = "END" /\ c # LF /\ Invalid(c, "COMMAND")
    BY <1>1, <1>2, <1>9, EndGrows
  <1> QED
    BY <1>1, <1>2, <1>3, <1>4, <1>5, <1>6, <1>7, <1>8, <1>9 DEF Transition

LEMMA DrainReads ==
    ASSUME ParserInv, NEW l \in Seq(Bytes), OpenInv(l), Drain
    PROVE  \A c \in Bytes : c = Head(inb) => Grows(l, c) \/ Closes(l, c)
  <1> TAKE c \in Bytes
  <1> HAVE c = Head(inb)
  <1>1. c = Head(inb)
    OBVIOUS
  <1>2. pc = "drain" /\ Doomed(l) /\ (saw_carriage_return <=> AtCR(l)) /\ is_finished = TRUE
    BY DEF Drain, OpenInv, ParserInv, ParserTypeOK, Unfinished
  <1>3. CASE c = LF /\ saw_carriage_return
    <2>1. ToError /\ cut' = cut
      BY <1>1, <1>3 DEF Drain
    <2>2. /\ pc' = "idle" /\ state' = "COMMAND" /\ command' = <<>> /\ argument' = <<>>
          /\ parsed' = Append(parsed, Bad)
      BY <1>2, <2>1 DEF ToError, CleanCommand, Cleaned, Bad
    <2>3. OpenInv(<<>>)'
      BY <2>2, NothingIsOpen
    <2>4. Front(l) \in Seq(Bytes) /\ Meant(Front(l)) = Bad
      BY <1>2, <1>3, DoomedIsBad DEF AtCR
    <2> QED
      BY <1>1, <1>2, <1>3, <2>1, <2>2, <2>3, <2>4 DEF Closes
  <1>4. CASE ~(c = LF /\ saw_carriage_return)
    <2>1. /\ saw_carriage_return' = (c = CR) /\ pc' = "drain" /\ is_finished' = TRUE
          /\ parsed' = parsed /\ cut' = cut
      BY <1>1, <1>2, <1>4 DEF Drain
    <2>2. Longer(Append(l, c), l, c)
      BY AppendIsLonger
    <2>3. Doomed(Append(l, c))
      BY <1>2, <2>2, StaysDoomed
    <2>4. AtCR(Append(l, c)) <=> c = CR
      BY AppendIsAtCR
    <2>5. Doomed(Append(l, c))' /\ (AtCR(Append(l, c))' <=> c = CR)
      BY <2>3, <2>4 DEF Doomed
    <2>6. OpenInv(Append(l, c))'
      BY <2>1, <2>5 DEF OpenInv, Between
    <2> QED
      BY <1>1, <1>2, <1>4, <2>1, <2>6 DEF Grows
  <1> QED
    BY <1>3, <1>4

----------------------------------------------------------------------------
(* The steps: of those that read no byte only DrainEnds gives a verdict,   *)
(* and it says that it cut a line.                                         *)

LEMMA VerdictsAppend ==
    ASSUME NEW ls \in Seq(Seq(Bytes)), NEW l \in Seq(Bytes)
    PROVE  Verdicts(Append(ls, l)) = Append(Verdicts(ls), Meant(l))
  <1> DEFINE n == Len(ls)
             a == Append(ls, l)
             v == Verdicts(ls)
  <1>1. n \in Nat /\ DOMAIN ls = 1 .. n
    OBVIOUS
  <1>2. /\ a \in Seq(Seq(Bytes)) /\ Len(a) = n + 1 /\ DOMAIN a = 1 .. n + 1
        /\ a[n + 1] = l /\ \A i \in 1 .. n : a[i] = ls[i]
    BY AppendProperties
  <1>3. v = [i \in 1 .. n |-> Meant(ls[i])]
    BY <1>1 DEF Verdicts
  <1> DEFINE S == {Meant(ls[i]) : i \in 1 .. n} \cup {Meant(l)}
  <1>4. v \in Seq(S) /\ Len(v) = n /\ \A i \in 1 .. n : v[i] = Meant(ls[i])
    BY <1>1, <1>3
  <1> DEFINE b == Append(v, Meant(l))
             u == [i \in 1 .. n + 1 |-> Meant(a[i])]
  <1> HIDE DEF v
  <1>5. /\ b \in Seq(S) /\ Len(b) = n + 1 /\ b[n + 1] = Meant(l)
        /\ \A i \in 1 .. n : b[i] = v[i]
    BY <1>4, AppendProperties
  <1>6. Verdicts(a) = u
    BY <1>2 DEF Verdicts
  <1> HIDE DEF a, b
  <1>7. ASSUME NEW i \in 1 .. n + 1 PROVE u[i] = b[i] /\ u[i] \in S
    <2>1. i = n + 1 \/ i \in 1 .. n
      BY <1>1
    <2> QED
      BY <1>2, <1>4, <1>5, <2>1
  <1>8. u \in Seq(S) /\ Len(u) = n + 1
    BY <1>1, <1>7
  <1> HIDE DEF u, S
  <1>9. u = b
    BY <1>5, <1>7, <1>8, SeqEqual
  <1> QED
    BY <1>6, <1>9 DEF a, b, v

LEMMA ByteIsRead ==
    ASSUME ParserInv, Suffix, NEW ls \in Seq(Seq(Bytes)), NEW l \in Seq(Bytes),
           Split(Consumed) = [lines |-> ls, open |-> l], parsed = Verdicts(ls),
           inb # <<>>, inb' = Tail(inb), received' = received,
           \A c \in Bytes : c = Head(inb) => Grows(l, c) \/ Closes(l, c)
    PROVE  Suffix' /\ \E ks, k : Split(Consumed)' = [lines |-> ks, open |-> k] /\ Seen(ks, k)'
  <1>1. Suffix' /\ Head(inb) \in Bytes /\ Consumed' = Append(Consumed, Head(inb)) /\ Consumed \in Seq(Bytes)
    BY ByteIsConsumed, ConsumedIsSeq
  <1>2. PICK c \in Bytes : c = Head(inb) /\ (Grows(l, c) \/ Closes(l, c))
    BY <1>1
  <1>3. Split(Append(Consumed, c)) = Line([lines |-> ls, open |-> l], c)
    BY <1>1, SplitNext
  <1>4. Split(Consumed)' = Split(Append(Consumed, c))
    BY <1>1, <1>2 DEF Split
  <1>5. CASE Grows(l, c)
    <2>1. Split(Consumed)' = [lines |-> ls, open |-> Append(l, c)]
      BY <1>3, <1>4, <1>5 DEF Line, Grows, AtCR
    <2>2. Append(l, c) \in Seq(Bytes)
      OBVIOUS
    <2>3. Seen(ls, Append(l, c))'
      BY <1>5, <2>2 DEF Seen, Grows, Verdicts
    <2> QED
      BY <1>1, <2>1, <2>3
  <1>6. CASE Closes(l, c)
    <2>1. Split(Consumed)' = [lines |-> Append(ls, Front(l)), open |-> <<>>]
      BY <1>3, <1>4, <1>6 DEF Line, Closes, AtCR
    <2>2. Append(ls, Front(l)) \in Seq(Seq(Bytes)) /\ Front(l) \in Seq(Bytes)
      BY <1>6 DEF Closes
    <2>3. parsed' = Verdicts(Append(ls, Front(l)))
      BY <1>6, <2>2, VerdictsAppend DEF Closes
    <2>4. Seen(Append(ls, Front(l)), <<>>)'
      BY <1>6, <2>2, <2>3, EmptyLine DEF Seen, Closes, Verdicts
    <2> QED
      BY <1>1, <2>1, <2>4
  <1> QED
    BY <1>2, <1>5, <1>6

LEMMA FeedLines == ASSUME ParserInv, LineInv, Feed PROVE LineInv'
  <1>1. Suffix /\ inb # <<>> /\ inb' = Tail(inb) /\ received' = received
    BY DEF LineInv, Feed
  <1>2. Suffix' /\ Head(inb) \in Bytes
    BY <1>1, ByteIsConsumed
  <1>3. CASE cut
    <2>1. cut'
      BY <1>3 DEF Feed, Transition, EndOfCommand, CommandAny, ArgumentAny, ArgumentCarriageReturn,
                  EndLineFeed, Undefined, Invalid
    <2> QED
      BY <1>2, <2>1 DEF LineInv
  <1>4. CASE ~cut
    <2>1. PICK ls, l : Split(Consumed) = [lines |-> ls, open |-> l] /\ Seen(ls, l)
      BY <1>4 DEF LineInv
    <2>2. ls \in Seq(Seq(Bytes)) /\ l \in Seq(Bytes) /\ parsed = Verdicts(ls) /\ OpenInv(l)
      BY <2>1 DEF Seen
    <2>3. \A c \in Bytes : c = Head(inb) => Grows(l, c) \/ Closes(l, c)
      BY <2>2, FeedReads
    <2>4. Suffix' /\ \E ks, k : Split(Consumed)' = [lines |-> ks, open |-> k] /\ Seen(ks, k)'
      BY <1>1, <2>1, <2>2, <2>3, ByteIsRead
    <2> QED
      BY <2>4 DEF LineInv
  <1> QED
    BY <1>3, <1>4

LEMMA DrainLines == ASSUME ParserInv, LineInv, Drain PROVE LineInv'
  <1>1. Suffix /\ inb # <<>> /\ inb' = Tail(inb) /\ received' = received
    BY DEF LineInv, Drain, ToError
  <1>2. Suffix' /\ Head(inb) \in Bytes
    BY <1>1, ByteIsConsumed
  <1>3. CASE cut
    <2>1. cut'
      BY <1>3 DEF Drain
    <2> QED
      BY <1>2, <2>1 DEF LineInv
  <1>4. CASE ~cut
    <2>1. PICK ls, l : Split(Consumed) = [lines |-> ls, open |-> l] /\ Seen(ls, l)
      BY <1>4 DEF LineInv
    <2>2. ls \in Seq(Seq(Bytes)) /\ l \in Seq(Bytes) /\ parsed = Verdicts(ls) /\ OpenInv(l)
      BY <2>1 DEF Seen
    <2>3. \A c \in Bytes : c = Head(inb) => Grows(l, c) \/ Closes(l, c)
      BY <2>2, DrainReads
    <2>4. Suffix' /\ \E ks, k : Split(Consumed)' = [lines |-> ks, open |-> k] /\ Seen(ks, k)'
      BY <1>1, <2>1, <2>2, <2>3, ByteIsRead
    <2> QED
      BY <2>4 DEF LineInv
  <1> QED
    BY <1>3, <1>4

(* The steps that leave the stream's lines and their verdicts alone.       *)
LEMMA SameLines ==
    ASSUME LineInv, Suffix', Consumed' = Consumed, parsed' = parsed, cut' = cut,
           \A l \in Seq(Bytes) : OpenInv(l) => OpenInv(l)'
    PROVE  LineInv'
  <1>1. CASE cut
    BY <1>1 DEF LineInv
  <1>2. CASE ~cut
    <2>1. PICK ls, l : Split(Consumed) = [lines |-> ls, open |-> l] /\ Seen(ls, l)
      BY <1>2 DEF LineInv
    <2>2. Seen(ls, l)'
      BY <2>1 DEF Seen, Verdicts
    <2>3. Split(Consumed)' = [lines |-> ls, open |-> l]
      BY <2>1 DEF Split
    <2> QED
      BY <2>2, <2>3 DEF LineInv
  <1> QED
    BY <1>1, <1>2

LEMMA RecvConsumes ==
    ASSUME ParserInv, Suffix, NEW s \in Seq(Bytes), Recv(s)
    PROVE  Suffix' /\ Consumed' = Consumed
  <1> DEFINE n == Len(received)
             r == received \o s
  <1>1. inb = <<>> /\ inb' = s /\ received' = r /\ received \in Seq(Bytes) /\ n \in Nat /\ Len(s) \in Nat
    BY DEF Recv, ParserInv, ParserTypeOK
  <1>2. /\ r \in Seq(Bytes) /\ Len(r) = n + Len(s)
        /\ \A i \in 1 .. n : r[i] = received[i]
        /\ \A i \in 1 .. Len(s) : r[n + i] = s[i]
    BY <1>1
  <1> HIDE DEF r
  <1>3. Suffix'
    <2>1. Len(r) - Len(s) = n /\ Len(s) <= Len(r)
      BY <1>1, <1>2
    <2> QED
      BY <1>1, <1>2, <2>1 DEF Suffix
  <1>4. Consumed' = SubSeq(r, 1, n) /\ Consumed = SubSeq(received, 1, n)
    <2>1. Len(r) - Len(s) = n /\ Len(received) - Len(<<>>) = n
      BY <1>1, <1>2
    <2> QED
      BY ONLY <1>1, <2>1, Zenon DEF Consumed
  <1> DEFINE u == SubSeq(r, 1, n)
             v == SubSeq(received, 1, n)
  <1>5. /\ u \in Seq(Bytes) /\ Len(u) = n /\ v \in Seq(Bytes) /\ Len(v) = n
        /\ \A i \in 1 .. n : u[i] = r[i]
        /\ \A i \in 1 .. n : v[i] = received[i]
    BY <1>1, <1>2
  <1> HIDE DEF u, v
  <1>6. u = v
    BY <1>2, <1>5, SeqEqual
  <1> QED
    BY <1>3, <1>4, <1>6 DEF u, v

LEMMA OtherLines ==
    ASSUME ParserInv, LineInv, GoOn \/ Resume \/ FeedEnds \/ DrainEnds \/ UNCHANGED parserVars
    PROVE  LineInv'
  <1>1. UNCHANGED <<inb, received>> /\ Suffix' /\ Consumed' = Consumed
    <2>1. UNCHANGED <<inb, received>>
      BY DEF GoOn, Resume, FeedEnds, DrainEnds, ToError, parserVars
    <2> QED
      BY <2>1, NothingIsConsumed DEF LineInv
  <1>2. CASE GoOn
    <2>1. \A l \in Seq(Bytes) : OpenInv(l) => OpenInv(l)'
      BY <1>2 DEF GoOn, lineVars, OpenInv, Between, Ended, ParserInv, ParserTypeOK
    <2> QED
      BY <1>1, <1>2, <2>1, SameLines DEF GoOn
  <1>3. CASE Resume
    <2>1. ~is_finished /\ state = "COMMAND" /\ state' = "COMMAND" /\ pc' = "idle"
      BY <1>3 DEF Resume, ParserInv, Resuming, Unfinished
    <2>2. OpenInv(<<>>)'
      BY <1>3, <2>1, RunsInv, NothingIsOpen DEF Resume
    <2>3. \A l \in Seq(Bytes) : OpenInv(l) => OpenInv(l)'
      BY <2>1, <2>2 DEF OpenInv
    <2> QED
      BY <1>1, <1>3, <2>3, SameLines DEF Resume
  <1>4. CASE FeedEnds
    <2>1. \A l \in Seq(Bytes) : OpenInv(l) => OpenInv(l)'
      BY <1>4 DEF FeedEnds, lineVars, OpenInv, Between, Ended
    <2> QED
      BY <1>1, <1>4, <2>1, SameLines DEF FeedEnds
  <1>5. CASE DrainEnds
    BY <1>1, <1>5 DEF DrainEnds, LineInv
  <1>6. CASE UNCHANGED parserVars
    <2>1. \A l \in Seq(Bytes) : OpenInv(l) => OpenInv(l)'
      BY <1>6 DEF parserVars, lineVars, OpenInv, Between, Ended
    <2> QED
      BY <1>1, <1>6, <2>1, SameLines DEF parserVars
  <1> QED
    BY <1>2, <1>3, <1>4, <1>5, <1>6

LEMMA RecvLines ==
    ASSUME ParserInv, LineInv, NEW s \in Seq(Bytes), Recv(s) PROVE LineInv'
  <1>1. Suffix' /\ Consumed' = Consumed
    BY RecvConsumes DEF LineInv
  <1>2. \A l \in Seq(Bytes) : OpenInv(l) => OpenInv(l)'
    BY DEF Recv, lineVars, OpenInv, Between, Ended, ParserInv, ParserTypeOK
  <1> QED
    BY <1>1, <1>2, SameLines DEF Recv

LEMMA InitLines == ParserInit => LineInv
  <1> SUFFICES ASSUME ParserInit PROVE LineInv
    OBVIOUS
  <1>1. Suffix
    BY DEF ParserInit, Suffix
  <1>2. Consumed = <<>>
    <2>1. Len(<<>>) - Len(<<>>) = 0 /\ SubSeq(<<>>, 1, 0) = <<>>
      OBVIOUS
    <2> QED
      BY <2>1 DEF ParserInit, Consumed
  <1>3. Split(Consumed) = [lines |-> <<>>, open |-> <<>>]
    BY <1>2, SplitNothing DEF NoLines
  <1>4. Seen(<<>>, <<>>)
    <2>1. Verdicts(<<>>) = <<>> /\ <<>> \in Seq(Seq(Bytes)) /\ <<>> \in Seq(Bytes)
      BY DEF Verdicts
    <2>2. OpenInv(<<>>)
      BY EmptyLine DEF ParserInit, OpenInv, NoSpace
    <2> QED
      BY <2>1, <2>2 DEF ParserInit, Seen
  <1> QED
    BY <1>1, <1>3, <1>4 DEF LineInv

LEMMA NextLines ==
    ASSUME ParserInv, LineInv, [ParserNext]_parserVars PROVE LineInv'
  <1>1. CASE \E n \in 0 .. BUFFER_SIZE : \E s \in [1 .. n -> Bytes] : Recv(s)
    <2>1. PICK n \in 0 .. BUFFER_SIZE : \E s \in [1 .. n -> Bytes] : Recv(s)
      BY <1>1
    <2>2. PICK s \in [1 .. n -> Bytes] : Recv(s)
      BY <2>1
    <2>3. s \in Seq(Bytes)
      BY <2>1, LengthsAssumption
    <2> QED
      BY <2>2, <2>3, RecvLines
  <1>2. CASE Feed
    BY <1>2, FeedLines
  <1>3. CASE Drain
    BY <1>3, DrainLines
  <1>4. CASE GoOn \/ Resume \/ FeedEnds \/ DrainEnds \/ UNCHANGED parserVars
    BY <1>4, OtherLines
  <1> QED
    BY <1>1, <1>2, <1>3, <1>4 DEF ParserNext

LEMMA ReadAsMeant == LineInv => LinesAreParsed
  <1> SUFFICES ASSUME LineInv, pc = "idle", ~cut
               PROVE  parsed = Verdicts(Split(Consumed).lines)
    BY DEF LinesAreParsed, Verdicts
  <1>1. PICK ls, l : Split(Consumed) = [lines |-> ls, open |-> l] /\ Seen(ls, l)
    BY DEF LineInv
  <1> QED
    BY <1>1 DEF Seen

(* Whatever the client sends and however the stream is cut by recv or by a *)
(* reply that has to be finished first, read_command and its parser find   *)
(* the lines that are there and make of each what it means, in order: for  *)
(* as long as no bad line is cut while it is being dropped.                *)
THEOREM LinesAreReadAsMeant == ParserSpec => []LinesAreParsed
  <1>1. ParserInit => ParserInv /\ LineInv
    BY InitInv, InitLines
  <1>2. ParserInv /\ LineInv /\ [ParserNext]_parserVars => (ParserInv /\ LineInv)'
    BY NextInv, NextLines
  <1>3. LineInv => LinesAreParsed
    BY ReadAsMeant
  <1> QED
    BY <1>1, <1>2, <1>3, PTL DEF ParserSpec
=============================================================================
