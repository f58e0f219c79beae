------------------------------- MODULE Logger -------------------------------
(***************************************************************************)
(* The log, lib/logger/logger.c and the macro logf of logger.h: a line is  *)
(* printed after what is pending in a buffer that grows, and what the file *)
(* does not take stays there until the selector says that it may. The      *)
(* signal handler of server/main.c logs too, in whatever line or flush of  *)
(* the main program it falls, so a step here is one call, one assignment   *)
(* or one evaluated argument, and a whole logf of the handler may come     *)
(* between any two. After one that comes inside a step that reads or writes *)
(* more than once nothing is said of the process (SignalWithin).           *)
(*                                                                         *)
(* A byte is the number of the line it belongs to, or Nothing. The program *)
(* gives no stream to logger_init, and logs from logger_set_level on.      *)
(***************************************************************************)
EXTENDS Integers, Sequences

CONSTANTS
    MIN,        \* LOG_MIN_BUFFER_SIZE
    MAX,        \* LOG_MAX_BUFFER_SIZE
    CHUNK,      \* LOG_BUFFER_SIZE_CHUNK
    LENGTH,     \* LOG_BUFFER_MAX_PRINT_LENGTH
    Sizes,      \* what snprintf may return for a line: its length, or -1
    SignalSize, \* the length of what the signal handler logs
    MaxLines,   \* a bound on the lines
    MaxSignals  \* a bound on the signals

ASSUME CapacityAssumption ==
    /\ MIN \in Nat /\ MAX \in Nat /\ MIN <= MAX
    /\ CHUNK \in Nat \ {0} /\ LENGTH \in Nat \ {0} /\ LENGTH < MIN
ASSUME SizesAssumption   == Sizes \subseteq Nat \cup {-1} /\ SignalSize \in Nat
ASSUME BoundsAssumption  == MaxLines \in Nat /\ MaxSignals \in Nat

VARIABLES
    buf,      \* [mem, start, length, capacity, copy]: the static buffer_*
    pc,       \* where the program is
    line,     \* the locals of logf
    took,     \* what the last write returned
    wanted,   \* the interest that try_flush_buffer_to_file has evaluated
    interest, \* whether the selector waits for the file to be writable
    file,     \* what the file holds
    accepted, \* every byte that logger_post_print counted, in order
    lines,    \* how many lines there were
    signals,  \* how many signals there were
    harmed,   \* the lines that a signal fell into, and the handler's then
    late      \* a signal has fallen between the argument and the call of the
              \* last selector_set_interest

logVars == <<file, accepted, lines>>
sigVars == <<signals, harmed, late>>
vars    == <<buf, pc, line, took, wanted, interest, logVars, sigVars>>

Nothing == 0
Cells   == 0 .. MAX - 1

(* Where a signal finds a line that has its place and is not counted yet,  *)
(* or bytes that were written and are still counted, or still begin what   *)
(* is pending.                                                             *)
Printing == {"print", "post"}
Flushing == {"settle", "start", "closing", "restarting"}

(* Undefined behaviour: nothing more is said of the process.               *)
Undefined == pc = "undefined"

Bytes(b, from, n) == [j \in 1 .. n |-> b.mem[from + j - 1]]
Times(n, x)       == [j \in 1 .. n |-> x]

----------------------------------------------------------------------------
(* make_buffer_space.                                                      *)
MustMoveLate(b) == b.length + LENGTH > b.capacity
MustMove(b) == b.length + b.start + LENGTH > b.capacity

MovedInPlace(b) == [b EXCEPT !.start = 0]

Moved(b) ==
    [mem      |-> [j \in Cells |-> IF j < b.length THEN b.mem[b.start + j] ELSE b.mem[j]],
     start    |-> 0,
     length   |-> b.length,
     capacity |-> b.capacity,
     copy     |-> b.copy]

RoundedUp(n) == ((n + CHUNK - 1) \div CHUNK) * CHUNK

GrownFromZero(b) ==
    [b EXCEPT !.mem = [j \in Cells |-> IF j < b.length THEN b.mem[j] ELSE Nothing], !.start = 0,
              !.capacity = MAX, !.copy = @ + 1]

Grown(b) ==
    [mem      |-> [j \in Cells |-> IF j < b.length THEN b.mem[b.start + j] ELSE Nothing],
     start    |-> 0,
     length   |-> b.length,
     capacity |-> IF RoundedUp(b.length + LENGTH) > MAX THEN MAX ELSE RoundedUp(b.length + LENGTH),
     copy     |-> b.copy + 1]

MayMove(b) == b.length + LENGTH < b.capacity
MayGrow(b) == ~MayMove(b) /\ b.capacity < MAX

MakeSpace(b, given) ==
    IF ~MustMove(b) \/ (~MayMove(b) /\ ~MayGrow(b)) THEN b
    ELSE IF MayGrow(b) /\ given THEN Grown(b) ELSE Moved(b)

(* logger_get_bufstart_and_maxlength, snprintf with its NUL, and what      *)
(* logger_post_print counts of it.                                         *)
End(b)  == b.start + b.length
Room(b) == b.capacity - End(b)

CountedWhole(n, room) == n
Counted(n, room) == IF n >= room THEN room - 1 ELSE n

Printed(b, at, room, n, id) ==
    [b EXCEPT !.mem = [j \in Cells |->
        IF at <= j /\ j < at + Counted(n, room) THEN id
        ELSE IF room > 0 /\ j = at + Counted(n, room) THEN Nothing
        ELSE b.mem[j]]]

Longer(b, n) == [b EXCEPT !.length = @ + n]

(* After a signal, what is counted may be past the array, or below zero,   *)
(* which for a size_t is more than there is: the next write reads there.   *)
Astray(b) == b.length < 0 \/ End(b) > b.capacity

(* try_flush_buffer_to_file: what write may return, and what is left.      *)
Writes(b) == IF b.length = 0 THEN {0} ELSE {-1} \cup 1 .. b.length

Shorter(b, k) == [b EXCEPT !.length = @ - k]

RestartedNever(b, k) == IF b.length = 0 THEN [b EXCEPT !.start = 0] ELSE b
Restarted(b, k)      == [b EXCEPT !.start = IF b.length = 0 THEN 0 ELSE @ + k]

Flushed(b, k) == IF k <= 0 THEN b ELSE Restarted(Shorter(b, k), k)

WantedOnceBegun(b) == IF b.start > 0 THEN "W" ELSE "none"
Wanted(b) == IF b.length > 0 THEN "W" ELSE "none"

----------------------------------------------------------------------------
(* logger_init, for a file that opens.                                     *)
Init ==
    /\ buf = [mem |-> [j \in Cells |-> Nothing], start |-> 0, length |-> 0,
              capacity |-> MIN, copy |-> 0]
    /\ pc = "idle" /\ took = 0 /\ wanted = "none" /\ interest = "none"
    /\ line = [id |-> 0, size |-> 0, at |-> 0, room |-> 0, copy |-> 0, short |-> FALSE]
    /\ file = <<>> /\ accepted = <<>>
    /\ lines = 0 /\ signals = 0 /\ harmed = {} /\ late = FALSE

Logf(n) ==
    /\ pc = "idle" /\ lines < MaxLines
    /\ pc' = "space" /\ lines' = lines + 1
    /\ line' = [line EXCEPT !.id = lines + signals + 1, !.size = n, !.short = FALSE]
    /\ UNCHANGED <<buf, took, wanted, interest, file, accepted, sigVars>>

PrePrint(given) ==
    /\ pc = "space"
    /\ buf' = MakeSpace(buf, given)
    /\ line' = [line EXCEPT !.short = ~given /\ MustMove(buf) /\ MayGrow(buf)]
    /\ pc' = "get"
    /\ UNCHANGED <<took, wanted, interest, logVars, sigVars>>

GetBufstart ==
    /\ pc = "get"
    /\ line' = [line EXCEPT !.at = End(buf), !.room = Room(buf), !.copy = buf.copy]
    /\ pc' = "print"
    /\ UNCHANGED <<buf, took, wanted, interest, logVars, sigVars>>

(* Into memory that was freed if the buffer is another one by now.         *)
Snprintf ==
    /\ pc = "print"
    /\ IF line.copy = buf.copy
       THEN /\ buf' = IF line.size < 0 THEN buf
                      ELSE Printed(buf, line.at, line.room, line.size, line.id)
            /\ pc' = "post"
       ELSE pc' = "undefined" /\ UNCHANGED buf
    /\ UNCHANGED <<line, took, wanted, interest, logVars, sigVars>>

PostPrint ==
    /\ pc = "post"
    /\ IF line.size < 0
       THEN pc' = "idle" /\ UNCHANGED <<buf, accepted>>
       ELSE LET n == Counted(line.size, line.room) IN
            /\ buf' = Longer(buf, n)
            /\ accepted' = accepted \o Times(n, line.id)
            /\ pc' = IF Astray(buf') THEN "undefined" ELSE "write"
    /\ UNCHANGED <<line, took, wanted, interest, file, lines, sigVars>>

(* The selector calls fd_write_handler.                                    *)
HandleWrite ==
    /\ pc = "idle" /\ interest = "W"
    /\ pc' = "write"
    /\ UNCHANGED <<buf, line, took, wanted, interest, logVars, sigVars>>

(* try_flush_buffer_to_file: write, buffer_length, buffer_start, the       *)
(* argument of selector_set_interest, and what that stores.                *)
Write(k) ==
    /\ pc = "write" /\ k \in Writes(buf)
    /\ file' = file \o Bytes(buf, buf.start, k)
    /\ took' = k
    /\ pc' = IF k > 0 THEN "settle" ELSE "want"
    /\ UNCHANGED <<buf, line, wanted, interest, accepted, lines, sigVars>>

Shorten ==
    /\ pc = "settle"
    /\ buf' = Shorter(buf, took)
    /\ pc' = IF Astray(buf') THEN "undefined" ELSE "start"
    /\ UNCHANGED <<line, took, wanted, interest, logVars, sigVars>>

Restart ==
    /\ pc = "start"
    /\ buf' = Restarted(buf, took)
    /\ pc' = IF Astray(buf') THEN "undefined" ELSE "want"
    /\ UNCHANGED <<line, took, wanted, interest, logVars, sigVars>>

Want ==
    /\ pc = "want"
    /\ wanted' = Wanted(buf) /\ late' = FALSE
    /\ pc' = "await"
    /\ UNCHANGED <<buf, line, took, interest, logVars, signals, harmed>>

AwaitNothing ==
    /\ pc = "await"
    /\ pc' = "idle"
    /\ UNCHANGED <<buf, line, took, wanted, interest, logVars, sigVars>>

Await ==
    /\ pc = "await"
    /\ interest' = wanted
    /\ pc' = "idle"
    /\ UNCHANGED <<buf, line, took, wanted, logVars, sigVars>>

(* fd_close_handler, from selector_destroy: one write, from the start of   *)
(* the buffer, and then close.                                             *)
HandleClose ==
    /\ pc = "idle"
    /\ pc' = "last"
    /\ UNCHANGED <<buf, line, took, wanted, interest, logVars, sigVars>>

CloseWrite(k) ==
    /\ pc = "last" /\ k \in Writes(buf)
    /\ file' = file \o Bytes(buf, 0, k)
    /\ took' = k
    /\ pc' = IF k > 0 THEN "closing" ELSE "close"
    /\ UNCHANGED <<buf, line, wanted, interest, accepted, lines, sigVars>>

CloseShorten ==
    /\ pc = "closing"
    /\ buf' = Shorter(buf, took)
    /\ pc' = IF Astray(buf') THEN "undefined" ELSE "restarting"
    /\ UNCHANGED <<line, took, wanted, interest, logVars, sigVars>>

CloseRestart ==
    /\ pc = "restarting"
    /\ buf' = Restarted(buf, took)
    /\ pc' = IF Astray(buf') THEN "undefined" ELSE "close"
    /\ UNCHANGED <<line, took, wanted, interest, logVars, sigVars>>

Close ==
    /\ pc = "close"
    /\ pc' = "closed"
    /\ UNCHANGED <<buf, line, took, wanted, interest, logVars, sigVars>>

(* sigterm_handler: a whole logf between two steps. In a flush it harms    *)
(* what the flush was of: as many bytes as are counted, the last accepted. *)
Waiting == {accepted[j] : j \in Len(accepted) - buf.length + 1 .. Len(accepted)}

Signal(given, k) ==
    /\ signals < MaxSignals /\ pc \notin {"closed", "undefined"}
    /\ signals' = signals + 1
    /\ LET id     == lines + signals + 1
           space  == MakeSpace(buf, given)
           n      == Counted(SignalSize, Room(space))
           longer == Longer(Printed(space, End(space), Room(space), SignalSize, id), n)
       IN  /\ k \in Writes(longer)
           /\ file' = file \o Bytes(longer, longer.start, k)
           /\ accepted' = accepted \o Times(n, id)
           /\ buf' = Flushed(longer, k)
           /\ interest' = Wanted(buf')
           /\ pc' = IF Astray(longer) THEN "undefined" ELSE pc
           /\ harmed' = IF pc \in Printing THEN harmed \cup {line.id, id}
                        ELSE IF pc \in Flushing THEN harmed \cup Waiting \cup {id}
                        ELSE harmed
    /\ late' = (pc = "await")
    /\ UNCHANGED <<line, took, wanted, lines>>

(* In the middle of memmove, malloc or snprintf, between the two arguments *)
(* of a write, between the read of a variable and its change, or inside    *)
(* selector_set_interest.                                                  *)
Divisible == {"get", "last", "write", "await"} \cup Printing \cup Flushing

SignalWithin ==
    /\ signals < MaxSignals
    /\ pc \in Divisible \/ (pc = "space" /\ MustMove(buf))
    /\ signals' = signals + 1
    /\ pc' = "undefined"
    /\ UNCHANGED <<buf, line, took, wanted, interest, logVars, harmed, late>>

Step ==
    \/ \E given \in BOOLEAN : PrePrint(given)
    \/ GetBufstart \/ Snprintf \/ PostPrint \/ HandleWrite
    \/ \E k \in -1 .. MAX : Write(k)
    \/ Shorten \/ Restart \/ Want \/ Await
    \/ \E k \in -1 .. MAX : CloseWrite(k)
    \/ CloseShorten \/ CloseRestart \/ Close

Next ==
    \/ Step
    \/ \E n \in Sizes : Logf(n)
    \/ HandleClose
    \/ \E given \in BOOLEAN, k \in -1 .. MAX : Signal(given, k)
    \/ SignalWithin

Spec == Init /\ [][Next]_vars

FairSpec == Spec /\ WF_vars(Step) /\ SF_vars(\E k \in 1 .. MAX : Write(k))

----------------------------------------------------------------------------
(* No signal has fallen into a line or into a flush.                       *)
Calm == harmed = {} /\ ~Undefined

(* There is always a cell after what is pending, however lines, flushes    *)
(* and moves follow each other: snprintf is never told of no room, whose   *)
(* line logger_post_print would count as one byte less than none.          *)
LoggerTypeOK ==
    /\ pc \in {"idle", "space", "want", "close", "closed", "undefined"} \cup Divisible
    /\ {wanted, interest} \subseteq {"W", "none"} /\ late \in BOOLEAN
    /\ buf.capacity \in MIN .. MAX /\ buf.start \in Nat
    /\ pc \notin {"closed", "undefined"} => ~Astray(buf)
    /\ Calm => End(buf) < buf.capacity
    /\ Calm /\ pc \in Printing => line.room > 0

(* What was accepted, as the file and the buffer have it: while a write is *)
(* not settled the buffer still begins with what the file took, and until  *)
(* buffer_length says otherwise counts it.                                 *)
Begun     == IF pc \in {"settle", "start"} THEN took ELSE 0
Unsettled == IF pc = "settle" THEN took ELSE 0
Out       == file \o Bytes(buf, buf.start + Begun, buf.length - Unsettled)

(* Whatever the file takes of each write, and however the buffer is moved  *)
(* and grows: every byte that was counted is in the file or waits for it,  *)
(* once, and in its order, at each step of a flush and with signals that   *)
(* fell outside of lines and flushes. It ends where the log is closed:     *)
(* fd_close_handler may write bytes again and leave out the last ones.     *)
Closing == pc \in {"closing", "restarting", "close", "closed"}

NothingIsLost == Calm /\ ~Closing => Out = accepted

(* A signal that falls into a line harms that line and the handler's, one  *)
(* that falls into a flush what the flush was of, and no other, provided   *)
(* that the process survives and that the two lines had room: otherwise    *)
(* each line that finds none takes a byte off what is pending.             *)
DamageIsContained ==
    ~Undefined /\ pc \notin Flushing /\ ~Closing /\ Len(Out) = Len(accepted)
      => \A j \in DOMAIN Out : Out[j] # accepted[j] => accepted[j] \in harmed

(* "Hace lugar en el buffer para por lo menos una linea mas" (logger.h:65) *)
(* as far as it goes: a line of the expected length is cut only if malloc  *)
(* failed or the buffer is as large as it may be and has no such room.     *)
CutNeedsFullBuffer ==
    signals = 0 /\ pc = "post" /\ line.size \in 0 .. LENGTH - 1 /\ line.size >= line.room
      => line.short \/ (buf.capacity = MAX /\ buf.length + LENGTH >= MAX)

(* The selector waits for the file exactly when something is pending, also *)
(* after a signal changed what is pending in the middle of a flush: but    *)
(* for one that falls between the test of buffer_length and the call that  *)
(* stores the interest (logger.c:104), and then only until the next flush, *)
(* of either program.                                                      *)
PendingIsAwaited == pc = "idle" /\ ~late => interest = Wanted(buf)

(* When the log closes with its buffer not begun, the file holds lines in  *)
(* their order and none twice: fd_close_handler goes on where it ended. Of *)
(* a buffer that was begun it says nothing.                                *)
ClosingGoesOn ==
    [][Calm /\ pc = "last" /\ Closing' /\ buf.start = 0
         => \E n \in 0 .. Len(accepted) : file' = SubSeq(accepted, 1, n)]_vars

(* What is pending reaches the file, if the file keeps taking something    *)
(* and no signal has left the interest behind.                             *)
Drains == buf.length > 0 ~> buf.length = 0 \/ late \/ pc \in {"closed", "undefined"}
=============================================================================
