----------------------------- MODULE Pop3Server -----------------------------
(***************************************************************************)
(* The POP3 server of server/main.c, server/pop3.c and                     *)
(* server/stm/pop3_stm.c: every connection is a struct connection_data     *)
(* driven by the callbacks handle_read and handle_write that the select    *)
(* loop calls, on top of the state machine of lib/stm.c, and all of them   *)
(* share the accounts (Managment) and the mail files.                      *)
(*                                                                         *)
(* One thread runs everything, so a callback is never interrupted; what    *)
(* happens between two callbacks is up to the clients, the delivery agent, *)
(* the administrator and the order in which the loop serves descriptors.   *)
(* A handle_write that goes on with stm_handler_read is two steps, joined  *)
(* by `turn`: no other callback runs in between.                           *)
(*                                                                         *)
(* Data is abstracted to units. A reply is a sequence of units (a status   *)
(* line, a listing entry, a piece of a message, a terminator), a buffer    *)
(* holds BUFFER_SIZE units, and a message has Size[m] of them. What a      *)
(* client writes is a sequence of well-formed command lines; a line may    *)
(* arrive in two pieces.                                                   *)
(***************************************************************************)
EXTENDS Managment, Sequences

CONSTANTS
    Conns,          \* connections, each accepted at most once
    Scripts,        \* the sequences of command lines a client may send
    MaxLines,       \* bound: lines of a script
    Mails,          \* mail files
    Size,           \* Size[m] \in Nat \ {0}: st_size, in units
    InitialFiles,   \* [Boxes -> SUBSET Mails]: the maildirs at start-up
    Arriving,       \* deliveries still to come: a set of <<box, mail>>
    BUFFER_SIZE,    \* of in_buff and out_buff, in units
    ALLOC_MAX,      \* the largest max_mails that calloc can serve
    SplitLines,     \* may a line reach the server in two pieces?
    PartialSends,   \* may send(2) take less than it is given?
    StatMayFail,    \* may stat(2) fail on an entry of a maildir?
    Leaving         \* how a client may leave: a subset of {"shut", "reset"}

ASSUME SizesAssumption ==
    /\ MaxLines \in Nat /\ BUFFER_SIZE \in Nat \ {0} /\ ALLOC_MAX \in Nat
    /\ Size \in [Mails -> Nat \ {0}]

(* The maildirs that exist: <<mail_directory, user name>>. An empty        *)
(* maildir string, no session, is NoBox.                                   *)
Boxes == DOMAIN InitialFiles
NoBox == <<Empty, Empty>>

ASSUME BoxesAssumption ==
    /\ Boxes \subseteq (Directories \X Names)
    /\ InitialFiles \in [Boxes -> SUBSET Mails]
    /\ Arriving \subseteq (Boxes \X Mails)
    /\ Empty \notin Directories /\ Empty \notin Mails /\ "idle" \notin Conns
    /\ IsFiniteSet(Mails)

(* `arg` is the argument ("" if there is none), `num` its atoi or strtol   *)
(* value, 0 when that is not a positive number.                            *)
Line == [verb : STRING, arg : STRING, num : Nat]
ASSUME ScriptsAssumption ==
    \A s \in Scripts : \E n \in 0 .. MaxLines : s \in [1 .. n -> Line]

ASSUME SwitchesAssumption ==
    /\ {SplitLines, PartialSends, StatMayFail} \subseteq BOOLEAN
    /\ Leaving \subseteq {"shut", "reset"}

VARIABLES
    phase,      \* "new" before accept, "open" while registered, then "closed"
    interest,   \* fd_interest of the descriptor in the selector
    stm,        \* stm.current, "NONE" before the first event
    last_state, \* conn->last_state
    inb,        \* in_buff: the tokens received and not parsed
    served,     \* the ordinal of the last line parsed
    pending,    \* the RETR line being answered (is_finished is FALSE)
    name,       \* user->name
    session,    \* current_session.maildir and username
    mails,      \* current_session.mails: the listed files, in order
    cap,        \* the entries calloc'ed for mails, 0 when it is NULL
    deleted,    \* the indexes marked deleted
    counted,    \* maildir_size: how many times it counts each mail's size
    ridx,       \* read_index of the message being sent
    out,        \* out_buff: the units from its read to its write pointer
    outw,       \* out_buff.write - out_buff.data
    rcv,        \* the tokens in the kernel's receive buffer
    sent,       \* lines the client has sent, a split one counting at its end
    half,       \* the first piece alone of the next line was sent
    script,     \* what the client will have sent
    peer,       \* the client's side: "open", "shut", "reset" or "broken"
    got,        \* the units the client received
    files,      \* the mail files of each maildir
    arriving,   \* the deliveries still to come
    turn        \* the connection whose handle_write is about to read on

sockVars == <<phase, interest>>
stmVars  == <<stm, last_state>>
inVars   == <<inb, served, pending>>
listVars == <<mails, cap, counted>>
mailVars == <<name, session, listVars, deleted, ridx>>
outVars  == <<out, outw>>
peerVars == <<sent, half, script, peer>>
dirVars  == <<files, arriving>>
vars == <<sockVars, stmVars, inVars, mailVars, outVars, rcv, peerVars, got, dirVars, turn,
          adminVars>>

Idle   == "idle"
NoLine == [verb |-> Empty, arg |-> Empty, num |-> 0]

(* A piece of a line on its way: its ordinal on the connection, the line,  *)
(* and whether this is all of it, its beginning or its end.                *)
Token == [n : 1 .. MaxLines, line : Line, part : {"all", "beg", "end"}]
NoToken == [n |-> 0, line |-> NoLine, part |-> "all"]

(* A unit of output: the ordinal of the line it answers (0: the greeting), *)
(* what it is, the number of a listing entry or of a message piece, and    *)
(* the message that a piece or its terminator belongs to.                  *)
NoMail == Empty
Kinds  == {"ok", "err", "entry", "body", "end"}
Unit   == [n : 0 .. MaxLines, kind : Kinds, i : Nat, m : Mails \cup {NoMail}]
U(n, kind, i) == [n |-> n, kind |-> kind, i |-> i, m |-> NoMail]

Least(a, b) == IF a <= b THEN a ELSE b
Upd(f, c, v) == [f EXCEPT ![c] = v]

Init ==
    /\ AdminInit
    /\ phase = [c \in Conns |-> "new"]
    /\ interest = [c \in Conns |-> "NOOP"]
    /\ stm = [c \in Conns |-> "NONE"]
    /\ last_state = [c \in Conns |-> "NONE"]
    /\ inb = [c \in Conns |-> <<>>]
    /\ served = [c \in Conns |-> 0]
    /\ pending = [c \in Conns |-> NoToken]
    /\ name = [c \in Conns |-> Empty]
    /\ session = [c \in Conns |-> NoBox]
    /\ mails = [c \in Conns |-> <<>>]
    /\ cap = [c \in Conns |-> 0]
    /\ deleted = [c \in Conns |-> {}]
    /\ counted = [c \in Conns |-> [m \in Mails |-> 0]]
    /\ ridx = [c \in Conns |-> 0]
    /\ out = [c \in Conns |-> <<>>]
    /\ outw = [c \in Conns |-> 0]
    /\ rcv = [c \in Conns |-> <<>>]
    /\ sent = [c \in Conns |-> 0]
    /\ half = [c \in Conns |-> FALSE]
    /\ script \in [Conns -> Scripts]
    /\ peer = [c \in Conns |-> "open"]
    /\ got = [c \in Conns |-> <<>>]
    /\ files = InitialFiles
    /\ arriving = Arriving
    /\ turn = Idle

----------------------------------------------------------------------------
(* The clients, the delivery agent and the administrator.                  *)

Accept(c) ==
    /\ up /\ turn = Idle /\ phase[c] = "new"
    /\ phase' = Upd(phase, c, "open")
    /\ interest' = Upd(interest, c, "WRITE")
    /\ UNCHANGED <<stmVars, inVars, mailVars, outVars, rcv, peerVars, got, dirVars, turn,
                   adminVars>>

Connected(c) == up /\ phase[c] = "open" /\ peer[c] = "open" /\ sent[c] < Len(script[c])
Arrives(c, part) ==
    rcv' = Upd(rcv, c, Append(rcv[c], [n |-> sent[c] + 1, line |-> script[c][sent[c] + 1],
                                       part |-> part]))

SendLine(c) ==
    /\ Connected(c) /\ ~half[c]
    /\ Arrives(c, "all")
    /\ sent' = Upd(sent, c, sent[c] + 1)
    /\ UNCHANGED <<half, script, peer>>

SendHead(c) ==
    /\ SplitLines /\ Connected(c) /\ ~half[c]
    /\ Arrives(c, "beg")
    /\ half' = Upd(half, c, TRUE)
    /\ UNCHANGED <<sent, script, peer>>

SendRest(c) ==
    /\ Connected(c) /\ half[c]
    /\ Arrives(c, "end")
    /\ sent' = Upd(sent, c, sent[c] + 1)
    /\ half' = Upd(half, c, FALSE)
    /\ UNCHANGED <<script, peer>>

(* The client ends its side (FIN), or its host resets the connection.      *)
Leave(c) ==
    /\ up /\ phase[c] = "open"
    /\ \/ peer[c] = "open" /\ "shut" \in Leaving /\ peer' = Upd(peer, c, "shut")
       \/ /\ peer[c] \in {"open", "shut"} /\ "reset" \in Leaving
          /\ peer' = Upd(peer, c, "reset")
    /\ UNCHANGED <<rcv, sent, half, script>>

Client(c) ==
    /\ SendLine(c) \/ SendHead(c) \/ SendRest(c) \/ Leave(c)
    /\ UNCHANGED <<sockVars, stmVars, inVars, mailVars, outVars, got, dirVars, turn, adminVars>>

Deliver(b, m) ==
    /\ up /\ <<b, m>> \in arriving
    /\ arriving' = arriving \ {<<b, m>>}
    /\ files' = [files EXCEPT ![b] = @ \cup {m}]
    /\ UNCHANGED <<sockVars, stmVars, inVars, mailVars, outVars, rcv, peerVars, got, turn,
                   adminVars>>

Administer ==
    /\ turn = Idle /\ AdminNext
    /\ UNCHANGED <<sockVars, stmVars, inVars, mailVars, outVars, rcv, peerVars, got, dirVars,
                   turn>>

----------------------------------------------------------------------------
(* try_write: as many of the units as there is room for.                   *)
RoomUnread(c) == BUFFER_SIZE - Len(out[c])
Room(c)       == BUFFER_SIZE - outw[c]
Put(c, us) ==
    LET k == Least(Room(c), Len(us)) IN
    /\ out' = Upd(out, c, out[c] \o SubSeq(us, 1, k))
    /\ outw' = Upd(outw, c, outw[c] + k)
Ok(c, t)  == Put(c, <<U(t.n, "ok", 0)>>)
Err(c, t) == Put(c, <<U(t.n, "err", 0)>>)

(* jump of lib/stm.c with the on_departure that records last_state.        *)
GotoUnrecorded(c, s) == stm' = Upd(stm, c, s) /\ UNCHANGED last_state
Goto(c, s) ==
    /\ stm' = Upd(stm, c, s)
    /\ last_state' = Upd(last_state, c, stm[c])

(* selector_unregister_fd and handle_close.                                *)
Unregister(c) ==
    /\ phase' = Upd(phase, c, "closed")
    /\ interest' = Upd(interest, c, "NOOP")
    /\ turn' = Idle

(* stm_transaction_arrival. readdir gives the entries in any order. An     *)
(* entry that cannot be stat'ed leaves its path in the slot, the next one  *)
(* is appended to it, and so nothing is listed from there on.              *)
Orders(S, k) == {s \in [1 .. k -> S] : \A i, j \in 1 .. k : s[i] = s[j] => i = j}
Elems(s)     == {s[i] : i \in DOMAIN s}

Listings(c, b) ==
    LET full == Least(max_mails, Cardinality(files[b])) IN
    IF cap[c] # 0 THEN {<<>>}
    ELSE UNION {Orders(files[b], k) : k \in (IF StatMayFail THEN 0 .. full ELSE {full})}

ScanAlways(c) == TRUE
ScanNeeded(c) == mails[c] = <<>>

Scan(c, b) ==
    \/ ~ScanNeeded(c) /\ UNCHANGED <<listVars, up>>
    \/ /\ ScanNeeded(c) /\ cap[c] = 0 /\ files[b] # {} /\ max_mails > ALLOC_MAX
       /\ up' = FALSE   \* calloc fails and its result is used
       /\ UNCHANGED listVars
    \/ /\ ScanNeeded(c) /\ (cap[c] # 0 \/ files[b] = {} \/ max_mails <= ALLOC_MAX)
       /\ \E l \in Listings(c, b) :
            /\ mails' = Upd(mails, c, l)
            /\ counted' = [counted EXCEPT ![c] =
                              [m \in Mails |-> @[m] + (IF m \in Elems(l) THEN 1 ELSE 0)]]
       /\ cap' = IF cap[c] = 0 /\ files[b] # {} THEN Upd(cap, c, max_mails) ELSE cap
       /\ UNCHANGED up

----------------------------------------------------------------------------
(* The command handlers of pop3_stm.c. Each says what becomes of stmVars,  *)
(* outVars, mailVars, pending, files and up, for the line of token t.      *)

Stays(c) == UNCHANGED stmVars

UserHandler(c, t) ==
    /\ Stays(c) /\ UNCHANGED <<session, listVars, deleted, ridx, pending, files, up>>
    /\ \/ /\ \E i \in Visible : users[i].name = t.line.arg
          /\ name' = Upd(name, c, t.line.arg) /\ Ok(c, t)
       \/ /\ \A i \in Visible : users[i].name # t.line.arg
          /\ name' = Upd(name, c, Empty) /\ Err(c, t)

PassRefused(c, t) == name[c] = Empty \/ ~Accepts(name[c], t.line.arg)

PassHandler(c, t) ==
    /\ UNCHANGED <<deleted, ridx, pending, files>>
    /\ \/ /\ PassRefused(c, t)
          /\ Stays(c) /\ Err(c, t) /\ UNCHANGED <<name, session, listVars, up>>
       \/ /\ ~PassRefused(c, t) /\ <<mail_directory, name[c]>> \notin Boxes
          /\ name' = Upd(name, c, Empty)
          /\ session' = Upd(session, c, NoBox)
          /\ Stays(c) /\ Err(c, t) /\ UNCHANGED <<listVars, up>>
       \/ /\ ~PassRefused(c, t) /\ <<mail_directory, name[c]>> \in Boxes
          /\ session' = Upd(session, c, <<mail_directory, name[c]>>)
          /\ Goto(c, "TRANSACTION") /\ Scan(c, <<mail_directory, name[c]>>)
          /\ Ok(c, t) /\ UNCHANGED name

StatHandler(c, t) ==
    /\ Ok(c, t) /\ Stays(c) /\ UNCHANGED <<mailVars, pending, files, up>>

NoopHandler(c, t) ==
    /\ Ok(c, t) /\ Stays(c) /\ pending' = Upd(pending, c, NoToken)
    /\ UNCHANGED <<mailVars, files, up>>

CapaHandler(c, t) ==
    /\ Put(c, <<U(t.n, "ok", 0), U(t.n, "entry", 1), U(t.n, "entry", 2), U(t.n, "end", 0)>>)
    /\ Stays(c) /\ UNCHANGED <<mailVars, pending, files, up>>

(* The one sequence of the members of S in ascending order.                *)
Ascending(S) ==
    {s \in [1 .. Cardinality(S) -> S] : \A i, j \in DOMAIN s : i < j => s[i] < s[j]}

(* LIST without an argument: a status line, the entries not deleted, ".".  *)
ListAll(c, t) ==
    /\ t.line.arg = Empty
    /\ \E kept \in Ascending(DOMAIN mails[c] \ deleted[c]) :
         Put(c, <<U(t.n, "ok", 0)>> \o [j \in DOMAIN kept |-> U(t.n, "entry", kept[j])]
                  \o <<U(t.n, "end", 0)>>)
    /\ UNCHANGED up

(* LIST n: the test is (size_t)n - 1 > mail_count, so that n = 0 wraps and *)
(* is refused, without an answer, and n = mail_count + 1 passes and reads  *)
(* mails[mail_count]: a NULL array, a zeroed entry, or past the array.     *)
ListOne(c, t) ==
    LET n == t.line.num  count == Len(mails[c]) IN
    /\ t.line.arg # Empty
    /\ \/ (n = 0 \/ n - 1 > count) /\ UNCHANGED <<outVars, up>>
       \/ n \in 1 .. count /\ Ok(c, t) /\ UNCHANGED up
       \/ n = count + 1 /\ cap[c] = 0 /\ up' = FALSE /\ UNCHANGED outVars
       \/ n = count + 1 /\ cap[c] > count /\ Ok(c, t) /\ UNCHANGED up
       \/ n = count + 1 /\ cap[c] = count /\ cap[c] # 0 /\ Ok(c, t) /\ up' \in BOOLEAN

ListHandler(c, t) ==
    /\ ListAll(c, t) \/ ListOne(c, t)
    /\ Stays(c) /\ UNCHANGED <<mailVars, pending, files>>

(* RETR, first or resumed. With room for n units it sends what is left of  *)
(* the message and the terminator if that leaves one unit to spare, else   *)
(* n - 1 units of it, and the line stays pending. With no room fread is    *)
(* let read the whole rest into an empty allocation. The process ends or   *)
(* goes on (a rest that the allocator's smallest block takes harms         *)
(* nothing): buffer_write then drops the rest, read_index is at its end,   *)
(* and the terminator is all that is still to be sent. What else a larger  *)
(* one does to the heap is not followed.                                   *)
MailFile(c, t) == mails[c][t.line.num]
Left(c, t)     == Size[MailFile(c, t)] - ridx[c]
Heading(c, t)  == IF pending[c] = NoToken /\ Room(c) > 0 THEN <<U(t.n, "ok", 0)>> ELSE <<>>
Piece(c, t, kind, i) == [n |-> t.n, kind |-> kind, i |-> i, m |-> MailFile(c, t)]
Pieces(c, t, k) == [j \in 1 .. k |-> Piece(c, t, "body", ridx[c] + j)]

Resumes(c, t)  == Upd(pending, c, t)
AdvancedByRoom(c, k) == Upd(ridx, c, ridx[c] + k + 1)
Advanced(c, k)       == Upd(ridx, c, ridx[c] + k)
RewoundNot(c) == ridx
Rewound(c)    == Upd(ridx, c, 0)

RetrHandler(c, t) ==
    LET room == Room(c) - Len(Heading(c, t)) IN
    /\ Stays(c) /\ UNCHANGED <<name, session, listVars, deleted, files>>
    /\ \/ /\ t.line.num \notin DOMAIN mails[c]
          /\ Err(c, t) /\ UNCHANGED <<pending, ridx, up>>
       \/ /\ t.line.num \in DOMAIN mails[c]
          /\ MailFile(c, t) \notin files[session[c]]
          /\ up' = FALSE   \* fopen fails, and its result is given to fclose
          /\ Err(c, t) /\ UNCHANGED <<pending, ridx>>
       \/ /\ t.line.num \in DOMAIN mails[c]
          /\ MailFile(c, t) \in files[session[c]]
          /\ \/ /\ Left(c, t) + 2 <= room
                /\ Put(c, Heading(c, t) \o Pieces(c, t, Left(c, t))
                            \o <<Piece(c, t, "end", 0)>>)
                /\ pending' = Upd(pending, c, NoToken)
                /\ ridx' = Rewound(c)
                /\ UNCHANGED up
             \/ /\ Left(c, t) + 2 > room /\ room > 0
                /\ LET k == Least(room - 1, Left(c, t)) IN
                     /\ Put(c, Heading(c, t) \o Pieces(c, t, k))
                     /\ ridx' = Advanced(c, k)
                /\ pending' = Resumes(c, t)
                /\ UNCHANGED up
             \/ /\ room = 0   \* fread of n - 1 = SIZE_MAX bytes into malloc(0)
                /\ up' \in (IF Left(c, t) = 0 THEN {up} ELSE BOOLEAN)
                /\ Put(c, Heading(c, t))
                /\ pending' = Resumes(c, t)
                /\ ridx' = Advanced(c, Left(c, t))

DeleHandler(c, t) ==
    /\ Stays(c) /\ UNCHANGED <<name, session, mails, cap, ridx, pending, files, up>>
    /\ \/ /\ t.line.num \notin DOMAIN mails[c]
          /\ Err(c, t) /\ UNCHANGED <<deleted, counted>>
       \/ /\ t.line.num \in DOMAIN mails[c]
          /\ deleted' = Upd(deleted, c, deleted[c] \cup {t.line.num})
          /\ counted' = [counted EXCEPT ![c][MailFile(c, t)] = @ - 1]
          /\ Put(c, <<U(t.n, "ok", 0), U(t.n, "end", 0)>>)

RsetHandler(c, t) ==
    /\ deleted' = Upd(deleted, c, {})
    /\ counted' = Upd(counted, c, [m \in Mails |-> IF m \in Elems(mails[c]) THEN 1 ELSE 0])
    /\ Ok(c, t) /\ Stays(c) /\ UNCHANGED <<name, session, mails, cap, ridx, pending, files, up>>

(* QUIT. maildir_size and user->name outlive the session; and a session    *)
(* with no mails array falls through to ERROR.                             *)
MarkedAll(c) == Elems(mails[c])
Marked(c)    == {mails[c][i] : i \in deleted[c]}

QuitHandler(c, t) ==
    /\ UNCHANGED <<name, counted, ridx, pending, up>>
    /\ \/ /\ stm[c] = "AUTHORIZATION"
          /\ Ok(c, t) /\ Goto(c, "QUIT")
          /\ UNCHANGED <<session, mails, cap, deleted, files>>
       \/ /\ stm[c] = "TRANSACTION" /\ cap[c] # 0
          /\ files' = [files EXCEPT ![session[c]] = @ \ Marked(c)]
          /\ session' = Upd(session, c, NoBox)
          /\ mails' = Upd(mails, c, <<>>)
          /\ cap' = Upd(cap, c, 0)
          /\ deleted' = Upd(deleted, c, {})
          /\ Ok(c, t) /\ Goto(c, "AUTHORIZATION")
       \/ /\ stm[c] = "TRANSACTION" /\ cap[c] = 0
          /\ Goto(c, "ERROR")
          /\ UNCHANGED <<session, mails, cap, deleted, files, outVars>>

----------------------------------------------------------------------------
(* read_command.                                                           *)

(* The table commands[]: what each state takes, and its argument.          *)
Table == {<<"AUTHORIZATION", "USER", "REQUIRED">>, <<"AUTHORIZATION", "PASS", "REQUIRED">>,
          <<"AUTHORIZATION", "QUIT", "EMPTY">>,    <<"AUTHORIZATION", "CAPA", "EMPTY">>,
          <<"TRANSACTION", "STAT", "EMPTY">>,      <<"TRANSACTION", "LIST", "OPTIONAL">>,
          <<"TRANSACTION", "RETR", "REQUIRED">>,   <<"TRANSACTION", "DELE", "REQUIRED">>,
          <<"TRANSACTION", "NOOP", "EMPTY">>,      <<"TRANSACTION", "RSET", "EMPTY">>,
          <<"TRANSACTION", "QUIT", "EMPTY">>,      <<"TRANSACTION", "CAPA", "EMPTY">>}

Known(c, l) ==
    \/ <<stm[c], l.verb, "OPTIONAL">> \in Table
    \/ <<stm[c], l.verb, IF l.arg = Empty THEN "EMPTY" ELSE "REQUIRED">> \in Table

Handler(c, t) ==
    \/ t.line.verb = "USER" /\ UserHandler(c, t)
    \/ t.line.verb = "PASS" /\ PassHandler(c, t)
    \/ t.line.verb = "STAT" /\ StatHandler(c, t)
    \/ t.line.verb = "LIST" /\ ListHandler(c, t)
    \/ t.line.verb = "RETR" /\ RetrHandler(c, t)
    \/ t.line.verb = "DELE" /\ DeleHandler(c, t)
    \/ t.line.verb = "NOOP" /\ NoopHandler(c, t)
    \/ t.line.verb = "RSET" /\ RsetHandler(c, t)
    \/ t.line.verb = "QUIT" /\ QuitHandler(c, t)
    \/ t.line.verb = "CAPA" /\ CapaHandler(c, t)

Rejected(c) ==
    /\ Goto(c, "ERROR") /\ UNCHANGED <<mailVars, outVars, pending, files, up>>

(* handle_read, or the end of a handle_write: the callback runs.           *)
CallsRead(c) ==
    /\ up /\ phase[c] = "open"
    /\ \/ turn = c
       \/ turn = Idle /\ interest[c] = "READ" /\ (rcv[c] # <<>> \/ peer[c] # "open")

(* in_buff after recv, which is called only when in_buff is empty.         *)
Taken(c)   == IF inb[c] # <<>> THEN inb[c] ELSE rcv[c]
Receive(c) == rcv' = IF inb[c] = <<>> THEN Upd(rcv, c, <<>>) ELSE rcv

(* The next line is all there; a split one takes two tokens.               *)
Whole(c) == Taken(c) # <<>> /\ (Head(Taken(c)).part = "beg" => Len(Taken(c)) > 1)
RestDrained(c) == <<>>
Rest(c)  == SubSeq(Taken(c), IF Head(Taken(c)).part = "beg" THEN 3 ELSE 2, Len(Taken(c)))

tableVars == <<users, users_count, max_mails, mail_directory, admin_reply>>

(* recv returns 0: QUIT without requested_quit, which unregisters.         *)
ReadEnds(c) ==
    /\ CallsRead(c) /\ stm[c] # "ERROR"
    /\ Taken(c) = <<>> /\ peer[c] \in {"shut", "broken"}
    /\ Unregister(c)
    /\ UNCHANGED <<stmVars, inVars, mailVars, outVars, rcv, peerVars, got, dirVars, adminVars>>

(* recv fails (the reset is reported once): nothing to parse.              *)
ReadFails(c) ==
    /\ CallsRead(c) /\ stm[c] # "ERROR" /\ pending[c] = NoToken
    /\ Taken(c) = <<>> /\ peer[c] = "reset"
    /\ peer' = Upd(peer, c, "broken")
    /\ turn' = Idle
    /\ UNCHANGED <<sockVars, stmVars, inVars, mailVars, outVars, rcv, sent, half, script, got, dirVars,
                   adminVars>>

(* The line is not complete: the state, and the interest, stay as they are.*)
ReadPartial(c) ==
    /\ CallsRead(c) /\ stm[c] # "ERROR" /\ pending[c] = NoToken
    /\ Taken(c) # <<>> /\ ~Whole(c)
    /\ Receive(c)
    /\ inb' = Upd(inb, c, <<>>)
    /\ turn' = Idle
    /\ UNCHANGED <<sockVars, stmVars, served, pending, mailVars, outVars, peerVars, got, dirVars, adminVars>>

WillWrite(c) == interest' = Upd(interest, c, "WRITE") /\ UNCHANGED phase /\ turn' = Idle

ReadLine(c) ==
    /\ CallsRead(c) /\ stm[c] # "ERROR" /\ pending[c] = NoToken
    /\ Whole(c)
    /\ Receive(c)
    /\ inb' = Upd(inb, c, Rest(c))
    /\ LET t == [Head(Taken(c)) EXCEPT !.part = "all"] IN
         /\ served' = Upd(served, c, t.n)
         /\ \/ Known(c, t.line) /\ Handler(c, t)
            \/ ~Known(c, t.line) /\ Rejected(c)
    /\ WillWrite(c)
    /\ UNCHANGED <<peerVars, got, arriving, tableVars>>

(* is_finished is FALSE: the handler runs again before anything is parsed. *)
ReadResumes(c) ==
    /\ CallsRead(c) /\ stm[c] # "ERROR" /\ pending[c] # NoToken
    /\ Taken(c) # <<>> \/ peer[c] \notin {"shut", "broken"}
    /\ Receive(c)
    /\ inb' = Upd(inb, c, Taken(c))
    /\ peer' = IF Taken(c) = <<>> /\ peer[c] = "reset" THEN Upd(peer, c, "broken") ELSE peer
    /\ RetrHandler(c, pending[c])
    /\ WillWrite(c)
    /\ UNCHANGED <<served, sent, half, script, got, arriving, tableVars>>

(* stm_error_read ignores the event.                                       *)
ReadInError(c) ==
    /\ CallsRead(c) /\ stm[c] = "ERROR"
    /\ turn' = Idle
    /\ UNCHANGED <<sockVars, stmVars, inVars, mailVars, outVars, rcv, peerVars, got, dirVars,
                   adminVars>>

Read(c) ==
    \/ ReadEnds(c) \/ ReadFails(c) \/ ReadPartial(c) \/ ReadLine(c) \/ ReadResumes(c)
    \/ ReadInError(c)

----------------------------------------------------------------------------
(* handle_write: stm_handler_write, which adds to out_buff and, in         *)
(* AUTHORIZATION and TRANSACTION, sends (write_command); then another send.*)

CallsWrite(c) == up /\ turn = Idle /\ phase[c] = "open" /\ interest[c] = "WRITE"

ErrorFits(c) == stm[c] = "ERROR" /\ Room(c) > 0

(* out_buff when the first send is made.                                   *)
Queue(c) ==
    CASE stm[c] = "NONE" -> Append(out[c], U(0, "ok", 0))
      [] ErrorFits(c)    -> Append(out[c], U(served[c], "err", 0))
      [] OTHER           -> out[c]

StmWrite(c) ==
    \/ /\ stm[c] = "NONE"   \* handle_first and the greeting
       /\ stm' = Upd(stm, c, "AUTHORIZATION")
       /\ last_state' = Upd(last_state, c, "AUTHORIZATION")
       /\ UNCHANGED <<listVars, up>>
    \/ /\ ErrorFits(c)
       /\ Goto(c, last_state[c])
       /\ \/ last_state[c] = "TRANSACTION" /\ Scan(c, session[c])
          \/ last_state[c] # "TRANSACTION" /\ UNCHANGED <<listVars, up>>
    \/ /\ stm[c] # "NONE" /\ ~ErrorFits(c)
       /\ UNCHANGED <<stmVars, listVars, up>>

(* write_command sends before handle_write does: two sends, not one.       *)
SendsTwice(c) == stm[c] \in {"NONE", "AUTHORIZATION", "TRANSACTION"}

(* k units of the queue have left out_buff; it is compacted when empty.    *)
Flush(c, q, k) ==
    /\ got' = Upd(got, c, got[c] \o SubSeq(q, 1, k))
    /\ out' = Upd(out, c, SubSeq(q, k + 1, Len(q)))
    /\ outw' = Upd(outw, c, IF k = Len(q) THEN 0 ELSE outw[c] + Len(q) - Len(out[c]))

Amounts(q) == IF PartialSends /\ q # <<>> THEN 1 .. Len(q) ELSE {Len(q)}

MoreToSend(c) == pending[c] # NoToken
MoreToDo(c)   == inb[c] # <<>> \/ pending[c] # NoToken

AfterSend(c) ==
    \/ stm[c] = "QUIT" /\ Unregister(c)
    \/ /\ stm[c] # "QUIT" /\ MoreToDo(c)
       /\ interest' = Upd(interest, c, "NOOP") /\ turn' = c /\ UNCHANGED phase
    \/ /\ stm[c] # "QUIT" /\ ~MoreToDo(c)
       /\ interest' = Upd(interest, c, "READ") /\ turn' = Idle /\ UNCHANGED phase

writeFrame == <<inVars, name, session, deleted, ridx, rcv, peerVars, dirVars, tableVars>>

WriteSends(c) ==
    /\ CallsWrite(c) /\ peer[c] \in {"open", "shut"}
    /\ StmWrite(c)
    /\ \E k \in Amounts(Queue(c)) : Flush(c, Queue(c), k)
    /\ AfterSend(c)
    /\ UNCHANGED writeFrame

(* The second send of a callback fails: with EAGAIN after a first one that *)
(* did not take everything, or with the error of the reset connection.     *)
WriteFails(c) ==
    /\ CallsWrite(c)
    /\ StmWrite(c)
    /\ \/ /\ peer[c] \in {"open", "shut"} /\ SendsTwice(c)
          /\ \E k \in Amounts(Queue(c)) \ {Len(Queue(c))} : Flush(c, Queue(c), k)
       \/ /\ peer[c] = "reset" /\ (~SendsTwice(c) \/ Queue(c) = <<>>)
          /\ UNCHANGED <<outVars, got>>
    /\ Unregister(c)
    /\ UNCHANGED writeFrame

(* A send without MSG_NOSIGNAL after the error was already reported once:  *)
(* SIGPIPE, for which main installs no handler.                            *)
SecondSendDies(c) ==
    \/ peer[c] = "broken"
    \/ peer[c] = "reset" /\ SendsTwice(c) /\ Queue(c) # <<>>

WriteDies(c) ==
    /\ CallsWrite(c) /\ SecondSendDies(c)
    /\ up' = FALSE
    /\ UNCHANGED <<sockVars, stmVars, listVars, outVars, got, turn, writeFrame>>

Write(c) == WriteSends(c) \/ WriteFails(c) \/ WriteDies(c)

----------------------------------------------------------------------------
Serve(c) == Read(c) \/ Write(c)

Next ==
    \/ \E c \in Conns : Accept(c) \/ Client(c) \/ Serve(c)
    \/ \E b \in Boxes, m \in Mails : Deliver(b, m)
    \/ Administer

Spec == Init /\ [][Next]_vars

(* An iteration of the loop serves every descriptor that select reports.   *)
FairSpec == Spec /\ \A c \in Conns : WF_vars(Serve(c))

----------------------------------------------------------------------------
States == {"AUTHORIZATION", "TRANSACTION", "ERROR", "QUIT"}

(* Types, and that the two pointers of out_buff stay inside it, which      *)
(* lib/buffer.c asserts.                                                   *)
TypeOK ==
    /\ AdminTypeOK
    /\ phase \in [Conns -> {"new", "open", "closed"}]
    /\ interest \in [Conns -> {"NOOP", "READ", "WRITE"}]
    /\ stm \in [Conns -> States \cup {"NONE"}]
    /\ last_state \in [Conns -> States \cup {"NONE"}]
    /\ inb \in [Conns -> Seq(Token)]
    /\ served \in [Conns -> 0 .. MaxLines]
    /\ pending \in [Conns -> Token \cup {NoToken}]
    /\ name \in [Conns -> Names \cup {Empty}]
    /\ session \in [Conns -> Boxes \cup {NoBox}]
    /\ mails \in [Conns -> Seq(Mails)]
    /\ cap \in [Conns -> Nat]
    /\ deleted \in [Conns -> SUBSET Nat]
    /\ counted \in [Conns -> [Mails -> Int]]
    /\ ridx \in [Conns -> Nat]
    /\ out \in [Conns -> Seq(Unit)]
    /\ outw \in [Conns -> 0 .. BUFFER_SIZE]
    /\ \A c \in Conns : Len(out[c]) <= outw[c]
    /\ rcv \in [Conns -> Seq(Token)]
    /\ sent \in [Conns -> 0 .. MaxLines]
    /\ half \in [Conns -> BOOLEAN]
    /\ script \in [Conns -> Seq(Line)]
    /\ peer \in [Conns -> {"open", "shut", "reset", "broken"}]
    /\ got \in [Conns -> Seq(Unit)]
    /\ files \in [Boxes -> SUBSET Mails]
    /\ arriving \subseteq Arriving
    /\ turn \in Conns \cup {Idle}

(* The session and the state machine agree: a maildir is held exactly in   *)
(* TRANSACTION and in an ERROR that goes back to it, and without one there *)
(* is no listing, no mark and no message half sent. An ERROR always knows  *)
(* the state to go back to (stm_error_write returns last_state).           *)
InTransaction(c) ==
    stm[c] = "TRANSACTION" \/ (stm[c] = "ERROR" /\ last_state[c] = "TRANSACTION")

SessionMatchesState ==
    \A c \in Conns :
        /\ session[c] # NoBox <=> InTransaction(c)
        /\ session[c] = NoBox =>
             mails[c] = <<>> /\ cap[c] = 0 /\ deleted[c] = {} /\ pending[c] = NoToken
        /\ stm[c] = "ERROR" => last_state[c] \in {"AUTHORIZATION", "TRANSACTION"}

(* What a session keeps of its listing stays in it, even though max_mails  *)
(* changes under it and a second arrival may scan again: the listing is no *)
(* longer than the array calloc'ed for it, the marks and the message being *)
(* sent are of the listing, and only that one has a read_index. A number   *)
(* that list_handler uses and forgets is not kept: LIST of mail_count + 1  *)
(* does read past the listing (ListOne).                                   *)
ListingFits ==
    \A c \in Conns :
        /\ Len(mails[c]) <= cap[c]
        /\ deleted[c] \subseteq DOMAIN mails[c]
        /\ pending[c] # NoToken =>
             pending[c].line.num \in DOMAIN mails[c] /\ ridx[c] <= Size[mails[c][pending[c].line.num]]
        /\ pending[c] = NoToken => ridx[c] = 0

(* What the client has received and is about to, and the places in it of   *)
(* the units that answer a line.                                           *)
Conversation(c) == got[c] \o out[c]
At(s, n) == {j \in DOMAIN s : s[j].n = n}

(* The reply to a line: a status, and after a good one perhaps lines and   *)
(* their terminator.                                                       *)
WellFormed(s, n) ==
    \E first, last \in At(s, n) :
        /\ s[first].kind \in {"ok", "err"}
        /\ first < last => s[first].kind = "ok" /\ s[last].kind = "end"
        /\ \A j \in At(s, n) :
             /\ first <= j /\ j <= last
             /\ first < j /\ j < last => s[j].kind \in {"entry", "body"}

(* LIST of one message: if its number is not in the listing, list_handler  *)
(* leaves it without a reply (INGRESAR MENSAJE DE ERROR).                  *)
OfNoMessage(l) == l.verb = "LIST" /\ l.arg # Empty

(* Replies come in the order of the lines, one whole reply for each line   *)
(* parsed, but for the last while it is being sent or owed its -ERR, and   *)
(* for a LIST that list_handler leaves without one. This is what           *)
(* PIPELINING promises, as long as sends are not cut short.                *)
RepliesInOrder ==
    \A c \in Conns : LET s == Conversation(c) IN
        /\ \A j, k \in DOMAIN s : j < k => s[j].n <= s[k].n
        /\ \A j \in DOMAIN s : s[j].n <= served[c]
        /\ \A n \in 1 .. served[c] :
             \/ WellFormed(s, n)
             \/ n = served[c] /\ (pending[c] # NoToken \/ stm[c] = "ERROR" \/ phase[c] = "closed")
             \/ OfNoMessage(script[c][n]) /\ At(s, n) = {}

(* What arrives of a message is a beginning of it, piece by piece in       *)
(* order: no piece is repeated or skipped over by a later one in the calls *)
(* that RETR is spread on, nothing of another message comes in between and *)
(* nothing after the terminator, also when sends are cut short. The rest   *)
(* may be missing, terminator or not: that is EndsAreWhole.                *)
Bodies(s, n)     == {j \in At(s, n) : s[j].kind = "body"}
Earlier(s, n, j) == {k \in Bodies(s, n) : k < j}
Numbers(s, J)    == {s[j].i : j \in J}
Terminates(u)    == u.kind = "end" /\ u.m # NoMail

PiecesInOrder ==
    \A c \in Conns : LET s == Conversation(c) IN \A j \in DOMAIN s :
        /\ s[j].kind = "body" =>
             /\ Numbers(s, Earlier(s, s[j].n, j)) = 1 .. s[j].i - 1
             /\ \A k \in Bodies(s, s[j].n) : s[k].m = s[j].m
        /\ Terminates(s[j]) =>
             /\ \A k \in At(s, s[j].n) : k <= j
             /\ \A k \in Bodies(s, s[j].n) : s[k].m = s[j].m

(* A terminator follows the whole message, nothing less ("hasta que se     *)
(* imprima toda la información necesaria"). It does not once a send cut    *)
(* short has left out_buff without room: retr_handler then drops the rest  *)
(* of the message and terminates it all the same.                          *)
EndsAreWhole ==
    \A c \in Conns : LET s == Conversation(c) IN \A j \in DOMAIN s :
        Terminates(s[j]) => Numbers(s, Bodies(s, s[j].n)) = 1 .. Size[s[j].m]

(* A message that is answered arrives exactly: its pieces in order, and    *)
(* its terminator after all of them. For sends that take all they are      *)
(* given, which leave RETR the room it needs.                              *)
RetrIsExact == PiecesInOrder /\ EndsAreWhole

(* A mail file disappears only when a session of its maildir ends with     *)
(* QUIT having it listed and marked: not when a connection is lost, not by *)
(* another session, and never before QUIT.                                 *)
OnlyQuitRemoves ==
    \A b \in Boxes : \A m \in files[b] \ files'[b] :
        \E c \in Conns :
            /\ session[c] = b /\ session'[c] = NoBox
            /\ stm'[c] = "AUTHORIZATION"
            /\ \E i \in deleted[c] : mails[c][i] = m

MailSafety == [][OnlyQuitRemoves]_vars

(* The message numbers a client was given keep their meaning: a listing    *)
(* with messages stays as it is for as long as its session lasts, whatever *)
(* is delivered, removed or reconfigured meanwhile.                        *)
ListingStable ==
    [][\A c \in Conns :
         session[c] # NoBox /\ session'[c] # NoBox /\ mails[c] # <<>>
           => mails'[c] = mails[c] /\ session'[c] = session[c]]_vars

(* Every line the client has sent is answered, unless the connection ends. *)
EveryLineAnswered ==
    \A c \in Conns : \A n \in 1 .. MaxLines :
        sent[c] >= n ~> WellFormed(got[c], n) \/ phase[c] = "closed" \/ peer[c] # "open" \/ ~up
=============================================================================
