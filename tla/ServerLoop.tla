----------------------------- MODULE ServerLoop -----------------------------
(***************************************************************************)
(* The main loop of pop3d: the selector (lib/selector.c), the descriptors  *)
(* that main.c registers with it, the connections that pop3.c accepts and  *)
(* closes, the statistics it counts them in, and the shutdown.             *)
(*                                                                         *)
(* What a connection does in its callbacks is Pop3Server's: here it keeps  *)
(* or changes its interest, or ends. Only the main thread runs; a signal   *)
(* may come between any two steps. selector_new is given INITIAL_FDS =     *)
(* FD_SETSIZE, so the table of items never grows.                          *)
(***************************************************************************)
EXTENDS Integers, Sequences, FiniteSets

CONSTANTS
    FD_SETSIZE,  \* what select() and the table of items can hold
    OpenMax,     \* the highest descriptor that any process may have
    Limits,      \* the numbers of descriptors this one may be limited to
    Inherited,   \* descriptors open at the start: the standard ones
    Conns,       \* the clients that may connect, each of them once
    Via          \* the listener each of them reaches: IPv4's or IPv6's

Roles     == {"log", "server", "server_6", "managment"}
Listeners == {"server", "server_6"}
Owners    == Roles \cup Conns
Unused    == "unused"
Ops       == {"R", "W"}

Fds  == 0 .. FD_SETSIZE  \* the indexes of the items, one more than select's
Nums == 0 .. OpenMax     \* what open() and accept() may give

ASSUME LoopConstants ==
    /\ FD_SETSIZE \in Nat /\ Inherited \in Nat /\ Inherited + 4 <= FD_SETSIZE
    /\ OpenMax \in Nat /\ FD_SETSIZE <= OpenMax
    /\ Limits \subseteq Inherited + 4 .. OpenMax + 1
    /\ Conns \cap (Roles \cup {Unused, "std"}) = {}
    /\ IsFiniteSet(Conns)
    /\ Via \in [Conns -> Listeners]

VARIABLES
    items,       \* the selector's jump table: owner and interest by descriptor
    max_fd,
    master,      \* master_r and master_w
    slave,       \* slave_r and slave_w, what select() left of them
    at, n,       \* handle_iteration: what it has passed, and its last item
    polled,      \* the owners of the descriptors when select() returned
    open,        \* the kernel's table: who has each descriptor
    limit,
    backlog,     \* the connections each listener has not accepted
    ready,       \* the connections that can be read or written
    datagram,    \* a request for managment is waiting
    fate,        \* what became of each client
    concurrent, historical,  \* the statistics
    pc, done

selectorVars == <<items, max_fd, master>>
loopVars     == <<slave, at, n, polled>>
clientVars   == <<backlog, ready, datagram>>
statsVars    == <<fate, concurrent, historical>>
vars == <<selectorVars, loopVars, open, limit, clientVars, statsVars, pc, done>>

Used(f)    == items[f].data # Unused
NoItem     == [data |-> Unused, interest |-> {}]
NothingSet == [op \in Ops |-> {}]
NobodyPolled == [f \in Nums |-> Unused]

(* logger_init opens the log first, when it can; then main opens the two   *)
(* listeners and the socket of managment.                                  *)
FirstOwner(f, log) ==
    LET first == IF log THEN Inherited + 1 ELSE Inherited IN
    CASE f < Inherited    -> "std"
      [] log /\ f = Inherited -> "log"
      [] f = first        -> "server"
      [] f = first + 1    -> "server_6"
      [] f = first + 2    -> "managment"
      [] OTHER            -> Unused

Init ==
    \E log \in BOOLEAN :
        /\ limit \in Limits
        /\ open = [f \in Nums |-> FirstOwner(f, log)]
        /\ items = [f \in Fds |->
             LET o == FirstOwner(f, log) IN
             CASE o = "std" -> NoItem
               [] o \in {"log", Unused} -> [data |-> o, interest |-> {}]
               [] OTHER -> [data |-> o, interest |-> {"R"}]]
        /\ max_fd = (IF log THEN Inherited + 3 ELSE Inherited + 2)
        /\ master = [op \in Ops |-> {f \in Fds : op \in items[f].interest}]
        /\ slave = NothingSet /\ at = 0 /\ n = 0 /\ polled = NobodyPolled
        /\ backlog = [l \in Listeners |-> <<>>]
        /\ ready = {} /\ datagram = FALSE
        /\ fate = [c \in Conns |-> "none"]
        /\ concurrent = 0 /\ historical = 0
        /\ pc = "loop" /\ done = FALSE

----------------------------------------------------------------------------
(* lib/selector.c *)

UpdateSetsAdding(touched) ==
    master' = [op \in Ops |->
        master[op] \cup {f \in touched : op \in items'[f].interest}]

(* items_update_fdset_for_fd, for the items that a step touched.           *)
UpdateSets(touched) ==
    master' = [op \in Ops |->
        (master[op] \ touched) \cup {f \in touched : op \in items'[f].interest}]

(* items_max_fd *)
IsMaxFd(m, table, last) ==
    /\ m = 0 \/ table[m].data # Unused
    /\ \A f \in 0 .. last : table[f].data # Unused => f <= m

(* What the logger leaves of a line, if anything, it waits to write. With  *)
(* no log, or once it is closed, nothing is logged.                        *)
LogFd == Inherited
LogOpen == items[LogFd].data = "log"
Logged(i) == IF LogOpen THEN [items EXCEPT ![LogFd].interest = i] ELSE items
LogInterest == {{}, {"W"}}

(* selector_set_interest of an item in use.                                *)
SetInterest(f, i) ==
    /\ items' = [items EXCEPT ![f].interest = i]
    /\ UpdateSets({f})
    /\ UNCHANGED max_fd

RegisterUnowned(f, o, i) ==
    \E w \in LogInterest :
        /\ items' = [Logged(w) EXCEPT ![f].interest = i]
        /\ UpdateSets({f, LogFd})
        /\ max_fd' = (IF f > max_fd THEN f ELSE max_fd)

(* selector_register, of a descriptor that FD_SETSIZE allows.              *)
Register(f, o, i) ==
    \E w \in LogInterest :
        /\ items' = [Logged(w) EXCEPT ![f] = [data |-> o, interest |-> i]]
        /\ UpdateSets({f, LogFd})
        /\ max_fd' = (IF f > max_fd THEN f ELSE max_fd)

OnlyLogs ==
    \E w \in LogInterest :
        /\ items' = Logged(w)
        /\ UpdateSets({LogFd})
        /\ UNCHANGED max_fd

(* selector_unregister_fd, with the handle_close of the one registered: a  *)
(* connection is discounted, closed and freed, the log is closed, and the  *)
(* other descriptors have none.                                            *)
Unregister(f) ==
    LET o == items[f].data IN
    /\ \E w \in LogInterest :
         items' = [Logged(IF o \in Conns THEN w ELSE items[LogFd].interest)
                     EXCEPT ![f] = NoItem]
    /\ UpdateSets({f, LogFd})
    /\ \E m \in 0 .. max_fd : IsMaxFd(m, items', max_fd) /\ max_fd' = m
    /\ open' = IF o \in Conns \cup {"log"} THEN [open EXCEPT ![f] = Unused] ELSE open
    /\ IF o \in Conns
       THEN /\ fate' = [fate EXCEPT ![o] = IF fate[o] = "live" THEN "freed" ELSE "freed twice"]
            /\ concurrent' = concurrent - 1
            /\ ready' = ready \ {<<o, op>> : op \in Ops}
            /\ UNCHANGED historical
       ELSE UNCHANGED <<statsVars, ready>>

(* What the kernel says of the one that has a descriptor. A regular file   *)
(* can always be written.                                                  *)
IsReady(o, op) ==
    \/ <<o, op>> \in ready
    \/ o \in Listeners /\ op = "R" /\ backlog[o] # <<>>
    \/ o = "managment" /\ op = "R" /\ datagram
    \/ o = "log" /\ op = "W"

(* selector_select: pselect fails if a descriptor that is not open is in   *)
(* the sets, which ends the loop, and else comes back with those that are  *)
(* ready; with none, when its ten seconds have passed.                     *)
Select ==
    /\ pc = "select"
    /\ LET asked == [op \in Ops |-> {f \in master[op] : f <= max_fd}] IN
       IF \E op \in Ops : \E f \in asked[op] : open[f] = Unused
       THEN pc' = "destroy" /\ UNCHANGED loopVars
       ELSE /\ slave' = [op \in Ops |-> {f \in asked[op] : IsReady(open[f], op)}]
            /\ polled' = open
            /\ at' = 0 /\ n' = max_fd
            /\ pc' = "iteration"
    /\ UNCHANGED <<selectorVars, open, limit, clientVars, statsVars, done>>

(* The calls that handle_iteration has still to make: by descriptor, the   *)
(* read of each before its write.                                          *)
Position(f, op) == IF op = "R" THEN 2 * f ELSE 2 * f + 1

DueUnasked(f, op) ==
    /\ f <= n /\ Position(f, op) >= at
    /\ Used(f) /\ f \in slave[op]

DueBelow(f, op) ==
    /\ f < n /\ Position(f, op) >= at
    /\ Used(f) /\ f \in slave[op] /\ op \in items[f].interest

Due(f, op) ==
    /\ f <= n /\ Position(f, op) >= at
    /\ Used(f) /\ f \in slave[op] /\ op \in items[f].interest

IsNext(f, op) ==
    /\ Due(f, op)
    /\ \A g \in Fds, oq \in Ops : Due(g, oq) => Position(f, op) <= Position(g, oq)

EndIteration ==
    /\ pc = "iteration"
    /\ \A f \in Fds, op \in Ops : ~Due(f, op)
    /\ slave' = NothingSet /\ at' = 0 /\ n' = 0 /\ polled' = NobodyPolled
    /\ pc' = "loop"
    /\ UNCHANGED <<selectorVars, open, limit, clientVars, statsVars, done>>

----------------------------------------------------------------------------
(* The callbacks. *)

LowestFree(f) ==
    /\ f \in Nums /\ f < limit /\ open[f] = Unused
    /\ \A g \in Nums : g < f => open[g] # Unused

(* accept_pop_connection on a listener whose backlog starts with c.        *)
Taken(l, c, what) ==
    /\ backlog' = [backlog EXCEPT ![l] = Tail(@)]
    /\ fate' = [fate EXCEPT ![c] = what]

AcceptFailsCounted(l) ==
    /\ Taken(l, Head(backlog[l]), "dropped")
    /\ OnlyLogs
    /\ concurrent' = concurrent + 1 /\ historical' = historical + 1
    /\ UNCHANGED <<open, ready>>

(* accept() fails: with no descriptor free the connection stays where it   *)
(* is, and it may have been lost.                                          *)
AcceptFails(l) ==
    /\ \/ UNCHANGED <<backlog, fate>> /\ \A f \in Nums : ~LowestFree(f)
       \/ Taken(l, Head(backlog[l]), "dropped")
    /\ OnlyLogs
    /\ UNCHANGED <<open, ready, concurrent, historical>>

(* It cannot be made non-blocking, or pop3_init fails and the connection   *)
(* is closed: "leaked" when an old errno makes it forget what it got.      *)
SetUpFails(l) ==
    /\ \E f \in Nums : LowestFree(f)
    /\ \E what \in {"dropped", "leaked"} : Taken(l, Head(backlog[l]), what)
    /\ OnlyLogs
    /\ UNCHANGED <<open, ready, concurrent, historical>>

(* It is counted, and then registered if select() can take its number;     *)
(* else it is closed, and neither freed nor discounted.                    *)
Accept(l) ==
    LET c == Head(backlog[l]) IN
    /\ \E f \in Nums :
         /\ LowestFree(f)
         /\ IF f < FD_SETSIZE
            THEN /\ Register(f, c, {"W"})
                 /\ open' = [open EXCEPT ![f] = c]
                 /\ Taken(l, c, "live")
            ELSE OnlyLogs /\ Taken(l, c, "stray") /\ UNCHANGED open
    /\ concurrent' = concurrent + 1 /\ historical' = historical + 1
    /\ UNCHANGED ready

(* handle_read: the connection waits for more, has something to write, or  *)
(* is closed by its client.                                                *)
HandleRead(f) ==
    LET c == items[f].data IN
    \/ /\ \E i \in {{"R"}, {"W"}} : SetInterest(f, i)
       /\ ready' = ready \ {<<c, "R">>}
       /\ UNCHANGED <<open, statsVars>>
    \/ Unregister(f)

(* handle_write: it goes on writing, waits for its client, waits for       *)
(* nothing after a read that set no interest, or ends.                     *)
HandleWrite(f) ==
    LET c == items[f].data IN
    \/ /\ \E i \in {{"W"}, {"R"}, {}} : SetInterest(f, i)
       /\ ready' = ready \ {<<c, "W">>}
       /\ UNCHANGED <<open, statsVars>>
    \/ Unregister(f)

(* fd_write_handler writes what it can of the log.                         *)
FlushLog ==
    /\ \E w \in LogInterest : SetInterest(LogFd, w)
    /\ UNCHANGED <<open, clientVars, statsVars>>

ReceiveManagmentMessage ==
    /\ datagram' = FALSE
    /\ OnlyLogs
    /\ UNCHANGED <<open, backlog, ready, statsVars>>

Callback ==
    /\ pc = "iteration"
    /\ \E f \in Fds, op \in Ops :
         /\ IsNext(f, op)
         /\ at' = Position(f, op) + 1
         /\ LET o == items[f].data IN
            \/ /\ o \in Listeners
               /\ AcceptFails(o) \/ SetUpFails(o) \/ Accept(o)
               /\ UNCHANGED datagram
            \/ /\ o \in Conns
               /\ \/ op = "R" /\ HandleRead(f)
                  \/ op = "W" /\ HandleWrite(f)
               /\ UNCHANGED <<backlog, datagram>>
            \/ o = "log" /\ FlushLog
            \/ o = "managment" /\ ReceiveManagmentMessage
    /\ UNCHANGED <<slave, n, polled, limit, pc, done>>

----------------------------------------------------------------------------
(* main.c *)

LoopForEver ==
    /\ pc = "loop" /\ pc' = "select"
    /\ UNCHANGED <<selectorVars, loopVars, open, limit, clientVars, statsVars, done>>

(* for (; !done;) *)
Loop ==
    /\ pc = "loop"
    /\ pc' = IF done THEN "destroy" ELSE "select"
    /\ UNCHANGED <<selectorVars, loopVars, open, limit, clientVars, statsVars, done>>

DestroyNothing ==
    /\ pc = "destroy" /\ pc' = "down"
    /\ open' = [f \in Nums |-> IF open[f] \in Listeners THEN Unused ELSE open[f]]
    /\ UNCHANGED <<selectorVars, clientVars, statsVars, loopVars, limit, done>>

(* selector_destroy unregisters what is left, by descriptor; then main     *)
(* closes the listeners.                                                   *)
Destroy ==
    /\ pc = "destroy"
    /\ \/ \E f \in Fds :
            /\ Used(f) /\ \A g \in Fds : Used(g) => f <= g
            /\ Unregister(f)
            /\ UNCHANGED <<backlog, datagram, pc>>
       \/ /\ \A f \in Fds : ~Used(f)
          /\ open' = [f \in Nums |-> IF open[f] \in Listeners THEN Unused ELSE open[f]]
          /\ pc' = "down"
          /\ UNCHANGED <<selectorVars, clientVars, statsVars>>
    /\ UNCHANGED <<loopVars, limit, done>>

(* sigterm_handler logs and sets done. If the signal comes in pselect, it  *)
(* comes back and nothing is handled; just before it, it waits.            *)
Signal ==
    /\ ~done /\ pc # "down"
    /\ done' = TRUE
    /\ OnlyLogs
    /\ pc' \in (IF pc = "select" THEN {"select", "loop"} ELSE {pc})
    /\ UNCHANGED <<loopVars, open, limit, clientVars, statsVars>>

Main == Loop \/ Select \/ Callback \/ EndIteration \/ Destroy

(* The clients. *)
Connect(c) ==
    /\ fate[c] = "none" /\ pc # "down"
    /\ fate' = [fate EXCEPT ![c] = "waiting"]
    /\ backlog' = [backlog EXCEPT ![Via[c]] = Append(@, c)]
    /\ UNCHANGED <<ready, datagram, concurrent, historical>>

Arrives ==
    /\ \/ \E c \in Conns, op \in Ops :
            /\ fate[c] = "live" /\ <<c, op>> \notin ready
            /\ ready' = ready \cup {<<c, op>>}
            /\ UNCHANGED datagram
       \/ ~datagram /\ pc # "down" /\ datagram' = TRUE /\ UNCHANGED ready
    /\ UNCHANGED <<backlog, statsVars>>

Clients ==
    /\ Arrives \/ \E c \in Conns : Connect(c)
    /\ UNCHANGED <<selectorVars, loopVars, open, limit, pc, done>>

Next == Main \/ Signal \/ Clients

Spec     == Init /\ [][Next]_vars
FairSpec == Spec /\ WF_vars(Main)

----------------------------------------------------------------------------
(* Types, and that every item a step may index is in the table.            *)
LoopTypeOK ==
    /\ items \in [Fds -> [data : Owners \cup {Unused}, interest : SUBSET Ops]]
    /\ max_fd \in Fds
    /\ master \in [Ops -> SUBSET Fds] /\ slave \in [Ops -> SUBSET Fds]
    /\ at \in Nat /\ n \in Fds
    /\ polled \in [Nums -> Owners \cup {Unused, "std"}]
    /\ open \in [Nums -> Owners \cup {Unused, "std"}]
    /\ limit \in Limits
    /\ backlog \in [Listeners -> Seq(Conns)]
    /\ ready \subseteq Conns \X Ops /\ datagram \in BOOLEAN
    /\ fate \in [Conns ->
         {"none", "waiting", "live", "freed", "dropped", "leaked", "stray"}]
    /\ concurrent \in Int /\ historical \in Int
    /\ pc \in {"loop", "select", "iteration", "destroy", "down"} /\ done \in BOOLEAN

(* The three tables that every step keeps by hand agree: the sets given to *)
(* select() are the interests of the items in use and all within max_fd,   *)
(* and an item is in use exactly while the kernel has its descriptor open  *)
(* for the same owner: none is polled after it was closed (the EBADF that  *)
(* would end the server), and none is lost. FD_SETSIZE is never used.      *)
TablesAgree ==
    /\ \A op \in Ops : master[op] = {f \in Fds : op \in items[f].interest}
    /\ \A f \in Fds : Used(f) =>
         f <= max_fd /\ f < FD_SETSIZE /\ open[f] = items[f].data
    /\ \A f \in Fds : ~Used(f) => items[f].interest = {}
    /\ \A f \in Nums : open[f] \in Conns \cup {"log"} => f \in Fds /\ Used(f)

(* A connection has one item exactly while it is live: its memory is freed *)
(* once, no callback finds it freed, and nothing is served for a client    *)
(* whose set-up failed.                                                    *)
LiveAreRegistered ==
    /\ \A c \in Conns : fate[c] = "live" <=> \E f \in Fds : items[f].data = c
    /\ \A f, g \in Fds : Used(f) /\ items[f].data = items[g].data => f = g

(* What the stat-concurrent request reports: the live connections, and     *)
(* for ever those whose registration failed; historical, all of them.      *)
With(fates) == Cardinality({c \in Conns : fate[c] \in fates})

StatsAreRight ==
    /\ concurrent = With({"live", "stray"})
    /\ historical = With({"live", "stray", "freed"})

(* main leaves no connection open or in memory, but for what was leaked.   *)
StoppedIsClean ==
    pc = "down" =>
        /\ \A c \in Conns : fate[c] # "live"
        /\ \A f \in Nums : open[f] \in {Unused, "std", "managment"}
        /\ concurrent = With({"stray"})

(* The selector keeps the promise of Reactor: whoever is called is who     *)
(* select() reported, although handlers close descriptors and register     *)
(* others while the iteration walks the sets.                              *)
waits == [o \in Owners |->
    IF \E f \in Fds : items[f].data = o
    THEN UNION {items[f].interest : f \in {g \in Fds : items[g].data = o}}
    ELSE {Unused}]

reported == {<<polled[r[1]], r[2]>> : r \in
    {q \in Fds \X Ops :
        q[1] <= n /\ Used(q[1]) /\ q[1] \in slave[q[2]] /\ Position(q[1], q[2]) >= at}}

R == INSTANCE Reactor WITH Writer <- "log", Gone <- {Unused}
IsReactor == R!ReactorSpec

(* Who can be served and waits for it is served: what Pop3Server assumes   *)
(* of its callbacks when it takes WF of Serve.                             *)
Wants(c, op) ==
    <<c, op>> \in ready /\ \E f \in Fds : items[f].data = c /\ op \in items[f].interest

ReadyAreServed == \A c \in Conns, op \in Ops : Wants(c, op) ~> ~Wants(c, op)

(* A signal stops the server, whatever it is doing and whoever is still    *)
(* connected: also the one that comes just before pselect.                 *)
SignalStops == done ~> pc = "down"
=============================================================================
