-------------------------- MODULE ServerLoopProofs --------------------------
(***************************************************************************)
(* The proofs of ServerLoop's invariants and of its refinement, for any    *)
(* table size, any limit of open files and any clients.                    *)
(***************************************************************************)
EXTENDS ServerLoop, FiniteSetTheorems, TLAPS

(* What handle_iteration relies on: a report it has still to pass is of    *)
(* the owner that the item has now, unless that owner ended in its read    *)
(* and only its write is left to pass. Newcomers take free descriptors,    *)
(* and a free one is passed.                                               *)
ReportsAreCurrent ==
    /\ \A f \in Fds, op \in Ops :
         f \in slave[op] /\ Position(f, op) >= at =>
            IF Used(f) THEN polled[f] = items[f].data ELSE at = 2 * f + 1
    /\ \A f, g \in Fds :
         polled[f] = polled[g] /\ polled[f] \notin {Unused, "std"} => f = g
    /\ pc # "iteration" => slave = NothingSet

(* A listener that is still to be called has someone to accept.            *)
ListenersAreReady ==
    \A f \in Fds, op \in Ops :
        f \in slave[op] /\ Position(f, op) >= at /\ polled[f] \in Listeners
          => op = "R" /\ backlog[polled[f]] # <<>>

(* A client is in one backlog, once, while it waits.                       *)
BacklogsAreExact ==
    \A l, m \in Listeners : \A i \in DOMAIN backlog[l], j \in DOMAIN backlog[m] :
        /\ fate[backlog[l][i]] = "waiting"
        /\ backlog[l][i] = backlog[m][j] => l = m /\ i = j

(* The selector by itself: the part of the invariant that its operations   *)
(* keep, whoever calls them.                                               *)
Items == [Fds -> [data : Owners \cup {Unused}, interest : SUBSET Ops]]

SelectorInv ==
    /\ items \in Items
    /\ max_fd \in Fds
    /\ master = [op \in Ops |-> {f \in Fds : op \in items[f].interest}]
    /\ \A f \in Fds : Used(f) => f <= max_fd /\ f < FD_SETSIZE
    /\ \A f \in Fds : ~Used(f) => items[f].interest = {}

(* The owners of all the descriptors but those in S, and the interests     *)
(* too but the log's, stay as they are.                                    *)
Others(S) ==
    /\ \A g \in Fds \ S : items'[g].data = items[g].data
    /\ \A g \in Fds \ S : g # LogFd \/ items[g].data # "log" => items'[g] = items[g]

(* The owners of the descriptors: the rest of TablesAgree,                 *)
(* LiveAreRegistered, and that nobody but "std" has two.                   *)
OwnersInv ==
    /\ open \in [Nums -> Owners \cup {Unused, "std"}]
    /\ fate \in [Conns ->
         {"none", "waiting", "live", "freed", "dropped", "leaked", "stray"}]
    /\ \A f \in Fds : Used(f) => open[f] = items[f].data
    /\ \A f \in Nums : open[f] \in Conns \cup {"log"} => f \in Fds /\ Used(f)
    /\ LiveAreRegistered
    /\ \A f, g \in Nums : open[f] = open[g] /\ open[f] \notin {Unused, "std"} => f = g
    /\ \A f \in Fds : items[f].data = "log" => f = LogFd

(* The types of the rest.                                                  *)
RestTyped ==
    /\ slave \in [Ops -> SUBSET Fds] /\ at \in Nat /\ n \in Fds
    /\ polled \in [Nums -> Owners \cup {Unused, "std"}]
    /\ limit \in Limits
    /\ backlog \in [Listeners -> Seq(Conns)]
    /\ ready \subseteq Conns \X Ops /\ datagram \in BOOLEAN
    /\ concurrent \in Int /\ historical \in Int
    /\ pc \in {"loop", "select", "iteration", "destroy", "down"} /\ done \in BOOLEAN

DownIsEmpty == pc = "down" => \A f \in Fds : ~Used(f)

LoopInv ==
    /\ SelectorInv /\ OwnersInv /\ RestTyped
    /\ ReportsAreCurrent /\ ListenersAreReady /\ BacklogsAreExact /\ DownIsEmpty

LEMMA Constants ==
    /\ FD_SETSIZE \in Nat /\ Fds \subseteq Nat /\ Fds \subseteq Nums /\ Nums \subseteq Nat
    /\ LogFd \in Fds /\ Unused \notin Owners /\ "std" \notin Owners \cup {Unused}
    /\ Conns \cap Roles = {} /\ LogInterest \subseteq SUBSET Ops
  BY LoopConstants DEF Fds, Nums, LogFd, Unused, Owners, Roles, LogInterest, Ops

(* The sets follow the items if what did not change was not touched.       *)
LEMMA SetsFollow ==
    ASSUME SelectorInv, items' \in Items, NEW T \in SUBSET Fds, UpdateSets(T),
           \A g \in Fds \ T : items'[g] = items[g]
    PROVE  master' = [op \in Ops |-> {f \in Fds : op \in items'[f].interest}]
  <1>1. ASSUME NEW op \in Ops
        PROVE  (master[op] \ T) \cup {f \in T : op \in items'[f].interest}
                 = {f \in Fds : op \in items'[f].interest}
    <2>1. master[op] = {f \in Fds : op \in items[f].interest}
      BY DEF SelectorInv
    <2> QED  BY <2>1
  <1> QED  BY <1>1 DEF UpdateSets

LEMMA LoggedItems ==
    ASSUME SelectorInv, NEW i \in SUBSET Ops
    PROVE  /\ Logged(i) \in Items
           /\ \A g \in Fds : Logged(i)[g].data = items[g].data
           /\ \A g \in Fds : g # LogFd \/ items[g].data # "log" => Logged(i)[g] = items[g]
  BY Constants DEF SelectorInv, Items, Logged, LogOpen, Used, Unused, Owners, Roles

LEMMA OnlyLogsKeeps ==
    ASSUME SelectorInv, OnlyLogs
    PROVE  SelectorInv' /\ Others({})
  <1>1. PICK w \in LogInterest : items' = Logged(w) /\ UpdateSets({LogFd}) /\ max_fd' = max_fd
    BY DEF OnlyLogs
  <1>2. /\ Logged(w) \in Items
        /\ \A g \in Fds : Logged(w)[g].data = items[g].data
        /\ \A g \in Fds : g # LogFd \/ items[g].data # "log" => Logged(w)[g] = items[g]
    BY LoggedItems, Constants
  <1>3. master' = [op \in Ops |-> {f \in Fds : op \in items'[f].interest}]
    BY <1>1, <1>2, SetsFollow, Constants
  <1> QED  BY <1>1, <1>2, <1>3 DEF SelectorInv, Others, Used, Unused

LEMMA SetInterestKeeps ==
    ASSUME SelectorInv, NEW f \in Fds, Used(f), NEW i \in SUBSET Ops, SetInterest(f, i)
    PROVE  /\ SelectorInv' /\ Others({f})
           /\ items'[f].data = items[f].data /\ items'[f].interest = i
  <1>1. /\ items' \in Items /\ items'[f].data = items[f].data /\ items'[f].interest = i
        /\ \A g \in Fds \ {f} : items'[g] = items[g]
    BY DEF SetInterest, SelectorInv, Items
  <1>2. master' = [op \in Ops |-> {g \in Fds : op \in items'[g].interest}]
    BY <1>1, SetsFollow DEF SetInterest
  <1>3. \A g \in Fds : items'[g].data = items[g].data
    BY <1>1
  <1>4. Others({f})
    BY <1>1 DEF Others
  <1> QED  BY <1>1, <1>2, <1>3, <1>4 DEF SelectorInv, SetInterest, Used

LEMMA RegisterKeeps ==
    ASSUME SelectorInv, NEW f \in Fds, f < FD_SETSIZE, ~Used(f),
           NEW o \in Owners, NEW i \in SUBSET Ops, Register(f, o, i)
    PROVE  SelectorInv' /\ Others({f}) /\ items'[f] = [data |-> o, interest |-> i]
  <1>1. PICK w \in LogInterest :
          items' = [Logged(w) EXCEPT ![f] = [data |-> o, interest |-> i]]
    BY DEF Register
  <1>2. /\ Logged(w) \in Items
        /\ \A g \in Fds : Logged(w)[g].data = items[g].data
        /\ \A g \in Fds : g # LogFd \/ items[g].data # "log" => Logged(w)[g] = items[g]
    BY LoggedItems, Constants
  <1>3. /\ items' \in Items /\ items'[f] = [data |-> o, interest |-> i]
        /\ \A g \in Fds \ {f} : items'[g] = Logged(w)[g]
    BY <1>1, <1>2 DEF Items
  <1>4. Others({f})
    BY <1>2, <1>3 DEF Others
  <1>5. master' = [op \in Ops |-> {g \in Fds : op \in items'[g].interest}]
    BY <1>3, <1>4, SetsFollow, Constants DEF Register, Others
  <1>6. max_fd' \in Fds /\ f <= max_fd' /\ max_fd <= max_fd'
    BY Constants DEF Register, SelectorInv, Fds
  <1>7. ASSUME NEW g \in Fds, items'[g].data # Unused
        PROVE  g <= max_fd' /\ g < FD_SETSIZE
    BY <1>2, <1>3, <1>6, <1>7, Constants DEF SelectorInv, Used, Fds
  <1>8. ASSUME NEW g \in Fds, items'[g].data = Unused
        PROVE  items'[g].interest = {}
    <2>1. items'[f].data = o /\ o # Unused
      BY <1>3, Constants
    <2>2. g # f
      BY <1>8, <2>1
    <2>3. items'[g] = items[g]
      BY <1>2, <1>3, <1>8, <2>2 DEF Used, Unused
    <2> QED  BY <1>8, <2>3 DEF SelectorInv, Used
  <1>9. items' \in Items /\ max_fd' \in Fds
    BY <1>3, <1>6
  <1>10. SelectorInv'
    BY <1>5, <1>7, <1>8, <1>9 DEF SelectorInv, Used
  <1> QED  BY <1>3, <1>4, <1>10

LEMMA UnregisterKeeps ==
    ASSUME SelectorInv, NEW f \in Fds, Used(f), Unregister(f)
    PROVE  SelectorInv' /\ Others({f}) /\ items'[f] = NoItem
  <1>1. PICK w \in SUBSET Ops : items' = [Logged(w) EXCEPT ![f] = NoItem]
    <2>1. items[LogFd].interest \in SUBSET Ops
      BY Constants DEF SelectorInv, Items
    <2> QED  BY <2>1, Constants DEF Unregister
  <1>2. /\ Logged(w) \in Items
        /\ \A g \in Fds : Logged(w)[g].data = items[g].data
        /\ \A g \in Fds : g # LogFd \/ items[g].data # "log" => Logged(w)[g] = items[g]
    BY LoggedItems
  <1>3. NoItem \in [data : Owners \cup {Unused}, interest : SUBSET Ops]
    BY DEF NoItem
  <1>4. /\ items' \in Items /\ items'[f] = NoItem
        /\ \A g \in Fds \ {f} : items'[g] = Logged(w)[g]
    BY <1>1, <1>2, <1>3 DEF Items
  <1>5. Others({f})
    BY <1>2, <1>4 DEF Others
  <1>6. master' = [op \in Ops |-> {g \in Fds : op \in items'[g].interest}]
    BY <1>4, <1>5, SetsFollow, Constants DEF Unregister, Others
  <1>7. \A g \in Fds : items'[g].data # Unused => items[g].data # Unused
    BY <1>4, <1>2 DEF NoItem
  <1>8. PICK m \in 0 .. max_fd : IsMaxFd(m, items', max_fd) /\ max_fd' = m
    BY DEF Unregister
  <1>9. ASSUME NEW g \in Fds, items'[g].data # Unused
        PROVE  g <= max_fd' /\ g < FD_SETSIZE
    <2>1. g <= max_fd /\ g < FD_SETSIZE /\ max_fd \in Nat
      BY <1>7, <1>9, Constants DEF SelectorInv, Used
    <2>2. g \in 0 .. max_fd
      BY <2>1, Constants DEF Fds
    <2> QED  BY <1>8, <1>9, <2>1, <2>2 DEF IsMaxFd
  <1>10. ASSUME NEW g \in Fds, items'[g].data = Unused
         PROVE  items'[g].interest = {}
    BY <1>2, <1>4, <1>10 DEF SelectorInv, Used, NoItem, Unused
  <1>11. max_fd' \in Fds
    BY <1>8, Constants DEF SelectorInv, Fds
  <1> QED  BY <1>4, <1>5, <1>6, <1>9, <1>10, <1>11 DEF SelectorInv, Used

----------------------------------------------------------------------------
LEMMA SameOwners ==
    ASSUME SelectorInv, OwnersInv, UNCHANGED <<open, fate>>,
           \A g \in Fds : items'[g].data = items[g].data
    PROVE  OwnersInv'
  BY DEF OwnersInv, LiveAreRegistered, Used

LEMMA UnregisterOwners ==
    ASSUME SelectorInv, OwnersInv, NEW f \in Fds, Used(f), Unregister(f)
    PROVE  OwnersInv'
  <1> DEFINE o == items[f].data
  <1>1. /\ items'[f].data = Unused
        /\ \A g \in Fds \ {f} : items'[g].data = items[g].data
    BY UnregisterKeeps DEF Others, NoItem
  <1>2. o \in Owners /\ open[f] = o
    BY DEF SelectorInv, Items, OwnersInv, Used
  <1>3. /\ \A g \in Nums \ {f} : open'[g] = open[g]
        /\ open' \in [Nums -> Owners \cup {Unused, "std"}]
        /\ o \in Conns \cup {"log"} => open'[f] = Unused
        /\ o \notin Conns \cup {"log"} => open' = open
    BY Constants DEF Unregister, OwnersInv
  <1>4. \A g \in Fds : Used(g) /\ items[g].data = o => g = f
    BY <1>2 DEF OwnersInv, LiveAreRegistered, Used
  <1>5. \A g \in Fds : items'[g].data = "log" => g = LogFd
    BY <1>1, Constants DEF OwnersInv, Owners, Roles
  <1>6. CASE o \in Conns
    <2>1. fate[o] = "live"
      BY <1>6 DEF OwnersInv, LiveAreRegistered
    <2>2. /\ fate' = [fate EXCEPT ![o] = "freed"]
      BY <1>6, <2>1 DEF Unregister
    <2>3. ASSUME NEW c \in Conns
          PROVE  fate'[c] = "live" <=> \E g \in Fds : items'[g].data = c
      <3>1. CASE c = o
        BY <1>1, <1>4, <1>6, <2>2, <3>1, Constants DEF OwnersInv, Used
      <3>2. CASE c # o
        <4>1. fate'[c] = fate[c]
          BY <2>2, <3>2 DEF OwnersInv
        <4>2. c # Unused /\ items[f].data # c
          BY <3>2, Constants DEF Owners
        <4>3. (\E g \in Fds : items'[g].data = c) <=> (\E g \in Fds : items[g].data = c)
          BY <1>1, <4>2
        <4> QED  BY <4>1, <4>3 DEF OwnersInv, LiveAreRegistered
      <3> QED  BY <3>1, <3>2
    <2>4. \A g, h \in Fds : Used(g)' /\ items'[g].data = items'[h].data => g = h
      BY <1>1 DEF OwnersInv, LiveAreRegistered, Used
    <2>5. fate' \in [Conns ->
            {"none", "waiting", "live", "freed", "dropped", "leaked", "stray"}]
      BY <2>2 DEF OwnersInv
    <2>6. LiveAreRegistered'
      BY <2>3, <2>4 DEF LiveAreRegistered
    <2>7. \A g \in Fds : items'[g].data # Unused => open'[g] = items'[g].data
      BY <1>1, <1>3, Constants DEF OwnersInv, Used
    <2>8. \A g \in Nums : open'[g] \in Conns \cup {"log"} => g \in Fds /\ items'[g].data # Unused
      BY <1>1, <1>3, <1>6, Constants DEF OwnersInv, Used, Owners, Roles
    <2>9. \A g, h \in Nums : open'[g] = open'[h] /\ open'[g] \notin {Unused, "std"} => g = h
      BY <1>3, <1>6 DEF OwnersInv
    <2> QED  BY <1>3, <1>5, <2>5, <2>6, <2>7, <2>8, <2>9 DEF OwnersInv, Used
  <1>7. CASE o \notin Conns
    <2>1. fate' = fate
      BY <1>7 DEF Unregister, statsVars
    <2>2. \A c \in Conns : (\E g \in Fds : items'[g].data = c) <=> (\E g \in Fds : items[g].data = c)
      BY <1>1, <1>7, Constants DEF Owners
    <2>3. \A g, h \in Fds : Used(g)' /\ items'[g].data = items'[h].data => g = h
      BY <1>1 DEF OwnersInv, LiveAreRegistered, Used
    <2>4. LiveAreRegistered'
      BY <2>1, <2>2, <2>3 DEF OwnersInv, LiveAreRegistered
    <2>5. \A g \in Fds : items'[g].data # Unused => open'[g] = items'[g].data
      BY <1>1, <1>3, <2>1, Constants DEF OwnersInv, Used
    <2>6. \A g \in Nums : open'[g] \in Conns \cup {"log"} => g \in Fds /\ items'[g].data # Unused
      BY <1>1, <1>2, <1>3, <1>7, Constants DEF OwnersInv, Used, Owners, Roles
    <2>7. \A g, h \in Nums : open'[g] = open'[h] /\ open'[g] \notin {Unused, "std"} => g = h
      BY <1>3 DEF OwnersInv
    <2> QED  BY <1>3, <1>5, <2>1, <2>4, <2>5, <2>6, <2>7 DEF OwnersInv, Used
  <1> QED  BY <1>6, <1>7

LEMMA AcceptOwners ==
    ASSUME SelectorInv, OwnersInv, NEW l \in Listeners, NEW f \in Nums, LowestFree(f),
           NEW c \in Conns, fate[c] = "waiting", f < FD_SETSIZE,
           Register(f, c, {"W"}), open' = [open EXCEPT ![f] = c],
           fate' = [fate EXCEPT ![c] = "live"]
    PROVE  /\ f \in Fds /\ ~Used(f) /\ SelectorInv' /\ Others({f})
           /\ items'[f] = [data |-> c, interest |-> {"W"}] /\ OwnersInv'
  <1>1. f \in Fds /\ ~Used(f)
    BY Constants DEF LowestFree, OwnersInv, Fds, Nums, Used, SelectorInv, Items
  <1>2. /\ SelectorInv' /\ Others({f})
        /\ items'[f] = [data |-> c, interest |-> {"W"}]
    BY <1>1, RegisterKeeps DEF Owners, Ops
  <1>3. items'[f].data = c /\ \A g \in Fds \ {f} : items'[g].data = items[g].data
    BY <1>2 DEF Others
  <1>4. c # Unused /\ c # "std" /\ \A g \in Fds : items[g].data # c
    BY Constants DEF OwnersInv, LiveAreRegistered, Owners
  <1>5. LiveAreRegistered'
    <2>1. \A d \in Conns : fate'[d] = "live" <=> \E g \in Fds : items'[g].data = d
      <3>1. fate'[c] = "live" /\ \A d \in Conns \ {c} : fate'[d] = fate[d]
        BY DEF OwnersInv
      <3>2. \A d \in Conns \ {c} :
              (\E g \in Fds : items'[g].data = d) <=> (\E g \in Fds : items[g].data = d)
        BY <1>1, <1>3, Constants DEF Used, Owners
      <3> QED  BY <1>1, <1>3, <3>1, <3>2 DEF OwnersInv, LiveAreRegistered
    <2>2. \A g, h \in Fds : Used(g)' /\ items'[g].data = items'[h].data => g = h
      BY <1>3, <1>4 DEF OwnersInv, LiveAreRegistered, Used
    <2> QED  BY <2>1, <2>2 DEF LiveAreRegistered
  <1>6. /\ open' \in [Nums -> Owners \cup {Unused, "std"}]
        /\ open'[f] = c /\ \A g \in Nums \ {f} : open'[g] = open[g]
    BY DEF OwnersInv, Owners
  <1>7. \A g \in Nums : open[g] # c
    BY <1>4 DEF OwnersInv
  <1>8. \A g, h \in Nums : open'[g] = open'[h] /\ open'[g] \notin {Unused, "std"} => g = h
    BY <1>6, <1>7 DEF OwnersInv
  <1>9. fate' \in [Conns ->
          {"none", "waiting", "live", "freed", "dropped", "leaked", "stray"}]
    BY DEF OwnersInv
  <1>10. \A g \in Fds : items'[g].data = "log" => g = LogFd
    BY <1>3, Constants DEF OwnersInv, Roles
  <1>11. \A g \in Fds : items'[g].data # Unused => open'[g] = items'[g].data
    BY <1>1, <1>3, <1>6, Constants DEF OwnersInv, Used
  <1>12. \A g \in Nums : open'[g] \in Conns \cup {"log"} => g \in Fds /\ items'[g].data # Unused
    BY <1>1, <1>3, <1>4, <1>6 DEF OwnersInv, Used
  <1> QED  BY <1>1, <1>2, <1>5, <1>6, <1>8, <1>9, <1>10, <1>11, <1>12 DEF OwnersInv, Used

----------------------------------------------------------------------------
(* The walk and the backlogs.                                              *)

LEMMA Positions ==
    \A f \in Fds, op \in Ops :
        f \in Nat /\ Position(f, op) \in Nat /\ Position(f, op) <= 2 * f + 1
  BY Constants DEF Position

LEMMA ReportsPass ==
    ASSUME LoopInv, NEW f \in Fds, NEW op \in Ops, IsNext(f, op),
           at' = Position(f, op) + 1, UNCHANGED <<slave, polled, pc>>, pc = "iteration",
           \A g \in Fds : \/ items'[g].data = items[g].data
                          \/ g = f /\ items'[g].data = Unused
                          \/ items[g].data = Unused
    PROVE  ReportsAreCurrent' /\ at' \in Nat
  <1>1. Position(f, op) \in Nat /\ Position(f, op) >= at /\ at \in Nat
    BY Positions DEF IsNext, Due, LoopInv, RestTyped
  <1>2. ASSUME NEW g \in Fds, NEW oq \in Ops, g \in slave[oq], Position(g, oq) >= at'
        PROVE  IF items'[g].data # Unused THEN polled[g] = items'[g].data ELSE at' = 2 * g + 1
    <2>1. g \in Nat /\ Position(g, oq) > at /\ Position(g, oq) > Position(f, op)
      <3>1. g \in Nat /\ Position(g, oq) \in Nat
        BY Positions
      <3> QED  BY <1>1, <1>2, <3>1
    <2>2. Used(g) /\ polled[g] = items[g].data
      <3>1. IF Used(g) THEN polled[g] = items[g].data ELSE at = 2 * g + 1
        BY <1>1, <1>2, <2>1, Positions DEF LoopInv, ReportsAreCurrent
      <3>2. at # 2 * g + 1
        BY <1>1, <2>1, Positions
      <3> QED  BY <3>1, <3>2
    <2>3. CASE items'[g].data = items[g].data
      BY <2>2, <2>3 DEF Used
    <2>4. CASE g = f /\ items'[g].data = Unused
      BY <2>1, <2>4, Constants DEF Position
    <2> QED  BY <2>2, <2>3, <2>4 DEF Used
  <1> QED  BY <1>1, <1>2 DEF LoopInv, ReportsAreCurrent, Used, Position

LEMMA ListenersPass ==
    ASSUME LoopInv, NEW f \in Fds, NEW op \in Ops, IsNext(f, op),
           at' = Position(f, op) + 1, UNCHANGED <<slave, polled>>,
           \A l \in Listeners : backlog'[l] = backlog[l] \/ l = items[f].data
    PROVE  ListenersAreReady'
  <1>1. /\ Position(f, op) \in Nat /\ Position(f, op) >= at /\ at \in Nat
        /\ f \in slave[op] /\ polled[f] = items[f].data
    BY Constants DEF IsNext, Due, Position, LoopInv, RestTyped, ReportsAreCurrent
  <1>2. ASSUME NEW g \in Fds, NEW oq \in Ops, g \in slave[oq], Position(g, oq) >= at',
               polled[g] \in Listeners
        PROVE  oq = "R" /\ backlog'[polled[g]] # <<>>
    <2>1. Position(g, oq) >= at /\ Position(g, oq) > Position(f, op)
      <3>1. Position(g, oq) \in Nat
        BY Positions
      <3> QED  BY <1>1, <1>2, <3>1
    <2>2. oq = "R" /\ backlog[polled[g]] # <<>>
      BY <1>2, <2>1 DEF LoopInv, ListenersAreReady
    <2>3. polled[g] # items[f].data
      <3>1. SUFFICES ASSUME polled[g] = items[f].data PROVE FALSE
        OBVIOUS
      <3>2. polled[g] \notin {Unused, "std"}
        BY <1>2, Constants DEF Owners, Roles, Listeners
      <3>3. g = f
        BY <1>1, <3>1, <3>2 DEF LoopInv, ReportsAreCurrent
      <3>4. op = "R"
        BY <1>1, <1>2, <3>1 DEF LoopInv, ListenersAreReady
      <3> QED  BY <2>1, <2>2, <3>3, <3>4, Constants DEF Position
    <2> QED  BY <1>2, <2>2, <2>3
  <1> QED  BY <1>2 DEF ListenersAreReady, Position

LEMMA HeadWaits ==
    ASSUME LoopInv, NEW l \in Listeners, backlog[l] # <<>>
    PROVE  Head(backlog[l]) \in Conns /\ fate[Head(backlog[l])] = "waiting"
  <1>1. backlog[l] \in Seq(Conns)
    BY DEF LoopInv, RestTyped
  <1>2. 1 \in DOMAIN backlog[l] /\ Head(backlog[l]) = backlog[l][1]
    BY <1>1
  <1> QED  BY <1>1, <1>2 DEF LoopInv, BacklogsAreExact

LEMMA TakenKeeps ==
    ASSUME LoopInv, NEW l \in Listeners, backlog[l] # <<>>,
           NEW what \in {"live", "dropped", "leaked", "stray"},
           Taken(l, Head(backlog[l]), what)
    PROVE  /\ backlog' \in [Listeners -> Seq(Conns)]
           /\ BacklogsAreExact'
           /\ \A m \in Listeners \ {l} : backlog'[m] = backlog[m]
  <1> DEFINE c == Head(backlog[l])
  <1>1. c \in Conns /\ fate[c] = "waiting" /\ backlog[l] \in Seq(Conns)
    BY HeadWaits DEF LoopInv, RestTyped
  <1>2. /\ backlog' \in [Listeners -> Seq(Conns)] /\ backlog'[l] = Tail(backlog[l])
        /\ \A m \in Listeners \ {l} : backlog'[m] = backlog[m]
    BY <1>1 DEF Taken, LoopInv, RestTyped
  <1>3. fate'[c] = what /\ \A d \in Conns \ {c} : fate'[d] = fate[d]
    BY <1>1 DEF Taken, LoopInv, OwnersInv
  <1> DEFINE Old(m, i) == IF m = l THEN i + 1 ELSE i
  <1>4. ASSUME NEW m \in Listeners, NEW i \in DOMAIN backlog'[m]
        PROVE  /\ Old(m, i) \in DOMAIN backlog[m] /\ i \in Nat
               /\ backlog'[m][i] = backlog[m][Old(m, i)]
               /\ backlog'[m][i] # c /\ backlog'[m][i] \in Conns
    <2>1. backlog[m] \in Seq(Conns)
      BY DEF LoopInv, RestTyped
    <2>2. /\ Old(m, i) \in DOMAIN backlog[m] /\ i \in Nat
          /\ backlog'[m][i] = backlog[m][Old(m, i)]
      <3>1. CASE m = l
        <4>1. i \in 1 .. Len(backlog[l]) - 1
          BY <1>1, <1>2, <1>4, <3>1
        <4>2. Tail(backlog[l])[i] = backlog[l][i + 1] /\ i + 1 \in 1 .. Len(backlog[l])
          BY <1>1, <4>1
        <4> QED  BY <1>1, <1>2, <3>1, <4>1, <4>2
      <3>2. CASE m # l
        BY <1>2, <1>4, <2>1, <3>2
      <3> QED  BY <3>1, <3>2
    <2>3. 1 \in DOMAIN backlog[l] /\ c = backlog[l][1]
      BY <1>1
    <2>4. m = l => Old(m, i) # 1
      BY <1>1, <1>2, <1>4
    <2>5. backlog[m][Old(m, i)] # backlog[l][1]
      BY <2>2, <2>3, <2>4 DEF LoopInv, BacklogsAreExact
    <2> QED  BY <2>1, <2>2, <2>3, <2>5
  <1>5. BacklogsAreExact'
    <2> SUFFICES ASSUME NEW m \in Listeners, NEW k \in Listeners,
                        NEW i \in DOMAIN backlog'[m], NEW j \in DOMAIN backlog'[k]
                 PROVE  /\ fate'[backlog'[m][i]] = "waiting"
                        /\ backlog'[m][i] = backlog'[k][j] => m = k /\ i = j
      BY DEF BacklogsAreExact
    <2>1. /\ Old(m, i) \in DOMAIN backlog[m] /\ backlog'[m][i] = backlog[m][Old(m, i)]
          /\ backlog'[m][i] # c /\ backlog'[m][i] \in Conns /\ i \in Nat
      BY <1>4
    <2>2. /\ Old(k, j) \in DOMAIN backlog[k] /\ backlog'[k][j] = backlog[k][Old(k, j)]
          /\ j \in Nat
      BY <1>4
    <2>3. fate[backlog[m][Old(m, i)]] = "waiting"
      BY <2>1 DEF LoopInv, BacklogsAreExact
    <2>4. backlog[m][Old(m, i)] = backlog[k][Old(k, j)] => m = k /\ Old(m, i) = Old(k, j)
      BY <2>1, <2>2 DEF LoopInv, BacklogsAreExact
    <2> QED  BY <1>3, <2>1, <2>2, <2>3, <2>4
  <1> QED  BY <1>2, <1>5

----------------------------------------------------------------------------
(* The invariant is inductive.                                             *)

LEMMA InitInv ==
    ASSUME Init PROVE LoopInv
  <1> USE DEF FirstOwner
  <1>1. PICK log \in BOOLEAN :
          /\ limit \in Limits
          /\ open = [f \in Nums |-> FirstOwner(f, log)]
          /\ items = [f \in Fds |->
               LET o == FirstOwner(f, log) IN
               CASE o = "std" -> NoItem
                 [] o \in {"log", Unused} -> [data |-> o, interest |-> {}]
                 [] OTHER -> [data |-> o, interest |-> {"R"}]]
          /\ max_fd = (IF log THEN Inherited + 3 ELSE Inherited + 2)
          /\ master = [op \in Ops |-> {f \in Fds : op \in items[f].interest}]
          /\ slave = NothingSet /\ at = 0 /\ n = 0 /\ polled = NobodyPolled
          /\ backlog = [l \in Listeners |-> <<>>]
          /\ ready = {} /\ datagram = FALSE
          /\ fate = [c \in Conns |-> "none"]
          /\ concurrent = 0 /\ historical = 0
          /\ pc = "loop" /\ done = FALSE
    BY DEF Init
  <1> DEFINE first == IF log THEN Inherited + 1 ELSE Inherited
  <1>2. first \in Nat /\ Inherited \in Nat /\ first + 3 <= FD_SETSIZE /\ max_fd = first + 2
    BY <1>1, LoopConstants
  <1>3. \A f \in Nums : f \in Nat /\ FirstOwner(f, log) \in Roles \cup {Unused, "std"}
    BY <1>2, Constants DEF Roles
  <1>4. \A f \in Fds : f \in Nums /\ items[f] \in [data : Roles \cup {Unused}, interest : SUBSET Ops]
    BY <1>1, <1>3, Constants DEF NoItem, Ops, Roles
  <1>5. \A f \in Fds : items[f].data # Unused =>
          items[f].data = FirstOwner(f, log) /\ f < first + 3
    BY <1>1, <1>2, <1>4, Constants DEF NoItem, Unused, Roles
  <1>6. \A f \in Nums : FirstOwner(f, log) \in {"log"} => f \in Fds /\ items[f].data # Unused
    BY <1>1, <1>2, <1>3, Constants DEF NoItem, Unused, Roles, Fds, Nums
  <1>7. \A f, g \in Nums : FirstOwner(f, log) = FirstOwner(g, log)
          /\ FirstOwner(f, log) \notin {Unused, "std"} => f = g
    BY <1>2, <1>3, Constants DEF Unused
  <1>8. SelectorInv
    <2>1. items \in Items
      BY <1>1, <1>4 DEF Items, Owners
    <2>2. max_fd \in Fds
      BY <1>2, Constants DEF Fds
    <2>3. \A f \in Fds : Used(f) => f <= max_fd /\ f < FD_SETSIZE
      BY <1>2, <1>3, <1>4, <1>5, Constants DEF Used
    <2>4. \A f \in Fds : ~Used(f) => items[f].interest = {}
      BY <1>1, <1>3, <1>4, Constants DEF Used, NoItem, Unused
    <2> QED  BY <1>1, <2>1, <2>2, <2>3, <2>4 DEF SelectorInv
  <1>9. LiveAreRegistered
    <2>1. \A c \in Conns, f \in Fds : items[f].data # c
      BY <1>4, Constants DEF Unused, Roles, Owners
    <2>2. \A f, g \in Fds : Used(f) /\ items[f].data = items[g].data => f = g
      BY <1>3, <1>4, <1>5, <1>7, Constants DEF Used, Roles, Owners
    <2> QED  BY <1>1, <2>1, <2>2 DEF LiveAreRegistered
  <1>10. OwnersInv
    <2>1. open \in [Nums -> Owners \cup {Unused, "std"}]
      BY <1>1, <1>3 DEF Owners
    <2>2. \A f \in Fds : Used(f) => open[f] = items[f].data
      BY <1>1, <1>4, <1>5 DEF Used
    <2>3. \A f \in Nums : open[f] \notin Conns
      BY <1>1, <1>3, LoopConstants
    <2>4. \A f \in Nums : open[f] \in Conns \cup {"log"} => f \in Fds /\ Used(f)
      BY <1>1, <1>6, <2>3 DEF Used
    <2>5. \A f, g \in Nums : open[f] = open[g] /\ open[f] \notin {Unused, "std"} => f = g
      BY <1>1, <1>7
    <2>6. \A f \in Fds : items[f].data = "log" => f = LogFd
      BY <1>3, <1>5, Constants DEF Unused, LogFd
    <2>7. fate \in [Conns ->
            {"none", "waiting", "live", "freed", "dropped", "leaked", "stray"}]
      BY <1>1
    <2> QED  BY <1>9, <2>1, <2>2, <2>4, <2>5, <2>6, <2>7 DEF OwnersInv
  <1>11. RestTyped
    <2>1. 0 \in Fds
      BY Constants DEF Fds
    <2>2. polled \in [Nums -> Owners \cup {Unused, "std"}]
      BY <1>1 DEF NobodyPolled
    <2>3. slave \in [Ops -> SUBSET Fds]
      BY <1>1 DEF NothingSet
    <2>4. backlog \in [Listeners -> Seq(Conns)]
      BY <1>1
    <2>5. datagram \in BOOLEAN /\ done \in BOOLEAN
      BY <1>1
    <2>6. ready \subseteq Conns \X Ops /\ at \in Nat /\ n \in Fds
      BY <1>1, <2>1
    <2>7. concurrent \in Int /\ historical \in Int /\ limit \in Limits
      BY <1>1
    <2>8. pc \in {"loop", "select", "iteration", "destroy", "down"}
      BY <1>1
    <2> QED  BY <2>2, <2>3, <2>4, <2>5, <2>6, <2>7, <2>8 DEF RestTyped
  <1>12. ReportsAreCurrent
    BY <1>1, Constants DEF ReportsAreCurrent, NothingSet, NobodyPolled
  <1>13. ListenersAreReady
    BY <1>1 DEF ListenersAreReady, NothingSet
  <1>14. BacklogsAreExact /\ DownIsEmpty
    BY <1>1 DEF BacklogsAreExact, DownIsEmpty
  <1> QED  BY <1>8, <1>10, <1>11, <1>12, <1>13, <1>14 DEF LoopInv

(* pselect is never given a descriptor that was closed.                    *)
LEMMA NoBadDescriptor ==
    ASSUME LoopInv, NEW op \in Ops, NEW f \in master[op]
    PROVE  f \in Fds /\ f \in Nums /\ Used(f) /\ op \in items[f].interest
           /\ open[f] = items[f].data /\ open[f] \in Owners
  <1>1. f \in Fds /\ op \in items[f].interest
    BY DEF LoopInv, SelectorInv
  <1>2. Used(f)
    BY <1>1 DEF LoopInv, SelectorInv
  <1> QED  BY <1>1, <1>2, Constants DEF LoopInv, OwnersInv, SelectorInv, Items, Used

LEMMA SelectInv ==
    ASSUME LoopInv, Select
    PROVE  /\ LoopInv' /\ pc' = "iteration" /\ polled' = open /\ at' = 0 /\ n' = max_fd
           /\ \A op \in Ops : slave'[op] = {f \in master[op] : f <= max_fd /\ IsReady(open[f], op)}
  <1> DEFINE asked == [op \in Ops |-> {f \in master[op] : f <= max_fd}]
  <1>1. /\ slave' = [op \in Ops |-> {f \in asked[op] : IsReady(open[f], op)}]
        /\ polled' = open /\ at' = 0 /\ n' = max_fd /\ pc' = "iteration"
    <2>1. ~ \E op \in Ops : \E f \in asked[op] : open[f] = Unused
      BY NoBadDescriptor, Constants
    <2> QED  BY <2>1 DEF Select
  <1>2. \A op \in Ops : slave'[op] = {f \in master[op] : f <= max_fd /\ IsReady(open[f], op)}
    BY <1>1
  <1>3. UNCHANGED <<selectorVars, open, limit, clientVars, statsVars, done>>
    BY DEF Select
  <1>4. SelectorInv' /\ OwnersInv'
    BY <1>3 DEF LoopInv, SelectorInv, OwnersInv, LiveAreRegistered, selectorVars, statsVars, Used
  <1>5. RestTyped'
    <2>1. slave' \in [Ops -> SUBSET Fds]
      BY <1>1, NoBadDescriptor
    <2> QED  BY <1>1, <1>3, <2>1 DEF LoopInv, SelectorInv, OwnersInv, RestTyped, clientVars, statsVars
  <1>6. ReportsAreCurrent'
    <2>1. \A f \in Fds, op \in Ops : f \in slave'[op] => Used(f)' /\ polled'[f] = items'[f].data
      BY <1>1, <1>2, <1>3, NoBadDescriptor DEF selectorVars, Used
    <2>2. \A f, g \in Fds : polled'[f] = polled'[g] /\ polled'[f] \notin {Unused, "std"} => f = g
      BY <1>1, Constants DEF LoopInv, OwnersInv
    <2> QED  BY <1>1, <2>1, <2>2 DEF ReportsAreCurrent
  <1>7. ListenersAreReady'
    <2>1. ASSUME NEW f \in Fds, NEW op \in Ops, f \in slave'[op], polled'[f] \in Listeners
          PROVE  op = "R" /\ backlog'[polled'[f]] # <<>>
      <3>1. IsReady(open[f], op) /\ open[f] \in Listeners
        BY <1>1, <1>2, <2>1
      <3>2. <<open[f], op>> \notin ready
        BY <3>1, Constants DEF LoopInv, RestTyped, Listeners, Roles
      <3> QED  BY <1>1, <1>3, <3>1, <3>2 DEF IsReady, Listeners, clientVars
    <2> QED  BY <2>1 DEF ListenersAreReady
  <1>8. BacklogsAreExact' /\ DownIsEmpty'
    BY <1>1, <1>3 DEF LoopInv, BacklogsAreExact, DownIsEmpty, clientVars, statsVars
  <1> QED  BY <1>1, <1>2, <1>4, <1>5, <1>6, <1>7, <1>8 DEF LoopInv

(* Steps that touch neither the walk nor the backlogs.                     *)
LEMMA KeepsWalk ==
    ASSUME LoopInv, SelectorInv', OwnersInv', UNCHANGED <<loopVars, backlog, fate>>,
           pc' = "iteration" => pc = "iteration",
           pc = "iteration" /\ pc' # "iteration" => slave = NothingSet,
           \A f \in Fds : items'[f].data = items[f].data
    PROVE  ReportsAreCurrent' /\ ListenersAreReady' /\ BacklogsAreExact'
  <1>1. ReportsAreCurrent'
    BY DEF LoopInv, ReportsAreCurrent, Used, loopVars, Position
  <1>2. ListenersAreReady'
    BY DEF LoopInv, ListenersAreReady, loopVars, Position
  <1>3. BacklogsAreExact'
    BY DEF LoopInv, BacklogsAreExact
  <1> QED  BY <1>1, <1>2, <1>3

LEMMA DueIsReported ==
    ASSUME LoopInv, NEW f \in Fds, NEW op \in Ops, IsNext(f, op)
    PROVE  /\ Used(f) /\ f \in slave[op] /\ f <= n /\ Position(f, op) >= at
           /\ op \in items[f].interest
           /\ polled[f] = items[f].data /\ items[f].data \in Owners
           /\ items[f].data \in Listeners => backlog[items[f].data] # <<>>
  BY Constants DEF IsNext, Due, LoopInv, ReportsAreCurrent, ListenersAreReady, SelectorInv,
        Items, Used

(* What one callback does: the cases of a reactor's call.                  *)
Called(f, op) ==
    LET o == items[f].data IN
    \/ /\ o \in Listeners
       /\ AcceptFails(o) \/ SetUpFails(o) \/ Accept(o)
       /\ UNCHANGED datagram
    \/ /\ o \in Conns
       /\ \/ op = "R" /\ HandleRead(f)
          \/ op = "W" /\ HandleWrite(f)
       /\ UNCHANGED <<backlog, datagram>>
    \/ o = "log" /\ FlushLog
    \/ o = "managment" /\ ReceiveManagmentMessage

LEMMA CallbackIsACall ==
    ASSUME Callback
    PROVE  /\ pc = "iteration" /\ UNCHANGED <<slave, n, polled, limit, pc, done>>
           /\ \E f \in Fds, op \in Ops :
                IsNext(f, op) /\ at' = Position(f, op) + 1 /\ Called(f, op)
  BY DEF Callback, Called

(* The selector, the owners, the backlogs and the rest after a callback.   *)
CallKeeps(f) ==
    /\ SelectorInv' /\ OwnersInv' /\ BacklogsAreExact'
    /\ backlog' \in [Listeners -> Seq(Conns)]
    /\ ready' \subseteq Conns \X Ops /\ datagram' \in BOOLEAN
    /\ concurrent' \in Int /\ historical' \in Int
    /\ \A l \in Listeners : backlog'[l] = backlog[l] \/ l = items[f].data
    /\ \E g \in Fds :
         /\ Others({g})
         /\ \/ g = f /\ (items'[f].data = items[f].data \/ items'[f].data = Unused)
            \/ ~Used(g)

LEMMA UnregisterCall ==
    ASSUME LoopInv, NEW f \in Fds, Used(f), Unregister(f), UNCHANGED <<backlog, datagram>>
    PROVE  CallKeeps(f)
  <1>1. SelectorInv' /\ Others({f}) /\ items'[f].data = Unused /\ OwnersInv'
    BY UnregisterKeeps, UnregisterOwners DEF LoopInv, NoItem
  <1>2. BacklogsAreExact'
    <2>1. ASSUME NEW l \in Listeners, NEW i \in DOMAIN backlog[l]
          PROVE  fate'[backlog[l][i]] = "waiting"
      <3>1. backlog[l][i] \in Conns /\ fate[backlog[l][i]] = "waiting"
        BY DEF LoopInv, RestTyped, BacklogsAreExact
      <3>2. items[f].data \in Conns => fate[items[f].data] = "live"
        BY DEF LoopInv, OwnersInv, LiveAreRegistered
      <3> QED  BY <3>1, <3>2 DEF Unregister, LoopInv, OwnersInv, statsVars
    <2> QED  BY <2>1 DEF LoopInv, BacklogsAreExact
  <1>3. /\ ready' \subseteq Conns \X Ops
        /\ concurrent' \in Int /\ historical' \in Int
    <2>1. ready' \subseteq ready
      BY DEF Unregister, statsVars
    <2>2. concurrent' \in {concurrent, concurrent - 1} /\ historical' = historical
      BY DEF Unregister, statsVars
    <2> QED  BY <2>1, <2>2 DEF LoopInv, RestTyped
  <1> QED  BY <1>1, <1>2, <1>3 DEF CallKeeps, LoopInv, RestTyped

LEMMA InterestCall ==
    ASSUME LoopInv, NEW f \in Fds, Used(f), NEW i \in SUBSET Ops, SetInterest(f, i),
           UNCHANGED <<open, statsVars, backlog, datagram>>, ready' \subseteq ready
    PROVE  CallKeeps(f)
  <1>1. SelectorInv' /\ Others({f}) /\ items'[f].data = items[f].data
    BY SetInterestKeeps DEF LoopInv
  <1>2. OwnersInv'
    BY <1>1, SameOwners DEF Others, LoopInv, statsVars
  <1>3. BacklogsAreExact'
    BY DEF LoopInv, BacklogsAreExact, statsVars
  <1> QED  BY <1>1, <1>2, <1>3 DEF CallKeeps, LoopInv, RestTyped, statsVars

LEMMA LogCall ==
    ASSUME LoopInv, NEW f \in Fds, Used(f), OnlyLogs, UNCHANGED <<open, ready, statsVars, backlog>>,
           datagram' \in BOOLEAN
    PROVE  CallKeeps(f)
  <1>1. SelectorInv' /\ Others({})
    BY OnlyLogsKeeps DEF LoopInv
  <1>2. Others({f}) /\ items'[f].data = items[f].data
    BY <1>1 DEF Others
  <1>3. OwnersInv'
    BY <1>1, SameOwners DEF Others, LoopInv, statsVars
  <1>4. BacklogsAreExact'
    BY DEF LoopInv, BacklogsAreExact, statsVars
  <1> QED  BY <1>1, <1>2, <1>3, <1>4 DEF CallKeeps, LoopInv, RestTyped, statsVars

LEMMA AcceptCall ==
    ASSUME LoopInv, NEW f \in Fds, Used(f), items[f].data \in Listeners,
           backlog[items[f].data] # <<>>, UNCHANGED datagram,
           AcceptFails(items[f].data) \/ SetUpFails(items[f].data) \/ Accept(items[f].data)
    PROVE  CallKeeps(f)
  <1> DEFINE l == items[f].data
             c == Head(backlog[l])
  <1>1. c \in Conns /\ fate[c] = "waiting"
    BY HeadWaits
  <1>2. ASSUME NEW what \in {"dropped", "leaked", "stray"}, Taken(l, c, what),
               OnlyLogs, UNCHANGED <<open, ready>>, concurrent' \in Int, historical' \in Int
        PROVE  CallKeeps(f)
    <2>1. /\ backlog' \in [Listeners -> Seq(Conns)] /\ BacklogsAreExact'
          /\ \A m \in Listeners \ {l} : backlog'[m] = backlog[m]
      BY <1>2, TakenKeeps
    <2>2. SelectorInv' /\ Others({})
      BY <1>2, OnlyLogsKeeps DEF LoopInv
    <2>3. Others({f}) /\ items'[f].data = items[f].data /\ Others({})
      BY <2>2 DEF Others
    <2>4. /\ fate' \in [Conns ->
               {"none", "waiting", "live", "freed", "dropped", "leaked", "stray"}]
          /\ \A d \in Conns : fate'[d] = "live" <=> fate[d] = "live"
      BY <1>1, <1>2 DEF Taken, LoopInv, OwnersInv
    <2>5. OwnersInv'
      BY <1>2, <2>2, <2>4 DEF Others, LoopInv, OwnersInv, LiveAreRegistered, Used
    <2> QED  BY <1>2, <2>1, <2>2, <2>3, <2>5 DEF CallKeeps, LoopInv, RestTyped
  <1>3. CASE AcceptFails(l)
    <2>1. CASE UNCHANGED <<backlog, fate>>
      BY <1>3, <2>1, LogCall DEF AcceptFails, statsVars, LoopInv, RestTyped
    <2>2. CASE Taken(l, c, "dropped")
      BY <1>2, <1>3, <2>2 DEF AcceptFails, LoopInv, RestTyped
    <2> QED  BY <1>3, <2>1, <2>2 DEF AcceptFails
  <1>4. CASE SetUpFails(l)
    BY <1>2, <1>4 DEF SetUpFails, LoopInv, RestTyped
  <1>5. CASE Accept(l)
    <2>1. concurrent' = concurrent + 1 /\ historical' = historical + 1 /\ ready' = ready
      BY <1>5 DEF Accept
    <2>2. concurrent' \in Int /\ historical' \in Int
      BY <2>1 DEF LoopInv, RestTyped
    <2>3. PICK g \in Nums :
            /\ LowestFree(g)
            /\ IF g < FD_SETSIZE
               THEN /\ Register(g, c, {"W"})
                    /\ open' = [open EXCEPT ![g] = c]
                    /\ Taken(l, c, "live")
               ELSE OnlyLogs /\ Taken(l, c, "stray") /\ UNCHANGED open
      BY <1>5 DEF Accept
    <2>4. CASE g < FD_SETSIZE
      <3>1. /\ backlog' \in [Listeners -> Seq(Conns)] /\ BacklogsAreExact'
            /\ \A m \in Listeners \ {l} : backlog'[m] = backlog[m]
        BY <2>3, <2>4, TakenKeeps
      <3>2. fate' = [fate EXCEPT ![c] = "live"]
        BY <2>3, <2>4 DEF Taken
      <3>3. /\ g \in Fds /\ ~Used(g) /\ SelectorInv' /\ Others({g}) /\ OwnersInv'
        BY <1>1, <2>3, <2>4, <3>2, AcceptOwners DEF LoopInv
      <3> QED  BY <2>1, <2>2, <3>1, <3>3 DEF CallKeeps, LoopInv, RestTyped
    <2>5. CASE ~(g < FD_SETSIZE)
      BY <1>2, <2>1, <2>2, <2>3, <2>5
    <2> QED  BY <2>4, <2>5
  <1> QED  BY <1>3, <1>4, <1>5

LEMMA LogIsFirst ==
    ASSUME LoopInv, NEW f \in Fds, items[f].data = "log" PROVE f = LogFd
  BY DEF LoopInv, OwnersInv

LEMMA CalledKeeps ==
    ASSUME LoopInv, NEW f \in Fds, NEW op \in Ops, IsNext(f, op), Called(f, op)
    PROVE  CallKeeps(f)
  <1> DEFINE o == items[f].data
  <1>1. /\ Used(f) /\ o \in Owners
        /\ o \in Listeners => backlog[o] # <<>>
    BY DueIsReported
  <1>2. CASE /\ o \in Listeners /\ UNCHANGED datagram
             /\ AcceptFails(o) \/ SetUpFails(o) \/ Accept(o)
    BY <1>1, <1>2, AcceptCall
  <1>3. CASE op = "R" /\ HandleRead(f) /\ UNCHANGED <<backlog, datagram>>
    <2>1. CASE Unregister(f)
      BY <1>1, <1>3, <2>1, UnregisterCall
    <2>2. CASE /\ \E i \in {{"R"}, {"W"}} : SetInterest(f, i)
               /\ ready' = ready \ {<<o, "R">>} /\ UNCHANGED <<open, statsVars>>
      BY <1>1, <1>3, <2>2, InterestCall DEF Ops
    <2> QED  BY <1>3, <2>1, <2>2 DEF HandleRead
  <1>4. CASE op = "W" /\ HandleWrite(f) /\ UNCHANGED <<backlog, datagram>>
    <2>1. CASE Unregister(f)
      BY <1>1, <1>4, <2>1, UnregisterCall
    <2>2. CASE /\ \E i \in {{"W"}, {"R"}, {}} : SetInterest(f, i)
               /\ ready' = ready \ {<<o, "W">>} /\ UNCHANGED <<open, statsVars>>
      BY <1>1, <1>4, <2>2, InterestCall DEF Ops
    <2> QED  BY <1>4, <2>1, <2>2 DEF HandleWrite
  <1>5. CASE o = "log" /\ FlushLog
    <2>1. f = LogFd
      BY <1>5, LogIsFirst
    <2>2. \E w \in LogInterest : SetInterest(f, w)
      BY <1>5, <2>1 DEF FlushLog
    <2> QED  BY <1>1, <1>5, <2>2, InterestCall, Constants DEF FlushLog, clientVars
  <1>6. CASE o = "managment" /\ ReceiveManagmentMessage
    BY <1>1, <1>6, LogCall DEF ReceiveManagmentMessage
  <1> QED  BY <1>2, <1>3, <1>4, <1>5, <1>6 DEF Called

LEMMA CallbackInv ==
    ASSUME LoopInv, NEW f \in Fds, NEW op \in Ops, IsNext(f, op), Called(f, op),
           at' = Position(f, op) + 1, pc = "iteration",
           UNCHANGED <<slave, n, polled, limit, pc, done>>
    PROVE  LoopInv'
  <1>1. CallKeeps(f)
    BY CalledKeeps
  <1>2. \A g \in Fds : \/ items'[g].data = items[g].data
                       \/ g = f /\ items'[g].data = Unused
                       \/ items[g].data = Unused
    BY <1>1 DEF CallKeeps, Others, Used
  <1>3. ReportsAreCurrent' /\ at' \in Nat
    BY <1>2, ReportsPass
  <1>4. ListenersAreReady'
    BY <1>1, ListenersPass DEF CallKeeps
  <1>5. RestTyped'
    BY <1>1, <1>3 DEF CallKeeps, LoopInv, RestTyped
  <1> QED  BY <1>1, <1>3, <1>4, <1>5 DEF CallKeeps, LoopInv, DownIsEmpty

LEMMA DestroyInv ==
    ASSUME LoopInv, Destroy PROVE LoopInv'
  <1>1. /\ pc = "destroy" /\ UNCHANGED <<loopVars, limit, done>> /\ slave = NothingSet
    BY DEF Destroy, LoopInv, ReportsAreCurrent
  <1>2. ReportsAreCurrent' /\ ListenersAreReady'
    <2>1. /\ slave' = NothingSet
          /\ \A f, g \in Fds :
               polled'[f] = polled'[g] /\ polled'[f] \notin {Unused, "std"} => f = g
      BY <1>1 DEF LoopInv, ReportsAreCurrent, loopVars
    <2> QED  BY <2>1 DEF ReportsAreCurrent, ListenersAreReady, NothingSet
  <1>3. ASSUME NEW f \in Fds, Used(f), Unregister(f), UNCHANGED <<backlog, datagram, pc>>
        PROVE  LoopInv'
    <2>1. CallKeeps(f)
      BY <1>3, UnregisterCall
    <2>2. RestTyped'
      BY <1>1, <1>3, <2>1 DEF CallKeeps, LoopInv, RestTyped, loopVars
    <2> QED  BY <1>1, <1>2, <1>3, <2>1, <2>2 DEF CallKeeps, LoopInv, DownIsEmpty
  <1>4. ASSUME \A f \in Fds : ~Used(f), pc' = "down",
               open' = [f \in Nums |-> IF open[f] \in Listeners THEN Unused ELSE open[f]],
               UNCHANGED <<selectorVars, clientVars, statsVars>>
        PROVE  LoopInv'
    <2>1. SelectorInv' /\ BacklogsAreExact' /\ DownIsEmpty'
      BY <1>4 DEF LoopInv, SelectorInv, BacklogsAreExact, DownIsEmpty, selectorVars, clientVars,
                  statsVars, Used
    <2>2. RestTyped'
      BY <1>1, <1>4 DEF LoopInv, RestTyped, loopVars, clientVars, statsVars
    <2>3. OwnersInv'
      <3>1. open' \in [Nums -> Owners \cup {Unused, "std"}]
        BY <1>4 DEF LoopInv, OwnersInv
      <3>2. \A f \in Nums : open'[f] = open[f] \/ open'[f] = Unused
        BY <1>4
      <3>3. \A f \in Nums : open'[f] \notin Conns \cup {"log"}
        BY <1>4, <3>2, Constants DEF LoopInv, OwnersInv, Owners, Roles
      <3>4. \A f, g \in Nums : open'[f] = open'[g] /\ open'[f] \notin {Unused, "std"} => f = g
        BY <3>2 DEF LoopInv, OwnersInv
      <3>5. LiveAreRegistered'
        BY <1>4 DEF LoopInv, OwnersInv, LiveAreRegistered, Used, selectorVars, statsVars
      <3> QED  BY <1>4, <3>1, <3>3, <3>4, <3>5
               DEF LoopInv, OwnersInv, Used, selectorVars, statsVars
    <2> QED  BY <1>2, <2>1, <2>2, <2>3 DEF LoopInv
  <1> QED  BY <1>3, <1>4 DEF Destroy

LEMMA ConnectInv ==
    ASSUME LoopInv, NEW c \in Conns, Connect(c),
           UNCHANGED <<selectorVars, loopVars, open, limit, pc, done>>
    PROVE  LoopInv'
  <1> DEFINE l == Via[c]
  <1>1. /\ l \in Listeners /\ fate[c] = "none" /\ backlog[l] \in Seq(Conns)
        /\ backlog' = [backlog EXCEPT ![l] = Append(backlog[l], c)]
        /\ fate' = [fate EXCEPT ![c] = "waiting"]
        /\ UNCHANGED <<ready, datagram, concurrent, historical>>
    BY LoopConstants DEF Connect, LoopInv, RestTyped
  <1>2. /\ backlog' \in [Listeners -> Seq(Conns)]
        /\ backlog'[l] = Append(backlog[l], c) /\ \A m \in Listeners \ {l} : backlog'[m] = backlog[m]
    BY <1>1 DEF LoopInv, RestTyped
  <1>3. /\ fate' \in [Conns ->
             {"none", "waiting", "live", "freed", "dropped", "leaked", "stray"}]
        /\ fate'[c] = "waiting" /\ \A d \in Conns \ {c} : fate'[d] = fate[d]
        /\ \A d \in Conns : fate'[d] = "live" <=> fate[d] = "live"
    BY <1>1 DEF LoopInv, OwnersInv
  <1>4. ASSUME NEW m \in Listeners, NEW i \in DOMAIN backlog'[m]
        PROVE  \/ m = l /\ i = Len(backlog[l]) + 1 /\ backlog'[m][i] = c
               \/ i \in DOMAIN backlog[m] /\ backlog'[m][i] = backlog[m][i] /\ backlog[m][i] # c
    <2>1. i \in DOMAIN backlog[m] => backlog[m][i] # c
      BY <1>1 DEF LoopInv, BacklogsAreExact
    <2>2. CASE m = l
      BY <1>1, <1>2, <1>4, <2>1, <2>2
    <2>3. CASE m # l
      BY <1>2, <1>4, <2>1, <2>3
    <2> QED  BY <2>2, <2>3
  <1>5. BacklogsAreExact'
    <2> SUFFICES ASSUME NEW m \in Listeners, NEW k \in Listeners,
                        NEW i \in DOMAIN backlog'[m], NEW j \in DOMAIN backlog'[k]
                 PROVE  /\ fate'[backlog'[m][i]] = "waiting"
                        /\ backlog'[m][i] = backlog'[k][j] => m = k /\ i = j
      BY DEF BacklogsAreExact
    <2>1. i \in DOMAIN backlog[m] => fate[backlog[m][i]] = "waiting" /\ backlog[m][i] \in Conns
      BY DEF LoopInv, BacklogsAreExact, RestTyped
    <2>2. i \in DOMAIN backlog[m] /\ j \in DOMAIN backlog[k] /\ backlog[m][i] = backlog[k][j]
            => m = k /\ i = j
      BY DEF LoopInv, BacklogsAreExact
    <2> QED  BY <1>3, <1>4, <2>1, <2>2
  <1>6. ListenersAreReady'
    <2>1. \A m \in Listeners : backlog[m] # <<>> => backlog'[m] # <<>>
      BY <1>1, <1>2
    <2> QED  BY <2>1 DEF LoopInv, ListenersAreReady, loopVars, Position
  <1>7. ReportsAreCurrent' /\ DownIsEmpty' /\ SelectorInv'
    BY DEF LoopInv, ReportsAreCurrent, DownIsEmpty, SelectorInv, Used, selectorVars, loopVars, Position
  <1>8. RestTyped'
    BY <1>1, <1>2 DEF LoopInv, RestTyped, loopVars
  <1>9. OwnersInv'
    BY <1>3 DEF LoopInv, OwnersInv, LiveAreRegistered, Used, selectorVars
  <1> QED  BY <1>5, <1>6, <1>7, <1>8, <1>9 DEF LoopInv

LEMMA StepInv ==
    ASSUME LoopInv, [Next]_vars PROVE LoopInv'
  <1>1. CASE Loop
    BY <1>1 DEF Loop, LoopInv, SelectorInv, OwnersInv, LiveAreRegistered, RestTyped, Position,
         ReportsAreCurrent, ListenersAreReady, BacklogsAreExact, DownIsEmpty, Used,
         selectorVars, loopVars, clientVars, statsVars
  <1>2. CASE Select
    BY <1>2, SelectInv
  <1>3. CASE Callback
    BY <1>3, CallbackIsACall, CallbackInv
  <1>4. CASE EndIteration
    <2>1. 0 \in Fds
      BY Constants DEF Fds
    <2>2. RestTyped'
      BY <1>4, <2>1 DEF EndIteration, LoopInv, RestTyped, NothingSet, NobodyPolled, clientVars, statsVars
    <2>3. ReportsAreCurrent' /\ ListenersAreReady'
      <3>1. slave' = NothingSet /\ \A f \in Fds : polled'[f] = Unused
        BY <1>4, Constants DEF EndIteration, NobodyPolled
      <3> QED  BY <3>1 DEF ReportsAreCurrent, ListenersAreReady, NothingSet
    <2>4. SelectorInv' /\ OwnersInv' /\ BacklogsAreExact' /\ DownIsEmpty'
      BY <1>4 DEF EndIteration, LoopInv, SelectorInv, OwnersInv, LiveAreRegistered,
           BacklogsAreExact, DownIsEmpty, Used, selectorVars, clientVars, statsVars
    <2> QED  BY <2>2, <2>3, <2>4 DEF LoopInv
  <1>5. CASE Destroy
    BY <1>5, DestroyInv
  <1>6. CASE Signal
    <2>1. SelectorInv' /\ Others({})
      BY <1>6, OnlyLogsKeeps DEF Signal, LoopInv
    <2>2. \A f \in Fds : items'[f].data = items[f].data
      BY <2>1 DEF Others
    <2>3. OwnersInv'
      BY <1>6, <2>2, SameOwners DEF Signal, LoopInv, statsVars
    <2>4. /\ pc' = "iteration" <=> pc = "iteration" /\ pc # "down" /\ pc' # "down"
          /\ pc' \in {"loop", "select", "iteration", "destroy", "down"}
          /\ pc' # "down" /\ (pc = "iteration" => pc' = "iteration")
          /\ (pc' = "iteration" => pc = "iteration")
      BY <1>6 DEF Signal, LoopInv, RestTyped
    <2>5. ReportsAreCurrent' /\ ListenersAreReady' /\ BacklogsAreExact'
      BY <1>6, <2>1, <2>2, <2>3, <2>4, KeepsWalk DEF Signal, clientVars, statsVars
    <2>6. done' \in BOOLEAN
      BY <1>6 DEF Signal
    <2>7. RestTyped'
      BY <1>6, <2>4, <2>6 DEF Signal, LoopInv, RestTyped, loopVars, clientVars, statsVars
    <2> QED  BY <2>1, <2>3, <2>4, <2>5, <2>7 DEF LoopInv, DownIsEmpty
  <1>7. CASE Clients
    <2>1. CASE Arrives
      <3>1. ready' \subseteq Conns \X Ops
        <4>1. ready \subseteq Conns \X Ops
          BY DEF LoopInv, RestTyped
        <4>2. ready' = ready \/ \E c \in Conns, op \in Ops : ready' = ready \cup {<<c, op>>}
          BY <2>1 DEF Arrives
        <4> QED  BY <4>1, <4>2
      <3>2. datagram' \in BOOLEAN
        <4>1. datagram' = datagram \/ datagram' = TRUE
          BY <2>1 DEF Arrives
        <4>2. datagram \in BOOLEAN
          BY DEF LoopInv, RestTyped
        <4> QED  BY <4>1, <4>2
      <3>3. UNCHANGED <<selectorVars, loopVars, open, limit, pc, done, backlog, statsVars>>
        BY <1>7, <2>1 DEF Clients, Arrives
      <3> QED  BY <3>1, <3>2, <3>3
               DEF LoopInv, SelectorInv, OwnersInv, LiveAreRegistered, RestTyped, Position,
                   ReportsAreCurrent, ListenersAreReady, BacklogsAreExact, DownIsEmpty, Used,
                   selectorVars, loopVars, statsVars
    <2>2. CASE \E c \in Conns : Connect(c)
      BY <1>7, <2>2, ConnectInv DEF Clients
    <2> QED  BY <1>7, <2>1, <2>2 DEF Clients
  <1>8. CASE UNCHANGED vars
    BY <1>8 DEF vars, LoopInv, SelectorInv, OwnersInv, LiveAreRegistered, RestTyped, Position,
         ReportsAreCurrent, ListenersAreReady, BacklogsAreExact, DownIsEmpty, Used,
         selectorVars, loopVars, clientVars, statsVars
  <1> QED  BY <1>1, <1>2, <1>3, <1>4, <1>5, <1>6, <1>7, <1>8 DEF Next, Main

LEMMA Invariance ==
    Spec => []LoopInv
  BY InitInv, StepInv, PTL DEF Spec

(* For any table, any limit of open files and any clients: no step indexes *)
(* an item out of the selector's table, nor frees a connection twice.      *)
THEOREM LoopTypesHold == Spec => []LoopTypeOK
  <1>1. LoopInv => LoopTypeOK
    BY DEF LoopInv, SelectorInv, OwnersInv, RestTyped, LoopTypeOK, Items
  <1> QED  BY <1>1, Invariance, PTL

(* The sets given to select(), the items and the kernel's descriptors      *)
(* agree: pselect never fails with EBADF, and no descriptor is lost.       *)
THEOREM DescriptorsAgree == Spec => []TablesAgree
  <1>1. LoopInv => TablesAgree
    BY DEF LoopInv, SelectorInv, OwnersInv, TablesAgree, Used
  <1> QED  BY <1>1, Invariance, PTL

(* A connection has one item exactly while it is live.                     *)
THEOREM ConnectionsHaveOneItem == Spec => []LiveAreRegistered
  <1>1. LoopInv => LiveAreRegistered
    BY DEF LoopInv, OwnersInv
  <1> QED  BY <1>1, Invariance, PTL

----------------------------------------------------------------------------
(* The statistics.                                                         *)

Fates == {"none", "waiting", "live", "freed", "dropped", "leaked", "stray"}
Counted == {{"live", "stray"}, {"live", "stray", "freed"}}

LEMMA Counting ==
    ASSUME LoopInv, NEW c \in Conns, NEW a \in Fates, fate' = [fate EXCEPT ![c] = a],
           NEW S \in Counted
    PROVE  /\ fate[c] \in S /\ a \in S => With(S)' = With(S)
           /\ fate[c] \notin S /\ a \notin S => With(S)' = With(S)
           /\ fate[c] \in S /\ a \notin S => With(S)' = With(S) - 1
           /\ fate[c] \notin S /\ a \in S => With(S)' = With(S) + 1
  <1> DEFINE A == {d \in Conns : fate[d] \in S}
             B == {d \in Conns : fate'[d] \in S}
  <1>1. IsFiniteSet(A) /\ A \subseteq Conns
    BY LoopConstants, FS_Subset
  <1>2. fate'[c] = a /\ \A d \in Conns \ {c} : fate'[d] = fate[d]
    BY DEF LoopInv, OwnersInv
  <1>3. a \in S => B = A \cup {c}
    BY <1>2
  <1>4. a \notin S => B = A \ {c}
    BY <1>2
  <1>5. c \in A <=> fate[c] \in S
    OBVIOUS
  <1>6. Cardinality(A) \in Nat
    BY <1>1, FS_CardinalityType
  <1>7. Cardinality(A \cup {c}) = IF c \in A THEN Cardinality(A) ELSE Cardinality(A) + 1
    BY <1>1, FS_AddElement
  <1>8. Cardinality(A \ {c}) = IF c \in A THEN Cardinality(A) - 1 ELSE Cardinality(A)
    BY <1>1, FS_RemoveElement
  <1>9. With(S) = Cardinality(A) /\ With(S)' = Cardinality(B)
    BY DEF With
  <1> QED  BY <1>3, <1>4, <1>5, <1>6, <1>7, <1>8, <1>9

LEMMA SameStats ==
    ASSUME StatsAreRight, UNCHANGED statsVars PROVE StatsAreRight'
  BY DEF StatsAreRight, statsVars, With

LEMMA UnregisterStats ==
    ASSUME LoopInv, StatsAreRight, NEW f \in Fds, Unregister(f) PROVE StatsAreRight'
  <1> DEFINE o == items[f].data
  <1>1. CASE o \in Conns
    <2>1. fate[o] = "live"
      BY <1>1 DEF LoopInv, OwnersInv, LiveAreRegistered
    <2>2. /\ fate' = [fate EXCEPT ![o] = "freed"]
          /\ concurrent' = concurrent - 1 /\ historical' = historical
      BY <1>1, <2>1 DEF Unregister
    <2>3. With({"live", "stray"})' = With({"live", "stray"}) - 1
      BY <1>1, <2>1, <2>2, Counting DEF Fates, Counted
    <2>4. With({"live", "stray", "freed"})' = With({"live", "stray", "freed"})
      BY <1>1, <2>1, <2>2, Counting DEF Fates, Counted
    <2> QED  BY <2>2, <2>3, <2>4 DEF StatsAreRight
  <1>2. CASE o \notin Conns
    BY <1>2, SameStats DEF Unregister
  <1> QED  BY <1>1, <1>2

LEMMA DroppedStats ==
    ASSUME LoopInv, StatsAreRight, NEW l \in Listeners, backlog[l] # <<>>,
           NEW what \in {"dropped", "leaked"}, Taken(l, Head(backlog[l]), what),
           UNCHANGED <<concurrent, historical>>
    PROVE  StatsAreRight'
  <1>1. Head(backlog[l]) \in Conns /\ fate[Head(backlog[l])] = "waiting"
    BY HeadWaits
  <1>2. With({"live", "stray"})' = With({"live", "stray"})
    BY <1>1, Counting DEF Taken, Fates, Counted
  <1>3. With({"live", "stray", "freed"})' = With({"live", "stray", "freed"})
    BY <1>1, Counting DEF Taken, Fates, Counted
  <1> QED  BY <1>2, <1>3 DEF StatsAreRight

LEMMA CountedStats ==
    ASSUME LoopInv, StatsAreRight, NEW l \in Listeners, backlog[l] # <<>>,
           NEW what \in {"live", "stray"}, Taken(l, Head(backlog[l]), what),
           concurrent' = concurrent + 1, historical' = historical + 1
    PROVE  StatsAreRight'
  <1>1. Head(backlog[l]) \in Conns /\ fate[Head(backlog[l])] = "waiting"
    BY HeadWaits
  <1>2. With({"live", "stray"})' = With({"live", "stray"}) + 1
    BY <1>1, Counting DEF Taken, Fates, Counted
  <1>3. With({"live", "stray", "freed"})' = With({"live", "stray", "freed"}) + 1
    BY <1>1, Counting DEF Taken, Fates, Counted
  <1> QED  BY <1>2, <1>3 DEF StatsAreRight

LEMMA CalledStats ==
    ASSUME LoopInv, StatsAreRight, NEW f \in Fds, NEW op \in Ops, IsNext(f, op), Called(f, op)
    PROVE  StatsAreRight'
  <1> DEFINE o == items[f].data
  <1>1. o \in Listeners => backlog[o] # <<>>
    BY DueIsReported
  <1>2. CASE o \in Listeners /\ (AcceptFails(o) \/ SetUpFails(o) \/ Accept(o))
    <2>1. CASE AcceptFails(o) /\ UNCHANGED <<backlog, fate>>
      BY <2>1, SameStats DEF AcceptFails, statsVars
    <2>2. CASE AcceptFails(o) /\ Taken(o, Head(backlog[o]), "dropped")
      BY <1>1, <1>2, <2>2, DroppedStats DEF AcceptFails
    <2>3. CASE SetUpFails(o)
      BY <1>1, <1>2, <2>3, DroppedStats DEF SetUpFails
    <2>4. CASE Accept(o)
      <3>1. \E what \in {"live", "stray"} : Taken(o, Head(backlog[o]), what)
        BY <2>4 DEF Accept
      <3> QED  BY <1>1, <1>2, <2>4, <3>1, CountedStats DEF Accept
    <2> QED  BY <1>2, <2>1, <2>2, <2>3, <2>4 DEF AcceptFails
  <1>3. CASE HandleRead(f) \/ HandleWrite(f)
    BY <1>3, UnregisterStats, SameStats DEF HandleRead, HandleWrite
  <1>4. CASE FlushLog \/ ReceiveManagmentMessage
    BY <1>4, SameStats DEF FlushLog, ReceiveManagmentMessage
  <1> QED  BY <1>2, <1>3, <1>4 DEF Called

(* concurrent counts the live connections and, for ever, those whose       *)
(* registration failed; historical counts all that were registered or      *)
(* failed to be.                                                           *)
THEOREM StatsHold == Spec => []StatsAreRight
  <1>1. Init => StatsAreRight
    <2> SUFFICES ASSUME Init PROVE StatsAreRight
      OBVIOUS
    <2>1. fate = [c \in Conns |-> "none"] /\ concurrent = 0 /\ historical = 0
      BY DEF Init
    <2>2. /\ {c \in Conns : fate[c] \in {"live", "stray"}} = {}
          /\ {c \in Conns : fate[c] \in {"live", "stray", "freed"}} = {}
      BY <2>1
    <2> QED  BY <2>1, <2>2, FS_EmptySet DEF StatsAreRight, With
  <1>2. LoopInv /\ StatsAreRight /\ [Next]_vars => StatsAreRight'
    <2> SUFFICES ASSUME LoopInv, StatsAreRight, [Next]_vars PROVE StatsAreRight'
      OBVIOUS
    <2>1. CASE Callback
      BY <2>1, CallbackIsACall, CalledStats
    <2>2. CASE Destroy
      BY <2>2, UnregisterStats, SameStats DEF Destroy
    <2>3. CASE \E c \in Conns : Connect(c)
      <3>1. PICK c \in Conns : Connect(c)
        BY <2>3
      <3>2. /\ fate[c] = "none" /\ fate' = [fate EXCEPT ![c] = "waiting"]
            /\ UNCHANGED <<concurrent, historical>>
        BY <3>1 DEF Connect
      <3>3. With({"live", "stray"})' = With({"live", "stray"})
        BY <3>2, Counting DEF Fates, Counted
      <3>4. With({"live", "stray", "freed"})' = With({"live", "stray", "freed"})
        BY <3>2, Counting DEF Fates, Counted
      <3> QED  BY <3>2, <3>3, <3>4 DEF StatsAreRight
    <2>4. CASE Loop \/ Select \/ EndIteration \/ Signal \/ Arrives \/ UNCHANGED vars
      BY <2>4, SameStats DEF Loop, Select, EndIteration, Signal, Arrives, vars
    <2> QED  BY <2>1, <2>2, <2>3, <2>4 DEF Next, Main, Clients
  <1> QED  BY <1>1, <1>2, Invariance, PTL DEF Spec

(* When main returns, no connection is open or in memory, but for what a   *)
(* failed registration left counted.                                       *)
THEOREM ShutdownReleases == Spec => []StoppedIsClean
  <1> DEFINE Closed == pc = "down" => \A f \in Nums : open[f] \notin Listeners
  <1>1. Init => Closed
    BY DEF Init
  <1>2. Closed /\ [Next]_vars => Closed'
    <2> SUFFICES ASSUME Closed, [Next]_vars, pc' = "down"
                 PROVE  \A f \in Nums : open'[f] \notin Listeners
      OBVIOUS
    <2>1. CASE Destroy
      BY <2>1, Constants DEF Destroy, Listeners, Owners, Roles, Unused
    <2>2. CASE pc = "down" /\ open' = open
      BY <2>2
    <2>3. CASE Loop \/ Select \/ EndIteration \/ Callback \/ Signal
      BY <2>3 DEF Loop, Select, EndIteration, Callback, Signal
    <2>4. CASE Clients \/ UNCHANGED vars
      BY <2>2, <2>4 DEF Clients, vars
    <2> QED  BY <2>1, <2>3, <2>4 DEF Next, Main
  <1>3. LoopInv /\ Closed /\ StatsAreRight => StoppedIsClean
    <2> SUFFICES ASSUME LoopInv, Closed, StatsAreRight, pc = "down" PROVE StoppedIsClean
      BY DEF StoppedIsClean
    <2>1. \A f \in Fds : ~Used(f)
      BY DEF LoopInv, DownIsEmpty
    <2>2. \A c \in Conns : fate[c] # "live"
      BY <2>1, Constants DEF LoopInv, OwnersInv, LiveAreRegistered, Used, Owners
    <2>3. \A f \in Nums : open[f] \in {Unused, "std", "managment"}
      BY <2>1 DEF LoopInv, OwnersInv, Owners, Roles, Listeners
    <2>4. {c \in Conns : fate[c] \in {"live", "stray"}} = {c \in Conns : fate[c] \in {"stray"}}
      BY <2>2
    <2> QED  BY <2>2, <2>3, <2>4 DEF StoppedIsClean, StatsAreRight, With
  <1> QED  BY <1>1, <1>2, <1>3, Invariance, StatsHold, PTL DEF Spec

----------------------------------------------------------------------------
(* The refinement. An owner has at most one item, so waits is its interest *)
(* or Gone, and owners whose items stay keep theirs.                       *)
Gone == {Unused}

WaitsOf(table) == [o \in Owners |->
    IF \E f \in Fds : table[f].data = o
    THEN UNION {table[f].interest : f \in {g \in Fds : table[g].data = o}}
    ELSE {Unused}]

LEMMA WaitsOfTable ==
    ASSUME NEW table \in Items,
           \A f, g \in Fds : table[f].data # Unused /\ table[f].data = table[g].data => f = g
    PROVE  /\ WaitsOf(table) \in [Owners -> (SUBSET Ops) \cup {Gone}]
           /\ \A f \in Fds : table[f].data # Unused =>
                WaitsOf(table)[table[f].data] = table[f].interest
           /\ \A o \in Owners : (\A f \in Fds : table[f].data # o) => WaitsOf(table)[o] = Gone
  <1>1. ASSUME NEW f \in Fds, table[f].data # Unused
        PROVE  WaitsOf(table)[table[f].data] = table[f].interest
    <2>1. table[f].data \in Owners
      BY <1>1 DEF Items
    <2>2. {g \in Fds : table[g].data = table[f].data} = {f}
      BY <1>1
    <2>3. {table[h].interest : h \in {g \in Fds : table[g].data = table[f].data}}
            = {table[f].interest}
      BY <2>2
    <2>4. UNION {table[h].interest : h \in {g \in Fds : table[g].data = table[f].data}}
            = table[f].interest
      BY <2>3
    <2> QED  BY <2>1, <2>4 DEF WaitsOf
  <1>2. \A o \in Owners : (\A f \in Fds : table[f].data # o) => WaitsOf(table)[o] = Gone
    BY DEF WaitsOf, Gone
  <1>3. \A o \in Owners : WaitsOf(table)[o] \in (SUBSET Ops) \cup {Gone}
    <2> SUFFICES ASSUME NEW o \in Owners PROVE WaitsOf(table)[o] \in (SUBSET Ops) \cup {Gone}
      OBVIOUS
    <2>1. CASE \E f \in Fds : table[f].data = o
      <3>1. PICK f \in Fds : table[f].data = o
        BY <2>1
      <3>2. table[f].data # Unused /\ table[f].interest \in SUBSET Ops
        BY <3>1, Constants DEF Items
      <3> QED  BY <1>1, <3>1, <3>2
    <2> QED  BY <1>2, <2>1
  <1>4. WaitsOf(table) = [o \in Owners |-> WaitsOf(table)[o]]
    BY DEF WaitsOf
  <1> QED  BY <1>1, <1>2, <1>3, <1>4

LEMMA NotGone == Gone \notin SUBSET Ops
  BY DEF Gone, Unused, Ops

LEMMA Waits ==
    ASSUME SelectorInv, LiveAreRegistered
    PROVE  /\ waits \in [Owners -> (SUBSET Ops) \cup {Gone}]
           /\ \A f \in Fds : Used(f) => waits[items[f].data] = items[f].interest
           /\ \A o \in Owners : (\A f \in Fds : items[f].data # o) => waits[o] = Gone
           /\ Gone \notin SUBSET Ops
  <1>1. waits = WaitsOf(items)
    BY DEF waits, WaitsOf
  <1> QED  BY <1>1, WaitsOfTable, NotGone DEF SelectorInv, LiveAreRegistered, Used

LEMMA WaitsNext ==
    ASSUME SelectorInv', LiveAreRegistered'
    PROVE  /\ waits' \in [Owners -> (SUBSET Ops) \cup {Gone}]
           /\ \A f \in Fds : items'[f].data # Unused => waits'[items'[f].data] = items'[f].interest
           /\ \A o \in Owners : (\A f \in Fds : items'[f].data # o) => waits'[o] = Gone
  <1>1. waits' = WaitsOf(items')
    BY DEF waits, WaitsOf
  <1> QED  BY <1>1, WaitsOfTable DEF SelectorInv, LiveAreRegistered, Used

LEMMA SameItemsSameWaits ==
    ASSUME items' = items PROVE waits' = waits
  BY DEF waits

LEMMA WaitsOfOthers ==
    ASSUME LoopInv, SelectorInv', LiveAreRegistered', NEW g \in Fds, Others({g}),
           NEW p \in Owners, p # "log", p # items[g].data
    PROVE  waits'[p] = waits[p] \/ waits[p] = Gone
  <1> SUFFICES ASSUME waits[p] # Gone PROVE waits'[p] = waits[p]
    OBVIOUS
  <1>1. PICK h \in Fds : items[h].data = p
    BY Waits DEF LoopInv, OwnersInv
  <1>2. h # g /\ Used(h)
    BY <1>1, Constants DEF Used
  <1>3. items'[h] = items[h]
    BY <1>1, <1>2 DEF Others
  <1>4. waits[p] = items[h].interest
    BY <1>1, <1>2, Waits DEF LoopInv, OwnersInv
  <1>5. waits'[items'[h].data] = items'[h].interest
    BY <1>2, <1>3, WaitsNext DEF Used
  <1> QED  BY <1>1, <1>3, <1>4, <1>5

LEMMA NothingReported ==
    ASSUME slave = NothingSet PROVE reported = {}
  BY DEF reported, NothingSet

(* Membership in reported.                                                 *)
LEMMA Reported ==
    \A r : r \in reported <=>
        \E f \in Fds, op \in Ops :
            /\ f <= n /\ Used(f) /\ f \in slave[op] /\ Position(f, op) >= at
            /\ r = <<polled[f], op>>
  <1> DEFINE Left == {q \in Fds \X Ops :
               q[1] <= n /\ Used(q[1]) /\ q[1] \in slave[q[2]] /\ Position(q[1], q[2]) >= at}
  <1>1. reported = {<<polled[q[1]], q[2]>> : q \in Left}
    BY DEF reported
  <1>2. ASSUME NEW f \in Fds, NEW op \in Ops
        PROVE  <<f, op>> \in Left <=>
                 f <= n /\ Used(f) /\ f \in slave[op] /\ Position(f, op) >= at
    OBVIOUS
  <1>3. \A q \in Left : q[1] \in Fds /\ q[2] \in Ops /\ q = <<q[1], q[2]>>
    OBVIOUS
  <1> HIDE DEF Left
  <1>4. ASSUME NEW r \in reported
        PROVE  \E f \in Fds, op \in Ops :
                 /\ f <= n /\ Used(f) /\ f \in slave[op] /\ Position(f, op) >= at
                 /\ r = <<polled[f], op>>
    <2>1. PICK q \in Left : r = <<polled[q[1]], q[2]>>
      BY <1>1, <1>4
    <2>2. q[1] \in Fds /\ q[2] \in Ops /\ <<q[1], q[2]>> \in Left
      BY <1>3
    <2> QED  BY <1>2, <2>1, <2>2
  <1>5. ASSUME NEW f \in Fds, NEW op \in Ops,
               f <= n /\ Used(f) /\ f \in slave[op] /\ Position(f, op) >= at
        PROVE  <<polled[f], op>> \in reported
    <2>1. <<f, op>> \in Left
      BY <1>2, <1>5
    <2>2. <<polled[<<f, op>>[1]], <<f, op>>[2]>> \in reported
      BY <1>1, <2>1
    <2> QED  BY <2>2
  <1> QED  BY <1>4, <1>5

LEMMA SelectIsPoll ==
    ASSUME LoopInv, Select PROVE R!Poll
  <1>1. reported = {}
    <2>1. pc = "select"
      BY DEF Select
    <2> QED  BY <2>1, NothingReported DEF LoopInv, ReportsAreCurrent
  <1>2. items' = items
    BY DEF Select, selectorVars
  <1>3. ASSUME NEW r \in reported'
        PROVE  r \in Owners \X Ops /\ waits[r[1]] # Gone /\ r[2] \in waits[r[1]]
    <2>1. PICK f \in Fds, op \in Ops : f \in slave'[op] /\ r = <<polled'[f], op>>
      BY <1>3 DEF reported
    <2>2. f \in master[op] /\ polled'[f] = open[f]
      BY <2>1, SelectInv
    <2>3. Used(f) /\ op \in items[f].interest /\ open[f] = items[f].data /\ open[f] \in Owners
      BY <2>2, NoBadDescriptor
    <2>4. waits[open[f]] = items[f].interest /\ items[f].interest \in SUBSET Ops
      BY <2>3, Waits DEF LoopInv, OwnersInv, SelectorInv, Items
    <2>5. Gone \notin SUBSET Ops
      BY Waits DEF LoopInv, OwnersInv
    <2> QED  BY <2>1, <2>2, <2>3, <2>4, <2>5
  <1>4. waits' = waits
    BY <1>2, SameItemsSameWaits
  <1> QED  BY <1>1, <1>3, <1>4 DEF R!Poll, R!Waiting, Gone

LEMMA CallbackIsCall ==
    ASSUME LoopInv, LoopInv', NEW f \in Fds, NEW op \in Ops, IsNext(f, op), Called(f, op),
           at' = Position(f, op) + 1, pc = "iteration",
           UNCHANGED <<slave, n, polled, limit, pc, done>>
    PROVE  items[f].data \in Owners /\ R!Call(items[f].data, op)
  <1> DEFINE o == items[f].data
  <1>1. /\ Used(f) /\ f \in slave[op] /\ f <= n /\ Position(f, op) >= at
        /\ op \in items[f].interest /\ polled[f] = o /\ o \in Owners
    BY DueIsReported
  <1>2. <<o, op>> \in reported
    BY <1>1, Reported
  <1>3. waits[o] = items[f].interest /\ waits[o] # Gone
    <2>1. waits[o] = items[f].interest /\ items[f].interest \in SUBSET Ops
      BY <1>1, Waits DEF LoopInv, OwnersInv, SelectorInv, Items
    <2> QED  BY <2>1, Waits DEF LoopInv, OwnersInv
  <1>4. CallKeeps(f)
    BY CalledKeeps
  <1>5. PICK g \in Fds : Others({g}) /\ (g = f \/ ~Used(g))
    BY <1>4 DEF CallKeeps
  <1>6. waits' \in [Owners -> (SUBSET Ops) \cup {Gone}]
    BY WaitsNext DEF LoopInv, OwnersInv
  <1>7. \A p \in Owners \ {o, "log"} : waits'[p] = waits[p] \/ waits[p] = Gone
    BY <1>5, WaitsOfOthers, Constants DEF LoopInv, OwnersInv, Used
  <1>8. ASSUME NEW r \in reported'
        PROVE  r \in reported /\ r # <<o, op>>
    <2>1. PICK h \in Fds, oq \in Ops :
            /\ h <= n /\ h \in slave[oq] /\ Position(h, oq) >= at'
            /\ r = <<polled[h], oq>>
      <3>1. n' = n /\ slave' = slave /\ polled' = polled
        OBVIOUS
      <3> QED  BY <1>8, <3>1 DEF reported, Position
    <2>2. Position(h, oq) > Position(f, op) /\ Position(h, oq) > at /\ Position(h, oq) >= at
      <3>1. Position(h, oq) \in Nat /\ Position(f, op) \in Nat /\ at \in Nat
        BY Positions DEF LoopInv, RestTyped
      <3> QED  BY <1>1, <2>1, <3>1
    <2>3. Used(h)
      <3>1. Used(h) \/ at = 2 * h + 1
        BY <2>1, <2>2 DEF LoopInv, ReportsAreCurrent
      <3>2. at # 2 * h + 1
        BY <2>2, Positions DEF LoopInv, RestTyped
      <3> QED  BY <3>1, <3>2
    <2>4. r \in reported
      BY <2>1, <2>2, <2>3, Reported
    <2>5. r # <<o, op>>
      <3>1. SUFFICES ASSUME polled[h] = o, oq = op PROVE FALSE
        BY <2>1
      <3>2. h = f
        BY <1>1, <3>1, Constants DEF LoopInv, ReportsAreCurrent
      <3>3. Position(f, op) \in Nat
        BY Positions
      <3> QED  BY <2>2, <3>1, <3>2, <3>3
    <2> QED  BY <2>4, <2>5
  <1> QED  BY <1>1, <1>2, <1>3, <1>6, <1>7, <1>8 DEF R!Call, R!Waiting, Gone

LEMMA EndIsPass ==
    ASSUME LoopInv, EndIteration PROVE R!Pass
  <1>1. ASSUME NEW r \in reported PROVE ~R!Waiting(r[1], r[2])
    <2>1. PICK f \in Fds, op \in Ops :
            /\ f <= n /\ Used(f) /\ f \in slave[op] /\ Position(f, op) >= at
            /\ r = <<polled[f], op>>
      BY <1>1, Reported
    <2>2. op \notin items[f].interest
      BY <2>1 DEF EndIteration, Due
    <2>3. polled[f] = items[f].data
      BY <2>1 DEF LoopInv, ReportsAreCurrent
    <2>4. waits[polled[f]] = items[f].interest
      BY <2>1, <2>3, Waits DEF LoopInv, OwnersInv
    <2> QED  BY <2>1, <2>2, <2>4 DEF R!Waiting
  <1>2. slave' = NothingSet /\ items' = items
    BY DEF EndIteration, selectorVars
  <1>3. reported' = {}
    BY <1>2 DEF reported, NothingSet
  <1>4. waits' = waits
    BY <1>2, SameItemsSameWaits
  <1> QED  BY <1>1, <1>3, <1>4 DEF R!Pass

LEMMA UnregisterIsStop ==
    ASSUME LoopInv, LoopInv', NEW f \in Fds, Used(f), Unregister(f),
           slave = NothingSet, slave' = slave
    PROVE  items[f].data \in Owners /\ R!Stop(items[f].data)
  <1> DEFINE o == items[f].data
  <1>1. SelectorInv' /\ Others({f}) /\ items'[f].data = Unused
    BY UnregisterKeeps DEF LoopInv, NoItem
  <1>2. o \in Owners /\ \A g \in Fds : items'[g].data # o
    BY <1>1, Constants DEF LoopInv, OwnersInv, LiveAreRegistered, SelectorInv, Items, Others, Used
  <1>3. reported = {} /\ reported' = {}
    BY DEF reported, NothingSet
  <1>4. waits[o] = items[f].interest /\ items[f].interest \in SUBSET Ops
    BY Waits DEF LoopInv, OwnersInv, SelectorInv, Items
  <1>5. waits[o] # Gone
    BY <1>4, NotGone
  <1>6. waits' \in [Owners -> (SUBSET Ops) \cup {Gone}] /\ waits'[o] = Gone
    BY <1>2, WaitsNext DEF LoopInv, OwnersInv
  <1>7. \A p \in Owners \ {o, "log"} : waits'[p] = waits[p]
    <2> SUFFICES ASSUME NEW p \in Owners \ {o, "log"} PROVE waits'[p] = waits[p]
      OBVIOUS
    <2>1. CASE waits[p] = Gone
      <3>1. \A g \in Fds : items[g].data # p
        <4> SUFFICES ASSUME NEW g \in Fds, items[g].data = p PROVE FALSE
          OBVIOUS
        <4>1. Used(g)
          BY Constants DEF Used
        <4>2. waits[p] = items[g].interest /\ items[g].interest \in SUBSET Ops
          BY <4>1, Waits DEF LoopInv, OwnersInv, SelectorInv, Items
        <4> QED  BY <2>1, <4>2, NotGone
      <3>2. \A g \in Fds : items'[g].data # p
        BY <1>1, <3>1, Constants DEF Others
      <3> QED  BY <2>1, <3>2, WaitsNext DEF LoopInv, OwnersInv
    <2>2. CASE waits[p] # Gone
      BY <1>1, <2>2, WaitsOfOthers DEF LoopInv, OwnersInv
    <2> QED  BY <2>1, <2>2
  <1> QED  BY <1>2, <1>3, <1>5, <1>6, <1>7 DEF R!Stop, Gone

LEMMA SignalIsInterrupt ==
    ASSUME LoopInv, LoopInv', Signal
    PROVE  R!Interrupt \/ UNCHANGED <<waits, reported>>
  <1>1. PICK w \in LogInterest : items' = Logged(w)
    BY DEF Signal, OnlyLogs
  <1>2. SelectorInv' /\ Others({}) /\ UNCHANGED <<slave, at, n, polled>>
    BY OnlyLogsKeeps DEF Signal, LoopInv, loopVars
  <1>3. reported' = reported
    <2>1. \A f \in Fds : items'[f].data = items[f].data
      BY <1>2 DEF Others
    <2> QED  BY <1>2, <2>1 DEF reported, Used, Position
  <1>4. CASE LogOpen
    <2>1. LogFd \in Fds /\ Used(LogFd) /\ items[LogFd].data = "log" /\ "log" \in Owners
          /\ w \in SUBSET Ops
      BY <1>4, Constants DEF LogOpen, Used, Owners, Roles
    <2>2. items'[LogFd].data = "log" /\ items'[LogFd].interest = w
      BY <1>1, <1>4, <2>1 DEF Logged, LoopInv, SelectorInv, Items
    <2>3. waits["log"] # Gone
      <3>1. waits["log"] = items[LogFd].interest /\ items[LogFd].interest \in SUBSET Ops
        BY <2>1, Waits DEF LoopInv, OwnersInv, SelectorInv, Items
      <3> QED  BY <3>1, NotGone
    <2>4. waits'["log"] = w
      BY <2>1, <2>2, WaitsNext, Constants DEF LoopInv, OwnersInv
    <2>5. ASSUME NEW p \in Owners, p # "log"
          PROVE  waits'[p] = waits[p]
      <3>1. CASE \E g \in Fds : items[g].data = p
        <4>1. PICK g \in Fds : items[g].data = p
          BY <3>1
        <4>2. Used(g) /\ items'[g] = items[g]
          BY <1>2, <2>5, <4>1, Constants DEF Others, Used
        <4> QED  BY <4>1, <4>2, Waits, WaitsNext DEF LoopInv, OwnersInv, Used
      <3>2. CASE \A g \in Fds : items[g].data # p
        <4>1. \A g \in Fds : items'[g].data # p
          BY <1>2, <3>2 DEF Others
        <4> QED  BY <3>2, <4>1, Waits, WaitsNext DEF LoopInv, OwnersInv
      <3> QED  BY <3>1, <3>2
    <2>6. /\ waits \in [Owners -> (SUBSET Ops) \cup {Gone}]
          /\ waits' \in [Owners -> (SUBSET Ops) \cup {Gone}]
      BY Waits, WaitsNext DEF LoopInv, OwnersInv
    <2>7. waits' = [waits EXCEPT !["log"] = w]
      BY <2>1, <2>4, <2>5, <2>6
    <2> QED  BY <1>3, <2>1, <2>3, <2>7 DEF R!Interrupt, Gone
  <1>5. CASE ~LogOpen
    <2>1. items' = items
      BY <1>1, <1>5 DEF Logged
    <2>2. waits' = waits
      BY <2>1, SameItemsSameWaits
    <2> QED  BY <1>3, <2>2
  <1> QED  BY <1>4, <1>5

(* Whoever is called is who select() reported, at most once for each poll  *)
(* and operation, while handlers close descriptors and register others:    *)
(* every step of the loop is a step of the reactor or changes nothing of   *)
(* it, for any number of descriptors and clients.                          *)
THEOREM LoopIsReactor == Spec => IsReactor
  <1>1. LoopInv /\ Init => R!ReactorInit
    <2> SUFFICES ASSUME LoopInv, Init PROVE R!ReactorInit
      OBVIOUS
    <2>1. reported = {}
      BY NothingReported DEF Init
    <2>2. waits \in [Owners -> (SUBSET Ops) \cup {Gone}]
      BY Waits DEF LoopInv, OwnersInv
    <2> QED  BY <2>1, <2>2 DEF R!ReactorInit, Gone
  <1>2. LoopInv /\ LoopInv' /\ [Next]_vars => [R!ReactorNext]_R!reactorVars
    <2> SUFFICES ASSUME LoopInv, LoopInv', [Next]_vars
                 PROVE  R!ReactorNext \/ UNCHANGED <<waits, reported>>
      BY DEF R!reactorVars
    <2>1. CASE Select
      BY <2>1, SelectIsPoll DEF R!ReactorNext
    <2>2. CASE Callback
      <3>1. PICK f \in Fds, op \in Ops :
              IsNext(f, op) /\ at' = Position(f, op) + 1 /\ Called(f, op)
        BY <2>2, CallbackIsACall
      <3>2. items[f].data \in Owners /\ R!Call(items[f].data, op)
        BY <2>2, <3>1, CallbackIsACall, CallbackIsCall
      <3> QED  BY <3>2 DEF R!ReactorNext
    <2>3. CASE EndIteration
      BY <2>3, EndIsPass DEF R!ReactorNext
    <2>4. CASE Destroy
      <3>1. slave = NothingSet /\ slave' = slave
        BY <2>4 DEF Destroy, LoopInv, ReportsAreCurrent, loopVars
      <3>2. CASE \E f \in Fds : Used(f) /\ Unregister(f)
        BY <3>1, <3>2, UnregisterIsStop DEF R!ReactorNext
      <3>3. CASE items' = items
        <4>1. reported = {} /\ reported' = {}
          BY <3>1 DEF reported, NothingSet
        <4> QED  BY <3>3, <4>1, SameItemsSameWaits
      <3> QED  BY <2>4, <3>2, <3>3 DEF Destroy, selectorVars
    <2>5. CASE Signal
      BY <2>5, SignalIsInterrupt DEF R!ReactorNext
    <2>6. CASE Loop \/ Clients \/ UNCHANGED vars
      <3>1. items' = items /\ UNCHANGED <<slave, at, n, polled>>
        BY <2>6 DEF Loop, Clients, vars, selectorVars, loopVars
      <3>2. reported' = reported
        BY <3>1 DEF reported, Used, Position
      <3> QED  BY <3>1, <3>2, SameItemsSameWaits
    <2> QED  BY <2>1, <2>2, <2>3, <2>4, <2>5, <2>6 DEF Next, Main
  <1> QED  BY <1>1, <1>2, InitInv, Invariance, PTL DEF Spec, IsReactor, R!ReactorSpec
=============================================================================
