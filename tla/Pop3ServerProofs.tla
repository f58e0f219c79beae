-------------------------- MODULE Pop3ServerProofs --------------------------
(***************************************************************************)
(* Proofs about the POP3 server, for any number of connections, accounts,  *)
(* mail files, buffer sizes and scripts.                                   *)
(*                                                                         *)
(* SessionInv: a session exists exactly while its state machine is in      *)
(* TRANSACTION (or in an ERROR that returns to it); from it, a mail file   *)
(* is only removed by the QUIT that was to remove it, and a listing keeps  *)
(* its numbers. DataInv: the buffers, the listings and the types of        *)
(* everything, which the proofs of the administration protocol             *)
(* (ManagmentProofs) are a part of.                                        *)
(*                                                                         *)
(* LineInv and TalkInv: the lines of a connection are numbered in the      *)
(* order they came, replies follow that order, and the reply being written *)
(* continues the last message at its next piece. ExactInv and ReplyInv say *)
(* it of the whole replies, where each goes into an out_buff that DrainInv *)
(* has emptied, with room for it.                                          *)
(***************************************************************************)
EXTENDS Pop3Server, ManagmentProofs, SequenceTheorems, FiniteSetTheorems

IsMap(f) == f = [c \in Conns |-> f[c]]

(* The functions of a connection, as far as these proofs look into them.   *)
Maps ==
    /\ stm \in [Conns -> States \cup {"NONE"}]
    /\ last_state \in [Conns -> States \cup {"NONE"}]
    /\ session \in [Conns -> Boxes \cup {NoBox}]
    /\ IsMap(phase) /\ IsMap(interest) /\ IsMap(pending)
    /\ IsMap(mails) /\ IsMap(cap) /\ IsMap(deleted)

(* A callback never reads before the greeting or after QUIT: until then,   *)
(* and from then on, the descriptor waits to write.                        *)
OnlyWrites(c) ==
    stm[c] \in {"NONE", "QUIT"} => turn # c /\ (phase[c] = "open" => interest[c] = "WRITE")

(* SessionMatchesState, of one connection.                                 *)
Matches(c) ==
    /\ session[c] # NoBox <=> InTransaction(c)
    /\ session[c] = NoBox =>
         mails[c] = <<>> /\ cap[c] = 0 /\ deleted[c] = {} /\ pending[c] = NoToken
    /\ stm[c] = "ERROR" => last_state[c] \in {"AUTHORIZATION", "TRANSACTION"}

ConnInv(c) == OnlyWrites(c) /\ Matches(c)
SessionInv == Maps /\ turn \in Conns \cup {Idle} /\ \A c \in Conns : ConnInv(c)

LEMMA NoBoxLemma == NoBox \notin Boxes
  BY BoxesAssumption DEF NoBox

LEMMA InitInv == Init => SessionInv
  <1> SUFFICES ASSUME Init
               PROVE  SessionInv
    OBVIOUS
  <1>1. Maps
    BY DEF Init, Maps, IsMap, States
  <1>2. \A c \in Conns : ConnInv(c)
    BY BoxesAssumption DEF Init, ConnInv, OnlyWrites, Matches, InTransaction, Idle
  <1> QED
    BY <1>1, <1>2 DEF Init, SessionInv

----------------------------------------------------------------------------
(* A step of one connection leaves the others alone.                       *)
SameConn(d) ==
    /\ stm'[d] = stm[d] /\ last_state'[d] = last_state[d] /\ session'[d] = session[d]
    /\ phase'[d] = phase[d] /\ interest'[d] = interest[d] /\ pending'[d] = pending[d]
    /\ mails'[d] = mails[d] /\ cap'[d] = cap[d] /\ deleted'[d] = deleted[d]

LEMMA SameConnInv ==
    ASSUME NEW d \in Conns, ConnInv(d), SameConn(d), turn' # d
    PROVE  ConnInv(d)'
  BY DEF ConnInv, OnlyWrites, Matches, InTransaction, SameConn

LEMMA OneConn ==
    ASSUME SessionInv, NEW c \in Conns, Maps', turn' \in {c, Idle}, ConnInv(c)',
           \A d \in Conns \ {c} : SameConn(d)
    PROVE  SessionInv'
  <1>1. ASSUME NEW d \in Conns \ {c}
        PROVE  ConnInv(d)'
    <2>1. turn' # d
      BY BoxesAssumption DEF Idle
    <2> QED
      BY <2>1, SameConnInv DEF SessionInv
  <1> QED
    BY <1>1 DEF SessionInv

(* Steps that touch no connection, or only what these proofs do not use.   *)
LEMMA NothingHere ==
    ASSUME SessionInv,
           UNCHANGED <<stm, last_state, session, phase, interest, pending, mails, cap, deleted>>,
           turn' \in {turn, Idle}
    PROVE  SessionInv'
  BY BoxesAssumption DEF Idle, SessionInv, Maps, IsMap, ConnInv, OnlyWrites, Matches, InTransaction

LEMMA AcceptInv == ASSUME SessionInv, NEW c \in Conns, Accept(c) PROVE SessionInv'
  <1> USE DEF Accept, stmVars, inVars, mailVars, listVars, sockVars
  <1>1. Maps'
    BY DEF SessionInv, Maps, IsMap, Upd
  <1>2. \A d \in Conns \ {c} : SameConn(d)
    BY DEF SessionInv, Maps, IsMap, Upd, SameConn
  <1>3. ConnInv(c)'
    BY DEF SessionInv, Maps, IsMap, Upd, ConnInv, OnlyWrites, Matches, InTransaction
  <1> QED
    BY <1>1, <1>2, <1>3, OneConn DEF SessionInv

LEMMA ClientInv == ASSUME SessionInv, NEW c \in Conns, Client(c) PROVE SessionInv'
  BY NothingHere DEF Client, sockVars, stmVars, inVars, mailVars, listVars

LEMMA OutsideInv ==
    ASSUME SessionInv, (\E b \in Boxes, m \in Mails : Deliver(b, m)) \/ Administer
    PROVE  SessionInv'
  BY NothingHere DEF Deliver, Administer, sockVars, stmVars, inVars, mailVars, listVars

----------------------------------------------------------------------------
(* The command handlers.                                                   *)

(* What a handler leaves to prove: the descriptor waits to write.          *)
LEMMA HandlerStep ==
    ASSUME SessionInv, NEW c \in Conns, WillWrite(c), Matches(c)',
           stm' \in [Conns -> States \cup {"NONE"}],
           last_state' \in [Conns -> States \cup {"NONE"}],
           session' \in [Conns -> Boxes \cup {NoBox}],
           IsMap(pending)', IsMap(mails)', IsMap(cap)', IsMap(deleted)',
           \A d \in Conns \ {c} :
              /\ stm'[d] = stm[d] /\ last_state'[d] = last_state[d] /\ session'[d] = session[d]
              /\ pending'[d] = pending[d] /\ mails'[d] = mails[d] /\ cap'[d] = cap[d]
              /\ deleted'[d] = deleted[d]
    PROVE  SessionInv'
  <1>1. /\ IsMap(phase)' /\ IsMap(interest)'
        /\ \A d \in Conns \ {c} : phase'[d] = phase[d] /\ interest'[d] = interest[d]
        /\ interest'[c] = "WRITE" /\ turn' = Idle
    BY DEF WillWrite, SessionInv, Maps, IsMap, Upd
  <1>2. Maps'
    BY <1>1 DEF Maps
  <1>3. OnlyWrites(c)'
    BY <1>1, BoxesAssumption DEF OnlyWrites, Idle
  <1>4. \A d \in Conns \ {c} : SameConn(d)
    BY <1>1 DEF SameConn
  <1> QED
    BY <1>1, <1>2, <1>3, <1>4, OneConn DEF ConnInv

(* A handler that keeps the session and its listing: it may mark messages  *)
(* or stop in the middle of one only if there is a session.                *)
LEMMA QuietStep ==
    ASSUME SessionInv, NEW c \in Conns, WillWrite(c),
           UNCHANGED <<stm, last_state, session, mails, cap>>,
           IsMap(pending)', IsMap(deleted)',
           \A d \in Conns \ {c} : pending'[d] = pending[d] /\ deleted'[d] = deleted[d],
           session[c] = NoBox => pending'[c] = pending[c] /\ deleted'[c] = deleted[c]
    PROVE  SessionInv'
  <1>1. Matches(c)'
    BY DEF SessionInv, ConnInv, Matches, InTransaction
  <1> QED
    BY <1>1, HandlerStep DEF SessionInv, Maps, IsMap

LEMMA HasSession ==
    ASSUME SessionInv, NEW c \in Conns
    PROVE  stm[c] = "TRANSACTION" => session[c] # NoBox
  BY DEF SessionInv, ConnInv, Matches, InTransaction

LEMMA RetrStep ==
    ASSUME SessionInv, NEW c \in Conns, NEW t, stm[c] = "TRANSACTION", RetrHandler(c, t),
           WillWrite(c)
    PROVE  SessionInv'
  <1>1. UNCHANGED <<stm, last_state, session, mails, cap, deleted>>
    BY DEF RetrHandler, Stays, stmVars, listVars
  <1>2. pending' = pending \/ pending' = Upd(pending, c, NoToken) \/ pending' = Upd(pending, c, t)
    BY DEF RetrHandler, Resumes
  <1>3. IsMap(pending)' /\ \A d \in Conns \ {c} : pending'[d] = pending[d]
    BY <1>2 DEF SessionInv, Maps, IsMap, Upd
  <1> QED
    BY <1>1, <1>3, HasSession, QuietStep DEF SessionInv, Maps, IsMap

LEMMA DeleStep ==
    ASSUME SessionInv, NEW c \in Conns, NEW t, stm[c] = "TRANSACTION", DeleHandler(c, t),
           WillWrite(c)
    PROVE  SessionInv'
  <1>1. UNCHANGED <<stm, last_state, session, mails, cap, pending>>
    BY DEF DeleHandler, Stays, stmVars
  <1>2. deleted' = deleted \/ deleted' = Upd(deleted, c, deleted[c] \cup {t.line.num})
    BY DEF DeleHandler
  <1>3. IsMap(deleted)' /\ \A d \in Conns \ {c} : deleted'[d] = deleted[d]
    BY <1>2 DEF SessionInv, Maps, IsMap, Upd
  <1> QED
    BY <1>1, <1>3, HasSession, QuietStep DEF SessionInv, Maps, IsMap

LEMMA RsetStep ==
    ASSUME SessionInv, NEW c \in Conns, NEW t, RsetHandler(c, t), WillWrite(c)
    PROVE  SessionInv'
  <1>1. UNCHANGED <<stm, last_state, session, mails, cap, pending>> /\ deleted' = Upd(deleted, c, {})
    BY DEF RsetHandler, Stays, stmVars
  <1>2. /\ IsMap(deleted)' /\ deleted'[c] = {}
        /\ \A d \in Conns \ {c} : deleted'[d] = deleted[d]
    BY <1>1 DEF SessionInv, Maps, IsMap, Upd
  <1>3. session[c] = NoBox => deleted[c] = {}
    BY DEF SessionInv, ConnInv, Matches
  <1> QED
    BY <1>1, <1>2, <1>3, QuietStep DEF SessionInv, Maps, IsMap

LEMMA NoopStep ==
    ASSUME SessionInv, NEW c \in Conns, NEW t, stm[c] = "TRANSACTION", NoopHandler(c, t),
           WillWrite(c)
    PROVE  SessionInv'
  <1>1. UNCHANGED <<stm, last_state, session, mails, cap, deleted>> /\ pending' = Upd(pending, c, NoToken)
    BY DEF NoopHandler, Stays, stmVars, mailVars, listVars
  <1>2. IsMap(pending)' /\ \A d \in Conns \ {c} : pending'[d] = pending[d]
    BY <1>1 DEF SessionInv, Maps, IsMap, Upd
  <1> QED
    BY <1>1, <1>2, HasSession, QuietStep DEF SessionInv, Maps, IsMap

(* The handlers that only answer, or note a name.                          *)
LEMMA AnswerStep ==
    ASSUME SessionInv, NEW c \in Conns, NEW t, WillWrite(c),
           UserHandler(c, t) \/ StatHandler(c, t) \/ CapaHandler(c, t) \/ ListHandler(c, t)
    PROVE  SessionInv'
  <1>1. UNCHANGED <<stm, last_state, session, mails, cap, deleted, pending>>
    BY DEF UserHandler, StatHandler, CapaHandler, ListHandler, Stays, stmVars, mailVars, listVars
  <1> QED
    BY <1>1, QuietStep DEF SessionInv, Maps, IsMap

(* The scan of a maildir fills the listing of its connection alone.        *)
LEMMA ScanLemma ==
    ASSUME SessionInv, NEW c \in Conns, NEW b, Scan(c, b)
    PROVE  /\ IsMap(mails)' /\ IsMap(cap)'
           /\ \A d \in Conns \ {c} : mails'[d] = mails[d] /\ cap'[d] = cap[d]
  <1>1. CASE UNCHANGED <<mails, cap>>
    BY <1>1 DEF SessionInv, Maps, IsMap
  <1>2. ASSUME NEW l, mails' = Upd(mails, c, l),
               cap' = cap \/ cap' = Upd(cap, c, max_mails)
        PROVE  /\ IsMap(mails)' /\ IsMap(cap)'
               /\ \A d \in Conns \ {c} : mails'[d] = mails[d] /\ cap'[d] = cap[d]
    BY <1>2 DEF SessionInv, Maps, IsMap, Upd
  <1> QED
    BY <1>1, <1>2 DEF Scan, listVars

(* jump of lib/stm.c.                                                      *)
LEMMA GotoLemma ==
    ASSUME SessionInv, NEW c \in Conns, NEW s \in States, Goto(c, s)
    PROVE  /\ stm' \in [Conns -> States \cup {"NONE"}]
           /\ last_state' \in [Conns -> States \cup {"NONE"}]
           /\ stm'[c] = s /\ last_state'[c] = stm[c]
           /\ \A d \in Conns \ {c} : stm'[d] = stm[d] /\ last_state'[d] = last_state[d]
  BY DEF SessionInv, Maps, Goto, Upd

LEMMA PassStep ==
    ASSUME SessionInv, NEW c \in Conns, NEW t, stm[c] = "AUTHORIZATION", PassHandler(c, t),
           WillWrite(c)
    PROVE  SessionInv'
  <1>1. session[c] = NoBox
    BY DEF SessionInv, ConnInv, Matches, InTransaction
  <1>2. IsMap(deleted)' /\ IsMap(pending)' /\ UNCHANGED <<deleted, pending>>
    BY DEF PassHandler, SessionInv, Maps, IsMap
  <1>3. CASE Stays(c) /\ UNCHANGED listVars /\ (session' = session \/ session' = Upd(session, c, NoBox))
    <2>1. session' = session
      BY <1>1, <1>3 DEF SessionInv, Maps, Upd
    <2> QED
      BY <1>2, <1>3, <2>1, QuietStep DEF Stays, stmVars, listVars
  <1>4. CASE /\ <<mail_directory, name[c]>> \in Boxes
             /\ session' = Upd(session, c, <<mail_directory, name[c]>>)
             /\ Goto(c, "TRANSACTION") /\ Scan(c, <<mail_directory, name[c]>>)
    <2>1. /\ session' \in [Conns -> Boxes \cup {NoBox}] /\ session'[c] # NoBox
          /\ \A d \in Conns \ {c} : session'[d] = session[d]
      BY <1>4, NoBoxLemma DEF SessionInv, Maps, Upd
    <2>2. /\ stm' \in [Conns -> States \cup {"NONE"}] /\ stm'[c] = "TRANSACTION"
          /\ last_state' \in [Conns -> States \cup {"NONE"}]
          /\ \A d \in Conns \ {c} : stm'[d] = stm[d] /\ last_state'[d] = last_state[d]
      BY <1>4, GotoLemma DEF States
    <2>3. /\ IsMap(mails)' /\ IsMap(cap)'
          /\ \A d \in Conns \ {c} : mails'[d] = mails[d] /\ cap'[d] = cap[d]
      BY <1>4, ScanLemma
    <2>4. Matches(c)'
      BY <2>1, <2>2 DEF Matches, InTransaction
    <2> QED
      BY <1>2, <2>1, <2>2, <2>3, <2>4, HandlerStep
  <1> QED
    BY <1>3, <1>4 DEF PassHandler

LEMMA QuitStep ==
    ASSUME SessionInv, NEW c \in Conns, NEW t, pending[c] = NoToken, QuitHandler(c, t),
           WillWrite(c)
    PROVE  SessionInv'
  <1>1. IsMap(pending)' /\ UNCHANGED pending
    BY DEF QuitHandler, SessionInv, Maps, IsMap
  <1>2. CASE /\ stm[c] = "AUTHORIZATION" /\ Goto(c, "QUIT")
             /\ UNCHANGED <<session, mails, cap, deleted>>
    <2>1. Matches(c)'
      BY <1>1, <1>2, GotoLemma DEF SessionInv, ConnInv, Matches, InTransaction, States
    <2> QED
      BY <1>1, <1>2, <2>1, GotoLemma, HandlerStep DEF SessionInv, Maps, IsMap, States
  <1>3. CASE /\ stm[c] = "TRANSACTION" /\ Goto(c, "AUTHORIZATION")
             /\ session' = Upd(session, c, NoBox) /\ mails' = Upd(mails, c, <<>>)
             /\ cap' = Upd(cap, c, 0) /\ deleted' = Upd(deleted, c, {})
    <2>1. /\ session' \in [Conns -> Boxes \cup {NoBox}]
          /\ session'[c] = NoBox /\ mails'[c] = <<>> /\ cap'[c] = 0 /\ deleted'[c] = {}
          /\ \A d \in Conns \ {c} : /\ session'[d] = session[d] /\ mails'[d] = mails[d]
                                    /\ cap'[d] = cap[d] /\ deleted'[d] = deleted[d]
          /\ IsMap(mails)' /\ IsMap(cap)' /\ IsMap(deleted)'
      BY <1>3 DEF SessionInv, Maps, IsMap, Upd
    <2>2. Matches(c)'
      BY <1>1, <1>3, <2>1, GotoLemma DEF Matches, InTransaction, States
    <2> QED
      BY <1>1, <1>3, <2>1, <2>2, GotoLemma, HandlerStep DEF States
  <1>4. CASE /\ stm[c] = "TRANSACTION" /\ Goto(c, "ERROR")
             /\ UNCHANGED <<session, mails, cap, deleted>>
    <2>1. Matches(c)'
      BY <1>1, <1>4, GotoLemma DEF SessionInv, ConnInv, Matches, InTransaction, States
    <2> QED
      BY <1>1, <1>4, <2>1, GotoLemma, HandlerStep DEF SessionInv, Maps, IsMap, States
  <1> QED
    BY <1>2, <1>3, <1>4 DEF QuitHandler

LEMMA RejectedStep ==
    ASSUME SessionInv, NEW c \in Conns, stm[c] \in {"AUTHORIZATION", "TRANSACTION"},
           Rejected(c), WillWrite(c)
    PROVE  SessionInv'
  <1>1. UNCHANGED <<session, mails, cap, deleted, pending>>
    BY DEF Rejected, mailVars, listVars
  <1>2. Goto(c, "ERROR")
    BY DEF Rejected
  <1>3. Matches(c)'
    BY <1>1, <1>2, GotoLemma DEF SessionInv, ConnInv, Matches, InTransaction, States
  <1> QED
    BY <1>1, <1>2, <1>3, GotoLemma, HandlerStep DEF SessionInv, Maps, IsMap, States

----------------------------------------------------------------------------
(* handle_read.                                                            *)

LEMMA ReadingState ==
    ASSUME SessionInv, NEW c \in Conns, CallsRead(c)
    PROVE  stm[c] \in {"AUTHORIZATION", "TRANSACTION", "ERROR"}
  <1>1. stm[c] \in {"AUTHORIZATION", "TRANSACTION", "ERROR", "QUIT", "NONE"}
    BY DEF SessionInv, Maps, States
  <1>2. stm[c] \notin {"QUIT", "NONE"}
    BY DEF SessionInv, ConnInv, OnlyWrites, CallsRead
  <1> QED
    BY <1>1, <1>2

(* The states that the table names for a command.                          *)
LEMMA KnownLemma ==
    ASSUME NEW c \in Conns, NEW l, Known(c, l)
    PROVE  /\ l.verb = "PASS" => stm[c] = "AUTHORIZATION"
           /\ l.verb \in {"RETR", "DELE", "NOOP"} => stm[c] = "TRANSACTION"
  BY DEF Known, Table

LEMMA ReadLineInv == ASSUME SessionInv, NEW c \in Conns, ReadLine(c) PROVE SessionInv'
  <1>1. stm[c] \in {"AUTHORIZATION", "TRANSACTION"} /\ pending[c] = NoToken /\ WillWrite(c)
    BY ReadingState DEF ReadLine
  <1>2. PICK t : \/ Known(c, t.line) /\ Handler(c, t)
                 \/ ~Known(c, t.line) /\ Rejected(c)
    BY DEF ReadLine
  <1>3. ASSUME Known(c, t.line), Handler(c, t)
        PROVE  SessionInv'
    <2>1. /\ t.line.verb = "PASS" => stm[c] = "AUTHORIZATION"
          /\ t.line.verb \in {"RETR", "DELE", "NOOP"} => stm[c] = "TRANSACTION"
      BY <1>3, KnownLemma
    <2>2. CASE UserHandler(c, t) \/ StatHandler(c, t) \/ CapaHandler(c, t) \/ ListHandler(c, t)
      BY <2>2, <1>1, AnswerStep
    <2>3. CASE t.line.verb = "PASS" /\ PassHandler(c, t)
      BY <2>1, <2>3, <1>1, PassStep
    <2>4. CASE t.line.verb = "RETR" /\ RetrHandler(c, t)
      BY <2>1, <2>4, <1>1, RetrStep
    <2>5. CASE t.line.verb = "DELE" /\ DeleHandler(c, t)
      BY <2>1, <2>5, <1>1, DeleStep
    <2>6. CASE t.line.verb = "NOOP" /\ NoopHandler(c, t)
      BY <2>1, <2>6, <1>1, NoopStep
    <2>7. CASE RsetHandler(c, t)
      BY <2>7, <1>1, RsetStep
    <2>8. CASE QuitHandler(c, t)
      BY <2>8, <1>1, QuitStep
    <2> QED
      BY <1>3, <2>2, <2>3, <2>4, <2>5, <2>6, <2>7, <2>8 DEF Handler
  <1> QED
    BY <1>1, <1>2, <1>3, RejectedStep

LEMMA ReadResumesInv == ASSUME SessionInv, NEW c \in Conns, ReadResumes(c) PROVE SessionInv'
  <1>1. stm[c] \in {"AUTHORIZATION", "TRANSACTION"} /\ pending[c] # NoToken /\ WillWrite(c)
    BY ReadingState DEF ReadResumes
  <1>2. stm[c] = "TRANSACTION"
    BY <1>1 DEF SessionInv, ConnInv, Matches, InTransaction
  <1> QED
    BY <1>1, <1>2, RetrStep DEF ReadResumes

(* The connection is gone: nothing of it but its socket changes.           *)
LEMMA UnregisterInv ==
    ASSUME SessionInv, NEW c \in Conns, Unregister(c), Maps', Matches(c)',
           \A d \in Conns \ {c} :
              /\ stm'[d] = stm[d] /\ last_state'[d] = last_state[d] /\ session'[d] = session[d]
              /\ pending'[d] = pending[d] /\ mails'[d] = mails[d] /\ cap'[d] = cap[d]
              /\ deleted'[d] = deleted[d]
    PROVE  SessionInv'
  <1>1. /\ phase'[c] = "closed" /\ turn' = Idle
        /\ \A d \in Conns \ {c} : phase'[d] = phase[d] /\ interest'[d] = interest[d]
    BY DEF Unregister, SessionInv, Maps, IsMap, Upd
  <1>2. OnlyWrites(c)'
    BY <1>1, BoxesAssumption DEF OnlyWrites, Idle
  <1>3. \A d \in Conns \ {c} : SameConn(d)
    BY <1>1 DEF SameConn
  <1> QED
    BY <1>1, <1>2, <1>3, OneConn DEF ConnInv

LEMMA ReadEndsInv == ASSUME SessionInv, NEW c \in Conns, ReadEnds(c) PROVE SessionInv'
  <1>1. UNCHANGED <<stm, last_state, session, mails, cap, deleted, pending>> /\ Unregister(c)
    BY DEF ReadEnds, stmVars, inVars, mailVars, listVars
  <1>2. Maps'
    BY <1>1 DEF SessionInv, Maps, IsMap, Unregister, Upd
  <1>3. Matches(c)'
    BY <1>1 DEF SessionInv, ConnInv, Matches, InTransaction
  <1> QED
    BY <1>1, <1>2, <1>3, UnregisterInv

LEMMA ReadInv == ASSUME SessionInv, NEW c \in Conns, Read(c) PROVE SessionInv'
  <1>1. CASE ReadFails(c) \/ ReadPartial(c) \/ ReadInError(c)
    BY <1>1, NothingHere
    DEF ReadFails, ReadPartial, ReadInError, sockVars, stmVars, inVars, mailVars, listVars
  <1> QED
    BY <1>1, ReadEndsInv, ReadLineInv, ReadResumesInv DEF Read

----------------------------------------------------------------------------
(* handle_write.                                                           *)

(* What stm_handler_write does to the connection: it never enters QUIT and *)
(* never returns to the state before the greeting.                         *)
LEMMA StmWriteLemma ==
    ASSUME SessionInv, NEW c \in Conns, StmWrite(c), UNCHANGED <<session, deleted, pending>>
    PROVE  /\ stm' \in [Conns -> States \cup {"NONE"}]
           /\ last_state' \in [Conns -> States \cup {"NONE"}]
           /\ IsMap(mails)' /\ IsMap(cap)'
           /\ \A d \in Conns \ {c} : /\ stm'[d] = stm[d] /\ last_state'[d] = last_state[d]
                                     /\ mails'[d] = mails[d] /\ cap'[d] = cap[d]
           /\ Matches(c)'
           /\ stm'[c] # "NONE" /\ (stm'[c] = "QUIT" => stm[c] = "QUIT")
  <1>1. CASE /\ stm[c] = "NONE" /\ stm' = Upd(stm, c, "AUTHORIZATION")
             /\ last_state' = Upd(last_state, c, "AUTHORIZATION") /\ UNCHANGED listVars
    BY <1>1
    DEF SessionInv, Maps, IsMap, Upd, ConnInv, Matches, InTransaction, listVars, States
  <1>2. CASE ErrorFits(c) /\ Goto(c, last_state[c])
    <2>1. stm[c] = "ERROR" /\ last_state[c] \in {"AUTHORIZATION", "TRANSACTION"}
      BY <1>2 DEF ErrorFits, SessionInv, ConnInv, Matches
    <2>2. /\ stm' \in [Conns -> States \cup {"NONE"}] /\ stm'[c] = last_state[c]
          /\ last_state' \in [Conns -> States \cup {"NONE"}]
          /\ \A d \in Conns \ {c} : stm'[d] = stm[d] /\ last_state'[d] = last_state[d]
      BY <1>2, <2>1, GotoLemma DEF States
    <2>3. /\ IsMap(mails)' /\ IsMap(cap)'
          /\ \A d \in Conns \ {c} : mails'[d] = mails[d] /\ cap'[d] = cap[d]
          /\ last_state[c] = "AUTHORIZATION" => UNCHANGED <<mails, cap>>
      <3>1. CASE Scan(c, session[c]) /\ last_state[c] = "TRANSACTION"
        BY <3>1, ScanLemma
      <3>2. CASE UNCHANGED listVars
        BY <3>2 DEF listVars, SessionInv, Maps, IsMap
      <3> QED
        BY <1>2, <2>1, <3>1, <3>2 DEF StmWrite, ErrorFits
    <2>4. Matches(c)'
      BY <2>1, <2>2, <2>3 DEF SessionInv, ConnInv, Matches, InTransaction
    <2> QED
      BY <2>1, <2>2, <2>3, <2>4
  <1>3. CASE stm[c] # "NONE" /\ UNCHANGED <<stmVars, listVars>>
    BY <1>3
    DEF SessionInv, Maps, IsMap, ConnInv, Matches, InTransaction, stmVars, listVars
  <1> QED
    BY <1>1, <1>2, <1>3 DEF StmWrite

LEMMA WriteSendsInv == ASSUME SessionInv, NEW c \in Conns, WriteSends(c) PROVE SessionInv'
  <1>1. UNCHANGED <<session, deleted, pending>> /\ StmWrite(c) /\ IsMap(deleted)' /\ IsMap(pending)'
    BY DEF WriteSends, writeFrame, inVars, SessionInv, Maps, IsMap
  <1>2. CASE stm[c] = "QUIT" /\ Unregister(c)
    <2>1. Maps'
      BY <1>1, <1>2, StmWriteLemma DEF SessionInv, Maps, IsMap, Unregister, Upd
    <2> QED
      BY <1>1, <1>2, <2>1, StmWriteLemma, UnregisterInv
  <1>3. ASSUME NEW i, stm[c] # "QUIT", interest' = Upd(interest, c, i), turn' \in {c, Idle},
               UNCHANGED phase
        PROVE  SessionInv'
    <2>1. Maps' /\ \A d \in Conns \ {c} : interest'[d] = interest[d]
      BY <1>1, <1>3, StmWriteLemma DEF SessionInv, Maps, IsMap, Upd
    <2>2. ConnInv(c)'
      BY <1>1, <1>3, StmWriteLemma DEF ConnInv, OnlyWrites
    <2>3. \A d \in Conns \ {c} : SameConn(d)
      BY <1>1, <1>3, <2>1, StmWriteLemma DEF SameConn
    <2> QED
      BY <1>3, <2>1, <2>2, <2>3, OneConn
  <1> QED
    BY <1>2, <1>3 DEF WriteSends, AfterSend

LEMMA WriteFailsInv == ASSUME SessionInv, NEW c \in Conns, WriteFails(c) PROVE SessionInv'
  <1>1. /\ UNCHANGED <<session, deleted, pending>> /\ StmWrite(c) /\ Unregister(c)
        /\ IsMap(deleted)' /\ IsMap(pending)'
    BY DEF WriteFails, writeFrame, inVars, SessionInv, Maps, IsMap
  <1>2. Maps'
    BY <1>1, StmWriteLemma DEF SessionInv, Maps, IsMap, Unregister, Upd
  <1> QED
    BY <1>1, <1>2, StmWriteLemma, UnregisterInv

LEMMA WriteDiesInv == ASSUME SessionInv, NEW c \in Conns, WriteDies(c) PROVE SessionInv'
  BY NothingHere DEF WriteDies, writeFrame, sockVars, stmVars, inVars, listVars

----------------------------------------------------------------------------
LEMMA NextInv == SessionInv /\ [Next]_vars => SessionInv'
  <1> SUFFICES ASSUME SessionInv, [Next]_vars
               PROVE  SessionInv'
    OBVIOUS
  <1>1. ASSUME NEW c \in Conns, Accept(c) \/ Client(c) \/ Serve(c)
        PROVE  SessionInv'
    BY <1>1, AcceptInv, ClientInv, ReadInv, WriteSendsInv, WriteFailsInv, WriteDiesInv
    DEF Serve, Write
  <1>2. CASE (\E b \in Boxes, m \in Mails : Deliver(b, m)) \/ Administer
    BY <1>2, OutsideInv
  <1>3. CASE UNCHANGED vars
    BY <1>3, NothingHere DEF vars, sockVars, stmVars, inVars, mailVars, listVars
  <1> QED
    BY <1>1, <1>2, <1>3 DEF Next

LEMMA SpecInv == Spec => []SessionInv
  BY InitInv, NextInv, PTL DEF Spec

(* A maildir is held exactly while stm is in TRANSACTION, or in an ERROR   *)
(* that goes back to it; without one there is no listing, no mark and no   *)
(* message half sent; and an ERROR always has a state to go back to.       *)
THEOREM SessionsMatchStates == Spec => []SessionMatchesState
  <1>1. SessionInv => SessionMatchesState
    BY DEF SessionInv, ConnInv, Matches, SessionMatchesState
  <1> QED
    BY SpecInv, <1>1, PTL

----------------------------------------------------------------------------
(* The mail files.                                                         *)

FilesMap == files = [b \in Boxes |-> files[b]]

LEMMA SameFiles ==
    ASSUME FilesMap, UNCHANGED files
    PROVE  FilesMap' /\ OnlyQuitRemoves
  BY DEF FilesMap, OnlyQuitRemoves

LEMMA DeliverFiles ==
    ASSUME FilesMap, NEW b \in Boxes, NEW m \in Mails, Deliver(b, m)
    PROVE  FilesMap' /\ OnlyQuitRemoves
  BY DEF FilesMap, OnlyQuitRemoves, Deliver

LEMMA QuitFiles ==
    ASSUME SessionInv, FilesMap, NEW c \in Conns, NEW t, QuitHandler(c, t)
    PROVE  FilesMap' /\ OnlyQuitRemoves
  <1>1. CASE UNCHANGED files
    BY <1>1, SameFiles
  <1>2. CASE /\ stm[c] = "TRANSACTION" /\ Goto(c, "AUTHORIZATION")
             /\ files' = [files EXCEPT ![session[c]] = @ \ Marked(c)]
             /\ session' = Upd(session, c, NoBox)
    <2>1. session[c] \in Boxes
      BY <1>2, HasSession DEF SessionInv, Maps
    <2>2. session'[c] = NoBox /\ stm'[c] = "AUTHORIZATION"
      BY <1>2, GotoLemma DEF SessionInv, Maps, Upd, States
    <2>3. ASSUME NEW b \in Boxes, NEW m \in files[b] \ files'[b]
          PROVE  b = session[c] /\ m \in Marked(c)
      BY <1>2, <2>1, <2>3 DEF FilesMap
    <2>4. ASSUME NEW m \in Marked(c)
          PROVE  \E i \in deleted[c] : mails[c][i] = m
      BY <2>4 DEF Marked
    <2>5. OnlyQuitRemoves
      BY <2>2, <2>3, <2>4 DEF OnlyQuitRemoves
    <2>6. FilesMap'
      BY <1>2, <2>1 DEF FilesMap
    <2> QED
      BY <2>5, <2>6
  <1> QED
    BY <1>1, <1>2 DEF QuitHandler

LEMMA ReadLineFiles ==
    ASSUME SessionInv, FilesMap, NEW c \in Conns, ReadLine(c)
    PROVE  FilesMap' /\ OnlyQuitRemoves
  <1>1. PICK t : Handler(c, t) \/ Rejected(c)
    BY DEF ReadLine
  <1>2. CASE UNCHANGED files
    BY <1>2, SameFiles
  <1>3. CASE QuitHandler(c, t)
    BY <1>3, QuitFiles
  <1> QED
    BY <1>1, <1>2, <1>3
    DEF Handler, Rejected, UserHandler, PassHandler, StatHandler, ListHandler, RetrHandler,
        DeleHandler, NoopHandler, RsetHandler, CapaHandler

LEMMA ServeFiles ==
    ASSUME SessionInv, FilesMap, NEW c \in Conns, Serve(c)
    PROVE  FilesMap' /\ OnlyQuitRemoves
  <1>1. CASE UNCHANGED files
    BY <1>1, SameFiles
  <1>2. CASE ReadEnds(c) \/ ReadFails(c) \/ ReadPartial(c) \/ ReadInError(c)
    BY <1>1, <1>2 DEF ReadEnds, ReadFails, ReadPartial, ReadInError, dirVars
  <1>3. CASE ReadResumes(c)
    BY <1>1, <1>3 DEF ReadResumes, RetrHandler
  <1>4. CASE Write(c)
    BY <1>1, <1>4 DEF Write, WriteSends, WriteFails, WriteDies, writeFrame, dirVars
  <1> QED
    BY <1>2, <1>3, <1>4, ReadLineFiles DEF Serve, Read

LEMMA NextFiles == SessionInv /\ FilesMap /\ [Next]_vars => FilesMap' /\ [OnlyQuitRemoves]_vars
  <1> SUFFICES ASSUME SessionInv, FilesMap, [Next]_vars
               PROVE  FilesMap' /\ OnlyQuitRemoves
    OBVIOUS
  <1>1. CASE UNCHANGED files
    BY <1>1, SameFiles
  <1>2. ASSUME NEW c \in Conns, Accept(c) \/ Client(c)
        PROVE  UNCHANGED files
    BY <1>2 DEF Accept, Client, dirVars
  <1>3. CASE Administer \/ UNCHANGED vars
    BY <1>1, <1>3 DEF Administer, vars, dirVars
  <1> QED
    BY <1>1, <1>2, <1>3, DeliverFiles, ServeFiles DEF Next

LEMMA InitFiles == Init => FilesMap
  BY BoxesAssumption DEF Init, FilesMap

(* No connection that is lost, no other session, no delivery and no change *)
(* of the configuration removes a mail file: only the QUIT of a session    *)
(* that listed the file and marked it, and that ends with it.              *)
THEOREM MailIsSafe == Spec => MailSafety
  <1>1. SessionInv /\ FilesMap /\ [Next]_vars => [OnlyQuitRemoves]_vars
    BY NextFiles
  <1>2. Spec => []FilesMap
    BY InitFiles, NextFiles, SpecInv, PTL DEF Spec
  <1>3. Spec => [][OnlyQuitRemoves]_vars
    BY <1>1, <1>2, SpecInv, PTL DEF Spec
  <1> QED
    BY <1>3 DEF MailSafety
----------------------------------------------------------------------------
(* The listing, the buffers and the types of everything.                   *)

(* ListingFits, of one connection.                                         *)
Fits(c) ==
    /\ Len(mails[c]) <= cap[c]
    /\ deleted[c] \subseteq DOMAIN mails[c]
    /\ pending[c] # NoToken =>
         pending[c].line.num \in DOMAIN mails[c] /\ ridx[c] <= Size[mails[c][pending[c].line.num]]
    /\ pending[c] = NoToken => ridx[c] = 0

ListInv ==
    /\ mails \in [Conns -> Seq(Mails)]
    /\ cap \in [Conns -> Nat]
    /\ deleted \in [Conns -> SUBSET Nat]
    /\ counted \in [Conns -> [Mails -> Int]]
    /\ ridx \in [Conns -> Nat]
    /\ pending \in [Conns -> Token \cup {NoToken}]
    /\ \A c \in Conns : Fits(c)

(* The greeting is the first that out_buff is given.                       *)
OutInv ==
    /\ out \in [Conns -> Seq(Unit)]
    /\ outw \in [Conns -> 0 .. BUFFER_SIZE]
    /\ got \in [Conns -> Seq(Unit)]
    /\ \A c \in Conns : Len(out[c]) <= outw[c]
    /\ \A c \in Conns : stm[c] = "NONE" => outw[c] = 0

InInv ==
    /\ inb \in [Conns -> Seq(Token)]
    /\ rcv \in [Conns -> Seq(Token)]
    /\ served \in [Conns -> 0 .. MaxLines]

(* No line is sent that is not in the script.                              *)
PeerInv ==
    /\ script \in [Conns -> Scripts]
    /\ sent \in [Conns -> Nat]
    /\ \A c \in Conns : sent[c] <= Len(script[c])
    /\ half \in [Conns -> BOOLEAN]
    /\ peer \in [Conns -> {"open", "shut", "reset", "broken"}]

SockInv ==
    /\ phase \in [Conns -> {"new", "open", "closed"}]
    /\ interest \in [Conns -> {"NOOP", "READ", "WRITE"}]

DirInv ==
    /\ files \in [Boxes -> SUBSET Mails]
    /\ arriving \subseteq Arriving

NameInv == name \in [Conns -> Names \cup {Empty}]

DataInv == AdminTypeOK /\ ListInv /\ OutInv /\ InInv /\ PeerInv /\ SockInv /\ DirInv /\ NameInv

(* Of a script there is a line to send, or none.                           *)
LEMMA ScriptLemma ==
    ASSUME NEW s \in Scripts
    PROVE  s \in Seq(Line) /\ Len(s) \in 0 .. MaxLines
  <1>1. PICK n \in 0 .. MaxLines : s \in [1 .. n -> Line]
    BY ScriptsAssumption
  <1> QED
    BY <1>1, SizesAssumption

LEMMA UnitLemma ==
    ASSUME NEW n \in 0 .. MaxLines, NEW kind \in Kinds, NEW i \in Nat
    PROVE  /\ U(n, kind, i) \in Unit
           /\ \A m \in Mails : [n |-> n, kind |-> kind, i |-> i, m |-> m] \in Unit
  BY DEF U, Unit

LEMMA InitData == Init => DataInv
  <1> SUFFICES ASSUME Init
               PROVE  DataInv
    OBVIOUS
  <1>1. AdminTypeOK
    BY InitType DEF Init
  <1>2. ListInv
    <2>1. \A c \in Conns : Fits(c)
      BY DEF Init, Fits
    <2> QED
      BY <2>1 DEF Init, ListInv
  <1>3. OutInv
    BY SizesAssumption DEF Init, OutInv
  <1>4. InInv
    BY SizesAssumption DEF Init, InInv
  <1>5. PeerInv
    <2>1. \A c \in Conns : 0 <= Len(script[c])
      BY ScriptLemma DEF Init
    <2> QED
      BY <2>1 DEF Init, PeerInv
  <1>6. SockInv /\ NameInv
    BY DEF Init, SockInv, NameInv
  <1>7. DirInv
    BY BoxesAssumption DEF Init, DirInv
  <1> QED
    BY <1>1, <1>2, <1>3, <1>4, <1>5, <1>6, <1>7 DEF DataInv

(* What a step does not touch stays as it is.                              *)
LEMMA ListSame ==
    ASSUME ListInv, UNCHANGED <<listVars, deleted, ridx, pending>>
    PROVE  ListInv'
  BY DEF ListInv, Fits, listVars

LEMMA OutSame ==
    ASSUME OutInv, UNCHANGED <<outVars, got, stm>>
    PROVE  OutInv'
  BY DEF OutInv, outVars

LEMMA RestSame ==
    ASSUME DataInv
    PROVE  /\ UNCHANGED <<inb, rcv, served>> => InInv'
           /\ UNCHANGED peerVars => PeerInv'
           /\ UNCHANGED sockVars => SockInv'
           /\ UNCHANGED dirVars => DirInv'
           /\ UNCHANGED name => NameInv'
           /\ UNCHANGED adminVars => AdminTypeOK'
           /\ UNCHANGED tableVars /\ up' \in BOOLEAN => AdminTypeOK'
  BY DEF DataInv, InInv, PeerInv, SockInv, DirInv, NameInv, AdminTypeOK,
         peerVars, sockVars, dirVars, adminVars, tableVars

----------------------------------------------------------------------------
(* Outside of the server.                                                  *)

LEMMA AcceptData == ASSUME DataInv, NEW c \in Conns, Accept(c) PROVE DataInv'
  <1>1. SockInv'
    BY DEF DataInv, SockInv, Accept, Upd
  <1>2. ListInv' /\ OutInv'
    BY ListSame, OutSame DEF DataInv, Accept, mailVars, inVars, stmVars
  <1>3. InInv' /\ PeerInv' /\ DirInv' /\ NameInv' /\ AdminTypeOK'
    BY RestSame DEF Accept, inVars, mailVars
  <1> QED
    BY <1>1, <1>2, <1>3 DEF DataInv

LEMMA ArrivesData ==
    ASSUME DataInv, NEW c \in Conns, NEW part \in {"all", "beg", "end"}, Connected(c),
           Arrives(c, part)
    PROVE  /\ rcv' \in [Conns -> Seq(Token)]
           /\ sent[c] \in Nat /\ sent[c] + 1 <= Len(script[c]) /\ script[c] \in Scripts
  <1>1. script[c] \in Scripts /\ sent[c] \in Nat /\ sent[c] + 1 <= Len(script[c])
    <2>1. script[c] \in Scripts /\ sent[c] \in Nat /\ sent[c] < Len(script[c])
      BY DEF DataInv, PeerInv, Connected
    <2> QED
      BY <2>1, ScriptLemma
  <1>2. sent[c] + 1 \in 1 .. MaxLines /\ script[c][sent[c] + 1] \in Line
    BY <1>1, ScriptLemma, SizesAssumption
  <1>3. [n |-> sent[c] + 1, line |-> script[c][sent[c] + 1], part |-> part] \in Token
    BY <1>2 DEF Token
  <1>4. rcv' \in [Conns -> Seq(Token)]
    BY <1>3, AppendProperties DEF DataInv, InInv, Arrives, Upd
  <1> QED
    BY <1>1, <1>4

LEMMA LineSent ==
    ASSUME DataInv, NEW c \in Conns, sent[c] + 1 <= Len(script[c]),
           sent' = Upd(sent, c, sent[c] + 1), UNCHANGED <<script, peer>>,
           half' \in [Conns -> BOOLEAN]
    PROVE  PeerInv'
  <1>1. sent' \in [Conns -> Nat]
    BY DEF DataInv, PeerInv, Upd
  <1>2. \A d \in Conns : sent'[d] = IF d = c THEN sent[c] + 1 ELSE sent[d]
    BY DEF DataInv, PeerInv, Upd
  <1>3. \A d \in Conns : sent'[d] <= Len(script'[d])
    BY <1>2 DEF DataInv, PeerInv
  <1> QED
    BY <1>1, <1>3 DEF DataInv, PeerInv

LEMMA ClientData == ASSUME DataInv, NEW c \in Conns, Client(c) PROVE DataInv'
  <1>1. ListInv' /\ OutInv'
    BY ListSame, OutSame DEF DataInv, Client, mailVars, inVars, stmVars
  <1>2. SockInv' /\ DirInv' /\ NameInv' /\ AdminTypeOK'
    BY RestSame DEF Client, mailVars
  <1>3. InInv' /\ PeerInv'
    <2>1. CASE SendLine(c)
      <3>1. /\ rcv' \in [Conns -> Seq(Token)]
            /\ sent[c] \in Nat /\ sent[c] + 1 <= Len(script[c])
        BY <2>1, ArrivesData DEF SendLine
      <3>2. PeerInv'
        BY <2>1, <3>1, LineSent DEF SendLine, DataInv, PeerInv
      <3> QED
        BY <3>1, <3>2 DEF Client, DataInv, InInv, inVars
    <2>2. CASE SendHead(c)
      <3>1. rcv' \in [Conns -> Seq(Token)]
        BY <2>2, ArrivesData DEF SendHead
      <3> QED
        BY <2>2, <3>1 DEF SendHead, Client, DataInv, InInv, PeerInv, inVars, Upd
    <2>3. CASE SendRest(c)
      <3>1. /\ rcv' \in [Conns -> Seq(Token)]
            /\ sent[c] \in Nat /\ sent[c] + 1 <= Len(script[c])
        BY <2>3, ArrivesData DEF SendRest
      <3>2. half' \in [Conns -> BOOLEAN]
        BY <2>3 DEF SendRest, DataInv, PeerInv, Upd
      <3>3. PeerInv'
        BY <2>3, <3>1, <3>2, LineSent DEF SendRest
      <3> QED
        BY <3>1, <3>3 DEF Client, DataInv, InInv, inVars
    <2>4. CASE Leave(c)
      <3>1. UNCHANGED <<rcv, sent, half, script, inb, served>>
        BY <2>4 DEF Leave, Client, inVars
      <3>2. peer' \in [Conns -> {"open", "shut", "reset", "broken"}]
        BY <2>4 DEF Leave, DataInv, PeerInv, Upd
      <3> QED
        BY <3>1, <3>2 DEF DataInv, InInv, PeerInv
    <2> QED
      BY <2>1, <2>2, <2>3, <2>4 DEF Client
  <1> QED
    BY <1>1, <1>2, <1>3 DEF DataInv

LEMMA DeliverData ==
    ASSUME DataInv, NEW b \in Boxes, NEW m \in Mails, Deliver(b, m)
    PROVE  DataInv'
  <1>1. ListInv' /\ OutInv'
    BY ListSame, OutSame DEF DataInv, Deliver, mailVars, inVars, stmVars
  <1>2. InInv' /\ PeerInv' /\ SockInv' /\ NameInv' /\ AdminTypeOK'
    BY RestSame DEF Deliver, mailVars, inVars
  <1>3. DirInv'
    BY DEF Deliver, DataInv, DirInv
  <1> QED
    BY <1>1, <1>2, <1>3 DEF DataInv

LEMMA AdministerData == ASSUME DataInv, Administer PROVE DataInv'
  <1>1. ListInv' /\ OutInv'
    BY ListSame, OutSame DEF DataInv, Administer, mailVars, inVars, stmVars
  <1>2. InInv' /\ PeerInv' /\ SockInv' /\ NameInv' /\ DirInv'
    BY RestSame DEF Administer, mailVars, inVars
  <1>3. AdminTypeOK'
    BY RequestType DEF Administer, AdminNext, DataInv
  <1> QED
    BY <1>1, <1>2, <1>3 DEF DataInv

----------------------------------------------------------------------------
(* What the handlers write.                                                *)

LEMMA RoomLemma ==
    ASSUME DataInv, NEW c \in Conns
    PROVE  Room(c) \in 0 .. BUFFER_SIZE /\ outw[c] \in Nat
  BY SizesAssumption DEF DataInv, OutInv, Room

(* As much of a reply as fits, behind what is in out_buff.                 *)
LEMMA PutData ==
    ASSUME DataInv, NEW c \in Conns, NEW us \in Seq(Unit), Put(c, us), UNCHANGED got,
           stm'[c] # "NONE", \A d \in Conns \ {c} : stm'[d] = stm[d]
    PROVE  OutInv'
  <1> DEFINE k == Least(Room(c), Len(us))
             taken == SubSeq(us, 1, k)
  <1>1. Room(c) = BUFFER_SIZE - outw[c] /\ outw[c] \in 0 .. BUFFER_SIZE /\ Room(c) \in Nat
    BY SizesAssumption DEF DataInv, OutInv, Room
  <1>2. Len(us) \in Nat /\ k \in Nat /\ k <= Room(c) /\ k <= Len(us)
    BY <1>1 DEF Least
  <1>3. taken \in Seq(Unit) /\ Len(taken) = k
    <2> HIDE DEF k
    <2>1. \A i \in 1 .. k : us[i] \in Unit
      BY <1>2, ElementOfSeq
    <2> QED
      BY <1>2, <2>1, SubSeqProperties
  <1>4. out' = Upd(out, c, out[c] \o taken) /\ outw' = Upd(outw, c, outw[c] + k)
    BY DEF Put
  <1> HIDE DEF k, taken
  <1>5. out[c] \in Seq(Unit) /\ Len(out[c]) <= outw[c]
    BY DEF DataInv, OutInv
  <1>6. out[c] \o taken \in Seq(Unit) /\ Len(out[c] \o taken) = Len(out[c]) + k
    BY <1>3, <1>5, ConcatProperties
  <1>7. outw[c] + k \in 0 .. BUFFER_SIZE /\ Len(out[c] \o taken) <= outw[c] + k
    BY <1>1, <1>2, <1>5, <1>6, LenProperties, SizesAssumption
  <1>8. out' \in [Conns -> Seq(Unit)] /\ outw' \in [Conns -> 0 .. BUFFER_SIZE]
    BY <1>4, <1>6, <1>7 DEF DataInv, OutInv, Upd
  <1>9. \A d \in Conns : IF d = c THEN out'[d] = out[c] \o taken /\ outw'[d] = outw[c] + k
                                  ELSE out'[d] = out[d] /\ outw'[d] = outw[d]
    BY <1>4 DEF DataInv, OutInv, Upd
  <1>10. \A d \in Conns : Len(out'[d]) <= outw'[d] /\ (stm'[d] = "NONE" => outw'[d] = 0)
    BY <1>7, <1>9 DEF DataInv, OutInv
  <1> QED
    BY <1>8, <1>10 DEF DataInv, OutInv

LEMMA NoPutData ==
    ASSUME DataInv, NEW c \in Conns, UNCHANGED <<outVars, got>>,
           stm'[c] # "NONE", \A d \in Conns \ {c} : stm'[d] = stm[d]
    PROVE  OutInv'
  BY DEF DataInv, OutInv, outVars

Puts(c) == \E us \in Seq(Unit) : Put(c, us)

(* The units s, and then the units w.                                      *)
Joins(v, s, w) == v = s \o w

LEMMA JoinLemma ==
    ASSUME NEW s \in Seq(Unit), NEW w \in Seq(Unit), NEW v, Joins(v, s, w)
    PROVE  /\ v \in Seq(Unit) /\ Len(s) \in Nat /\ Len(w) \in Nat
           /\ DOMAIN s = 1 .. Len(s) /\ DOMAIN w = 1 .. Len(w) /\ DOMAIN v = 1 .. Len(v)
           /\ Len(v) = Len(s) + Len(w)
           /\ \A j \in DOMAIN s : j \in DOMAIN v /\ v[j] = s[j] /\ j <= Len(s)
           /\ \A k \in DOMAIN w : Len(s) + k \in DOMAIN v /\ v[Len(s) + k] = w[k]
           /\ \A j \in DOMAIN v : \/ j \in DOMAIN s /\ v[j] = s[j]
                                  \/ \E k \in DOMAIN w : j = Len(s) + k /\ v[j] = w[k]
  <1>1. /\ v \in Seq(Unit) /\ Len(s) \in Nat /\ Len(w) \in Nat
        /\ DOMAIN s = 1 .. Len(s) /\ DOMAIN w = 1 .. Len(w) /\ DOMAIN v = 1 .. Len(v)
        /\ Len(v) = Len(s) + Len(w)
        /\ \A j \in 1 .. Len(s) + Len(w) : v[j] = IF j <= Len(s) THEN s[j] ELSE w[j - Len(s)]
    BY ConcatProperties, LenProperties DEF Joins
  <1>2. \A j \in DOMAIN s : j \in DOMAIN v /\ v[j] = s[j] /\ j <= Len(s)
    BY <1>1
  <1>3. ASSUME NEW k \in DOMAIN w
        PROVE  Len(s) + k \in DOMAIN v /\ v[Len(s) + k] = w[k]
    <2>1. /\ Len(s) + k \in 1 .. Len(s) + Len(w) /\ ~(Len(s) + k <= Len(s))
          /\ (Len(s) + k) - Len(s) = k
      BY <1>1
    <2> QED
      BY <1>1, <2>1
  <1>4. ASSUME NEW j \in DOMAIN v
        PROVE  \/ j \in DOMAIN s /\ v[j] = s[j]
               \/ \E k \in DOMAIN w : j = Len(s) + k /\ v[j] = w[k]
    <2>1. CASE j <= Len(s)
      BY <1>1, <2>1
    <2>2. CASE ~(j <= Len(s))
      <3>1. j - Len(s) \in DOMAIN w /\ j = Len(s) + (j - Len(s)) /\ j \in 1 .. Len(s) + Len(w)
        BY <1>1, <2>2
      <3> QED
        BY <1>1, <2>2, <3>1
    <2> QED
      BY <2>1, <2>2
  <1> QED
    BY <1>1, <1>2, <1>3, <1>4

(* A whole reply without anything of a message.                            *)
Plain(us, n) == \A j \in DOMAIN us : us[j].n = n /\ us[j].kind # "body" /\ us[j].m = NoMail

RepliesTo(c, n) ==
    \E us \in Seq(Unit) :
        /\ Put(c, us) /\ Plain(us, n) /\ WellFormed(us, n)
        /\ Len(us) <= 4 \/ Len(us) <= Len(mails[c]) + 2

LEMMA RepliesPut == ASSUME NEW c \in Conns, NEW n, RepliesTo(c, n) PROVE Puts(c)
  BY DEF RepliesTo, Puts

LEMMA AnswerReplies ==
    ASSUME NEW c \in Conns, NEW t \in Token, Ok(c, t) \/ Err(c, t)
    PROVE  RepliesTo(c, t.n)
  <1>1. t.n \in 0 .. MaxLines
    BY SizesAssumption DEF Token
  <1>2. ASSUME NEW kind \in {"ok", "err"}
        PROVE  LET us == <<U(t.n, kind, 0)>> IN
               us \in Seq(Unit) /\ Plain(us, t.n) /\ WellFormed(us, t.n) /\ Len(us) <= 4
    <2> DEFINE us == <<U(t.n, kind, 0)>>
    <2>1. U(t.n, kind, 0) \in Unit
      BY <1>1, UnitLemma DEF Kinds
    <2>2. us \in Seq(Unit) /\ DOMAIN us = {1} /\ us[1] = U(t.n, kind, 0) /\ Len(us) = 1
      BY <2>1
    <2> HIDE DEF us
    <2>3. At(us, t.n) = {1} /\ us[1].kind \in {"ok", "err"}
      BY <2>2 DEF At, U
    <2> QED
      BY <2>2, <2>3 DEF Plain, WellFormed, U, us
  <1> QED
    BY <1>2 DEF RepliesTo, Ok, Err

(* Several lines: a good status, entries, and their terminator.            *)
LEMMA LinesReply ==
    ASSUME NEW us \in Seq(Unit), NEW n, NEW l \in Nat, Len(us) = l, l > 1,
           us[1] = U(n, "ok", 0), us[l] = U(n, "end", 0),
           \A j \in 2 .. l - 1 : \E i : us[j] = U(n, "entry", i)
    PROVE  Plain(us, n) /\ WellFormed(us, n)
  <1>1. DOMAIN us = 1 .. l
    BY LenProperties
  <1>2. /\ us[1].n = n /\ us[1].kind = "ok" /\ us[1].m = NoMail
        /\ us[l].n = n /\ us[l].kind = "end" /\ us[l].m = NoMail
    BY DEF U
  <1>3. ASSUME NEW j \in 2 .. l - 1
        PROVE  us[j].n = n /\ us[j].kind = "entry" /\ us[j].m = NoMail
    <2>1. PICK i : us[j] = U(n, "entry", i)
      OBVIOUS
    <2> QED
      BY <2>1 DEF U
  <1>4. \A j \in 1 .. l : j = 1 \/ j = l \/ j \in 2 .. l - 1
    OBVIOUS
  <1>5. At(us, n) = 1 .. l
    BY <1>1, <1>2, <1>3, <1>4 DEF At
  <1>6. Plain(us, n)
    BY <1>1, <1>2, <1>3, <1>4 DEF Plain
  <1>7. WellFormed(us, n)
    <2>1. 1 \in At(us, n) /\ l \in At(us, n) /\ 1 < l
      BY <1>5
    <2>2. \A j \in At(us, n) : /\ 1 <= j /\ j <= l
                               /\ 1 < j /\ j < l => us[j].kind \in {"entry", "body"}
      BY <1>3, <1>5
    <2> QED
      BY <1>2, <2>1, <2>2 DEF WellFormed
  <1> QED
    BY <1>6, <1>7

LEMMA AnswerPuts ==
    ASSUME NEW c \in Conns, NEW t \in Token, Ok(c, t) \/ Err(c, t)
    PROVE  Puts(c)
  BY AnswerReplies, RepliesPut

LEMMA FirstNumbers == ASSUME NEW k \in Nat PROVE IsFiniteSet(1 .. k) /\ Cardinality(1 .. k) = k
  BY FS_Interval

LEMMA ListReplies ==
    ASSUME DataInv, NEW c \in Conns, NEW t \in Token, ListAll(c, t)
    PROVE  RepliesTo(c, t.n)
  <1> DEFINE S == DOMAIN mails[c] \ deleted[c]
             e == Cardinality(S)
  <1>1. t.n \in 0 .. MaxLines
    BY SizesAssumption DEF Token
  <1>2. PICK kept \in Ascending(S) :
          Put(c, <<U(t.n, "ok", 0)>> \o [j \in DOMAIN kept |-> U(t.n, "entry", kept[j])]
                   \o <<U(t.n, "end", 0)>>)
    BY DEF ListAll
  <1>3. e \in Nat /\ S \subseteq Nat /\ e <= Len(mails[c])
    <2>1. mails[c] \in Seq(Mails)
      BY DEF DataInv, ListInv
    <2>2. DOMAIN mails[c] = 1 .. Len(mails[c]) /\ Len(mails[c]) \in Nat
      BY <2>1, LenProperties
    <2>3. IsFiniteSet(1 .. Len(mails[c])) /\ Cardinality(1 .. Len(mails[c])) = Len(mails[c])
      <3> HIDE DEF S
      <3> QED
        BY <2>2, FirstNumbers
    <2>4. S \subseteq 1 .. Len(mails[c])
      BY <2>2
    <2> HIDE DEF S
    <2>5. IsFiniteSet(S) /\ Cardinality(S) <= Cardinality(1 .. Len(mails[c]))
      BY <2>3, <2>4, FS_Subset
    <2> QED
      BY <2>3, <2>4, <2>5, FS_CardinalityType
  <1>4. kept \in [1 .. e -> Nat]
    BY <1>2, <1>3 DEF Ascending
  <1> DEFINE entries == [j \in DOMAIN kept |-> U(t.n, "entry", kept[j])]
             head    == <<U(t.n, "ok", 0)>>
             last    == <<U(t.n, "end", 0)>>
  <1>5. entries \in Seq(Unit) /\ Len(entries) = e /\ \A j \in 1 .. e : entries[j] = U(t.n, "entry", kept[j])
    <2>1. \A j \in 1 .. e : U(t.n, "entry", kept[j]) \in Unit
      BY <1>1, <1>4, UnitLemma DEF Kinds
    <2>2. entries \in [1 .. e -> Unit] /\ \A j \in 1 .. e : entries[j] = U(t.n, "entry", kept[j])
      BY <1>4, <2>1
    <2> HIDE DEF entries, S, e
    <2> QED
      BY <1>3, <2>2
  <1>6. /\ head \in Seq(Unit) /\ last \in Seq(Unit) /\ Len(head) = 1 /\ Len(last) = 1
        /\ head[1] = U(t.n, "ok", 0) /\ last[1] = U(t.n, "end", 0)
    BY <1>1, UnitLemma DEF Kinds
  <1> HIDE DEF e, entries, head, last
  <1> DEFINE first == head \o entries
             us    == first \o last
  <1>7. /\ first \in Seq(Unit) /\ Len(first) = 1 + e
        /\ first[1] = head[1] /\ \A j \in 1 .. e : first[1 + j] = entries[j]
    <2>1. DOMAIN head = 1 .. 1 /\ DOMAIN entries = 1 .. e
      BY <1>5, <1>6, LenProperties
    <2>2. Joins(first, head, entries)
      BY DEF Joins
    <2> HIDE DEF first
    <2>3. head \in Seq(Unit) /\ entries \in Seq(Unit)
      BY <1>5, <1>6
    <2>4. /\ first \in Seq(Unit) /\ Len(first) = Len(head) + Len(entries)
          /\ \A j \in DOMAIN head : first[j] = head[j]
          /\ \A k \in DOMAIN entries : first[Len(head) + k] = entries[k]
      BY <2>2, <2>3, JoinLemma
    <2>5. Len(first) = 1 + e /\ \A j \in 1 .. e : first[1 + j] = entries[j]
      BY <1>5, <1>6, <2>1, <2>4, Zenon
    <2>6. 1 \in DOMAIN head
      BY <2>1
    <2> QED
      BY <2>4, <2>5, <2>6, Zenon
  <1> HIDE DEF first
  <1>8. /\ us \in Seq(Unit) /\ Len(us) = e + 2
        /\ us[1] = head[1] /\ us[e + 2] = last[1] /\ \A j \in 1 .. e : us[1 + j] = entries[j]
    <2>1. DOMAIN first = 1 .. 1 + e /\ DOMAIN last = 1 .. 1
      BY <1>6, <1>7, LenProperties
    <2>2. Joins(us, first, last)
      BY DEF Joins
    <2> HIDE DEF us
    <2>3. /\ us \in Seq(Unit) /\ Len(us) = Len(first) + Len(last)
          /\ \A j \in DOMAIN first : us[j] = first[j]
          /\ \A k \in DOMAIN last : us[Len(first) + k] = last[k]
      <3>1. first \in Seq(Unit) /\ last \in Seq(Unit)
        BY <1>6, <1>7
      <3> QED
        BY <2>2, <3>1, JoinLemma
    <2>4. (1 + e) + 1 = e + 2 /\ 1 \in 1 .. 1 + e /\ \A j \in 1 .. e : 1 + j \in 1 .. 1 + e
      BY <1>3
    <2>5. us[(1 + e) + 1] = last[1]
      BY <1>7, <2>1, <2>3
    <2> QED
      BY <1>6, <1>7, <2>1, <2>3, <2>4, <2>5
  <1> HIDE DEF us
  <1>9. \A j \in 2 .. (e + 2) - 1 : \E i : us[j] = U(t.n, "entry", i)
    <2> TAKE j \in 2 .. (e + 2) - 1
    <2>1. j - 1 \in 1 .. e /\ 1 + (j - 1) = j
      BY <1>3
    <2>2. us[1 + (j - 1)] = entries[j - 1]
      BY <1>8, <2>1
    <2> QED
      BY <1>5, <2>1, <2>2
  <1>10. Plain(us, t.n) /\ WellFormed(us, t.n)
    <2>1. e + 2 \in Nat /\ e + 2 > 1
      BY <1>3
    <2> QED
      BY <1>6, <1>8, <1>9, <2>1, LinesReply
  <1>11. Len(us) <= Len(mails[c]) + 2
    BY <1>3, <1>8, LenProperties DEF DataInv, ListInv
  <1> QED
    BY <1>2, <1>8, <1>10, <1>11 DEF RepliesTo, us, first, entries, head, last

LEMMA ListPuts ==
    ASSUME DataInv, NEW c \in Conns, NEW t \in Token, ListAll(c, t)
    PROVE  Puts(c)
  BY ListReplies, RepliesPut

LEMMA CapaReplies ==
    ASSUME NEW c \in Conns, NEW t \in Token, CapaHandler(c, t)
    PROVE  RepliesTo(c, t.n)
  <1> DEFINE us == <<U(t.n, "ok", 0), U(t.n, "entry", 1), U(t.n, "entry", 2), U(t.n, "end", 0)>>
  <1>1. t.n \in 0 .. MaxLines
    BY SizesAssumption DEF Token
  <1>2. /\ U(t.n, "ok", 0) \in Unit /\ U(t.n, "entry", 1) \in Unit
        /\ U(t.n, "entry", 2) \in Unit /\ U(t.n, "end", 0) \in Unit
    BY <1>1, UnitLemma DEF Kinds
  <1>3. us \in Seq(Unit) /\ Len(us) = 4
    BY <1>2
  <1>4. /\ us[1] = U(t.n, "ok", 0) /\ us[2] = U(t.n, "entry", 1)
        /\ us[3] = U(t.n, "entry", 2) /\ us[4] = U(t.n, "end", 0)
    OBVIOUS
  <1>5. Put(c, us)
    BY DEF CapaHandler
  <1> HIDE DEF us
  <1>6. \A j \in 2 .. 4 - 1 : \E i : us[j] = U(t.n, "entry", i)
    <2>1. \A j \in 2 .. 4 - 1 : j = 2 \/ j = 3
      OBVIOUS
    <2> QED
      BY <1>4, <2>1
  <1>7. Plain(us, t.n) /\ WellFormed(us, t.n)
    <2>1. 4 \in Nat /\ 4 > 1
      OBVIOUS
    <2> QED
      BY <1>3, <1>4, <1>6, <2>1, LinesReply
  <1>8. Len(us) <= 4
    BY <1>3
  <1> QED
    BY <1>3, <1>5, <1>7, <1>8 DEF RepliesTo

LEMMA CapaPuts ==
    ASSUME NEW c \in Conns, NEW t \in Token, CapaHandler(c, t)
    PROVE  Puts(c)
  BY CapaReplies, RepliesPut

LEMMA DeleReplies ==
    ASSUME NEW c \in Conns, NEW t \in Token, DeleHandler(c, t)
    PROVE  RepliesTo(c, t.n)
  <1> DEFINE us == <<U(t.n, "ok", 0), U(t.n, "end", 0)>>
  <1>1. t.n \in 0 .. MaxLines
    BY SizesAssumption DEF Token
  <1>2. U(t.n, "ok", 0) \in Unit /\ U(t.n, "end", 0) \in Unit
    BY <1>1, UnitLemma DEF Kinds
  <1>3. us \in Seq(Unit) /\ Len(us) = 2 /\ us[1] = U(t.n, "ok", 0) /\ us[2] = U(t.n, "end", 0)
    BY <1>2
  <1>4. Err(c, t) \/ Put(c, us)
    BY DEF DeleHandler
  <1> HIDE DEF us
  <1>5. Plain(us, t.n) /\ WellFormed(us, t.n)
    <2>1. 2 \in Nat /\ 2 > 1 /\ \A j \in 2 .. 2 - 1 : \E i : us[j] = U(t.n, "entry", i)
      OBVIOUS
    <2> QED
      BY <1>3, <2>1, LinesReply
  <1> QED
    BY <1>3, <1>4, <1>5, AnswerReplies DEF RepliesTo

LEMMA DelePuts ==
    ASSUME NEW c \in Conns, NEW t \in Token, DeleHandler(c, t)
    PROVE  Puts(c)
  BY DeleReplies, RepliesPut

----------------------------------------------------------------------------
(* RETR.                                                                   *)

(* What one call of RETR does to its connection, if it sends anything.     *)
LEMMA OneTransfer ==
    ASSUME ListInv, NEW c \in Conns, UNCHANGED <<listVars, deleted>>,
           NEW p \in Token \cup {NoToken}, NEW x \in Nat,
           pending' = Upd(pending, c, p), ridx' = Upd(ridx, c, x),
           p # NoToken => p.line.num \in DOMAIN mails[c] /\ x <= Size[mails[c][p.line.num]],
           p = NoToken => x = 0
    PROVE  ListInv'
  <1>1. pending' \in [Conns -> Token \cup {NoToken}] /\ ridx' \in [Conns -> Nat]
    BY DEF ListInv, Upd
  <1>2. /\ pending'[c] = p /\ ridx'[c] = x
        /\ \A d \in Conns \ {c} : pending'[d] = pending[d] /\ ridx'[d] = ridx[d]
    BY DEF ListInv, Upd
  <1>3. \A d \in Conns \ {c} : Fits(d)'
    BY <1>2 DEF ListInv, Fits, listVars
  <1>4. Fits(c)'
    BY <1>2 DEF ListInv, Fits, listVars
  <1> QED
    BY <1>1, <1>3, <1>4 DEF ListInv, listVars

LEMMA PiecesLemma ==
    ASSUME DataInv, NEW c \in Conns, NEW t \in Token, t.line.num \in DOMAIN mails[c], NEW k \in Nat
    PROVE  /\ Pieces(c, t, k) \in Seq(Unit)
           /\ <<Piece(c, t, "end", 0)>> \in Seq(Unit)
           /\ Heading(c, t) \in Seq(Unit)
           /\ Room(c) - Len(Heading(c, t)) \in Nat
           /\ MailFile(c, t) \in Mails
  <1>1. t.n \in 0 .. MaxLines
    BY SizesAssumption DEF Token
  <1>2. MailFile(c, t) \in Mails
    BY DEF MailFile, DataInv, ListInv
  <1>3. ridx[c] \in Nat
    BY DEF DataInv, ListInv
  <1>4. \A j \in 1 .. k : Piece(c, t, "body", ridx[c] + j) \in Unit
    BY <1>1, <1>2, <1>3, UnitLemma DEF Piece, Kinds
  <1>5. Pieces(c, t, k) \in [1 .. k -> Unit]
    BY <1>4 DEF Pieces
  <1>6. Piece(c, t, "end", 0) \in Unit
    BY <1>1, <1>2, UnitLemma DEF Piece, Kinds
  <1>7. <<U(t.n, "ok", 0)>> \in Seq(Unit) /\ Len(<<U(t.n, "ok", 0)>>) = 1
    BY <1>1, UnitLemma DEF Kinds
  <1>8. Heading(c, t) \in Seq(Unit) /\ Room(c) - Len(Heading(c, t)) \in Nat
    BY <1>7, EmptySeq, RoomLemma, SizesAssumption DEF Heading
  <1> QED
    BY <1>2, <1>5, <1>6, <1>8

LEMMA RetrData ==
    ASSUME DataInv, NEW c \in Conns, NEW t \in Token, t = pending[c] \/ pending[c] = NoToken,
           RetrHandler(c, t)
    PROVE  ListInv' /\ Puts(c) /\ up' \in BOOLEAN
  <1> DEFINE room == Room(c) - Len(Heading(c, t))
  <1>1. t # NoToken /\ UNCHANGED <<listVars, deleted>> /\ up \in BOOLEAN /\ ListInv
    BY DEF Token, NoToken, RetrHandler, DataInv, AdminTypeOK
  <1>2. CASE Err(c, t) /\ UNCHANGED <<pending, ridx>> /\ (up' = FALSE \/ UNCHANGED up)
    BY <1>1, <1>2, ListSame, AnswerPuts DEF DataInv
  <1>3. ASSUME t.line.num \in DOMAIN mails[c], NEW k \in Nat, k <= Left(c, t),
               Put(c, Heading(c, t) \o Pieces(c, t, k)), ridx' = Advanced(c, k),
               pending' = Resumes(c, t), up' \in BOOLEAN
        PROVE  ListInv' /\ Puts(c)
    <2>1. Heading(c, t) \o Pieces(c, t, k) \in Seq(Unit) /\ MailFile(c, t) \in Mails
      BY <1>3, PiecesLemma, ConcatProperties
    <2>2. ridx[c] \in Nat /\ Size[MailFile(c, t)] \in Nat
      BY <2>1, SizesAssumption DEF DataInv, ListInv
    <2>3. ridx[c] + k \in Nat /\ ridx[c] + k <= Size[MailFile(c, t)]
      BY <1>3, <2>2 DEF Left
    <2> QED
      BY <1>1, <1>3, <2>1, <2>3, OneTransfer DEF Puts, Advanced, Resumes, MailFile
  <1>4. CASE /\ t.line.num \in DOMAIN mails[c]
             /\ \/ /\ Left(c, t) + 2 <= room
                   /\ Put(c, Heading(c, t) \o Pieces(c, t, Left(c, t))
                               \o <<Piece(c, t, "end", 0)>>)
                   /\ pending' = Upd(pending, c, NoToken)
                   /\ ridx' = Rewound(c)
                   /\ UNCHANGED up
                \/ /\ Left(c, t) + 2 > room /\ room > 0
                   /\ LET k == Least(room - 1, Left(c, t)) IN
                        /\ Put(c, Heading(c, t) \o Pieces(c, t, k))
                        /\ ridx' = Advanced(c, k)
                   /\ pending' = Resumes(c, t)
                   /\ UNCHANGED up
                \/ /\ room = 0
                   /\ up' \in (IF Left(c, t) = 0 THEN {up} ELSE BOOLEAN)
                   /\ Put(c, Heading(c, t))
                   /\ pending' = Resumes(c, t)
                   /\ ridx' = Advanced(c, Left(c, t))
    <2>1. /\ Heading(c, t) \in Seq(Unit) /\ room \in Nat /\ MailFile(c, t) \in Mails
          /\ <<Piece(c, t, "end", 0)>> \in Seq(Unit)
      BY <1>4, PiecesLemma
    <2>2. ridx[c] \in Nat /\ Size[MailFile(c, t)] \in Nat /\ ridx[c] <= Size[MailFile(c, t)]
      BY <1>4, <1>1, <2>1, SizesAssumption DEF DataInv, ListInv, Fits, MailFile
    <2>3. Left(c, t) \in Nat
      BY <2>2 DEF Left
    <2>4. CASE /\ Put(c, Heading(c, t) \o Pieces(c, t, Left(c, t)) \o <<Piece(c, t, "end", 0)>>)
               /\ pending' = Upd(pending, c, NoToken) /\ ridx' = Rewound(c) /\ UNCHANGED up
      <3>1. Heading(c, t) \o Pieces(c, t, Left(c, t)) \in Seq(Unit)
        BY <1>4, <2>1, <2>3, PiecesLemma, ConcatProperties
      <3>2. Heading(c, t) \o Pieces(c, t, Left(c, t)) \o <<Piece(c, t, "end", 0)>> \in Seq(Unit)
        BY <2>1, <3>1, ConcatProperties
      <3> QED
        BY <1>1, <2>4, <3>2, OneTransfer DEF Puts, Rewound
    <2>5. CASE /\ room > 0
               /\ LET k == Least(room - 1, Left(c, t)) IN
                    /\ Put(c, Heading(c, t) \o Pieces(c, t, k))
                    /\ ridx' = Advanced(c, k)
               /\ pending' = Resumes(c, t)
               /\ UNCHANGED up
      <3>1. /\ Least(room - 1, Left(c, t)) \in Nat
            /\ Least(room - 1, Left(c, t)) <= Left(c, t)
        BY <2>1, <2>3, <2>5 DEF Least
      <3> QED
        BY <1>1, <1>3, <1>4, <2>5, <3>1
    <2>6. CASE /\ Put(c, Heading(c, t)) /\ pending' = Resumes(c, t)
               /\ ridx' = Advanced(c, Left(c, t))
      <3>1. ridx[c] + Left(c, t) = Size[MailFile(c, t)]
        BY <2>2 DEF Left
      <3> QED
        BY <1>1, <1>4, <2>1, <2>2, <2>6, <3>1, OneTransfer
        DEF Puts, Advanced, Resumes, MailFile
    <2> QED
      BY <1>1, <1>4, <2>4, <2>5, <2>6
  <1> QED
    BY <1>2, <1>4 DEF RetrHandler

----------------------------------------------------------------------------
(* The listing.                                                            *)

(* What a scan may list: no more than max_mails entries, none a second     *)
(* time, none at all if there is nothing to list or no new array for it.   *)
LEMMA ListingsLemma ==
    ASSUME DataInv, NEW c \in Conns, NEW b \in Boxes, NEW l \in Listings(c, b)
    PROVE  /\ l \in Seq(Mails)
           /\ cap[c] # 0 => l = <<>>
           /\ cap[c] = 0 => Len(l) <= max_mails /\ Len(l) <= Cardinality(files[b])
           /\ cap[c] = 0 /\ files[b] = {} => Len(l) = 0
  <1>1. CASE cap[c] # 0
    BY <1>1, EmptySeq DEF Listings
  <1>2. CASE cap[c] = 0
    <2> DEFINE full == Least(max_mails, Cardinality(files[b]))
    <2>1. files[b] \in SUBSET Mails /\ IsFiniteSet(files[b])
      BY BoxesAssumption, FS_Subset DEF DataInv, DirInv
    <2>2. Cardinality(files[b]) \in Nat /\ max_mails \in Nat
      BY <2>1, FS_CardinalityType, SizeAssumption DEF DataInv, AdminTypeOK
    <2>3. full \in Nat /\ full <= max_mails /\ full <= Cardinality(files[b])
      BY <2>2 DEF Least
    <2>4. PICK k \in (IF StatMayFail THEN 0 .. full ELSE {full}) : l \in Orders(files[b], k)
      BY <1>2 DEF Listings
    <2> HIDE DEF full
    <2>5. k \in Nat /\ k <= full
      BY <2>3, <2>4
    <2>6. l \in [1 .. k -> Mails]
      BY <2>1, <2>4 DEF Orders
    <2>7. l \in Seq(Mails) /\ Len(l) = k
      BY <2>5, <2>6
    <2>8. files[b] = {} => k = 0
      BY <2>3, <2>5, FS_EmptySet
    <2>9. k <= max_mails /\ k <= Cardinality(files[b])
      BY <2>2, <2>3, <2>5
    <2> QED
      BY <1>2, <2>7, <2>8, <2>9
  <1> QED
    BY <1>1, <1>2

LEMMA ScanData ==
    ASSUME DataInv, NEW c \in Conns, NEW b \in Boxes, Scan(c, b), UNCHANGED <<deleted, ridx, pending>>
    PROVE  ListInv' /\ up' \in BOOLEAN
  <1>1. CASE UNCHANGED listVars /\ (up' = FALSE \/ UNCHANGED up)
    BY <1>1, ListSame DEF DataInv, AdminTypeOK
  <1>2. ASSUME mails[c] = <<>>, NEW l \in Listings(c, b), mails' = Upd(mails, c, l),
               counted' = [counted EXCEPT ![c] =
                             [m \in Mails |-> @[m] + (IF m \in Elems(l) THEN 1 ELSE 0)]],
               cap' = IF cap[c] = 0 /\ files[b] # {} THEN Upd(cap, c, max_mails) ELSE cap
        PROVE  ListInv'
    <2>1. /\ l \in Seq(Mails)
          /\ cap[c] # 0 => l = <<>>
          /\ cap[c] = 0 => Len(l) <= max_mails
          /\ cap[c] = 0 /\ files[b] = {} => Len(l) = 0
      BY ListingsLemma
    <2>2. max_mails \in Nat /\ cap[c] \in Nat
      BY SizeAssumption DEF DataInv, AdminTypeOK, ListInv
    <2>3. mails' \in [Conns -> Seq(Mails)] /\ cap' \in [Conns -> Nat]
      BY <1>2, <2>1, <2>2 DEF DataInv, ListInv, Upd
    <2>4. counted' \in [Conns -> [Mails -> Int]]
      <3>1. counted[c] \in [Mails -> Int]
        BY DEF DataInv, ListInv
      <3>2. [m \in Mails |-> counted[c][m] + (IF m \in Elems(l) THEN 1 ELSE 0)] \in [Mails -> Int]
        BY <3>1
      <3> QED
        BY <1>2, <3>2 DEF DataInv, ListInv
    <2>5. /\ mails'[c] = l
          /\ cap'[c] = IF cap[c] = 0 /\ files[b] # {} THEN max_mails ELSE cap[c]
          /\ \A d \in Conns \ {c} : mails'[d] = mails[d] /\ cap'[d] = cap[d]
      BY <1>2 DEF DataInv, ListInv, Upd
    <2>6. deleted[c] = {} /\ pending[c] = NoToken /\ ridx[c] = 0
      <3>1. Fits(c) /\ DOMAIN mails[c] = {}
        BY <1>2, EmptySeq DEF DataInv, ListInv
      <3> QED
        BY <3>1 DEF Fits
    <2>7. Len(l) <= cap'[c]
      BY <2>1, <2>2, <2>5, EmptySeq
    <2>8. Fits(c)'
      BY <2>5, <2>6, <2>7 DEF Fits
    <2>9. \A d \in Conns \ {c} : Fits(d)'
      BY <2>5 DEF DataInv, ListInv, Fits
    <2> QED
      BY <2>3, <2>4, <2>8, <2>9 DEF DataInv, ListInv
  <1>3. ~UNCHANGED listVars =>
           /\ ScanNeeded(c) /\ UNCHANGED up
           /\ \E l \in Listings(c, b) :
                /\ mails' = Upd(mails, c, l)
                /\ counted' = [counted EXCEPT ![c] =
                                  [m \in Mails |-> @[m] + (IF m \in Elems(l) THEN 1 ELSE 0)]]
           /\ cap' = IF cap[c] = 0 /\ files[b] # {} THEN Upd(cap, c, max_mails) ELSE cap
    BY DEF Scan
  <1>4. Scan(c, b) => up' = FALSE \/ UNCHANGED up
    BY DEF Scan
  <1>5. up' \in BOOLEAN
    BY <1>4 DEF DataInv, AdminTypeOK
  <1> QED
    BY <1>1, <1>2, <1>3, <1>4, <1>5 DEF ScanNeeded

(* The marks of a session are numbers of its listing.                      *)
LEMMA MarkData ==
    ASSUME ListInv, NEW c \in Conns, NEW S \in SUBSET (DOMAIN mails[c]),
           UNCHANGED <<mails, cap, ridx, pending>>, deleted' = Upd(deleted, c, S),
           counted' \in [Conns -> [Mails -> Int]]
    PROVE  ListInv'
  <1>1. DOMAIN mails[c] \subseteq Nat
    BY LenProperties DEF ListInv
  <1>2. deleted' \in [Conns -> SUBSET Nat]
    BY <1>1 DEF ListInv, Upd
  <1>3. deleted'[c] = S /\ \A d \in Conns \ {c} : deleted'[d] = deleted[d]
    BY DEF ListInv, Upd
  <1>4. Fits(c)'
    BY <1>3 DEF ListInv, Fits
  <1>5. \A d \in Conns \ {c} : Fits(d)'
    BY <1>3 DEF ListInv, Fits
  <1> QED
    BY <1>2, <1>4, <1>5 DEF ListInv

LEMMA DeleData ==
    ASSUME DataInv, NEW c \in Conns, NEW t \in Token, DeleHandler(c, t)
    PROVE  ListInv' /\ Puts(c) /\ UNCHANGED up
  <1>1. CASE UNCHANGED <<deleted, counted>>
    BY <1>1, ListSame, DelePuts DEF DeleHandler, DataInv, listVars
  <1>2. CASE /\ t.line.num \in DOMAIN mails[c]
             /\ deleted' = Upd(deleted, c, deleted[c] \cup {t.line.num})
             /\ counted' = [counted EXCEPT ![c][MailFile(c, t)] = @ - 1]
    <2>1. deleted[c] \cup {t.line.num} \in SUBSET (DOMAIN mails[c])
      BY <1>2 DEF DataInv, ListInv, Fits
    <2>2. counted[c] \in [Mails -> Int] /\ MailFile(c, t) \in Mails
      BY <1>2 DEF DataInv, ListInv, MailFile
    <2>3. counted' \in [Conns -> [Mails -> Int]]
      BY <1>2, <2>2 DEF DataInv, ListInv
    <2> QED
      BY <1>2, <2>1, <2>3, MarkData, DelePuts DEF DeleHandler, DataInv
  <1> QED
    BY <1>1, <1>2 DEF DeleHandler

LEMMA RsetData ==
    ASSUME DataInv, NEW c \in Conns, NEW t \in Token, RsetHandler(c, t)
    PROVE  ListInv' /\ Puts(c) /\ UNCHANGED up
  <1>1. counted' \in [Conns -> [Mails -> Int]]
    BY DEF RsetHandler, DataInv, ListInv, Upd
  <1> QED
    BY <1>1, MarkData, AnswerPuts DEF RsetHandler, DataInv

LEMMA NoopData ==
    ASSUME DataInv, NEW c \in Conns, NEW t \in Token, pending[c] = NoToken, NoopHandler(c, t)
    PROVE  ListInv' /\ Puts(c) /\ UNCHANGED up
  <1>1. UNCHANGED pending
    BY DEF NoopHandler, DataInv, ListInv, Upd
  <1> QED
    BY <1>1, ListSame, AnswerPuts DEF NoopHandler, DataInv, mailVars

(* The handlers that only answer: nothing of the listing changes.          *)
LEMMA AnswerData ==
    ASSUME DataInv, NEW c \in Conns, NEW t \in Token,
           UserHandler(c, t) \/ StatHandler(c, t) \/ CapaHandler(c, t) \/ ListHandler(c, t)
    PROVE  ListInv' /\ (Puts(c) \/ UNCHANGED outVars) /\ up' \in BOOLEAN
  <1>1. UNCHANGED <<listVars, deleted, ridx, pending>>
    BY DEF UserHandler, StatHandler, CapaHandler, ListHandler, mailVars, listVars
  <1>2. up' \in BOOLEAN
    BY DEF UserHandler, StatHandler, CapaHandler, ListHandler, ListAll, ListOne, DataInv,
           AdminTypeOK
  <1>3. Puts(c) \/ UNCHANGED outVars
    BY AnswerPuts, CapaPuts, ListPuts DEF UserHandler, StatHandler, ListHandler, ListOne
  <1> QED
    BY <1>1, <1>2, <1>3, ListSame DEF DataInv

LEMMA PassData ==
    ASSUME DataInv, NEW c \in Conns, NEW t \in Token, PassHandler(c, t)
    PROVE  ListInv' /\ Puts(c) /\ up' \in BOOLEAN
  <1>1. UNCHANGED <<deleted, ridx, pending>> /\ Puts(c)
    BY AnswerPuts DEF PassHandler
  <1>2. CASE UNCHANGED <<listVars, up>>
    BY <1>1, <1>2, ListSame DEF DataInv, AdminTypeOK
  <1>3. CASE <<mail_directory, name[c]>> \in Boxes /\ Scan(c, <<mail_directory, name[c]>>)
    BY <1>1, <1>3, ScanData
  <1> QED
    BY <1>1, <1>2, <1>3 DEF PassHandler

LEMMA QuitData ==
    ASSUME DataInv, NEW c \in Conns, NEW t \in Token, pending[c] = NoToken, QuitHandler(c, t)
    PROVE  ListInv' /\ (Puts(c) \/ UNCHANGED outVars) /\ UNCHANGED up
  <1>1. UNCHANGED <<counted, ridx, pending, up>> /\ (Puts(c) \/ UNCHANGED outVars)
    BY AnswerPuts DEF QuitHandler
  <1>2. CASE UNCHANGED <<mails, cap, deleted>>
    BY <1>1, <1>2, ListSame DEF DataInv, listVars
  <1>3. CASE mails' = Upd(mails, c, <<>>) /\ cap' = Upd(cap, c, 0) /\ deleted' = Upd(deleted, c, {})
    <2>1. /\ mails' \in [Conns -> Seq(Mails)] /\ cap' \in [Conns -> Nat]
          /\ deleted' \in [Conns -> SUBSET Nat]
      BY <1>3, EmptySeq DEF DataInv, ListInv, Upd
    <2>2. /\ mails'[c] = <<>> /\ cap'[c] = 0 /\ deleted'[c] = {}
          /\ \A d \in Conns \ {c} :
                mails'[d] = mails[d] /\ cap'[d] = cap[d] /\ deleted'[d] = deleted[d]
      BY <1>3 DEF DataInv, ListInv, Upd
    <2>3. Fits(c)'
      BY <1>1, <2>2, EmptySeq DEF DataInv, ListInv, Fits
    <2>4. \A d \in Conns \ {c} : Fits(d)'
      BY <1>1, <2>2 DEF DataInv, ListInv, Fits
    <2> QED
      BY <1>1, <2>1, <2>3, <2>4 DEF DataInv, ListInv
  <1> QED
    BY <1>1, <1>2, <1>3 DEF QuitHandler

----------------------------------------------------------------------------
(* handle_read.                                                            *)

LEMMA HandlerData ==
    ASSUME SessionInv, DataInv, NEW c \in Conns, NEW t \in Token, pending[c] = NoToken,
           stm[c] \in {"AUTHORIZATION", "TRANSACTION"}, Handler(c, t) \/ Rejected(c)
    PROVE  /\ ListInv' /\ (Puts(c) \/ UNCHANGED outVars) /\ up' \in BOOLEAN
           /\ stm'[c] # "NONE" /\ \A d \in Conns \ {c} : stm'[d] = stm[d]
           /\ NameInv' /\ files' \in [Boxes -> SUBSET Mails]
  <1>1. ListInv' /\ (Puts(c) \/ UNCHANGED outVars) /\ up' \in BOOLEAN
    <2>1. up \in BOOLEAN
      BY DEF DataInv, AdminTypeOK
    <2>2. CASE Rejected(c)
      BY <2>1, <2>2, ListSame DEF Rejected, DataInv, mailVars
    <2> QED
      BY <2>1, <2>2, AnswerData, PassData, RetrData, DeleData, NoopData, RsetData, QuitData
      DEF Handler
  <1>2. stm'[c] # "NONE" /\ \A d \in Conns \ {c} : stm'[d] = stm[d]
    <2>1. UNCHANGED stm \/ \E s \in States : Goto(c, s)
      BY DEF Handler, Rejected, UserHandler, PassHandler, StatHandler, ListHandler, RetrHandler,
             DeleHandler, NoopHandler, RsetHandler, QuitHandler, CapaHandler, Stays, stmVars, States
    <2>2. CASE UNCHANGED stm
      BY <2>2
    <2>3. ASSUME NEW s \in States, Goto(c, s)
          PROVE  stm'[c] # "NONE" /\ \A d \in Conns \ {c} : stm'[d] = stm[d]
      BY <2>3, GotoLemma DEF States
    <2> QED
      BY <2>1, <2>2, <2>3
  <1>3. NameInv'
    <2>1. CASE UNCHANGED name
      BY <2>1 DEF DataInv, NameInv
    <2>2. CASE name' = Upd(name, c, Empty)
      BY <2>2 DEF DataInv, NameInv, Upd
    <2>3. ASSUME NEW i \in Visible, users[i].name = t.line.arg, name' = Upd(name, c, t.line.arg)
          PROVE  NameInv'
      <3>1. users[i] \in Slot
        BY MaxUsersAssumption DEF Visible, DataInv, AdminTypeOK
      <3>2. t.line.arg \in Names \cup {Empty}
        BY <2>3, <3>1 DEF Slot
      <3> QED
        BY <2>3, <3>2 DEF DataInv, NameInv, Upd
    <2> QED
      BY <2>1, <2>2, <2>3
      DEF Handler, Rejected, UserHandler, PassHandler, StatHandler, ListHandler, RetrHandler,
          DeleHandler, NoopHandler, RsetHandler, QuitHandler, CapaHandler, mailVars
  <1>4. files' \in [Boxes -> SUBSET Mails]
    <2>1. CASE UNCHANGED files
      BY <2>1 DEF DataInv, DirInv
    <2>2. CASE files' = [files EXCEPT ![session[c]] = @ \ Marked(c)]
      BY <2>2 DEF DataInv, DirInv
    <2> QED
      BY <2>1, <2>2
      DEF Handler, Rejected, UserHandler, PassHandler, StatHandler, ListHandler, RetrHandler,
          DeleHandler, NoopHandler, RsetHandler, QuitHandler, CapaHandler
  <1> QED
    BY <1>1, <1>2, <1>3, <1>4

(* What is taken from the socket, and what is left of it after a line.     *)
LEMMA TakenLemma ==
    ASSUME DataInv, NEW c \in Conns
    PROVE  /\ Taken(c) \in Seq(Token)
           /\ Receive(c) => rcv' \in [Conns -> Seq(Token)]
           /\ Whole(c) => Head(Taken(c)) \in Token /\ Rest(c) \in Seq(Token)
  <1>1. Taken(c) \in Seq(Token)
    BY DEF DataInv, InInv, Taken
  <1>2. Receive(c) => rcv' \in [Conns -> Seq(Token)]
    BY EmptySeq DEF DataInv, InInv, Receive, Upd
  <1>3. ASSUME Whole(c)
        PROVE  Head(Taken(c)) \in Token /\ Rest(c) \in Seq(Token)
    <2>1. Head(Taken(c)) \in Token /\ Len(Taken(c)) \in Nat
      BY <1>1, <1>3, HeadTailProperties DEF Whole
    <2>2. \A m \in {2, 3} : SubSeq(Taken(c), m, Len(Taken(c))) \in Seq(Token)
      <3> TAKE m \in {2, 3}
      <3>1. \A i \in m .. Len(Taken(c)) : Taken(c)[i] \in Token
        BY <1>1, ElementOfSeq
      <3> QED
        BY <2>1, <3>1, SubSeqProperties
    <2> QED
      BY <2>1, <2>2 DEF Rest
  <1> QED
    BY <1>1, <1>2, <1>3

LEMMA WillWriteData ==
    ASSUME DataInv, NEW c \in Conns, WillWrite(c)
    PROVE  SockInv'
  BY DEF DataInv, SockInv, WillWrite, Upd

LEMMA ReadLineData ==
    ASSUME SessionInv, DataInv, NEW c \in Conns, ReadLine(c)
    PROVE  DataInv'
  <1> DEFINE t == [Head(Taken(c)) EXCEPT !.part = "all"]
  <1>1. Whole(c) /\ Receive(c) /\ pending[c] = NoToken /\ WillWrite(c)
    BY DEF ReadLine
  <1>2. stm[c] \in {"AUTHORIZATION", "TRANSACTION"}
    BY ReadingState DEF ReadLine
  <1>3. Head(Taken(c)) \in Token /\ Rest(c) \in Seq(Token) /\ rcv' \in [Conns -> Seq(Token)]
    BY <1>1, TakenLemma
  <1>4. t \in Token
    BY <1>3 DEF Token
  <1>5. served' = Upd(served, c, t.n) /\ (Handler(c, t) \/ Rejected(c))
    BY DEF ReadLine
  <1> HIDE DEF t
  <1>6. /\ ListInv' /\ (Puts(c) \/ UNCHANGED outVars) /\ up' \in BOOLEAN
        /\ stm'[c] # "NONE" /\ \A d \in Conns \ {c} : stm'[d] = stm[d]
        /\ NameInv' /\ files' \in [Boxes -> SUBSET Mails]
    BY <1>1, <1>2, <1>4, <1>5, HandlerData
  <1>7. OutInv'
    BY <1>6, PutData, NoPutData DEF ReadLine, Puts
  <1>8. InInv'
    <2>1. t.n \in 0 .. MaxLines
      BY <1>4, SizesAssumption DEF Token
    <2>2. inb' = Upd(inb, c, Rest(c))
      BY DEF ReadLine
    <2> QED
      BY <1>3, <1>5, <2>1, <2>2 DEF DataInv, InInv, Upd
  <1>9. DirInv'
    BY <1>6 DEF ReadLine, DataInv, DirInv
  <1>10. PeerInv' /\ AdminTypeOK'
    BY <1>6, RestSame DEF ReadLine
  <1>11. SockInv'
    BY <1>1, WillWriteData
  <1> QED
    BY <1>6, <1>7, <1>8, <1>9, <1>10, <1>11 DEF DataInv

LEMMA ReadResumesData ==
    ASSUME SessionInv, DataInv, NEW c \in Conns, ReadResumes(c)
    PROVE  DataInv'
  <1>1. pending[c] \in Token
    BY DEF ReadResumes, DataInv, ListInv
  <1>2. ListInv' /\ Puts(c) /\ up' \in BOOLEAN
    BY <1>1, RetrData DEF ReadResumes
  <1>3. stm[c] # "NONE" /\ UNCHANGED <<stm, name, files>>
    BY ReadingState DEF ReadResumes, RetrHandler, Stays, stmVars
  <1>4. OutInv'
    BY <1>2, <1>3, PutData DEF ReadResumes, Puts
  <1>5. InInv'
    BY TakenLemma DEF ReadResumes, DataInv, InInv, Upd
  <1>6. PeerInv'
    BY DEF ReadResumes, DataInv, PeerInv, Upd
  <1>7. SockInv'
    BY WillWriteData DEF ReadResumes
  <1>8. NameInv' /\ AdminTypeOK'
    BY <1>2, <1>3, RestSame DEF ReadResumes
  <1>9. DirInv'
    BY <1>3 DEF ReadResumes, DataInv, DirInv
  <1> QED
    BY <1>2, <1>4, <1>5, <1>6, <1>7, <1>8, <1>9 DEF DataInv

LEMMA UnregisterData ==
    ASSUME DataInv, NEW c \in Conns, Unregister(c)
    PROVE  SockInv'
  BY DEF DataInv, SockInv, Unregister, Upd

LEMMA ReadRestData ==
    ASSUME DataInv, NEW c \in Conns,
           ReadEnds(c) \/ ReadFails(c) \/ ReadPartial(c) \/ ReadInError(c)
    PROVE  DataInv'
  <1>1. ListInv' /\ OutInv'
    BY ListSame, OutSame
    DEF ReadEnds, ReadFails, ReadPartial, ReadInError, DataInv, inVars, mailVars, stmVars
  <1>2. DirInv' /\ NameInv' /\ AdminTypeOK'
    BY RestSame DEF ReadEnds, ReadFails, ReadPartial, ReadInError, mailVars
  <1>3. SockInv'
    BY RestSame, UnregisterData DEF ReadEnds, ReadFails, ReadPartial, ReadInError
  <1>4. InInv'
    <2>1. CASE ReadPartial(c)
      BY <2>1, TakenLemma, EmptySeq DEF ReadPartial, DataInv, InInv, Upd
    <2> QED
      BY <2>1, RestSame DEF ReadEnds, ReadFails, ReadInError, inVars
  <1>5. PeerInv'
    <2>1. CASE ReadFails(c)
      BY <2>1 DEF ReadFails, DataInv, PeerInv, Upd
    <2> QED
      BY <2>1, RestSame DEF ReadEnds, ReadPartial, ReadInError
  <1> QED
    BY <1>1, <1>2, <1>3, <1>4, <1>5 DEF DataInv

----------------------------------------------------------------------------
(* handle_write.                                                           *)

LEMMA StmWriteData ==
    ASSUME SessionInv, DataInv, NEW c \in Conns, StmWrite(c), UNCHANGED <<deleted, ridx, pending>>
    PROVE  ListInv' /\ up' \in BOOLEAN
  <1>1. CASE UNCHANGED <<listVars, up>>
    BY <1>1, ListSame DEF DataInv, AdminTypeOK
  <1>2. CASE stm[c] = "ERROR" /\ last_state[c] = "TRANSACTION" /\ Scan(c, session[c])
    <2>1. session[c] \in Boxes
      BY <1>2 DEF SessionInv, Maps, ConnInv, Matches, InTransaction
    <2> QED
      BY <1>2, <2>1, ScanData
  <1> QED
    BY <1>1, <1>2 DEF StmWrite, ErrorFits

(* The greeting and the error have room, so that what was added before a   *)
(* send is inside out_buff, and so is what a short send leaves.            *)
LEMMA FlushData ==
    ASSUME SessionInv, DataInv, NEW c \in Conns, StmWrite(c), stm'[c] # "NONE",
           \A d \in Conns \ {c} : stm'[d] = stm[d],
           NEW k \in Amounts(Queue(c)), Flush(c, Queue(c), k)
    PROVE  OutInv'
  <1> DEFINE q == Queue(c)
  <1>1. /\ out[c] \in Seq(Unit) /\ got[c] \in Seq(Unit) /\ Len(out[c]) <= outw[c]
        /\ outw[c] \in 0 .. BUFFER_SIZE
    BY DEF DataInv, OutInv
  <1>2. Len(out[c]) \in Nat /\ BUFFER_SIZE \in Nat \ {0} /\ outw[c] \in Nat
    BY <1>1, SizesAssumption
  <1>3. U(0, "ok", 0) \in Unit /\ U(served[c], "err", 0) \in Unit
    <2>1. 0 \in 0 .. MaxLines /\ 0 \in Nat
      BY SizesAssumption
    <2>2. served[c] \in 0 .. MaxLines
      BY DEF DataInv, InInv
    <2>3. "ok" \in Kinds /\ "err" \in Kinds
      BY DEF Kinds
    <2> QED
      BY <2>1, <2>2, <2>3, UnitLemma
  <1>4. /\ q \in Seq(Unit) /\ Len(q) \in {Len(out[c]), Len(out[c]) + 1}
        /\ Len(q) = Len(out[c]) + 1 => outw[c] < BUFFER_SIZE
    <2>1. CASE stm[c] = "NONE"
      BY <1>1, <1>2, <1>3, <2>1, AppendProperties DEF Queue, DataInv, OutInv
    <2>2. CASE ErrorFits(c)
      <3>1. stm[c] # "NONE" /\ outw[c] < BUFFER_SIZE
        BY <1>2, <2>2 DEF ErrorFits, Room
      <3> QED
        BY <1>1, <1>2, <1>3, <2>2, <3>1, AppendProperties DEF Queue
    <2>3. CASE stm[c] # "NONE" /\ ~ErrorFits(c)
      BY <1>1, <1>2, <2>3 DEF Queue
    <2> QED
      BY <2>1, <2>2, <2>3
  <1> HIDE DEF q
  <1>5. Len(q) \in Nat /\ k \in 0 .. Len(q)
    <2>1. Len(q) \in Nat
      BY <1>2, <1>4
    <2>2. k \in 1 .. Len(q) \/ k = Len(q)
      BY DEF Amounts, q
    <2> QED
      BY <2>1, <2>2
  <1>6. SubSeq(q, 1, k) \in Seq(Unit)
    <2>1. \A i \in 1 .. k : q[i] \in Unit
      BY <1>4, <1>5, ElementOfSeq
    <2> QED
      BY <1>5, <2>1, SubSeqProperties
  <1>7. SubSeq(q, k + 1, Len(q)) \in Seq(Unit) /\ Len(SubSeq(q, k + 1, Len(q))) = Len(q) - k
    <2>1. k + 1 \in Int /\ \A i \in k + 1 .. Len(q) : q[i] \in Unit
      BY <1>4, <1>5, ElementOfSeq
    <2>2. /\ SubSeq(q, k + 1, Len(q)) \in Seq(Unit)
          /\ Len(SubSeq(q, k + 1, Len(q))) = IF k + 1 <= Len(q) THEN Len(q) - (k + 1) + 1 ELSE 0
      BY <1>5, <2>1, SubSeqProperties
    <2> QED
      BY <1>5, <2>2
  <1> DEFINE w == IF k = Len(q) THEN 0 ELSE outw[c] + Len(q) - Len(out[c])
  <1>8. w \in 0 .. BUFFER_SIZE /\ Len(q) - k <= w
    BY <1>1, <1>2, <1>4, <1>5
  <1>9. /\ got' = Upd(got, c, got[c] \o SubSeq(q, 1, k))
        /\ out' = Upd(out, c, SubSeq(q, k + 1, Len(q)))
        /\ outw' = Upd(outw, c, w)
    BY DEF Flush, q
  <1> HIDE DEF w
  <1>10. got[c] \o SubSeq(q, 1, k) \in Seq(Unit)
    BY <1>1, <1>6, ConcatProperties
  <1>11. /\ got' \in [Conns -> Seq(Unit)] /\ out' \in [Conns -> Seq(Unit)]
         /\ outw' \in [Conns -> 0 .. BUFFER_SIZE]
    BY <1>7, <1>8, <1>9, <1>10 DEF DataInv, OutInv, Upd
  <1>12. \A d \in Conns : IF d = c THEN Len(out'[d]) = Len(q) - k /\ outw'[d] = w
                                   ELSE out'[d] = out[d] /\ outw'[d] = outw[d]
    BY <1>7, <1>9 DEF DataInv, OutInv, Upd
  <1>13. \A d \in Conns : Len(out'[d]) <= outw'[d] /\ (stm'[d] = "NONE" => outw'[d] = 0)
    BY <1>8, <1>12 DEF DataInv, OutInv
  <1> QED
    BY <1>11, <1>13 DEF OutInv

LEMMA WriteData == ASSUME SessionInv, DataInv, NEW c \in Conns, Write(c) PROVE DataInv'
  <1>1. UNCHANGED writeFrame
    BY DEF Write, WriteSends, WriteFails, WriteDies
  <1>2. InInv' /\ PeerInv' /\ DirInv' /\ NameInv'
    BY <1>1, RestSame DEF writeFrame, inVars
  <1>3. CASE WriteDies(c)
    <2>1. ListInv' /\ OutInv'
      BY <1>1, <1>3, ListSame, OutSame DEF WriteDies, DataInv, writeFrame, inVars, stmVars
    <2>2. SockInv' /\ AdminTypeOK'
      BY <1>1, <1>3, RestSame DEF WriteDies, writeFrame
    <2> QED
      BY <1>2, <2>1, <2>2 DEF DataInv
  <1>4. CASE WriteSends(c) \/ WriteFails(c)
    <2>1. StmWrite(c) /\ UNCHANGED <<session, deleted, ridx, pending, tableVars>>
      BY <1>1, <1>4 DEF WriteSends, WriteFails, writeFrame, inVars
    <2>2. ListInv' /\ up' \in BOOLEAN
      BY <2>1, StmWriteData
    <2>3. stm'[c] # "NONE" /\ \A d \in Conns \ {c} : stm'[d] = stm[d]
      BY <2>1, StmWriteLemma
    <2>4. OutInv'
      BY <1>4, <2>1, <2>3, FlushData, NoPutData DEF WriteSends, WriteFails
    <2>5. SockInv'
      BY <1>4, UnregisterData DEF WriteSends, WriteFails, AfterSend, DataInv, SockInv, Upd
    <2>6. AdminTypeOK'
      BY <2>1, <2>2, RestSame
    <2> QED
      BY <1>2, <2>2, <2>4, <2>5, <2>6 DEF DataInv
  <1> QED
    BY <1>3, <1>4 DEF Write

LEMMA NextData == SessionInv /\ DataInv /\ [Next]_vars => DataInv'
  <1> SUFFICES ASSUME SessionInv, DataInv, [Next]_vars
               PROVE  DataInv'
    OBVIOUS
  <1>1. ASSUME NEW c \in Conns, Serve(c)
        PROVE  DataInv'
    BY <1>1, ReadLineData, ReadResumesData, ReadRestData, WriteData DEF Serve, Read
  <1>2. CASE UNCHANGED vars
    <2>1. ListInv' /\ OutInv'
      BY <1>2, ListSame, OutSame DEF vars, mailVars, inVars, stmVars, DataInv
    <2>2. InInv' /\ PeerInv' /\ SockInv' /\ DirInv' /\ NameInv' /\ AdminTypeOK'
      BY <1>2, RestSame DEF vars, mailVars, inVars
    <2> QED
      BY <2>1, <2>2 DEF DataInv
  <1> QED
    BY <1>1, <1>2, AcceptData, ClientData, DeliverData, AdministerData DEF Next

LEMMA SpecData == Spec => []DataInv
  BY InitData, NextData, SpecInv, PTL DEF Spec

(* However commands, short sends, deliveries and requests that change      *)
(* max_mails follow each other, the pointers of out_buff stay inside it,   *)
(* and everything is what the code takes it for.                           *)
THEOREM ServerTypesHold == Spec => []TypeOK
  <1>1. SessionInv /\ DataInv => TypeOK
    <2> SUFFICES ASSUME SessionInv, DataInv
                 PROVE  TypeOK
      OBVIOUS
    <2>1. sent \in [Conns -> 0 .. MaxLines] /\ script \in [Conns -> Seq(Line)]
      <3>1. \A c \in Conns : /\ script[c] \in Seq(Line)
                             /\ sent[c] \in 0 .. MaxLines
        BY ScriptLemma, SizesAssumption DEF DataInv, PeerInv
      <3> QED
        BY <3>1 DEF DataInv, PeerInv
    <2> QED
      BY <2>1 DEF SessionInv, Maps, DataInv, ListInv, OutInv, InInv, PeerInv, SockInv, DirInv,
                  NameInv, TypeOK
  <1> QED
    BY SpecInv, SpecData, <1>1, PTL

(* What a session keeps of its listing stays in it: the listing fits the   *)
(* array that was allocated for it, whatever max_mails was then and is     *)
(* now, every mark is one of its numbers, and a message half sent is one   *)
(* of the listing, with its read_index inside of it. Of the number in a    *)
(* LIST, which is not kept, it says nothing: mail_count + 1 reads past.    *)
THEOREM ListingsFit == Spec => []ListingFits
  <1>1. DataInv => ListingFits
    BY DEF DataInv, ListInv, Fits, ListingFits
  <1> QED
    BY SpecData, <1>1, PTL

----------------------------------------------------------------------------
(* ListingStable, of one connection.                                       *)
Keeps(d) ==
    session[d] # NoBox /\ session'[d] # NoBox /\ mails[d] # <<>>
      => mails'[d] = mails[d] /\ session'[d] = session[d]

(* A listing that holds something is not scanned again.                    *)
LEMMA ScanKeeps ==
    ASSUME SessionInv, NEW c \in Conns, NEW b, Scan(c, b)
    PROVE  \A d \in Conns : mails[d] # <<>> => mails'[d] = mails[d]
  <1>1. mails[c] # <<>> => mails'[c] = mails[c]
    BY DEF Scan, ScanNeeded, listVars
  <1> QED
    BY <1>1, ScanLemma

(* PASS gives a session only to a connection that has none.                *)
LEMMA PassKeeps ==
    ASSUME SessionInv, NEW c \in Conns, NEW t, stm[c] = "AUTHORIZATION", PassHandler(c, t)
    PROVE  \A d \in Conns : Keeps(d)
  <1>1. session[c] = NoBox
    BY DEF SessionInv, ConnInv, Matches, InTransaction
  <1>2. session' = session \/ \E b : session' = Upd(session, c, b)
    BY DEF PassHandler
  <1>3. \A d \in Conns \ {c} : session'[d] = session[d]
    BY <1>2 DEF SessionInv, Maps, Upd
  <1>4. UNCHANGED mails \/ \E b : Scan(c, b)
    BY DEF PassHandler, listVars
  <1>5. \A d \in Conns : mails[d] # <<>> => mails'[d] = mails[d]
    BY <1>4, ScanKeeps
  <1> QED
    BY <1>1, <1>3, <1>5 DEF Keeps

(* QUIT empties the listing of its connection, and ends its session.       *)
LEMMA QuitKeeps ==
    ASSUME SessionInv, NEW c \in Conns, NEW t, QuitHandler(c, t)
    PROVE  \A d \in Conns : Keeps(d)
  <1>1. CASE UNCHANGED <<session, mails>>
    BY <1>1 DEF Keeps
  <1>2. CASE session' = Upd(session, c, NoBox) /\ mails' = Upd(mails, c, <<>>)
    BY <1>2 DEF SessionInv, Maps, IsMap, Upd, Keeps
  <1> QED
    BY <1>1, <1>2 DEF QuitHandler

LEMMA ReadLineKeeps ==
    ASSUME SessionInv, NEW c \in Conns, ReadLine(c)
    PROVE  \A d \in Conns : Keeps(d)
  <1>1. PICK t : \/ Known(c, t.line) /\ Handler(c, t)
                 \/ ~Known(c, t.line) /\ Rejected(c)
    BY DEF ReadLine
  <1>2. CASE UNCHANGED <<session, mails>>
    BY <1>2 DEF Keeps
  <1>3. CASE t.line.verb = "PASS" /\ Known(c, t.line) /\ PassHandler(c, t)
    BY <1>3, KnownLemma, PassKeeps
  <1>4. CASE QuitHandler(c, t)
    BY <1>4, QuitKeeps
  <1> QED
    BY <1>1, <1>2, <1>3, <1>4
    DEF Handler, Rejected, UserHandler, StatHandler, ListHandler, RetrHandler, DeleHandler,
        NoopHandler, RsetHandler, CapaHandler, mailVars, listVars

(* The scan on the way back from an ERROR finds the listing as it was.     *)
LEMMA StmWriteKeeps ==
    ASSUME SessionInv, NEW c \in Conns, StmWrite(c), UNCHANGED session
    PROVE  \A d \in Conns : Keeps(d)
  <1>1. UNCHANGED mails \/ Scan(c, session[c])
    BY DEF StmWrite, listVars
  <1> QED
    BY <1>1, ScanKeeps DEF Keeps

LEMMA ServeKeeps ==
    ASSUME SessionInv, NEW c \in Conns, Serve(c)
    PROVE  \A d \in Conns : Keeps(d)
  <1>1. CASE UNCHANGED <<session, mails>>
    BY <1>1 DEF Keeps
  <1>2. CASE ReadEnds(c) \/ ReadFails(c) \/ ReadPartial(c) \/ ReadInError(c)
    BY <1>1, <1>2 DEF ReadEnds, ReadFails, ReadPartial, ReadInError, mailVars, listVars
  <1>3. CASE ReadResumes(c)
    BY <1>1, <1>3 DEF ReadResumes, RetrHandler, listVars
  <1>4. CASE WriteDies(c)
    BY <1>1, <1>4 DEF WriteDies, writeFrame, listVars
  <1>5. CASE WriteSends(c) \/ WriteFails(c)
    BY <1>5, StmWriteKeeps DEF WriteSends, WriteFails, writeFrame
  <1> QED
    BY <1>2, <1>3, <1>4, <1>5, ReadLineKeeps DEF Serve, Read, Write

LEMMA NextKeeps ==
    ASSUME SessionInv, [Next]_vars
    PROVE  \A d \in Conns : Keeps(d)
  <1>1. CASE UNCHANGED <<session, mails>>
    BY <1>1 DEF Keeps
  <1>2. ASSUME NEW c \in Conns, Accept(c) \/ Client(c)
        PROVE  UNCHANGED <<session, mails>>
    BY <1>2 DEF Accept, Client, mailVars, listVars
  <1>3. CASE (\E b \in Boxes, m \in Mails : Deliver(b, m)) \/ Administer \/ UNCHANGED vars
    BY <1>1, <1>3 DEF Deliver, Administer, vars, mailVars, listVars
  <1> QED
    BY <1>1, <1>2, <1>3, ServeKeeps DEF Next

(* A message number means the same message for as long as the session that *)
(* was given it lasts: no delivery, no reconfiguration, no error and no    *)
(* other session changes a listing that holds something.                   *)
THEOREM NumbersKeepTheirMeaning == Spec => ListingStable
  <1>1. SessionInv /\ [Next]_vars =>
          [\A c \in Conns :
             session[c] # NoBox /\ session'[c] # NoBox /\ mails[c] # <<>>
               => mails'[c] = mails[c] /\ session'[c] = session[c]]_vars
    BY NextKeeps DEF Keeps
  <1> QED
    BY <1>1, SpecInv, PTL DEF Spec, ListingStable

----------------------------------------------------------------------------
(* The lines and their replies.                                            *)

(* What a connection has received, or is about to, and no callback parsed. *)
Unparsed(c) == inb[c] \o rcv[c]

(* The pieces of T go on where the srv-th line ended, one line after the   *)
(* other, a beginning always before its end, up to what has been sent.     *)
Follows(T, srv, snt, h, scr) ==
    /\ T = <<>> => snt = srv
    /\ T # <<>> =>
         /\ T[1].n = srv + 1
         /\ T[Len(T)].part = "beg" <=> h
         /\ T[Len(T)].n = IF h THEN snt + 1 ELSE snt
    /\ \A j \in 1 .. Len(T) - 1 :
         /\ T[j + 1].n = IF T[j].part = "beg" THEN T[j].n ELSE T[j].n + 1
         /\ T[j + 1].part = "end" <=> T[j].part = "beg"
    /\ \A j \in 1 .. Len(T) : T[j].line = scr[T[j].n]

LineInv == \A c \in Conns : Follows(Unparsed(c), served[c], sent[c], half[c], script[c])


LEMMA NothingFollows ==
    ASSUME NEW srv, NEW h, NEW scr
    PROVE  Follows(<<>>, srv, srv, h, scr)
  BY DEF Follows

(* The client sends the next piece: of a line begun its end, else a whole  *)
(* line or the beginning of one.                                           *)
LEMMA OneMoreFollows ==
    ASSUME NEW T \in Seq(Token), NEW srv \in Nat, NEW snt \in Nat, NEW h \in BOOLEAN, NEW scr,
           Follows(T, srv, snt, h, scr),
           NEW t \in Token, t.n = snt + 1, t.line = scr[snt + 1], t.part = "end" <=> h,
           NEW snt2, snt2 = IF t.part = "beg" THEN snt ELSE snt + 1, NEW h2, h2 = (t.part = "beg")
    PROVE  Follows(Append(T, t), srv, snt2, h2, scr)
  <1> DEFINE V == Append(T, t)
  <1>1. /\ Len(T) \in Nat /\ Len(V) = Len(T) + 1 /\ V # <<>> /\ V[Len(V)] = t
        /\ \A j \in 1 .. Len(T) : V[j] = T[j] /\ T[j] \in Token
    BY AppendProperties, LenProperties, ElementOfSeq
  <1> HIDE DEF V
  <1>2. V[1].n = srv + 1
    <2>1. CASE T = <<>>
      BY <1>1, <2>1, EmptySeq DEF Follows
    <2>2. CASE T # <<>>
      <3>1. 1 \in 1 .. Len(T)
        BY <2>2, <1>1, EmptySeq
      <3> QED
        BY <1>1, <2>2, <3>1 DEF Follows
    <2> QED
      BY <2>1, <2>2
  <1>3. ASSUME NEW j \in 1 .. Len(V) - 1
        PROVE  /\ V[j + 1].n = IF V[j].part = "beg" THEN V[j].n ELSE V[j].n + 1
               /\ V[j + 1].part = "end" <=> V[j].part = "beg"
    <2>1. CASE j = Len(T)
      <3>1. T # <<>> /\ V[j + 1] = t /\ V[j] = T[Len(T)]
        BY <1>1, <1>3, <2>1, EmptySeq
      <3> QED
        BY <3>1 DEF Follows
    <2>2. CASE j # Len(T)
      <3>1. j \in 1 .. Len(T) - 1 /\ j + 1 \in 1 .. Len(T) /\ j \in 1 .. Len(T)
        BY <1>1, <1>3, <2>2
      <3> QED
        BY <1>1, <3>1 DEF Follows
    <2> QED
      BY <2>1, <2>2
  <1>4. \A j \in 1 .. Len(V) : V[j].line = scr[V[j].n]
    <2> TAKE j \in 1 .. Len(V)
    <2>1. j = Len(V) \/ j \in 1 .. Len(T)
      BY <1>1
    <2> QED
      BY <1>1, <2>1 DEF Follows
  <1> QED
    BY <1>1, <1>2, <1>3, <1>4 DEF Follows, V

(* The parser takes d pieces, of which the last ends a line.               *)
LEMMA FewerFollow ==
    ASSUME NEW T \in Seq(Token), NEW srv \in Nat, NEW snt \in Nat, NEW h \in BOOLEAN, NEW scr,
           Follows(T, srv, snt, h, scr), T # <<>>, NEW d \in {1, 2}, d <= Len(T),
           d = 2 <=> T[1].part = "beg"
    PROVE  /\ Follows(SubSeq(T, d + 1, Len(T)), srv + 1, snt, h, scr)
           /\ T[1].n = srv + 1 /\ T[1].line = scr[srv + 1]
  <1> DEFINE V == SubSeq(T, d + 1, Len(T))
  <1>1. Len(T) \in Nat /\ \A j \in 1 .. Len(T) : T[j] \in Token
    BY LenProperties, ElementOfSeq
  <1>2. Len(V) = Len(T) - d /\ V \in Seq(Token) /\ \A j \in 1 .. Len(V) : V[j] = T[j + d]
    <2>1. \A j \in d + 1 .. Len(T) : T[j] \in Token
      BY <1>1
    <2> QED
      BY <1>1, <2>1, SubSeqProperties
  <1>3. T[d].n = srv + 1 /\ T[d].part # "beg"
    <2>1. 1 \in 1 .. Len(T) /\ d \in 1 .. Len(T)
      BY <1>1
    <2>2. CASE d = 2
      <3>1. 1 \in 1 .. Len(T) - 1
        BY <1>1, <2>2
      <3> QED
        BY <2>2, <3>1 DEF Follows
    <2> QED
      BY <2>2 DEF Follows
  <1> HIDE DEF V
  <1>4. V = <<>> => snt = srv + 1
    <2> HAVE V = <<>>
    <2>1. Len(T) = d
      BY <1>1, <1>2, EmptySeq
    <2>2. T[Len(T)].n = srv + 1 /\ T[Len(T)].part # "beg"
      BY <1>3, <2>1
    <2> QED
      BY <2>2 DEF Follows
  <1>5. V # <<>> => /\ V[1].n = srv + 2
                    /\ V[Len(V)].part = "beg" <=> h
                    /\ V[Len(V)].n = IF h THEN snt + 1 ELSE snt
    <2> HAVE V # <<>>
    <2>1. Len(V) \in Nat \ {0} /\ V[1] = T[d + 1] /\ V[Len(V)] = T[Len(T)] /\ d \in 1 .. Len(T) - 1
      BY <1>1, <1>2, EmptySeq
    <2>2. V[1].n = T[d].n + 1
      BY <1>3, <2>1 DEF Follows
    <2> QED
      BY <1>3, <2>1, <2>2 DEF Follows
  <1>6. ASSUME NEW j \in 1 .. Len(V) - 1
        PROVE  /\ V[j + 1].n = IF V[j].part = "beg" THEN V[j].n ELSE V[j].n + 1
               /\ V[j + 1].part = "end" <=> V[j].part = "beg"
    <2>1. j \in 1 .. Len(V) /\ j + 1 \in 1 .. Len(V) /\ (j + 1) + d = (j + d) + 1
      BY <1>1, <1>2
    <2>2. V[j] = T[j + d] /\ V[j + 1] = T[(j + 1) + d]
      BY <1>2, <2>1
    <2>3. j + d \in 1 .. Len(T) - 1
      BY <1>1, <1>2
    <2>4. V[j + 1] = T[(j + d) + 1]
      BY <2>1, <2>2
    <2> QED
      BY <2>2, <2>3, <2>4 DEF Follows
  <1>7. \A j \in 1 .. Len(V) : V[j].line = scr[V[j].n]
    <2> TAKE j \in 1 .. Len(V)
    <2>1. V[j] = T[j + d] /\ j + d \in 1 .. Len(T)
      BY <1>1, <1>2
    <2> QED
      BY <2>1 DEF Follows
  <1>8. Follows(V, srv + 1, snt, h, scr)
    BY <1>4, <1>5, <1>6, <1>7 DEF Follows
  <1>9. T[1].n = srv + 1 /\ T[1].line = scr[srv + 1]
    <2>1. 1 \in 1 .. Len(T)
      BY <1>1
    <2> QED
      BY <2>1 DEF Follows
  <1> QED
    BY <1>8, <1>9 DEF V

(* The beginning of a line, taken alone: its end is yet to come.           *)
LEMMA BeginningTaken ==
    ASSUME NEW T \in Seq(Token), NEW srv \in Nat, NEW snt \in Nat, NEW h \in BOOLEAN, NEW scr,
           Follows(T, srv, snt, h, scr), T # <<>>, T[1].part = "beg"
    PROVE  Follows(SubSeq(T, 2, Len(T)), srv, snt, h, scr)
  <1> DEFINE V == SubSeq(T, 2, Len(T))
  <1>1. Len(T) \in Nat \ {0} /\ \A j \in 1 .. Len(T) : T[j] \in Token
    BY EmptySeq, ElementOfSeq
  <1>2. Len(V) = Len(T) - 1 /\ V \in Seq(Token) /\ \A j \in 1 .. Len(V) : V[j] = T[j + 1]
    <2>1. V = Tail(T)
      BY TailIsSubSeq
    <2> HIDE DEF V
    <2> QED
      BY <2>1, HeadTailProperties
  <1> HIDE DEF V
  <1>3. V = <<>> => snt = srv
    <2> HAVE V = <<>>
    <2>1. Len(T) = 1
      BY <1>1, <1>2, EmptySeq
    <2> QED
      BY <2>1 DEF Follows
  <1>4. V # <<>> => /\ V[1].n = srv + 1
                    /\ V[Len(V)].part = "beg" <=> h
                    /\ V[Len(V)].n = IF h THEN snt + 1 ELSE snt
    <2> HAVE V # <<>>
    <2>1. Len(V) \in Nat \ {0} /\ V[1] = T[1 + 1] /\ V[Len(V)] = T[Len(T)] /\ 1 \in 1 .. Len(T) - 1
      BY <1>1, <1>2, EmptySeq
    <2>2. V[1].n = T[1].n
      BY <2>1 DEF Follows
    <2> QED
      BY <2>1, <2>2 DEF Follows
  <1>5. ASSUME NEW j \in 1 .. Len(V) - 1
        PROVE  /\ V[j + 1].n = IF V[j].part = "beg" THEN V[j].n ELSE V[j].n + 1
               /\ V[j + 1].part = "end" <=> V[j].part = "beg"
    <2>1. V[j] = T[j + 1] /\ V[j + 1] = T[(j + 1) + 1] /\ j + 1 \in 1 .. Len(T) - 1
      BY <1>1, <1>2
    <2> QED
      BY <2>1 DEF Follows
  <1>6. \A j \in 1 .. Len(V) : V[j].line = scr[V[j].n]
    <2> TAKE j \in 1 .. Len(V)
    <2>1. V[j] = T[j + 1] /\ j + 1 \in 1 .. Len(T)
      BY <1>1, <1>2
    <2> QED
      BY <2>1 DEF Follows
  <1> QED
    BY <1>3, <1>4, <1>5, <1>6 DEF Follows, V

LEMMA ConcatAppend ==
    ASSUME NEW S, NEW s \in Seq(S), NEW t \in Seq(S), NEW e \in S
    PROVE  s \o Append(t, e) = Append(s \o t, e)
  <1>1. Append(t, e) = t \o <<e>> /\ Append(s \o t, e) = (s \o t) \o <<e>> /\ <<e>> \in Seq(S)
    BY ConcatProperties, AppendIsConcat
  <1> QED
    BY <1>1, ConcatAssociative

(* To take from the front of a sequence is to take from the front of what  *)
(* it is continued to.                                                     *)
LEMMA DropConcat ==
    ASSUME NEW S, NEW s \in Seq(S), NEW t \in Seq(S), NEW d \in 0 .. Len(s)
    PROVE  SubSeq(s, d + 1, Len(s)) \o t = SubSeq(s \o t, d + 1, Len(s \o t))
  <1> DEFINE a == SubSeq(s, d + 1, Len(s))
             v == s \o t
             b == SubSeq(v, d + 1, Len(v))
  <1>1. /\ Len(s) \in Nat /\ Len(t) \in Nat /\ d \in Nat /\ d <= Len(s)
        /\ v \in Seq(S) /\ Len(v) = Len(s) + Len(t)
        /\ \A i \in 1 .. Len(s) + Len(t) : v[i] = IF i <= Len(s) THEN s[i] ELSE t[i - Len(s)]
    BY ConcatProperties, LenProperties
  <1> HIDE DEF v
  <1>2. /\ a \in Seq(S) /\ Len(a) = Len(s) - d
        /\ \A i \in 1 .. Len(s) - d : a[i] = s[i + d]
    <2>1. \A i \in d + 1 .. Len(s) : s[i] \in S
      BY <1>1, ElementOfSeq
    <2> QED
      BY <1>1, <2>1, SubSeqProperties
  <1>3. /\ b \in Seq(S) /\ Len(b) = Len(s) + Len(t) - d
        /\ \A i \in 1 .. Len(s) + Len(t) - d : b[i] = v[i + d]
    <2>1. \A i \in d + 1 .. Len(v) : v[i] \in S
      BY <1>1, ElementOfSeq
    <2> QED
      BY <1>1, <2>1, SubSeqProperties
  <1> HIDE DEF a, b
  <1>4. /\ a \o t \in Seq(S) /\ Len(a \o t) = Len(a) + Len(t)
        /\ \A i \in 1 .. Len(a) + Len(t) :
             (a \o t)[i] = IF i <= Len(a) THEN a[i] ELSE t[i - Len(a)]
    BY <1>2, ConcatProperties
  <1>5. \A i \in 1 .. Len(a \o t) : (a \o t)[i] = b[i]
    <2> TAKE i \in 1 .. Len(a \o t)
    <2>1. i \in 1 .. Len(a) + Len(t) /\ Len(a) = Len(s) - d
      BY <1>2, <1>4
    <2>2. CASE i <= Len(a)
      <3>1. i \in 1 .. Len(s) - d /\ i \in 1 .. Len(s) + Len(t) - d /\ i + d \in 1 .. Len(s)
        BY <1>1, <2>1, <2>2
      <3> QED
        BY <1>1, <1>2, <1>3, <1>4, <2>1, <2>2, <3>1
    <2>3. CASE i > Len(a)
      <3>1. /\ i \in 1 .. Len(s) + Len(t) - d /\ i + d \in 1 .. Len(s) + Len(t)
            /\ i + d > Len(s) /\ (i + d) - Len(s) = i - Len(a)
        BY <1>1, <2>1, <2>3
      <3>2. b[i] = v[i + d] /\ v[i + d] = t[(i + d) - Len(s)]
        BY <1>1, <1>3, <3>1
      <3>3. (a \o t)[i] = t[i - Len(a)]
        BY <1>2, <1>4, <2>1, <2>3
      <3> QED
        BY <3>1, <3>2, <3>3
    <2> QED
      BY <1>1, <2>1, <2>2, <2>3
  <1>6. Len(a \o t) = Len(b)
    BY <1>1, <1>2, <1>3, <1>4
  <1>7. a \o t = b
    BY <1>3, <1>4, <1>5, <1>6, SeqEqual
  <1> QED
    BY <1>7 DEF a, b, v

(* What the parser can take is the front of what was not parsed.           *)
LEMMA UnparsedLemma ==
    ASSUME DataInv, NEW c \in Conns
    PROVE  /\ Unparsed(c) \in Seq(Token) /\ Taken(c) \in Seq(Token)
           /\ Taken(c) # <<>> => /\ Unparsed(c) # <<>> /\ Head(Taken(c)) = Unparsed(c)[1]
                                 /\ Len(Taken(c)) \in 1 .. Len(Unparsed(c))
           /\ \A d \in 0 .. Len(Taken(c)) :
                Receive(c) /\ inb' = Upd(inb, c, SubSeq(Taken(c), d + 1, Len(Taken(c))))
                  => Unparsed(c)' = SubSeq(Unparsed(c), d + 1, Len(Unparsed(c)))
  <1> DEFINE R == IF inb[c] = <<>> THEN <<>> ELSE rcv[c]
  <1>1. inb[c] \in Seq(Token) /\ rcv[c] \in Seq(Token) /\ R \in Seq(Token)
    BY EmptySeq DEF DataInv, InInv
  <1>2. Taken(c) \in Seq(Token) /\ Unparsed(c) \in Seq(Token)
    BY <1>1, ConcatProperties DEF Taken, Unparsed
  <1>3. Unparsed(c) = Taken(c) \o R
    BY <1>1, ConcatEmptySeq DEF Taken, Unparsed
  <1>4. ASSUME Taken(c) # <<>>
        PROVE  /\ Unparsed(c) # <<>> /\ Head(Taken(c)) = Unparsed(c)[1]
               /\ Len(Taken(c)) \in 1 .. Len(Unparsed(c))
    <2>1. Len(Taken(c)) \in Nat \ {0} /\ Len(R) \in Nat
      BY <1>1, <1>2, <1>4, EmptySeq, LenProperties
    <2>2. Len(Unparsed(c)) = Len(Taken(c)) + Len(R) /\ Unparsed(c)[1] = Taken(c)[1]
      BY <1>1, <1>2, <1>3, <2>1, ConcatProperties
    <2>3. Head(Taken(c)) = Taken(c)[1]
      BY <1>2
    <2> QED
      BY <2>1, <2>2, <2>3, EmptySeq
  <1>5. ASSUME NEW d \in 0 .. Len(Taken(c)), Receive(c),
               inb' = Upd(inb, c, SubSeq(Taken(c), d + 1, Len(Taken(c))))
        PROVE  Unparsed(c)' = SubSeq(Unparsed(c), d + 1, Len(Unparsed(c)))
    <2>1. inb'[c] = SubSeq(Taken(c), d + 1, Len(Taken(c))) /\ rcv'[c] = R
      BY <1>5 DEF DataInv, InInv, Receive, Upd
    <2> HIDE DEF R
    <2> QED
      <3>1. Unparsed(c)' = SubSeq(Taken(c), d + 1, Len(Taken(c))) \o R
        BY <2>1 DEF Unparsed
      <3>2. SubSeq(Taken(c), d + 1, Len(Taken(c))) \o R
              = SubSeq(Taken(c) \o R, d + 1, Len(Taken(c) \o R))
        BY <1>1, <1>2, DropConcat
      <3> QED
        BY <1>3, <3>1, <3>2
  <1> QED
    BY <1>2, <1>4, <1>5

LEMMA OtherLines ==
    ASSUME LineInv, NEW c \in Conns,
           \A d \in Conns \ {c} : /\ inb'[d] = inb[d] /\ rcv'[d] = rcv[d] /\ served'[d] = served[d]
                                  /\ sent'[d] = sent[d] /\ half'[d] = half[d] /\ script'[d] = script[d],
           Follows(Unparsed(c), served[c], sent[c], half[c], script[c])'
    PROVE  LineInv'
  BY DEF LineInv, Unparsed

LEMMA SendLines ==
    ASSUME LineInv, DataInv, NEW c \in Conns, Client(c)
    PROVE  LineInv'
  <1> DEFINE T == Unparsed(c)
  <1>1. /\ T \in Seq(Token) /\ inb[c] \in Seq(Token) /\ rcv[c] \in Seq(Token)
        /\ served[c] \in Nat /\ sent[c] \in Nat /\ half[c] \in BOOLEAN
        /\ Follows(T, served[c], sent[c], half[c], script[c])
    BY UnparsedLemma, SizesAssumption DEF DataInv, InInv, PeerInv, LineInv
  <1>2. UNCHANGED <<inb, served, script>>
    BY DEF Client, inVars, SendLine, SendHead, SendRest, Leave
  <1>3. ASSUME NEW part \in {"all", "beg", "end"}, Arrives(c, part), Connected(c),
               part = "end" <=> half[c],
               IF part = "beg" THEN UNCHANGED sent ELSE sent' = Upd(sent, c, sent[c] + 1),
               IF part = "all" THEN UNCHANGED half ELSE half' = Upd(half, c, part = "beg")
        PROVE  LineInv'
    <2> DEFINE t == [n |-> sent[c] + 1, line |-> script[c][sent[c] + 1], part |-> part]
    <2>1. t \in Token
      <3>1. script[c] \in Scripts /\ sent[c] \in Nat /\ sent[c] + 1 <= Len(script[c])
        BY <1>3, ArrivesData
      <3>2. sent[c] + 1 \in 1 .. MaxLines /\ script[c][sent[c] + 1] \in Line
        BY <3>1, ScriptLemma, SizesAssumption
      <3> QED
        BY <3>2 DEF Token
    <2>2. rcv'[c] = Append(rcv[c], t) /\ \A d \in Conns \ {c} : rcv'[d] = rcv[d]
      BY <1>3 DEF Arrives, DataInv, InInv, Upd
    <2>3. t.n = sent[c] + 1 /\ t.line = script[c][sent[c] + 1] /\ t.part = part
      OBVIOUS
    <2> HIDE DEF t
    <2>4. Unparsed(c)' = Append(T, t)
      <3>1. \A u, v \in Seq(Token) : \A e \in Token : u \o Append(v, e) = Append(u \o v, e)
        BY ConcatAppend
      <3>2. inb[c] \o Append(rcv[c], t) = Append(inb[c] \o rcv[c], t)
        BY <1>1, <2>1, <3>1
      <3> QED
        BY <1>2, <2>2, <3>2 DEF Unparsed
    <2>5. /\ sent'[c] = IF part = "beg" THEN sent[c] ELSE sent[c] + 1
          /\ half'[c] = (part = "beg")
          /\ \A d \in Conns \ {c} : sent'[d] = sent[d] /\ half'[d] = half[d]
      <3>1. part = "all" => half[c] = FALSE
        BY <1>1, <1>3
      <3> QED
        BY <1>3, <3>1 DEF DataInv, PeerInv, Upd
    <2>6. Follows(Append(T, t), served[c], sent'[c], half'[c], script[c])
      <3> HIDE DEF T
      <3>1. t.part = "end" <=> half[c]
        BY <1>3, <2>3
      <3>2. /\ sent'[c] = IF t.part = "beg" THEN sent[c] ELSE sent[c] + 1
            /\ half'[c] = (t.part = "beg")
        BY <2>3, <2>5
      <3> QED
        BY <1>1, <2>1, <2>3, <3>1, <3>2, OneMoreFollows
    <2> QED
      BY <1>2, <2>2, <2>4, <2>5, <2>6, OtherLines
  <1>4. CASE Leave(c)
    BY <1>2, <1>4 DEF Leave, LineInv, Unparsed
  <1>5. CASE SendLine(c)
    BY <1>3, <1>5 DEF SendLine
  <1>6. CASE SendHead(c)
    BY <1>3, <1>6 DEF SendHead
  <1>7. CASE SendRest(c)
    BY <1>3, <1>7 DEF SendRest
  <1> QED
    BY <1>4, <1>5, <1>6, <1>7 DEF Client

(* The line that is parsed is the next one of the script.                  *)
LEMMA NextLine ==
    ASSUME LineInv, DataInv, NEW c \in Conns, ReadLine(c)
    PROVE  /\ LineInv'
           /\ served' = Upd(served, c, served[c] + 1)
           /\ Head(Taken(c)).n = served[c] + 1
           /\ Head(Taken(c)).line = script[c][served[c] + 1]
  <1> DEFINE T == Unparsed(c)
             d == IF Head(Taken(c)).part = "beg" THEN 2 ELSE 1
  <1>1. /\ served[c] \in Nat /\ sent[c] \in Nat /\ half[c] \in BOOLEAN
        /\ Follows(T, served[c], sent[c], half[c], script[c])
    BY SizesAssumption DEF DataInv, InInv, PeerInv, LineInv
  <1>2. Whole(c) /\ Receive(c) /\ inb' = Upd(inb, c, Rest(c)) /\ UNCHANGED <<sent, half, script>>
    BY DEF ReadLine, peerVars
  <1>3. /\ T \in Seq(Token) /\ Taken(c) \in Seq(Token) /\ T # <<>>
        /\ Head(Taken(c)) = T[1] /\ Len(Taken(c)) \in 1 .. Len(T) /\ Len(T) \in Nat
    BY <1>2, UnparsedLemma, LenProperties DEF Whole
  <1>4. d \in {1, 2} /\ d <= Len(Taken(c)) /\ d <= Len(T) /\ (d = 2 <=> T[1].part = "beg")
    BY <1>2, <1>3 DEF Whole
  <1>5. Unparsed(c)' = SubSeq(T, d + 1, Len(T))
    <2>1. Rest(c) = SubSeq(Taken(c), d + 1, Len(Taken(c)))
      BY DEF Rest
    <2>2. d \in 0 .. Len(Taken(c))
      BY <1>3, <1>4
    <2> HIDE DEF d
    <2> QED
      BY <1>2, <2>1, <2>2, UnparsedLemma
  <1> HIDE DEF d, T
  <1>6. /\ Follows(SubSeq(T, d + 1, Len(T)), served[c] + 1, sent[c], half[c], script[c])
        /\ T[1].n = served[c] + 1 /\ T[1].line = script[c][served[c] + 1]
    BY <1>1, <1>3, <1>4, FewerFollow
  <1>7. served' = Upd(served, c, served[c] + 1)
    <2>1. served' = Upd(served, c, [Head(Taken(c)) EXCEPT !.part = "all"].n)
      BY DEF ReadLine
    <2>2. Head(Taken(c)) \in Token
      BY <1>2, TakenLemma
    <2> QED
      BY <1>3, <1>6, <2>1, <2>2 DEF Token
  <1>8. /\ served'[c] = served[c] + 1
        /\ \A e \in Conns \ {c} : served'[e] = served[e] /\ inb'[e] = inb[e] /\ rcv'[e] = rcv[e]
    BY <1>2, <1>7 DEF DataInv, InInv, Upd, Receive
  <1>9. LineInv'
    BY <1>2, <1>5, <1>6, <1>8, OtherLines
  <1> QED
    BY <1>3, <1>6, <1>7, <1>9

LEMMA ReadLines ==
    ASSUME LineInv, DataInv, NEW c \in Conns, Read(c)
    PROVE  LineInv'
  <1> DEFINE T == Unparsed(c)
  <1>1. /\ served[c] \in Nat /\ sent[c] \in Nat /\ half[c] \in BOOLEAN
        /\ Follows(T, served[c], sent[c], half[c], script[c])
    BY SizesAssumption DEF DataInv, InInv, PeerInv, LineInv
  <1>2. CASE ReadEnds(c) \/ ReadFails(c) \/ ReadInError(c)
    BY <1>2 DEF ReadEnds, ReadFails, ReadInError, inVars, peerVars, LineInv, Unparsed
  <1>3. CASE ReadPartial(c)
    <2>1. /\ Receive(c) /\ inb' = Upd(inb, c, <<>>) /\ UNCHANGED <<served, sent, half, script>>
          /\ Taken(c) # <<>> /\ Head(Taken(c)).part = "beg" /\ ~(Len(Taken(c)) > 1)
      BY <1>3 DEF ReadPartial, Whole, peerVars
    <2>2. /\ T \in Seq(Token) /\ T # <<>> /\ T[1].part = "beg"
          /\ Taken(c) \in Seq(Token)
      BY <2>1, UnparsedLemma
    <2>8. Len(Taken(c)) = 1
      <3>1. Len(Taken(c)) \in Nat /\ Len(Taken(c)) # 0
        BY <2>1, <2>2, EmptySeq
      <3>2. \A k \in Nat : k # 0 /\ ~(k > 1) => k = 1
        OBVIOUS
      <3> QED
        BY <2>1, <3>1, <3>2
    <2>3. SubSeq(Taken(c), 1 + 1, Len(Taken(c))) = <<>>
      BY <2>2, <2>8, SubSeqEmpty
    <2>4. Unparsed(c)' = SubSeq(T, 1 + 1, Len(T))
      <3>1. 1 \in 0 .. Len(Taken(c))
        BY <2>8
      <3> QED
        BY <2>1, <2>3, <3>1, UnparsedLemma
    <2>5. \A e \in Conns \ {c} : inb'[e] = inb[e] /\ rcv'[e] = rcv[e]
      BY <2>1 DEF DataInv, InInv, Upd, Receive
    <2> HIDE DEF T
    <2>6. Follows(SubSeq(T, 2, Len(T)), served[c], sent[c], half[c], script[c])
      BY <1>1, <2>2, BeginningTaken
    <2>7. Unparsed(c)' = SubSeq(T, 2, Len(T))
      BY <2>4
    <2> QED
      BY <2>1, <2>5, <2>6, <2>7, OtherLines
  <1>4. CASE ReadResumes(c)
    <2>1. Receive(c) /\ inb' = Upd(inb, c, Taken(c)) /\ UNCHANGED <<served, sent, half, script>>
      BY <1>4 DEF ReadResumes
    <2>2. T \in Seq(Token) /\ Taken(c) \in Seq(Token)
      BY UnparsedLemma
    <2>3. SubSeq(Taken(c), 0 + 1, Len(Taken(c))) = Taken(c) /\ SubSeq(T, 0 + 1, Len(T)) = T
      BY <2>2, SubSeqFull
    <2>4. Unparsed(c)' = T
      <3>1. 0 \in 0 .. Len(Taken(c))
        BY <2>2, LenProperties
      <3> QED
        BY <2>1, <2>3, <3>1, UnparsedLemma
    <2>5. \A e \in Conns \ {c} : inb'[e] = inb[e] /\ rcv'[e] = rcv[e]
      BY <2>1 DEF DataInv, InInv, Upd, Receive
    <2> QED
      BY <1>1, <2>1, <2>4, <2>5, OtherLines
  <1> QED
    BY <1>2, <1>3, <1>4, NextLine DEF Read

LEMMA InitLines == Init => LineInv
  <1> SUFFICES ASSUME Init, NEW c \in Conns
               PROVE  Follows(Unparsed(c), served[c], sent[c], half[c], script[c])
    BY DEF LineInv
  <1>1. Unparsed(c) = <<>> /\ served[c] = 0 /\ sent[c] = 0
    BY EmptySeq, ConcatEmptySeq DEF Init, Unparsed
  <1> QED
    BY <1>1, NothingFollows

LEMMA NextLines == LineInv /\ DataInv /\ [Next]_vars => LineInv'
  <1> SUFFICES ASSUME LineInv, DataInv, [Next]_vars
               PROVE  LineInv'
    OBVIOUS
  <1>1. CASE UNCHANGED <<inVars, rcv, peerVars>>
    BY <1>1 DEF inVars, peerVars, LineInv, Unparsed
  <1>2. ASSUME NEW c \in Conns, Accept(c) \/ Write(c)
        PROVE  UNCHANGED <<inVars, rcv, peerVars>>
    BY <1>2 DEF Accept, Write, WriteSends, WriteFails, WriteDies, writeFrame, inVars, peerVars
  <1>3. CASE (\E b \in Boxes, m \in Mails : Deliver(b, m)) \/ Administer \/ UNCHANGED vars
    BY <1>1, <1>3 DEF Deliver, Administer, vars
  <1> QED
    BY <1>1, <1>2, <1>3, SendLines, ReadLines DEF Next, Serve

LEMMA SpecLines == Spec => []LineInv
  BY InitLines, NextLines, SpecData, PTL DEF Spec

----------------------------------------------------------------------------
(* Conversations.                                                          *)

(* The units of a conversation are in the order of the lines parsed.       *)
Ordered(s, n) ==
    /\ \A j, k \in DOMAIN s : j < k => s[j].n <= s[k].n
    /\ \A j \in DOMAIN s : s[j].n <= n

(* PiecesInOrder, of one conversation.                                     *)
InPieces(s) ==
    \A j \in DOMAIN s :
        /\ s[j].kind = "body" =>
             /\ Numbers(s, Earlier(s, s[j].n, j)) = 1 .. s[j].i - 1
             /\ \A k \in Bodies(s, s[j].n) : s[k].m = s[j].m
        /\ Terminates(s[j]) =>
             /\ \A k \in At(s, s[j].n) : k <= j
             /\ \A k \in Bodies(s, s[j].n) : s[k].m = s[j].m

(* A reply to the n-th line that may go on: b pieces of m, no terminator.  *)
Open(s, n, m, b) ==
    /\ \A j \in At(s, n) : ~Terminates(s[j])
    /\ \A j \in Bodies(s, n) : s[j].m = m
    /\ Numbers(s, Bodies(s, n)) = 1 .. b

(* What goes on with it: the next pieces of m, perhaps the terminator.     *)
GoesOn(w, n, m, b) ==
    \A j \in DOMAIN w :
        /\ w[j].n = n
        /\ w[j].kind = "body" =>
             /\ w[j].i > b /\ w[j].m = m
             /\ Numbers(w, Earlier(w, n, j)) = b + 1 .. w[j].i - 1
        /\ Terminates(w[j]) => j = Len(w) /\ w[j].m = m

(* The places of a line in a conversation that goes on: those it had, and  *)
(* those of the continuation, moved behind them.                           *)
LEMMA JoinAt ==
    ASSUME NEW s \in Seq(Unit), NEW w \in Seq(Unit), NEW v, Joins(v, s, w), NEW n
    PROVE  /\ \A j \in At(v, n) : \/ j \in At(s, n) /\ v[j] = s[j]
                                  \/ \E k \in At(w, n) : j = Len(s) + k /\ v[j] = w[k]
           /\ \A j \in At(s, n) : j \in At(v, n) /\ v[j] = s[j] /\ j <= Len(s) /\ j \in 1 .. Len(s)
           /\ \A k \in At(w, n) : Len(s) + k \in At(v, n) /\ v[Len(s) + k] = w[k] /\ k \in 1 .. Len(w)
           /\ \A j \in Bodies(v, n) : \/ j \in Bodies(s, n) /\ v[j] = s[j]
                                      \/ \E k \in Bodies(w, n) : j = Len(s) + k /\ v[j] = w[k]
           /\ \A j \in Bodies(s, n) : j \in Bodies(v, n) /\ v[j] = s[j] /\ j \in 1 .. Len(s)
           /\ \A k \in Bodies(w, n) : /\ Len(s) + k \in Bodies(v, n) /\ v[Len(s) + k] = w[k]
                                      /\ k \in 1 .. Len(w)
  <1>1. /\ \A j \in At(v, n) : \/ j \in At(s, n) /\ v[j] = s[j]
                               \/ \E k \in At(w, n) : j = Len(s) + k /\ v[j] = w[k]
        /\ \A j \in At(s, n) : j \in At(v, n) /\ v[j] = s[j] /\ j <= Len(s) /\ j \in 1 .. Len(s)
        /\ \A k \in At(w, n) : Len(s) + k \in At(v, n) /\ v[Len(s) + k] = w[k] /\ k \in 1 .. Len(w)
    <2>1. /\ Len(s) \in Nat /\ DOMAIN s = 1 .. Len(s) /\ DOMAIN w = 1 .. Len(w)
          /\ \A j \in DOMAIN s : j \in DOMAIN v /\ v[j] = s[j] /\ j <= Len(s)
          /\ \A k \in DOMAIN w : Len(s) + k \in DOMAIN v /\ v[Len(s) + k] = w[k]
          /\ \A j \in DOMAIN v : \/ j \in DOMAIN s /\ v[j] = s[j]
                                 \/ \E k \in DOMAIN w : j = Len(s) + k /\ v[j] = w[k]
      BY JoinLemma
    <2> QED
      BY <2>1 DEF At
  <1> QED
    BY <1>1 DEF Bodies

LEMMA JoinOrdered ==
    ASSUME NEW s \in Seq(Unit), NEW w \in Seq(Unit), NEW v, Joins(v, s, w),
           NEW a \in Nat, NEW n \in Nat, a <= n,
           Ordered(s, a), \A j \in DOMAIN w : w[j].n = n
    PROVE  Ordered(v, n)
  <1>1. \A j \in DOMAIN s : s[j].n \in Nat /\ s[j].n <= n
    <2>1. \A j \in DOMAIN s : s[j] \in Unit
      BY ElementOfSeq, LenProperties
    <2>2. \A u \in Unit : u.n \in Nat
      BY SizesAssumption DEF Unit
    <2>3. \A j \in DOMAIN s : s[j].n <= a
      BY DEF Ordered
    <2> QED
      BY <2>1, <2>2, <2>3
  <1>2. \A j \in DOMAIN v : v[j].n <= n
    BY <1>1, JoinLemma
  <1>3. ASSUME NEW j \in DOMAIN v, NEW k \in DOMAIN v, j < k
        PROVE  v[j].n <= v[k].n
    <2>1. CASE k \in DOMAIN s /\ v[k] = s[k]
      <3>1. j \in DOMAIN s /\ v[j] = s[j]
        BY <1>3, <2>1, JoinLemma
      <3> QED
        BY <1>3, <2>1, <3>1 DEF Ordered
    <2>2. ASSUME NEW i \in DOMAIN w, v[k] = w[i]
          PROVE  v[j].n <= v[k].n
      BY <1>2, <2>2
    <2> QED
      BY <2>1, <2>2, JoinLemma
  <1> QED
    BY <1>2, <1>3 DEF Ordered

LEMMA AfterAll ==
    ASSUME NEW s \in Seq(Unit), NEW a \in Nat, Ordered(s, a), NEW n \in Nat, a < n
    PROVE  At(s, n) = {}
  BY ElementOfSeq, LenProperties, SizesAssumption DEF Ordered, At, Unit

LEMMA EmptyIsOpen ==
    ASSUME NEW s \in Seq(Unit), NEW n, At(s, n) = {}, NEW m
    PROVE  Open(s, n, m, 0)
  <1>1. Bodies(s, n) = {}
    BY DEF Bodies
  <1>2. Numbers(s, {}) = {} /\ 1 .. 0 = {}
    BY DEF Numbers
  <1> QED
    BY <1>1, <1>2 DEF Open

LEMMA JoinEarlier ==
    ASSUME NEW s \in Seq(Unit), NEW w \in Seq(Unit), NEW v, Joins(v, s, w), NEW n, NEW j \in DOMAIN s
    PROVE  Numbers(v, Earlier(v, n, j)) = Numbers(s, Earlier(s, n, j))
  <1>1. /\ Len(s) \in Nat /\ Len(w) \in Nat /\ DOMAIN s = 1 .. Len(s) /\ DOMAIN w = 1 .. Len(w)
    BY JoinLemma
  <1>2. \A k \in Bodies(v, n) : \/ k \in Bodies(s, n) /\ v[k] = s[k]
                                \/ \E i \in Bodies(w, n) : k = Len(s) + i /\ v[k] = w[i]
    BY JoinAt
  <1>3. \A k \in Bodies(s, n) : k \in Bodies(v, n) /\ v[k] = s[k]
    BY JoinAt
  <1>4. \A i \in Bodies(w, n) : i \in 1 .. Len(w)
    BY JoinAt
  <1>5. \A k \in Bodies(v, n) : k < j => k \in Bodies(s, n) /\ v[k] = s[k]
    BY <1>1, <1>2, <1>4
  <1> QED
    BY <1>3, <1>5 DEF Numbers, Earlier

LEMMA JoinLater ==
    ASSUME NEW s \in Seq(Unit), NEW w \in Seq(Unit), NEW v, Joins(v, s, w), NEW n, NEW j \in DOMAIN w
    PROVE  Numbers(v, Earlier(v, n, Len(s) + j))
             = Numbers(s, Bodies(s, n)) \cup Numbers(w, Earlier(w, n, j))
  <1>1. /\ Len(s) \in Nat /\ Len(w) \in Nat /\ DOMAIN s = 1 .. Len(s) /\ DOMAIN w = 1 .. Len(w)
    BY JoinLemma
  <1>2. \A k \in Bodies(v, n) : \/ k \in Bodies(s, n) /\ v[k] = s[k]
                                \/ \E i \in Bodies(w, n) : k = Len(s) + i /\ v[k] = w[i]
    BY JoinAt
  <1>3. \A k \in Bodies(s, n) : k \in Bodies(v, n) /\ v[k] = s[k] /\ k \in 1 .. Len(s)
    BY JoinAt
  <1>4. \A i \in Bodies(w, n) :
            Len(s) + i \in Bodies(v, n) /\ v[Len(s) + i] = w[i] /\ i \in 1 .. Len(w)
    BY JoinAt
  <1>5. \A k \in Bodies(v, n) : k < Len(s) + j =>
           \/ k \in Bodies(s, n) /\ v[k] = s[k]
           \/ \E i \in Bodies(w, n) : i < j /\ v[k] = w[i]
    <2> TAKE k \in Bodies(v, n)
    <2> HAVE k < Len(s) + j
    <2>1. ASSUME NEW i \in Bodies(w, n), k = Len(s) + i, v[k] = w[i]
          PROVE  i < j
      <3>1. i \in Nat /\ j \in Nat
        BY <1>1, <1>4
      <3> QED
        BY <1>1, <2>1, <3>1
    <2> QED
      BY <1>2, <2>1
  <1>6. \A k \in Bodies(s, n) : k \in Bodies(v, n) /\ v[k] = s[k] /\ k < Len(s) + j
    BY <1>1, <1>3
  <1>7. \A k \in Bodies(w, n) : k < j =>
           Len(s) + k \in Bodies(v, n) /\ v[Len(s) + k] = w[k] /\ Len(s) + k < Len(s) + j
    BY <1>1, <1>4
  <1> QED
    BY <1>5, <1>6, <1>7 DEF Numbers, Earlier

LEMMA JoinNumbers ==
    ASSUME NEW s \in Seq(Unit), NEW w \in Seq(Unit), NEW v, Joins(v, s, w), NEW n
    PROVE  Numbers(v, Bodies(v, n)) = Numbers(s, Bodies(s, n)) \cup Numbers(w, Bodies(w, n))
  <1>1. \A k \in Bodies(v, n) : \/ k \in Bodies(s, n) /\ v[k] = s[k]
                                \/ \E i \in Bodies(w, n) : k = Len(s) + i /\ v[k] = w[i]
    BY JoinAt
  <1>2. \A k \in Bodies(s, n) : k \in Bodies(v, n) /\ v[k] = s[k]
    BY JoinAt
  <1>3. \A i \in Bodies(w, n) : Len(s) + i \in Bodies(v, n) /\ v[Len(s) + i] = w[i]
    BY JoinAt
  <1> QED
    BY <1>1, <1>2, <1>3 DEF Numbers

LEMMA JoinPieces ==
    ASSUME NEW s \in Seq(Unit), NEW w \in Seq(Unit), NEW v, Joins(v, s, w), NEW n, NEW m, NEW b \in Nat,
           InPieces(s), Open(s, n, m, b), GoesOn(w, n, m, b)
    PROVE  InPieces(v)
  <1>1. /\ Len(s) \in Nat /\ Len(w) \in Nat /\ Len(v) = Len(s) + Len(w)
        /\ DOMAIN s = 1 .. Len(s) /\ DOMAIN w = 1 .. Len(w) /\ DOMAIN v = 1 .. Len(v)
        /\ \A j \in DOMAIN v : \/ j \in DOMAIN s /\ v[j] = s[j]
                               \/ \E k \in DOMAIN w : j = Len(s) + k /\ v[j] = w[k]
    BY JoinLemma
  <1>2. \A k \in DOMAIN w : w[k].n = n
    BY DEF GoesOn
  <1>3. \A k \in Bodies(w, n) : w[k].m = m
    BY DEF GoesOn, Bodies, At
  <1>4. \A k \in Bodies(s, n) : s[k].m = m
    BY DEF Open
  <1>5. \A k \in Bodies(v, n) : v[k].m = m
    BY <1>3, <1>4, JoinAt
  <1>6. ASSUME NEW i, i # n
        PROVE  /\ \A k \in At(v, i) : k \in At(s, i)
               /\ \A k \in Bodies(v, i) : k \in Bodies(s, i) /\ v[k] = s[k]
    <2>1. At(w, i) = {} /\ Bodies(w, i) = {}
      BY <1>2, <1>6 DEF At, Bodies
    <2> QED
      BY <2>1, JoinAt
  <1>7. ASSUME NEW j \in DOMAIN s, s[j].kind = "body"
        PROVE  /\ Numbers(v, Earlier(v, s[j].n, j)) = 1 .. s[j].i - 1
               /\ \A k \in Bodies(v, s[j].n) : v[k].m = s[j].m
    <2> DEFINE i == s[j].n
    <2>1. Numbers(s, Earlier(s, i, j)) = 1 .. s[j].i - 1
      BY <1>7 DEF InPieces
    <2>2. Numbers(v, Earlier(v, i, j)) = Numbers(s, Earlier(s, i, j))
      <3> HIDE DEF i
      <3> QED
        BY JoinEarlier
    <2>3. \A k \in Bodies(s, i) : s[k].m = s[j].m
      BY <1>7 DEF InPieces
    <2>4. CASE i = n
      <3>1. j \in Bodies(s, n)
        BY <1>7, <2>4 DEF Bodies, At
      <3> QED
        BY <1>4, <1>5, <2>1, <2>2, <2>4, <3>1
    <2>5. CASE i # n
      BY <1>6, <2>1, <2>2, <2>3, <2>5
    <2> QED
      BY <2>4, <2>5
  <1>8. ASSUME NEW j \in DOMAIN s, Terminates(s[j])
        PROVE  /\ \A k \in At(v, s[j].n) : k <= j
               /\ \A k \in Bodies(v, s[j].n) : v[k].m = s[j].m
    <2>1. s[j].n # n
      BY <1>8 DEF Open, At
    <2>2. /\ \A k \in At(s, s[j].n) : k <= j
          /\ \A k \in Bodies(s, s[j].n) : s[k].m = s[j].m
      BY <1>8 DEF InPieces
    <2> QED
      BY <1>6, <2>1, <2>2
  <1>9. ASSUME NEW j \in DOMAIN w, w[j].kind = "body"
        PROVE  /\ Numbers(v, Earlier(v, n, Len(s) + j)) = 1 .. w[j].i - 1
               /\ w[j].m = m
    <2>1. /\ w[j].i > b /\ w[j].m = m
          /\ Numbers(w, Earlier(w, n, j)) = b + 1 .. w[j].i - 1
      BY <1>9 DEF GoesOn
    <2>2. w[j].i \in Nat
      <3>1. w[j] \in Unit
        BY <1>1, ElementOfSeq
      <3> QED
        BY <3>1 DEF Unit
    <2>3. \A i \in Nat : i > b => (1 .. b) \cup (b + 1 .. i - 1) = 1 .. i - 1
      OBVIOUS
    <2>4. Numbers(v, Earlier(v, n, Len(s) + j))
            = Numbers(s, Bodies(s, n)) \cup Numbers(w, Earlier(w, n, j))
      BY JoinLater
    <2>5. Numbers(s, Bodies(s, n)) = 1 .. b
      BY DEF Open
    <2> QED
      BY <2>1, <2>2, <2>3, <2>4, <2>5
  <1>10. ASSUME NEW j \in DOMAIN w, Terminates(w[j])
         PROVE  w[j].m = m /\ \A k \in At(v, n) : k <= Len(s) + j
    <2>1. w[j].m = m /\ j = Len(w)
      BY <1>10 DEF GoesOn
    <2>2. \A k \in At(v, n) : k \in DOMAIN v
      BY DEF At
    <2> QED
      BY <1>1, <2>1, <2>2
  <1>11. ASSUME NEW j \in DOMAIN v
         PROVE  /\ v[j].kind = "body" =>
                     /\ Numbers(v, Earlier(v, v[j].n, j)) = 1 .. v[j].i - 1
                     /\ \A k \in Bodies(v, v[j].n) : v[k].m = v[j].m
                /\ Terminates(v[j]) =>
                     /\ \A k \in At(v, v[j].n) : k <= j
                     /\ \A k \in Bodies(v, v[j].n) : v[k].m = v[j].m
    <2>1. CASE j \in DOMAIN s /\ v[j] = s[j]
      BY <1>7, <1>8, <2>1
    <2>2. ASSUME NEW k \in DOMAIN w, j = Len(s) + k, v[j] = w[k]
          PROVE  /\ v[j].kind = "body" =>
                      /\ Numbers(v, Earlier(v, v[j].n, j)) = 1 .. v[j].i - 1
                      /\ \A i \in Bodies(v, v[j].n) : v[i].m = v[j].m
                 /\ Terminates(v[j]) =>
                      /\ \A i \in At(v, v[j].n) : i <= j
                      /\ \A i \in Bodies(v, v[j].n) : v[i].m = v[j].m
      BY <1>2, <1>5, <1>9, <1>10, <2>2
    <2> QED
      BY <1>1, <2>1, <2>2
  <1> QED
    BY <1>11 DEF InPieces

(* Without a terminator the reply stays open, with the pieces it has now.  *)
LEMMA JoinOpen ==
    ASSUME NEW s \in Seq(Unit), NEW w \in Seq(Unit), NEW v, Joins(v, s, w), NEW n, NEW m, NEW b \in Nat,
           Open(s, n, m, b), GoesOn(w, n, m, b), \A j \in DOMAIN w : ~Terminates(w[j]),
           NEW x \in Nat, b <= x, Numbers(w, Bodies(w, n)) = b + 1 .. x
    PROVE  Open(v, n, m, x)
  <1>1. \A j \in At(v, n) : ~Terminates(v[j])
    <2>1. \A k \in At(w, n) : ~Terminates(w[k])
      BY DEF At
    <2>2. \A k \in At(s, n) : ~Terminates(s[k])
      BY DEF Open
    <2> QED
      BY <2>1, <2>2, JoinAt
  <1>2. \A j \in Bodies(v, n) : v[j].m = m
    <2>1. \A k \in Bodies(w, n) : w[k].m = m
      BY DEF GoesOn, Bodies, At
    <2>2. \A k \in Bodies(s, n) : s[k].m = m
      BY DEF Open
    <2> QED
      BY <2>1, <2>2, JoinAt
  <1>3. Numbers(v, Bodies(v, n)) = 1 .. x
    <2>1. (1 .. b) \cup (b + 1 .. x) = 1 .. x
      OBVIOUS
    <2>2. Numbers(s, Bodies(s, n)) = 1 .. b
      BY DEF Open
    <2>3. Numbers(v, Bodies(v, n)) = Numbers(s, Bodies(s, n)) \cup Numbers(w, Bodies(w, n))
      BY JoinNumbers
    <2> QED
      BY <2>1, <2>2, <2>3
  <1> QED
    BY <1>1, <1>2, <1>3 DEF Open

----------------------------------------------------------------------------
(* What the callbacks add to a conversation.                               *)

LEMMA ConversationLemma ==
    ASSUME DataInv, NEW c \in Conns
    PROVE  Conversation(c) \in Seq(Unit) /\ got[c] \in Seq(Unit) /\ out[c] \in Seq(Unit)
  <1>1. got[c] \in Seq(Unit) /\ out[c] \in Seq(Unit)
    BY DEF DataInv, OutInv
  <1> QED
    BY <1>1, ConcatProperties DEF Conversation

LEMMA UnitsAssociate ==
    \A s, t, u \in Seq(Unit) : (s \o t) \o u = s \o (t \o u)
  <1>1. ASSUME NEW S
        PROVE  \A s, t, u \in Seq(S) : (s \o t) \o u = s \o (t \o u)
    <2> TAKE s, t, u \in Seq(S)
    <2> QED
      BY ConcatAssociative
  <1> QED
    BY <1>1

LEMMA FrontOf ==
    ASSUME NEW us \in Seq(Unit), NEW k \in 0 .. Len(us)
    PROVE  /\ SubSeq(us, 1, k) \in Seq(Unit) /\ Len(SubSeq(us, 1, k)) = k /\ k \in Nat
           /\ \A i \in 1 .. k : SubSeq(us, 1, k)[i] = us[i] /\ i \in DOMAIN us
           /\ k = Len(us) => SubSeq(us, 1, k) = us
  <1>1. Len(us) \in Nat /\ DOMAIN us = 1 .. Len(us) /\ k \in Nat /\ k <= Len(us)
    BY LenProperties
  <1>2. \A i \in 1 .. k : us[i] \in Unit /\ i \in DOMAIN us
    BY <1>1, ElementOfSeq
  <1>3. /\ SubSeq(us, 1, k) \in Seq(Unit) /\ Len(SubSeq(us, 1, k)) = k
        /\ \A i \in 1 .. k : SubSeq(us, 1, k)[i] = us[i]
    BY <1>1, <1>2, SubSeqProperties
  <1>4. SubSeq(us, 1, Len(us)) = us
    BY SubSeqFull
  <1> QED
    BY <1>1, <1>2, <1>3, <1>4

(* A reply is added as far as it fits, and goes to no other client.        *)
LEMMA PutJoins ==
    ASSUME DataInv, NEW c \in Conns, NEW us \in Seq(Unit), Put(c, us), UNCHANGED got
    PROVE  /\ \E k \in 0 .. Len(us) :
                /\ Joins(Conversation(c)', Conversation(c), SubSeq(us, 1, k))
                /\ Len(us) <= Room(c) => k = Len(us)
           /\ \A d \in Conns \ {c} : Conversation(d)' = Conversation(d)
  <1> DEFINE k == Least(Room(c), Len(us))
             w == SubSeq(us, 1, k)
  <1>1. Room(c) \in Nat /\ Len(us) \in Nat
    BY RoomLemma, LenProperties, SizesAssumption
  <1>2. k \in 0 .. Len(us) /\ (Len(us) <= Room(c) => k = Len(us))
    BY <1>1 DEF Least
  <1>3. w \in Seq(Unit)
    BY <1>2, FrontOf
  <1>4. out' = Upd(out, c, out[c] \o w)
    BY DEF Put
  <1> HIDE DEF w, k
  <1>5. out'[c] = out[c] \o w /\ \A d \in Conns \ {c} : out'[d] = out[d]
    BY <1>4 DEF DataInv, OutInv, Upd
  <1>6. (got[c] \o out[c]) \o w = got[c] \o (out[c] \o w)
    BY <1>3, ConversationLemma, UnitsAssociate
  <1>7. Joins(Conversation(c)', Conversation(c), w)
    BY <1>5, <1>6 DEF Joins, Conversation
  <1>8. \A d \in Conns \ {c} : Conversation(d)' = Conversation(d)
    BY <1>5 DEF Conversation
  <1> QED
    BY <1>2, <1>7, <1>8 DEF w

LEMMA NoPutJoins ==
    ASSUME UNCHANGED <<outVars, got>>, NEW c \in Conns
    PROVE  Conversation(c)' = Conversation(c)
  BY DEF Conversation, outVars

(* What handle_write adds before it sends.                                 *)
Added(c) ==
    IF stm[c] = "NONE" THEN <<U(0, "ok", 0)>>
    ELSE IF ErrorFits(c) THEN <<U(served[c], "err", 0)>> ELSE <<>>

LEMMA AddedLemma ==
    ASSUME DataInv, NEW c \in Conns
    PROVE  Added(c) \in Seq(Unit) /\ Queue(c) = out[c] \o Added(c) /\ Queue(c) \in Seq(Unit)
  <1>1. U(0, "ok", 0) \in Unit /\ U(served[c], "err", 0) \in Unit
    <2>1. 0 \in 0 .. MaxLines /\ 0 \in Nat /\ served[c] \in 0 .. MaxLines
      BY SizesAssumption DEF DataInv, InInv
    <2>2. "ok" \in Kinds /\ "err" \in Kinds
      BY DEF Kinds
    <2> QED
      BY <2>1, <2>2, UnitLemma
  <1>2. Added(c) \in Seq(Unit)
    BY <1>1, EmptySeq DEF Added
  <1>3. out[c] \in Seq(Unit)
    BY ConversationLemma
  <1>4. Queue(c) = out[c] \o Added(c)
    BY <1>1, <1>3, AppendIsConcat, ConcatEmptySeq DEF Added, Queue, ErrorFits
  <1>5. out[c] \o Added(c) \in Seq(Unit)
    BY <1>2, <1>3, ConcatProperties
  <1> QED
    BY <1>2, <1>4, <1>5

(* A send moves units from the one part of a conversation to the other.    *)
LEMMA FlushJoins ==
    ASSUME DataInv, NEW c \in Conns, NEW k \in Amounts(Queue(c)), Flush(c, Queue(c), k)
    PROVE  /\ Joins(Conversation(c)', Conversation(c), Added(c))
           /\ \A d \in Conns \ {c} : Conversation(d)' = Conversation(d)
  <1> DEFINE q == Queue(c)
  <1>1. q \in Seq(Unit) /\ q = out[c] \o Added(c) /\ Added(c) \in Seq(Unit)
    BY AddedLemma
  <1>2. got[c] \in Seq(Unit) /\ out[c] \in Seq(Unit)
    BY ConversationLemma
  <1>3. Len(q) \in Nat /\ k \in 0 .. Len(q)
    <2>1. Len(q) \in Nat
      BY <1>1, LenProperties
    <2>2. k \in 1 .. Len(q) \/ k = Len(q)
      BY DEF Amounts, q
    <2> QED
      BY <2>1, <2>2
  <1>4. got' = Upd(got, c, got[c] \o SubSeq(q, 1, k)) /\ out' = Upd(out, c, SubSeq(q, k + 1, Len(q)))
    BY DEF Flush
  <1> HIDE DEF q
  <1>5. /\ got'[c] = got[c] \o SubSeq(q, 1, k) /\ out'[c] = SubSeq(q, k + 1, Len(q))
        /\ \A d \in Conns \ {c} : got'[d] = got[d] /\ out'[d] = out[d]
    BY <1>4 DEF DataInv, OutInv, Upd
  <1>6. SubSeq(q, 1, k) \o SubSeq(q, k + 1, Len(q)) = q
    <2>1. 1 \in 1 .. Len(q) + 1 /\ k \in 1 - 1 .. Len(q) /\ Len(q) \in k .. Len(q)
      BY <1>3
    <2>2. SubSeq(q, 1, k) \o SubSeq(q, k + 1, Len(q)) = SubSeq(q, 1, Len(q))
      BY <1>1, <2>1, ConcatAdjacentSubSeq
    <2> QED
      BY <1>1, <2>2, SubSeqFull
  <1>7. SubSeq(q, 1, k) \in Seq(Unit) /\ SubSeq(q, k + 1, Len(q)) \in Seq(Unit)
    <2>1. \A i \in k + 1 .. Len(q) : q[i] \in Unit
      BY <1>1, <1>3, ElementOfSeq
    <2>2. k + 1 \in Int /\ Len(q) \in Int
      BY <1>3
    <2> QED
      BY <1>1, <1>3, <2>1, <2>2, FrontOf, SubSeqProperties
  <1>8. (got[c] \o SubSeq(q, 1, k)) \o SubSeq(q, k + 1, Len(q)) = got[c] \o q
    <2> DEFINE a == SubSeq(q, 1, k)  b == SubSeq(q, k + 1, Len(q))
    <2> HIDE DEF a, b
    <2>1. (got[c] \o a) \o b = got[c] \o (a \o b)
      BY <1>2, <1>7, UnitsAssociate DEF a, b
    <2> QED
      BY <1>6, <2>1 DEF a, b
  <1>9. got[c] \o q = (got[c] \o out[c]) \o Added(c)
    BY <1>1, <1>2, UnitsAssociate
  <1> QED
    BY <1>5, <1>8, <1>9 DEF Joins, Conversation

----------------------------------------------------------------------------
(* RepliesTo.                                                                *)

LEMMA FrontIsPlain ==
    ASSUME NEW us \in Seq(Unit), NEW n, Plain(us, n), NEW k \in 0 .. Len(us)
    PROVE  Plain(SubSeq(us, 1, k), n) /\ SubSeq(us, 1, k) \in Seq(Unit)
  BY FrontOf, LenProperties DEF Plain

LEMMA PlainGoesOn ==
    ASSUME NEW w \in Seq(Unit), NEW n, Plain(w, n), NEW m, NEW b \in Nat
    PROVE  /\ GoesOn(w, n, m, b) /\ Bodies(w, n) = {} /\ Numbers(w, Bodies(w, n)) = b + 1 .. b
           /\ \A j \in DOMAIN w : ~Terminates(w[j]) /\ w[j].n = n
  <1>1. Bodies(w, n) = {}
    BY DEF Plain, Bodies, At
  <1>2. Numbers(w, {}) = b + 1 .. b
    BY DEF Numbers
  <1> QED
    BY <1>1, <1>2 DEF Plain, GoesOn, Terminates

(* A reply that RETR gives: h status lines, k pieces of m after the x-th,  *)
(* and e terminators.                                                      *)
Shape(w, n, m, x, h, k, e) ==
    /\ m \in Mails /\ x \in Nat /\ k \in Nat /\ h \in {0, 1} /\ e \in {0, 1}
    /\ w \in Seq(Unit) /\ Len(w) = h + k + e
    /\ \A j \in 1 .. h + k + e :
         w[j] = IF j <= h THEN U(n, "ok", 0)
                ELSE [n |-> n, kind |-> IF j <= h + k THEN "body" ELSE "end",
                      i |-> IF j <= h + k THEN x + (j - h) ELSE 0, m |-> m]

LEMMA ShapeParts ==
    ASSUME NEW w, NEW n, NEW m, NEW x, NEW k, NEW h, NEW e, Shape(w, n, m, x, h, k, e)
    PROVE  /\ m \in Mails /\ x \in Nat /\ k \in Nat /\ h \in {0, 1} /\ e \in {0, 1}
           /\ w \in Seq(Unit) /\ Len(w) = h + k + e /\ DOMAIN w = 1 .. h + k + e
           /\ \A j \in 1 .. h + k + e : w[j].n = n
           /\ \A j \in 1 .. h + k + e : j <= h => w[j].kind = "ok"
           /\ \A j \in h + 1 .. h + k : w[j].kind = "body" /\ w[j].i = x + (j - h) /\ w[j].m = m
           /\ \A j \in 1 .. h + k + e : j > h + k => w[j].kind = "end" /\ w[j].m = m
           /\ Bodies(w, n) = h + 1 .. h + k
  <1>1. /\ m \in Mails /\ x \in Nat /\ k \in Nat /\ h \in {0, 1} /\ e \in {0, 1}
        /\ w \in Seq(Unit) /\ Len(w) = h + k + e /\ DOMAIN w = 1 .. h + k + e
        /\ \A j \in 1 .. h + k + e : w[j].n = n
        /\ \A j \in 1 .. h + k + e : j <= h => w[j].kind = "ok"
        /\ \A j \in h + 1 .. h + k : w[j].kind = "body" /\ w[j].i = x + (j - h) /\ w[j].m = m
        /\ \A j \in 1 .. h + k + e : j > h + k => w[j].kind = "end" /\ w[j].m = m
    BY LenProperties DEF Shape, U
  <1>2. Bodies(w, n) = h + 1 .. h + k
    <2>1. \A j \in 1 .. h + k + e : w[j].kind = "body" <=> j \in h + 1 .. h + k
      BY <1>1
    <2> QED
      BY <1>1, <2>1 DEF Bodies, At
  <1> QED
    BY <1>1, <1>2

LEMMA ShapeNumbers ==
    ASSUME NEW w, NEW n, NEW m, NEW x, NEW k, NEW h, NEW e, Shape(w, n, m, x, h, k, e)
    PROVE  Numbers(w, Bodies(w, n)) = x + 1 .. x + k
  <1>1. /\ x \in Nat /\ k \in Nat /\ h \in {0, 1} /\ Bodies(w, n) = h + 1 .. h + k
        /\ \A j \in h + 1 .. h + k : w[j].i = x + (j - h)
    BY ShapeParts
  <1>2. ASSUME NEW y \in x + 1 .. x + k
        PROVE  y - x + h \in h + 1 .. h + k /\ w[y - x + h].i = y
    <2>1. y - x + h \in h + 1 .. h + k /\ x + ((y - x + h) - h) = y
      BY <1>1, <1>2
    <2> QED
      BY <1>1, <2>1
  <1>3. ASSUME NEW i \in h + 1 .. h + k
        PROVE  w[i].i \in x + 1 .. x + k
    <2>1. w[i].i = x + (i - h)
      BY <1>1
    <2> QED
      BY <1>1, <2>1
  <1> QED
    BY <1>1, <1>2, <1>3 DEF Numbers

LEMMA ShapeGoesOn ==
    ASSUME NEW w, NEW n, NEW m, NEW x, NEW k, NEW h, NEW e, Shape(w, n, m, x, h, k, e),
           NEW b \in Nat, k # 0 => b = x
    PROVE  GoesOn(w, n, m, b) /\ \A j \in DOMAIN w : Terminates(w[j]) => e = 1
  <1>1. /\ m \in Mails /\ x \in Nat /\ k \in Nat /\ h \in {0, 1} /\ e \in {0, 1}
        /\ w \in Seq(Unit) /\ Len(w) = h + k + e /\ DOMAIN w = 1 .. h + k + e
        /\ \A j \in 1 .. h + k + e : w[j].n = n
        /\ \A j \in 1 .. h + k + e : j <= h => w[j].kind = "ok"
        /\ \A j \in h + 1 .. h + k : w[j].kind = "body" /\ w[j].i = x + (j - h) /\ w[j].m = m
        /\ \A j \in 1 .. h + k + e : j > h + k => w[j].kind = "end" /\ w[j].m = m
        /\ Bodies(w, n) = h + 1 .. h + k
    BY ShapeParts
  <1>2. ASSUME NEW j \in DOMAIN w, w[j].kind = "body"
        PROVE  /\ w[j].i > b /\ w[j].m = m
               /\ Numbers(w, Earlier(w, n, j)) = b + 1 .. w[j].i - 1
    <2>1. j \in h + 1 .. h + k /\ w[j].i = x + (j - h) /\ w[j].m = m
      <3>1. j \in Bodies(w, n)
        BY <1>1, <1>2 DEF Bodies, At
      <3> QED
        BY <1>1, <3>1
    <2>2. Earlier(w, n, j) = h + 1 .. j - 1
      <3>1. Earlier(w, n, j) = {i \in h + 1 .. h + k : i < j}
        BY <1>1 DEF Earlier
      <3>2. h \in Int /\ k \in Int /\ j \in Int /\ j <= h + k + 1
        BY <1>1, <2>1
      <3> QED
        BY <3>1, <3>2
    <2>3. b = x
      BY <1>1, <2>1
    <2>4. Numbers(w, Earlier(w, n, j)) = b + 1 .. w[j].i - 1
      <3>1. ASSUME NEW y \in b + 1 .. w[j].i - 1
            PROVE  y - x + h \in h + 1 .. j - 1 /\ w[y - x + h].i = y
        <4>1. y - x + h \in h + 1 .. h + k /\ y - x + h \in h + 1 .. j - 1
          BY <1>1, <2>1, <2>3, <3>1
        <4>2. x + ((y - x + h) - h) = y
          BY <1>1, <3>1
        <4> QED
          BY <1>1, <4>1, <4>2
      <3>2. ASSUME NEW i \in h + 1 .. j - 1
            PROVE  w[i].i \in b + 1 .. w[j].i - 1
        <4>1. i \in h + 1 .. h + k
          BY <1>1, <2>1, <3>2
        <4>2. w[i].i = x + (i - h)
          BY <1>1, <4>1
        <4> QED
          BY <1>1, <2>1, <2>3, <3>2, <4>2
      <3> QED
        BY <2>2, <3>1, <3>2 DEF Numbers
    <2> QED
      BY <1>1, <2>1, <2>3, <2>4
  <1>3. \A j \in DOMAIN w : Terminates(w[j]) => j = Len(w) /\ w[j].m = m /\ e = 1
    <2> TAKE j \in DOMAIN w
    <2> HAVE Terminates(w[j])
    <2>1. w[j].kind = "end"
      BY DEF Terminates
    <2>2. j > h + k
      BY <1>1, <2>1
    <2> QED
      BY <1>1, <2>2
  <1>4. GoesOn(w, n, m, b)
    BY <1>1, <1>2, <1>3 DEF GoesOn
  <1> QED
    BY <1>3, <1>4

----------------------------------------------------------------------------
(* What RETR adds.                                                         *)

LEMMA RetrShape ==
    ASSUME DataInv, NEW c \in Conns, NEW t \in Token, t.line.num \in DOMAIN mails[c], NEW k \in Nat,
           NEW h, h = Len(Heading(c, t))
    PROVE  /\ h \in {0, 1} /\ Heading(c, t) \in Seq(Unit)
           /\ h = 1 <=> pending[c] = NoToken /\ Room(c) > 0
           /\ Shape(Heading(c, t), t.n, MailFile(c, t), ridx[c], h, 0, 0)
           /\ Shape(Heading(c, t) \o Pieces(c, t, k), t.n, MailFile(c, t), ridx[c], h, k, 0)
           /\ Shape(Heading(c, t) \o Pieces(c, t, k) \o <<Piece(c, t, "end", 0)>>,
                    t.n, MailFile(c, t), ridx[c], h, k, 1)
  <1> DEFINE H == Heading(c, t)
             P == Pieces(c, t, k)
             E == <<Piece(c, t, "end", 0)>>
             s == H \o P
             v == s \o E
             n == t.n
             m == MailFile(c, t)
             x == ridx[c]
  <1>1. H \in Seq(Unit) /\ P \in Seq(Unit) /\ E \in Seq(Unit)
    BY PiecesLemma
  <1>2. /\ h \in {0, 1} /\ (h = 1 <=> pending[c] = NoToken /\ Room(c) > 0)
        /\ \A j \in 1 .. h : H[j] = U(n, "ok", 0)
    BY DEF Heading
  <1>3. Len(P) = k /\ \A j \in 1 .. k : P[j] = [n |-> n, kind |-> "body", i |-> x + j, m |-> m]
    <2>1. P = [j \in 1 .. k |-> [n |-> n, kind |-> "body", i |-> x + j, m |-> m]]
      BY DEF Pieces, Piece
    <2> QED
      BY <2>1
  <1>4. Len(E) = 1 /\ E[1] = [n |-> n, kind |-> "end", i |-> 0, m |-> m]
    BY DEF Piece
  <1>5. Joins(s, H, P) /\ Joins(v, s, E)
    BY DEF Joins
  <1> HIDE DEF H, P, E, s, v, n, m, x
  <1>6. /\ s \in Seq(Unit) /\ Len(s) = Len(H) + Len(P)
        /\ DOMAIN H = 1 .. Len(H) /\ DOMAIN P = 1 .. Len(P)
        /\ \A j \in DOMAIN H : s[j] = H[j]
        /\ \A j \in DOMAIN P : s[Len(H) + j] = P[j]
    BY <1>1, <1>5, JoinLemma
  <1>7. /\ v \in Seq(Unit) /\ Len(v) = Len(s) + Len(E)
        /\ DOMAIN s = 1 .. Len(s) /\ DOMAIN E = 1 .. Len(E)
        /\ \A j \in DOMAIN s : v[j] = s[j]
        /\ \A j \in DOMAIN E : v[Len(s) + j] = E[j]
    BY <1>1, <1>5, <1>6, JoinLemma
  <1>8. Len(H) = h
    BY DEF H
  <1>9. /\ Len(s) = h + k /\ Len(v) = h + k + 1
        /\ \A j \in 1 .. h : s[j] = U(n, "ok", 0)
        /\ \A j \in h + 1 .. h + k : s[j] = [n |-> n, kind |-> "body", i |-> x + (j - h), m |-> m]
    <2>1. \A j \in 1 .. h : s[j] = U(n, "ok", 0)
      BY <1>2, <1>6, <1>8
    <2>2. ASSUME NEW j \in h + 1 .. h + k
          PROVE  s[j] = [n |-> n, kind |-> "body", i |-> x + (j - h), m |-> m]
      <3>1. j - h \in 1 .. k /\ h + (j - h) = j
        BY <1>2
      <3>2. s[Len(H) + (j - h)] = P[j - h]
        BY <1>3, <1>6, <3>1
      <3>3. s[j] = P[j - h]
        BY <1>8, <3>1, <3>2
      <3> QED
        BY <1>3, <3>1, <3>3
    <2>3. Len(s) = h + k
      BY <1>3, <1>6, <1>8
    <2>4. Len(v) = h + k + 1
      BY <1>4, <1>7, <2>3
    <2> QED
      BY <2>1, <2>2, <2>3, <2>4
  <1>10. m \in Mails /\ x \in Nat
    BY PiecesLemma DEF m, x, DataInv, ListInv
  <1>11. Shape(s, n, m, x, h, k, 0)
    <2>1. /\ \A j \in 1 .. h + k : j \in 1 .. h \/ j \in h + 1 .. h + k
          /\ \A j \in h + 1 .. h + k : ~(j <= h) /\ j <= h + k
          /\ \A j \in 1 .. h : j <= h
      BY <1>2
    <2>2. h + k + 0 = h + k
      BY <1>2
    <2>3. \A j \in 1 .. h + k :
            s[j] = IF j <= h THEN U(n, "ok", 0)
                   ELSE [n |-> n, kind |-> IF j <= h + k THEN "body" ELSE "end",
                         i |-> IF j <= h + k THEN x + (j - h) ELSE 0, m |-> m]
      BY <1>9, <2>1
    <2> QED
      BY <1>2, <1>6, <1>9, <1>10, <2>2, <2>3 DEF Shape
  <1>12. Shape(v, n, m, x, h, k, 1)
    <2>1. /\ \A j \in 1 .. h + k + 1 : j \in 1 .. h \/ j \in h + 1 .. h + k \/ j = h + k + 1
          /\ \A j \in h + 1 .. h + k : ~(j <= h) /\ j <= h + k
          /\ ~(h + k + 1 <= h) /\ ~(h + k + 1 <= h + k) /\ (h + k) + 1 = h + k + 1
          /\ \A j \in 1 .. h : j <= h
      BY <1>2
    <2>2. \A j \in 1 .. h + k : v[j] = s[j]
      BY <1>7, <1>9
    <2>3. v[h + k + 1] = E[1]
      <3>1. 1 \in DOMAIN E
        BY <1>4, <1>7
      <3> QED
        BY <1>7, <1>9, <2>1, <3>1
    <2>4. \A j \in 1 .. h : v[j] = U(n, "ok", 0)
      BY <1>2, <1>9, <2>2
    <2>5. \A j \in h + 1 .. h + k : v[j] = [n |-> n, kind |-> "body", i |-> x + (j - h), m |-> m]
      BY <1>2, <1>9, <2>2
    <2> QED
      BY <1>2, <1>4, <1>7, <1>9, <1>10, <2>1, <2>3, <2>4, <2>5 DEF Shape
  <1>13. Shape(H, n, m, x, h, 0, 0)
    BY <1>1, <1>2, <1>8, <1>10 DEF Shape
  <1> QED
    BY <1>1, <1>2, <1>11, <1>12, <1>13 DEF H, P, E, s, v, n, m, x

(* A call of RETR refuses the line, or adds the next pieces of its message *)
(* and perhaps the terminator: what it adds always fits.                   *)
RetrAdds(c, t) ==
    \E h \in {0, 1}, e \in {0, 1}, k \in Nat, w \in Seq(Unit) :
        /\ Joins(Conversation(c)', Conversation(c), w)
        /\ Shape(w, t.n, MailFile(c, t), ridx[c], h, k, e)
        /\ h = 1 <=> pending[c] = NoToken /\ Room(c) > 0
        /\ e = 1 => /\ ridx[c] + k = Size[MailFile(c, t)]
                    /\ pending'[c] = NoToken
        /\ e = 0 => /\ pending'[c] = t
                    /\ \/ ridx'[c] = ridx[c] + k
                       \/ k = 0 /\ ridx'[c] = Size[MailFile(c, t)] /\ Room(c) <= 1
        /\ ridx[c] = Size[MailFile(c, t)] => k = 0

LEMMA PutWhole ==
    ASSUME DataInv, NEW c \in Conns, NEW us \in Seq(Unit), Put(c, us), UNCHANGED got,
           Len(us) <= Room(c)
    PROVE  Joins(Conversation(c)', Conversation(c), us)
  <1>1. PICK k \in 0 .. Len(us) : /\ Joins(Conversation(c)', Conversation(c), SubSeq(us, 1, k))
                                  /\ Len(us) <= Room(c) => k = Len(us)
    BY PutJoins
  <1>2. SubSeq(us, 1, k) = us
    BY <1>1, SubSeqFull
  <1> QED
    BY <1>1, <1>2

LEMMA RetrReply ==
    ASSUME DataInv, NEW c \in Conns, NEW t \in Token, t = pending[c] \/ pending[c] = NoToken,
           RetrHandler(c, t), UNCHANGED got
    PROVE  \/ /\ RepliesTo(c, t.n) /\ UNCHANGED <<pending, ridx>>
              /\ pending[c] # NoToken => up' = FALSE
           \/ t.line.num \in DOMAIN mails[c] /\ RetrAdds(c, t)
  <1> DEFINE h    == Len(Heading(c, t))
             room == Room(c) - h
             m    == MailFile(c, t)
  <1>1. t # NoToken /\ ListInv /\ OutInv
    BY DEF Token, NoToken, DataInv
  <1>2. CASE Err(c, t) /\ UNCHANGED <<pending, ridx>> /\ (t.line.num \in DOMAIN mails[c] => up' = FALSE)
    <2>1. pending[c] # NoToken => t.line.num \in DOMAIN mails[c]
      BY <1>1 DEF ListInv, Fits
    <2> QED
      BY <1>2, <2>1, AnswerReplies
  <1>3. CASE /\ t.line.num \in DOMAIN mails[c]
             /\ \/ /\ Left(c, t) + 2 <= room
                   /\ Put(c, Heading(c, t) \o Pieces(c, t, Left(c, t))
                               \o <<Piece(c, t, "end", 0)>>)
                   /\ pending' = Upd(pending, c, NoToken)
                \/ /\ Left(c, t) + 2 > room /\ room > 0
                   /\ LET k == Least(room - 1, Left(c, t)) IN
                        /\ Put(c, Heading(c, t) \o Pieces(c, t, k))
                        /\ ridx' = Advanced(c, k)
                   /\ pending' = Resumes(c, t)
                \/ /\ room = 0
                   /\ Put(c, Heading(c, t))
                   /\ pending' = Resumes(c, t)
                   /\ ridx' = Advanced(c, Left(c, t))
    <2>1. ridx[c] \in Nat /\ Size[m] \in Nat /\ ridx[c] <= Size[m]
      <3>1. m \in Mails
        BY <1>3, PiecesLemma
      <3> QED
        BY <1>1, <1>3, <3>1, SizesAssumption DEF ListInv, Fits, MailFile
    <2>2. Left(c, t) \in Nat /\ ridx[c] + Left(c, t) = Size[m] /\ (ridx[c] = Size[m] => Left(c, t) = 0)
      BY <2>1 DEF Left
    <2>3. /\ h \in {0, 1} /\ (h = 1 <=> pending[c] = NoToken /\ Room(c) > 0)
          /\ Room(c) \in Nat /\ room \in Nat /\ Heading(c, t) \in Seq(Unit)
          /\ Shape(Heading(c, t), t.n, m, ridx[c], h, 0, 0)
      <3>1. 0 \in Nat /\ Room(c) \in Nat
        BY RoomLemma, SizesAssumption
      <3>2. room \in Nat
        BY <1>3, <3>1, PiecesLemma
      <3>3. /\ h \in {0, 1} /\ (h = 1 <=> pending[c] = NoToken /\ Room(c) > 0)
            /\ Heading(c, t) \in Seq(Unit) /\ Shape(Heading(c, t), t.n, m, ridx[c], h, 0, 0)
        <4> HIDE DEF h
        <4>1. h = Len(Heading(c, t))
          BY DEF h
        <4> QED
          BY <1>3, <3>1, <4>1, RetrShape
      <3> QED
        BY <3>1, <3>2, <3>3
    <2>4. ASSUME NEW k \in Nat
          PROVE  /\ Shape(Heading(c, t) \o Pieces(c, t, k), t.n, m, ridx[c], h, k, 0)
                 /\ Shape(Heading(c, t) \o Pieces(c, t, k) \o <<Piece(c, t, "end", 0)>>,
                          t.n, m, ridx[c], h, k, 1)
      BY <1>3, RetrShape
    <2>5. pending \in [Conns -> Token \cup {NoToken}] /\ ridx \in [Conns -> Nat]
      BY <1>1 DEF ListInv
    <2> HIDE DEF h, m
    <2>6. ASSUME NEW k \in Nat, NEW e \in {0, 1}, NEW w,
                 Shape(w, t.n, m, ridx[c], h, k, e), h + k + e <= Room(c), Put(c, w)
          PROVE  w \in Seq(Unit) /\ Joins(Conversation(c)', Conversation(c), w)
      BY <2>6, PutWhole DEF Shape
    <2>7. CASE /\ Left(c, t) + 2 <= room
               /\ Put(c, Heading(c, t) \o Pieces(c, t, Left(c, t)) \o <<Piece(c, t, "end", 0)>>)
               /\ pending' = Upd(pending, c, NoToken)
      <3> DEFINE w == Heading(c, t) \o Pieces(c, t, Left(c, t)) \o <<Piece(c, t, "end", 0)>>
      <3>1. Shape(w, t.n, m, ridx[c], h, Left(c, t), 1)
        BY <2>2, <2>4
      <3>2. h + Left(c, t) + 1 <= Room(c)
        BY <2>2, <2>3, <2>7
      <3>3. Put(c, w)
        BY <2>7
      <3> HIDE DEF w
      <3>4. w \in Seq(Unit) /\ Joins(Conversation(c)', Conversation(c), w)
        BY <2>2, <2>6, <3>1, <3>2, <3>3
      <3>5. pending'[c] = NoToken
        BY <2>5, <2>7 DEF Upd
      <3> QED
        BY <1>3, <2>2, <2>3, <3>1, <3>4, <3>5 DEF RetrAdds, m
    <2>8. CASE /\ room > 0
               /\ Put(c, Heading(c, t) \o Pieces(c, t, Least(room - 1, Left(c, t))))
               /\ ridx' = Advanced(c, Least(room - 1, Left(c, t)))
               /\ pending' = Resumes(c, t)
      <3> DEFINE k == Least(room - 1, Left(c, t))
                 w == Heading(c, t) \o Pieces(c, t, k)
      <3>1. k \in Nat /\ k <= Left(c, t) /\ k <= room - 1
        BY <2>2, <2>3, <2>8 DEF Least
      <3>2. Put(c, w) /\ ridx' = Advanced(c, k)
        BY <2>8
      <3> HIDE DEF k
      <3>3. Shape(w, t.n, m, ridx[c], h, k, 0)
        BY <2>4, <3>1
      <3>4. h + k + 0 <= Room(c)
        BY <2>3, <3>1
      <3> HIDE DEF w
      <3>5. w \in Seq(Unit) /\ Joins(Conversation(c)', Conversation(c), w)
        BY <2>6, <3>1, <3>2, <3>3, <3>4
      <3>6. pending'[c] = t /\ ridx'[c] = ridx[c] + k
        BY <2>5, <2>8, <3>2 DEF Upd, Resumes, Advanced
      <3>7. ridx[c] = Size[m] => k = 0
        BY <2>2, <3>1
      <3> QED
        BY <1>3, <2>3, <3>1, <3>3, <3>5, <3>6, <3>7 DEF RetrAdds, m
    <2>9. CASE /\ room = 0 /\ Put(c, Heading(c, t)) /\ pending' = Resumes(c, t)
               /\ ridx' = Advanced(c, Left(c, t))
      <3>1. h + 0 + 0 <= Room(c) /\ Room(c) <= 1
        BY <2>3, <2>9
      <3>2. Joins(Conversation(c)', Conversation(c), Heading(c, t))
        BY <2>3, <2>6, <2>9, <3>1
      <3>3. pending'[c] = t /\ ridx'[c] = Size[m]
        BY <2>2, <2>5, <2>9 DEF Upd, Resumes, Advanced
      <3> QED
        BY <1>3, <2>3, <3>1, <3>2, <3>3 DEF RetrAdds, m
    <2> QED
      BY <1>3, <2>7, <2>8, <2>9
  <1> QED
    BY <1>2, <1>3 DEF RetrHandler

----------------------------------------------------------------------------
(* The conversation of a connection.                                       *)

(* A message half sent: its pieces are there up to read_index, or RETR has *)
(* skipped those there was no room for, and is past the last of them.      *)
HalfSent(s, n, m, x) == \E b \in 0 .. x : Open(s, n, m, b) /\ (b = x \/ x = Size[m])

Talks(c) ==
    LET s == Conversation(c) IN
    /\ Ordered(s, served[c]) /\ InPieces(s)
    /\ stm[c] = "NONE" => served[c] = 0 /\ s = <<>>
    /\ stm[c] = "ERROR" => At(s, served[c]) = {} /\ pending[c] = NoToken
    /\ pending[c] # NoToken =>
         /\ pending[c].n = served[c]
         /\ HalfSent(s, served[c], MailFile(c, pending[c]), ridx[c])

TalkInv == \A c \in Conns : Talks(c)

LEMMA JoinTalk ==
    ASSUME NEW s \in Seq(Unit), NEW w \in Seq(Unit), NEW v, Joins(v, s, w),
           NEW a \in Nat, NEW n \in Nat, a <= n, Ordered(s, a), InPieces(s),
           NEW m, NEW b \in Nat, Open(s, n, m, b), GoesOn(w, n, m, b)
    PROVE  Ordered(v, n) /\ InPieces(v)
  <1>1. \A j \in DOMAIN w : w[j].n = n
    BY DEF GoesOn
  <1>2. Ordered(v, n)
    BY <1>1, JoinOrdered
  <1>3. InPieces(v)
    BY JoinPieces
  <1> QED
    BY <1>2, <1>3

LEMMA PlainTalk ==
    ASSUME NEW s \in Seq(Unit), NEW w \in Seq(Unit), NEW v, Joins(v, s, w),
           NEW a \in Nat, NEW n \in Nat, a <= n, Ordered(s, a), InPieces(s),
           NEW m, NEW b \in Nat, Open(s, n, m, b), Plain(w, n)
    PROVE  Ordered(v, n) /\ InPieces(v) /\ Open(v, n, m, b)
  <1>1. /\ GoesOn(w, n, m, b) /\ Numbers(w, Bodies(w, n)) = b + 1 .. b
        /\ \A j \in DOMAIN w : ~Terminates(w[j])
    BY PlainGoesOn
  <1>2. Ordered(v, n) /\ InPieces(v)
    BY <1>1, JoinTalk
  <1>3. b <= b
    OBVIOUS
  <1>4. Open(v, n, m, b)
    BY <1>1, <1>3, JoinOpen
  <1> QED
    BY <1>2, <1>4

LEMMA RepliesTalk ==
    ASSUME DataInv, NEW c \in Conns, NEW n \in Nat, RepliesTo(c, n), UNCHANGED got,
           NEW a \in Nat, a <= n, Ordered(Conversation(c), a), InPieces(Conversation(c)),
           NEW m, NEW b \in Nat, Open(Conversation(c), n, m, b)
    PROVE  /\ Ordered(Conversation(c)', n) /\ InPieces(Conversation(c)')
           /\ Open(Conversation(c)', n, m, b)
  <1>1. PICK us \in Seq(Unit) : Put(c, us) /\ Plain(us, n)
    BY DEF RepliesTo
  <1>2. PICK k \in 0 .. Len(us) : Joins(Conversation(c)', Conversation(c), SubSeq(us, 1, k))
    BY <1>1, PutJoins
  <1>3. Plain(SubSeq(us, 1, k), n) /\ SubSeq(us, 1, k) \in Seq(Unit)
    BY <1>1, FrontIsPlain
  <1>4. Conversation(c) \in Seq(Unit)
    BY ConversationLemma
  <1> QED
    BY <1>2, <1>3, <1>4, PlainTalk

LEMMA LaterIsOrdered ==
    ASSUME NEW s \in Seq(Unit), NEW a \in Nat, NEW n \in Nat, a <= n, Ordered(s, a)
    PROVE  Ordered(s, n)
  <1>1. \A j \in DOMAIN s : s[j] \in Unit /\ s[j].n <= a
    BY ElementOfSeq, LenProperties DEF Ordered
  <1>2. \A u \in Unit : u.n \in Nat
    BY SizesAssumption DEF Unit
  <1>3. \A j \in DOMAIN s : s[j].n <= n
    BY <1>1, <1>2
  <1> QED
    BY <1>3 DEF Ordered

(* RETR, first or resumed, keeps what it sends in order.                   *)
LEMMA RetrTalk ==
    ASSUME DataInv, NEW c \in Conns, NEW t \in Token, t = pending[c] \/ pending[c] = NoToken,
           RetrHandler(c, t), UNCHANGED got,
           NEW a \in Nat, a <= t.n, Ordered(Conversation(c), a), InPieces(Conversation(c)),
           pending[c] = NoToken => At(Conversation(c), t.n) = {},
           pending[c] # NoToken => HalfSent(Conversation(c), t.n, MailFile(c, t), ridx[c])
    PROVE  /\ Ordered(Conversation(c)', t.n) /\ InPieces(Conversation(c)')
           /\ pending'[c] # NoToken =>
                /\ pending'[c] = t
                /\ HalfSent(Conversation(c)', t.n, MailFile(c, t), ridx'[c])
  <1> DEFINE n == t.n
             m == MailFile(c, t)
             s == Conversation(c)
             v == Conversation(c)'
  <1>1. s \in Seq(Unit) /\ n \in Nat /\ ridx[c] \in Nat /\ (pending[c] = NoToken => ridx[c] = 0)
    BY ConversationLemma, SizesAssumption DEF Token, DataInv, ListInv, Fits
  <1>2. PICK b \in 0 .. ridx[c] : Open(s, n, m, b) /\ (b = ridx[c] \/ ridx[c] = Size[m])
    <2>1. CASE pending[c] = NoToken
      <3>1. Open(s, n, m, 0)
        BY <1>1, <2>1, EmptyIsOpen
      <3> QED
        BY <1>1, <2>1, <3>1
    <2>2. CASE pending[c] # NoToken
      BY <2>2 DEF HalfSent
    <2> QED
      BY <2>1, <2>2
  <1>3. b \in Nat /\ b <= ridx[c] /\ Ordered(s, a) /\ InPieces(s) /\ a <= n
    BY <1>1
  <1>4. CASE RepliesTo(c, n) /\ UNCHANGED <<pending, ridx>>
    <2>1. Ordered(v, n) /\ InPieces(v) /\ Open(v, n, m, b)
      BY <1>1, <1>2, <1>3, <1>4, RepliesTalk
    <2>2. HalfSent(v, n, m, ridx'[c])
      BY <1>2, <1>4, <2>1 DEF HalfSent
    <2> QED
      BY <1>4, <2>1, <2>2
  <1>5. CASE t.line.num \in DOMAIN mails[c] /\ RetrAdds(c, t)
    <2>1. PICK h \in {0, 1}, e \in {0, 1}, k \in Nat, w \in Seq(Unit) :
            /\ Joins(v, s, w)
            /\ Shape(w, n, m, ridx[c], h, k, e)
            /\ e = 1 => pending'[c] = NoToken
            /\ e = 0 => /\ pending'[c] = t
                        /\ \/ ridx'[c] = ridx[c] + k
                           \/ k = 0 /\ ridx'[c] = Size[m]
            /\ ridx[c] = Size[m] => k = 0
      BY <1>5 DEF RetrAdds
    <2>2. m \in Mails /\ Size[m] \in Nat /\ ridx'[c] \in Nat
      <3>1. m \in Mails
        BY <1>5 DEF MailFile, DataInv, ListInv
      <3>2. ridx'[c] \in Nat
        BY RetrData DEF ListInv
      <3> QED
        BY <3>1, <3>2, SizesAssumption
    <2>3. k # 0 => b = ridx[c]
      BY <1>2, <2>1
    <2> HIDE DEF n, m, s, v
    <2>4. /\ GoesOn(w, n, m, b)
          /\ Numbers(w, Bodies(w, n)) = ridx[c] + 1 .. ridx[c] + k
          /\ \A j \in DOMAIN w : Terminates(w[j]) => e = 1
      <3>1. /\ ridx[c] \in Nat /\ m \in Mails /\ b \in Nat
            /\ Shape(w, n, m, ridx[c], h, k, e)
        BY <1>1, <1>3, <2>1, <2>2
      <3> QED
        BY <2>3, <3>1, ShapeGoesOn, ShapeNumbers
    <2>5. Ordered(v, n) /\ InPieces(v)
      BY <1>1, <1>2, <1>3, <2>1, <2>4, JoinTalk
    <2>6. CASE e = 1
      BY <2>1, <2>5, <2>6 DEF n, v
    <2>7. CASE e = 0
      <3>1. \A j \in DOMAIN w : ~Terminates(w[j])
        BY <2>4, <2>7
      <3>2. CASE k # 0
        <4>1. b = ridx[c] /\ ridx'[c] = ridx[c] + k
          BY <2>1, <2>3, <2>7, <3>2
        <4>2. ridx'[c] \in Nat /\ b <= ridx'[c] /\ Numbers(w, Bodies(w, n)) = b + 1 .. ridx'[c]
          BY <1>1, <2>1, <2>4, <3>2, <4>1
        <4>3. Open(v, n, m, ridx'[c])
          BY <1>1, <1>2, <1>3, <2>1, <2>4, <3>1, <4>2, JoinOpen
        <4>4. HalfSent(v, n, m, ridx'[c])
          BY <4>2, <4>3 DEF HalfSent
        <4> QED
          BY <2>1, <2>5, <2>7, <4>4 DEF n, m, v
      <3>3. CASE k = 0
        <4>1. b <= b /\ Numbers(w, Bodies(w, n)) = b + 1 .. b
          <5>1. ridx[c] + 1 .. ridx[c] + k = {} /\ b + 1 .. b = {}
            BY <1>1, <1>3, <3>3
          <5>2. b <= b
            BY <1>3
          <5> QED
            BY <2>4, <5>1, <5>2, Zenon
        <4>2. Open(v, n, m, b)
          BY <1>1, <1>2, <1>3, <2>1, <2>4, <3>1, <4>1, JoinOpen
        <4>3. b \in 0 .. ridx'[c] /\ (b = ridx'[c] \/ ridx'[c] = Size[m])
          <5>1. ridx[c] <= Size[m] \/ pending[c] = NoToken
            <6>1. t.line.num \in DOMAIN mails[c] /\ pending[c] # NoToken => t = pending[c]
              BY <1>5
            <6> QED
              BY <6>1 DEF DataInv, ListInv, Fits, MailFile, m
          <5>2. ridx'[c] = ridx[c] \/ ridx'[c] = Size[m]
            BY <1>1, <2>1, <2>7, <3>3
          <5>3. ridx[c] <= Size[m]
            BY <1>1, <2>2, <5>1
          <5> QED
            BY <1>1, <1>2, <1>3, <2>2, <5>2, <5>3
        <4>4. HalfSent(v, n, m, ridx'[c])
          BY <4>2, <4>3 DEF HalfSent
        <4> QED
          BY <2>1, <2>5, <2>7, <4>4 DEF n, m, v
      <3> QED
        BY <3>2, <3>3
    <2> QED
      BY <2>6, <2>7
  <1> QED
    BY <1>4, <1>5, RetrReply

(* What the handlers do but RETR: a whole reply, an ERROR that owes one,   *)
(* or nothing.                                                             *)
LEMMA HandlerReplies ==
    ASSUME SessionInv, DataInv, NEW c \in Conns, NEW t \in Token, pending[c] = NoToken,
           stm[c] \in {"AUTHORIZATION", "TRANSACTION"}, Handler(c, t) \/ Rejected(c)
    PROVE  \/ RetrHandler(c, t) /\ stm'[c] # "ERROR"
           \/ RepliesTo(c, t.n) /\ stm'[c] # "ERROR" /\ pending'[c] = NoToken
           \/ UNCHANGED outVars /\ stm'[c] = "ERROR" /\ pending'[c] = NoToken
           \/ /\ UNCHANGED outVars /\ stm'[c] # "ERROR" /\ pending'[c] = NoToken
              /\ OfNoMessage(t.line)
  <1>1. pending \in [Conns -> Token \cup {NoToken}] /\ stm[c] # "ERROR"
    BY DEF DataInv, ListInv
  <1>2. CASE Rejected(c)
    BY <1>1, <1>2, GotoLemma DEF Rejected, States
  <1>3. CASE QuitHandler(c, t)
    <2>1. pending'[c] = NoToken
      BY <1>3 DEF QuitHandler
    <2>2. CASE Ok(c, t) /\ \E s \in {"QUIT", "AUTHORIZATION"} : Goto(c, s)
      BY <1>1, <2>1, <2>2, GotoLemma, AnswerReplies DEF States
    <2>3. CASE Goto(c, "ERROR") /\ UNCHANGED outVars
      BY <2>1, <2>3, GotoLemma DEF States
    <2> QED
      BY <1>3, <2>2, <2>3 DEF QuitHandler
  <1>4. CASE PassHandler(c, t)
    <2>1. pending'[c] = NoToken
      BY <1>4 DEF PassHandler
    <2>2. CASE Err(c, t) /\ Stays(c)
      BY <1>1, <2>1, <2>2, AnswerReplies DEF Stays, stmVars
    <2>3. CASE Ok(c, t) /\ Goto(c, "TRANSACTION")
      BY <1>1, <2>1, <2>3, GotoLemma, AnswerReplies DEF States
    <2> QED
      BY <1>4, <2>2, <2>3 DEF PassHandler
  <1>5. CASE t.line.verb = "LIST" /\ ListHandler(c, t)
    <2>1. pending'[c] = NoToken /\ stm'[c] # "ERROR"
      BY <1>1, <1>5 DEF ListHandler, Stays, stmVars
    <2>2. CASE ListAll(c, t)
      BY <2>1, <2>2, ListReplies
    <2>3. CASE ListOne(c, t)
      <3>1. Ok(c, t) \/ UNCHANGED outVars
        BY <2>3 DEF ListOne
      <3>2. OfNoMessage(t.line)
        BY <1>5, <2>3 DEF ListOne, OfNoMessage
      <3> QED
        BY <2>1, <3>1, <3>2, AnswerReplies
    <2> QED
      BY <1>5, <2>2, <2>3 DEF ListHandler
  <1>6. CASE UserHandler(c, t) \/ StatHandler(c, t) \/ NoopHandler(c, t) \/ RsetHandler(c, t)
    <2>1. stm'[c] # "ERROR"
      BY <1>1, <1>6 DEF UserHandler, StatHandler, NoopHandler, RsetHandler, Stays, stmVars
    <2>2. pending'[c] = NoToken
      BY <1>1, <1>6 DEF UserHandler, StatHandler, NoopHandler, RsetHandler, Upd
    <2>3. Ok(c, t) \/ Err(c, t)
      BY <1>6 DEF UserHandler, StatHandler, NoopHandler, RsetHandler
    <2> QED
      BY <2>1, <2>2, <2>3, AnswerReplies
  <1>7. CASE CapaHandler(c, t) \/ DeleHandler(c, t)
    <2>1. stm'[c] # "ERROR" /\ pending'[c] = NoToken
      BY <1>1, <1>7 DEF CapaHandler, DeleHandler, Stays, stmVars
    <2> QED
      BY <1>7, <2>1, CapaReplies, DeleReplies
  <1>8. CASE RetrHandler(c, t)
    BY <1>1, <1>8 DEF RetrHandler, Stays, stmVars
  <1> QED
    BY <1>2, <1>3, <1>4, <1>5, <1>6, <1>7, <1>8 DEF Handler

----------------------------------------------------------------------------
(* A callback changes no other conversation, and nothing else of another   *)
(* connection that its conversation depends on.                            *)
SameTalk(d) ==
    /\ Conversation(d)' = Conversation(d) /\ served'[d] = served[d] /\ stm'[d] = stm[d]
    /\ pending'[d] = pending[d] /\ mails'[d] = mails[d] /\ ridx'[d] = ridx[d]

LEMMA SameTalks == ASSUME NEW d \in Conns, Talks(d), SameTalk(d) PROVE Talks(d)'
  BY DEF Talks, SameTalk, MailFile

LEMMA HandlerOthers ==
    ASSUME SessionInv, DataInv, NEW c \in Conns, NEW t, Handler(c, t) \/ Rejected(c)
    PROVE  \A d \in Conns \ {c} :
             pending'[d] = pending[d] /\ mails'[d] = mails[d] /\ ridx'[d] = ridx[d]
  <1>1. /\ pending \in [Conns -> Token \cup {NoToken}] /\ ridx \in [Conns -> Nat]
        /\ mails \in [Conns -> Seq(Mails)]
    BY DEF DataInv, ListInv
  <1>2. pending' = pending \/ \E p : pending' = Upd(pending, c, p)
    BY DEF Handler, Rejected, UserHandler, PassHandler, StatHandler, ListHandler, RetrHandler,
           DeleHandler, NoopHandler, RsetHandler, QuitHandler, CapaHandler, Resumes
  <1>3. ridx' = ridx \/ \E x : ridx' = Upd(ridx, c, x)
    <2>1. CASE RetrHandler(c, t)
      BY <2>1 DEF RetrHandler, Rewound, Advanced
    <2> QED
      BY <2>1 DEF Handler, Rejected, UserHandler, PassHandler, StatHandler, ListHandler,
           DeleHandler, NoopHandler, RsetHandler, QuitHandler, CapaHandler, mailVars
  <1>4. \A d \in Conns \ {c} : mails'[d] = mails[d]
    <2>1. CASE PassHandler(c, t)
      <3>1. UNCHANGED mails \/ \E b : Scan(c, b)
        BY <2>1 DEF PassHandler, listVars
      <3> QED
        BY <3>1, ScanLemma
    <2>2. CASE UNCHANGED mails \/ mails' = Upd(mails, c, <<>>)
      BY <1>1, <2>2 DEF Upd
    <2> QED
      BY <2>1, <2>2
      DEF Handler, Rejected, UserHandler, StatHandler, ListHandler, RetrHandler, DeleHandler,
          NoopHandler, RsetHandler, QuitHandler, CapaHandler, mailVars, listVars
  <1> QED
    BY <1>1, <1>2, <1>3, <1>4 DEF Upd

LEMMA ReadLineOthers ==
    ASSUME SessionInv, DataInv, NEW c \in Conns, ReadLine(c)
    PROVE  \A d \in Conns \ {c} : SameTalk(d)
  <1> DEFINE t == [Head(Taken(c)) EXCEPT !.part = "all"]
  <1>1. Whole(c) /\ pending[c] = NoToken /\ stm[c] \in {"AUTHORIZATION", "TRANSACTION"}
    BY ReadingState DEF ReadLine
  <1>2. t \in Token
    BY <1>1, TakenLemma DEF Token
  <1>3. served' = Upd(served, c, t.n) /\ (Handler(c, t) \/ Rejected(c)) /\ UNCHANGED got
    BY DEF ReadLine
  <1> HIDE DEF t
  <1>4. (Puts(c) \/ UNCHANGED outVars) /\ \A d \in Conns \ {c} : stm'[d] = stm[d]
    BY <1>1, <1>2, <1>3, HandlerData
  <1>5. \A d \in Conns \ {c} : Conversation(d)' = Conversation(d)
    BY <1>3, <1>4, PutJoins, NoPutJoins DEF Puts
  <1>6. \A d \in Conns \ {c} : served'[d] = served[d]
    BY <1>3 DEF DataInv, InInv, Upd
  <1> QED
    BY <1>3, <1>4, <1>5, <1>6, HandlerOthers DEF SameTalk

LEMMA ReadResumesOthers ==
    ASSUME SessionInv, DataInv, NEW c \in Conns, ReadResumes(c)
    PROVE  \A d \in Conns \ {c} : SameTalk(d)
  <1>1. pending[c] \in Token /\ RetrHandler(c, pending[c]) /\ UNCHANGED <<served, got>>
    BY DEF ReadResumes, DataInv, ListInv
  <1>2. Puts(c) /\ UNCHANGED <<stm, mails>>
    BY <1>1, RetrData DEF RetrHandler, Stays, stmVars, listVars
  <1>3. \A d \in Conns \ {c} : Conversation(d)' = Conversation(d)
    BY <1>1, <1>2, PutJoins DEF Puts
  <1>4. \A d \in Conns \ {c} : pending'[d] = pending[d] /\ ridx'[d] = ridx[d]
    <2>1. pending' = pending \/ \E p : pending' = Upd(pending, c, p)
      BY <1>1 DEF RetrHandler, Resumes
    <2>2. ridx' = ridx \/ \E x : ridx' = Upd(ridx, c, x)
      BY <1>1 DEF RetrHandler, Rewound, Advanced
    <2> QED
      BY <2>1, <2>2 DEF DataInv, ListInv, Upd
  <1> QED
    BY <1>1, <1>2, <1>3, <1>4 DEF SameTalk

(* The line parsed is the first that the conversation says nothing of.     *)
LEMMA ReadLineTalks ==
    ASSUME SessionInv, DataInv, LineInv, TalkInv, NEW c \in Conns, ReadLine(c)
    PROVE  TalkInv'
  <1> DEFINE s == Conversation(c)
             n == served[c] + 1
  <1>1. /\ Whole(c) /\ pending[c] = NoToken /\ stm[c] \in {"AUTHORIZATION", "TRANSACTION"}
        /\ UNCHANGED got
    BY ReadingState DEF ReadLine
  <1>2. PICK t \in Token : t = [Head(Taken(c)) EXCEPT !.part = "all"]
    BY <1>1, TakenLemma DEF Token
  <1>3. served' = Upd(served, c, n) /\ Head(Taken(c)).n = n
    BY NextLine
  <1>4. t.n = n /\ t.line = Head(Taken(c)).line
    BY <1>1, <1>2, <1>3, TakenLemma DEF Token
  <1>5. Handler(c, t) \/ Rejected(c)
    BY <1>2 DEF ReadLine
  <1>6. /\ served[c] \in Nat /\ n \in Nat /\ served[c] <= n /\ served[c] < n
        /\ served'[c] = n /\ s \in Seq(Unit)
    BY <1>3, ConversationLemma, SizesAssumption DEF DataInv, InInv, Upd
  <1> HIDE DEF s, n
  <1>7. Ordered(s, served[c]) /\ InPieces(s)
    BY DEF TalkInv, Talks, s
  <1>8. At(s, n) = {}
    BY <1>6, <1>7, AfterAll
  <1>9. stm'[c] # "NONE"
    BY <1>1, <1>2, <1>5, HandlerData
  <1>10. CASE RetrHandler(c, t) /\ stm'[c] # "ERROR"
    <2>1. /\ Ordered(Conversation(c)', n) /\ InPieces(Conversation(c)')
          /\ pending'[c] # NoToken =>
                pending'[c] = t /\ HalfSent(Conversation(c)', n, MailFile(c, t), ridx'[c])
      BY <1>1, <1>2, <1>4, <1>6, <1>7, <1>8, <1>10, RetrTalk DEF s
    <2>2. MailFile(c, t)' = MailFile(c, t)
      BY <1>10 DEF RetrHandler, listVars, MailFile
    <2>3. Talks(c)'
      BY <1>4, <1>6, <1>9, <1>10, <2>1, <2>2 DEF Talks, MailFile, n
    <2> QED
      BY <2>3, ReadLineOthers, SameTalks DEF TalkInv
  <1>11. CASE RepliesTo(c, n) /\ stm'[c] # "ERROR" /\ pending'[c] = NoToken
    <2>1. Open(s, n, NoMail, 0)
      BY <1>6, <1>8, EmptyIsOpen
    <2>2. 0 \in Nat
      OBVIOUS
    <2>3. Ordered(Conversation(c)', n) /\ InPieces(Conversation(c)')
      BY <1>1, <1>6, <1>7, <1>11, <2>1, <2>2, RepliesTalk DEF s
    <2>4. Talks(c)'
      BY <1>6, <1>9, <1>11, <2>3 DEF Talks
    <2> QED
      BY <2>4, ReadLineOthers, SameTalks DEF TalkInv
  <1>12. CASE UNCHANGED outVars /\ pending'[c] = NoToken
    <2>1. Conversation(c)' = s
      BY <1>1, <1>12, NoPutJoins DEF s
    <2>2. Ordered(s, n)
      BY <1>6, <1>7, LaterIsOrdered
    <2>3. Talks(c)'
      BY <1>6, <1>7, <1>8, <1>9, <1>12, <2>1, <2>2 DEF Talks
    <2> QED
      BY <2>3, ReadLineOthers, SameTalks DEF TalkInv
  <1> QED
    BY <1>1, <1>2, <1>4, <1>5, <1>10, <1>11, <1>12, HandlerReplies

LEMMA ReadResumesTalks ==
    ASSUME SessionInv, DataInv, TalkInv, NEW c \in Conns, ReadResumes(c)
    PROVE  TalkInv'
  <1> DEFINE s == Conversation(c)
  <1>0. PICK t \in Token \cup {NoToken} : t = pending[c]
    BY DEF DataInv, ListInv
  <1>1. /\ t \in Token /\ t # NoToken /\ RetrHandler(c, t) /\ UNCHANGED <<served, got>>
        /\ stm[c] \in {"AUTHORIZATION", "TRANSACTION"}
    BY <1>0, ReadingState DEF ReadResumes
  <1>2. UNCHANGED <<stm, mails>>
    BY <1>1 DEF RetrHandler, Stays, stmVars, listVars
  <1>3. served[c] \in Nat /\ served[c] <= served[c] /\ served'[c] = served[c]
    BY <1>1, SizesAssumption DEF DataInv, InInv
  <1>4. /\ Ordered(s, served[c]) /\ InPieces(s) /\ t.n = served[c]
        /\ HalfSent(s, served[c], MailFile(c, t), ridx[c])
    BY <1>1, <1>0 DEF TalkInv, Talks, MailFile
  <1> HIDE DEF s
  <1>5. /\ Ordered(Conversation(c)', served[c]) /\ InPieces(Conversation(c)')
        /\ pending'[c] # NoToken =>
              pending'[c] = t /\ HalfSent(Conversation(c)', served[c], MailFile(c, t), ridx'[c])
    BY <1>1, <1>3, <1>4, <1>0, RetrTalk DEF s
  <1>6. Talks(c)'
    BY <1>1, <1>2, <1>3, <1>4, <1>5 DEF Talks, MailFile
  <1> QED
    BY <1>6, ReadResumesOthers, SameTalks DEF TalkInv

(* handle_write adds the greeting, or the -ERR of a line that has had no   *)
(* answer, or nothing.                                                     *)
LEMMA StmWriteTalks ==
    ASSUME SessionInv, DataInv, TalkInv, NEW c \in Conns, StmWrite(c),
           UNCHANGED <<served, pending, session, deleted, ridx>>,
           \/ /\ Joins(Conversation(c)', Conversation(c), Added(c))
              /\ \A d \in Conns \ {c} : Conversation(d)' = Conversation(d)
           \/ stm[c] # "NONE" /\ UNCHANGED <<outVars, got>>
    PROVE  TalkInv'
  <1> DEFINE s == Conversation(c)
             v == Conversation(c)'
             n == served[c]
  <1>1. /\ stm'[c] # "NONE"
        /\ \A d \in Conns \ {c} : stm'[d] = stm[d] /\ mails'[d] = mails[d]
    BY StmWriteLemma
  <1>2. \A d \in Conns \ {c} : Conversation(d)' = Conversation(d)
    BY NoPutJoins
  <1>3. \A d \in Conns \ {c} : Talks(d)'
    BY <1>1, <1>2, SameTalks DEF TalkInv, SameTalk
  <1>4. s \in Seq(Unit) /\ n \in Nat /\ n <= n /\ served'[c] = n /\ Added(c) \in Seq(Unit)
    BY ConversationLemma, AddedLemma, SizesAssumption DEF DataInv, InInv
  <1>5. /\ Ordered(s, n) /\ InPieces(s)
        /\ stm[c] = "NONE" => n = 0 /\ s = <<>>
        /\ stm[c] = "ERROR" => At(s, n) = {} /\ pending[c] = NoToken
        /\ pending[c] # NoToken =>
              pending[c].n = n /\ HalfSent(s, n, MailFile(c, pending[c]), ridx[c])
    BY DEF TalkInv, Talks
  <1>6. stm[c] = "NONE" => pending[c] = NoToken /\ At(s, n) = {}
    <2>1. stm[c] = "NONE" => pending[c] = NoToken
      BY DEF SessionInv, ConnInv, Matches, InTransaction
    <2>2. s = <<>> => At(s, n) = {}
      BY DEF At
    <2> QED
      BY <1>5, <2>1, <2>2
  <1> HIDE DEF s, v, n
  <1>7. CASE stm[c] = "NONE" \/ ErrorFits(c)
    <2>1. At(s, n) = {} /\ pending[c] = NoToken
      BY <1>5, <1>6, <1>7 DEF ErrorFits
    <2>2. Open(s, n, NoMail, 0) /\ 0 \in Nat
      BY <1>4, <2>1, EmptyIsOpen
    <2>3. stm'[c] # "ERROR"
      <3>1. CASE stm[c] = "NONE"
        <4>1. stm' = Upd(stm, c, "AUTHORIZATION")
          BY <3>1 DEF StmWrite, ErrorFits
        <4> QED
          BY <4>1 DEF SessionInv, Maps, Upd
      <3>2. CASE ErrorFits(c)
        <4>1. stm[c] = "ERROR" /\ last_state[c] \in {"AUTHORIZATION", "TRANSACTION"}
          BY <3>2 DEF ErrorFits, SessionInv, ConnInv, Matches
        <4>2. Goto(c, last_state[c])
          BY <3>2, <4>1 DEF StmWrite, ErrorFits
        <4> QED
          BY <4>1, <4>2, GotoLemma DEF States
      <3> QED
        BY <1>7, <3>1, <3>2
    <2>4. Ordered(v, n) /\ InPieces(v)
      <3>1. CASE Joins(v, s, Added(c))
        <4>1. Plain(Added(c), n)
          BY <1>5, <1>7 DEF Added, Plain, U, n
        <4> QED
          BY <1>4, <1>5, <2>2, <3>1, <4>1, PlainTalk
      <3>2. CASE UNCHANGED <<outVars, got>>
        BY <1>5, <3>2, NoPutJoins DEF s, v
      <3> QED
        BY <3>1, <3>2 DEF s, v
    <2>5. Talks(c)'
      BY <1>1, <1>4, <2>1, <2>3, <2>4 DEF Talks, v
    <2> QED
      BY <1>3, <2>5 DEF TalkInv
  <1>8. CASE stm[c] # "NONE" /\ ~ErrorFits(c)
    <2>1. Added(c) = <<>> /\ UNCHANGED <<stmVars, listVars>>
      BY <1>8 DEF Added, StmWrite
    <2>2. v = s
      <3>1. CASE Joins(v, s, Added(c))
        BY <1>4, <2>1, <3>1, ConcatEmptySeq DEF Joins
      <3>2. CASE UNCHANGED <<outVars, got>>
        BY <3>2, NoPutJoins DEF s, v
      <3> QED
        BY <3>1, <3>2 DEF s, v
    <2>3. SameTalk(c)
      BY <1>4, <2>1, <2>2 DEF SameTalk, s, v, stmVars, listVars, n
    <2>4. Talks(c)'
      BY <2>3, SameTalks DEF TalkInv
    <2> QED
      BY <1>3, <2>4 DEF TalkInv
  <1> QED
    BY <1>7, <1>8

LEMMA WriteTalks ==
    ASSUME SessionInv, DataInv, TalkInv, NEW c \in Conns, Write(c)
    PROVE  TalkInv'
  <1>1. UNCHANGED <<served, pending, session, deleted, ridx>>
    BY DEF Write, WriteSends, WriteFails, WriteDies, writeFrame, inVars
  <1>2. ASSUME NEW k \in Amounts(Queue(c)), Flush(c, Queue(c), k), StmWrite(c)
        PROVE  TalkInv'
    BY <1>1, <1>2, FlushJoins, StmWriteTalks
  <1>3. CASE WriteSends(c)
    BY <1>2, <1>3 DEF WriteSends
  <1>4. CASE WriteFails(c)
    <2>1. CASE UNCHANGED <<outVars, got>> /\ (~SendsTwice(c) \/ Queue(c) = <<>>)
      <3>1. stm[c] # "NONE"
        <4>1. SendsTwice(c) => Queue(c) = <<>>
          BY <2>1
        <4>2. ASSUME stm[c] = "NONE"
              PROVE  FALSE
          <5>1. out[c] \in Seq(Unit) /\ U(0, "ok", 0) \in Unit
            <6>1. 0 \in 0 .. MaxLines /\ 0 \in Nat /\ "ok" \in Kinds
              BY SizesAssumption DEF Kinds
            <6> QED
              BY <6>1, ConversationLemma, UnitLemma
          <5>2. Queue(c) # <<>>
            BY <4>2, <5>1, AppendProperties DEF Queue
          <5> QED
            BY <4>1, <4>2, <5>2 DEF SendsTwice
        <4> QED
          BY <4>2
      <3> QED
        BY <1>1, <1>4, <2>1, <3>1, StmWriteTalks DEF WriteFails
    <2> QED
      BY <1>2, <1>4, <2>1 DEF WriteFails
  <1>5. CASE WriteDies(c)
    <2>1. \A d \in Conns : SameTalk(d)
      BY <1>1, <1>5, NoPutJoins DEF WriteDies, SameTalk, stmVars, listVars
    <2> QED
      BY <2>1, SameTalks DEF TalkInv
  <1> QED
    BY <1>3, <1>4, <1>5 DEF Write

LEMMA InitTalks == Init => TalkInv
  <1> SUFFICES ASSUME Init, NEW c \in Conns
               PROVE  Talks(c)
    BY DEF TalkInv
  <1>1. Conversation(c) = <<>> /\ served[c] = 0 /\ stm[c] = "NONE" /\ pending[c] = NoToken
    BY EmptySeq, ConcatEmptySeq DEF Init, Conversation
  <1>2. Ordered(<<>>, 0) /\ InPieces(<<>>)
    BY DEF Ordered, InPieces
  <1> QED
    BY <1>1, <1>2 DEF Talks

LEMMA NextTalks == SessionInv /\ DataInv /\ LineInv /\ TalkInv /\ [Next]_vars => TalkInv'
  <1> SUFFICES ASSUME SessionInv, DataInv, LineInv, TalkInv, [Next]_vars
               PROVE  TalkInv'
    OBVIOUS
  <1>1. CASE UNCHANGED <<stm, served, pending, mails, ridx, outVars, got>>
    <2>1. \A d \in Conns : SameTalk(d)
      BY <1>1, NoPutJoins DEF SameTalk
    <2> QED
      BY <2>1, SameTalks DEF TalkInv
  <1>2. ASSUME NEW c \in Conns,
               \/ Accept(c) \/ Client(c) \/ ReadEnds(c) \/ ReadFails(c) \/ ReadPartial(c)
               \/ ReadInError(c)
        PROVE  UNCHANGED <<stm, served, pending, mails, ridx, outVars, got>>
    BY <1>2 DEF Accept, Client, ReadEnds, ReadFails, ReadPartial, ReadInError, stmVars, inVars,
                mailVars, listVars
  <1>3. CASE (\E b \in Boxes, m \in Mails : Deliver(b, m)) \/ Administer \/ UNCHANGED vars
    BY <1>1, <1>3 DEF Deliver, Administer, vars, stmVars, inVars, mailVars, listVars
  <1> QED
    BY <1>1, <1>2, <1>3, ReadLineTalks, ReadResumesTalks, WriteTalks DEF Next, Serve, Read

LEMMA SpecTalks == Spec => []TalkInv
  BY InitTalks, NextTalks, SpecInv, SpecData, SpecLines, PTL DEF Spec

(* Whatever is cut short, lost or fails on the way: what has reached the   *)
(* client of a message, or waits in out_buff, is a beginning of it, its    *)
(* pieces in their order, none twice, none skipped by a later one and none *)
(* of another message between them, and nothing of the reply comes after   *)
(* its terminator. That the message is all there when its terminator comes *)
(* is MessagesArriveWhole, which needs sends that are not cut short.       *)
THEOREM MessagesArriveInPieces == Spec => []PiecesInOrder
  <1>1. TalkInv => PiecesInOrder
    BY DEF TalkInv, Talks, InPieces, PiecesInOrder
  <1> QED
    BY SpecTalks, <1>1, PTL

----------------------------------------------------------------------------
(* Whole messages: as long as send takes all that it is given, a callback  *)
(* that parses or resumes finds out_buff empty, so that no piece is        *)
(* skipped.                                                                *)
Drained(c) == interest[c] = "READ" \/ turn = c => out[c] = <<>> /\ outw[c] = 0
DrainInv   == \A c \in Conns : Drained(c)

LEMMA DrainOne ==
    ASSUME DrainInv, NEW c \in Conns, turn' \in {c, Idle}, Drained(c)',
           \A d \in Conns \ {c} :
              interest'[d] \in {interest[d], "WRITE"} /\ out'[d] = out[d] /\ outw'[d] = outw[d]
    PROVE  DrainInv'
  BY BoxesAssumption DEF DrainInv, Drained, Idle

LEMMA PutOthers ==
    ASSUME DataInv, NEW c \in Conns, Puts(c) \/ UNCHANGED outVars
    PROVE  \A d \in Conns \ {c} : out'[d] = out[d] /\ outw'[d] = outw[d]
  BY DEF DataInv, OutInv, Puts, Put, outVars, Upd

LEMMA ReadDrains ==
    ASSUME SessionInv, DataInv, DrainInv, NEW c \in Conns, ReadLine(c) \/ ReadResumes(c)
    PROVE  DrainInv'
  <1>1. Puts(c) \/ UNCHANGED outVars
    <2>1. CASE ReadLine(c)
      <3> DEFINE t == [Head(Taken(c)) EXCEPT !.part = "all"]
      <3>1. Whole(c) /\ pending[c] = NoToken /\ stm[c] \in {"AUTHORIZATION", "TRANSACTION"}
        BY <2>1, ReadingState DEF ReadLine
      <3>2. t \in Token
        BY <3>1, TakenLemma DEF Token
      <3>3. Handler(c, t) \/ Rejected(c)
        BY <2>1 DEF ReadLine
      <3> HIDE DEF t
      <3> QED
        BY <3>1, <3>2, <3>3, HandlerData
    <2>2. CASE ReadResumes(c)
      <3>1. pending[c] \in Token /\ RetrHandler(c, pending[c])
        BY <2>2 DEF ReadResumes, DataInv, ListInv
      <3> QED
        BY <3>1, RetrData
    <2> QED
      BY <2>1, <2>2
  <1>2. WillWrite(c)
    BY DEF ReadLine, ReadResumes
  <1>3. turn' = Idle /\ interest'[c] = "WRITE" /\ \A d \in Conns \ {c} : interest'[d] = interest[d]
    BY <1>2 DEF WillWrite, DataInv, SockInv, Upd
  <1>4. Drained(c)'
    BY <1>3, BoxesAssumption DEF Drained, Idle
  <1> QED
    BY <1>1, <1>3, <1>4, DrainOne, PutOthers

LEMMA CloseDrains ==
    ASSUME DataInv, DrainInv, NEW c \in Conns, Unregister(c),
           \A d \in Conns \ {c} : out'[d] = out[d] /\ outw'[d] = outw[d]
    PROVE  DrainInv'
  <1>1. turn' = Idle /\ interest'[c] = "NOOP" /\ \A d \in Conns \ {c} : interest'[d] = interest[d]
    BY DEF Unregister, DataInv, SockInv, Upd
  <1>2. Drained(c)'
    BY <1>1, BoxesAssumption DEF Drained, Idle
  <1> QED
    BY <1>1, <1>2, DrainOne

LEMMA FlushOthers ==
    ASSUME DataInv, NEW c \in Conns, NEW k, Flush(c, Queue(c), k)
    PROVE  \A d \in Conns \ {c} : out'[d] = out[d] /\ outw'[d] = outw[d]
  BY DEF DataInv, OutInv, Flush, Upd

LEMMA WriteDrains ==
    ASSUME DataInv, DrainInv, ~PartialSends, NEW c \in Conns, WriteSends(c) \/ WriteFails(c)
    PROVE  DrainInv'
  <1>1. CASE WriteFails(c)
    <2>1. \A d \in Conns \ {c} : out'[d] = out[d] /\ outw'[d] = outw[d]
      BY <1>1, FlushOthers DEF WriteFails, outVars
    <2> QED
      BY <1>1, <2>1, CloseDrains DEF WriteFails
  <1>2. CASE WriteSends(c)
    <2>1. Flush(c, Queue(c), Len(Queue(c)))
      BY <1>2 DEF WriteSends, Amounts
    <2>2. Queue(c) \in Seq(Unit) /\ Len(Queue(c)) \in Nat
      BY AddedLemma, LenProperties
    <2>3. SubSeq(Queue(c), Len(Queue(c)) + 1, Len(Queue(c))) = <<>>
      BY <2>2, SubSeqEmpty
    <2>4. out'[c] = <<>> /\ outw'[c] = 0
      BY <2>1, <2>3 DEF Flush, Upd, DataInv, OutInv
    <2>5. turn' \in {c, Idle} /\ \A d \in Conns \ {c} : interest'[d] = interest[d]
      BY <1>2 DEF WriteSends, AfterSend, Unregister, DataInv, SockInv, Upd
    <2>6. Drained(c)'
      BY <2>4 DEF Drained
    <2> QED
      BY <2>1, <2>5, <2>6, DrainOne, FlushOthers
  <1> QED
    BY <1>1, <1>2

LEMMA NextDrains ==
    ASSUME SessionInv, DataInv, DrainInv, ~PartialSends, [Next]_vars
    PROVE  DrainInv'
  <1>1. CASE UNCHANGED <<interest, outVars>> /\ turn' \in {turn, Idle}
    BY <1>1, BoxesAssumption DEF DrainInv, Drained, outVars, Idle
  <1>2. ASSUME NEW c \in Conns, Accept(c)
        PROVE  DrainInv'
    BY <1>2, BoxesAssumption DEF Accept, DrainInv, Drained, outVars, Idle, Upd, DataInv, SockInv
  <1>3. ASSUME NEW c \in Conns, ReadEnds(c)
        PROVE  DrainInv'
    BY <1>3, CloseDrains DEF ReadEnds, outVars
  <1>4. ASSUME NEW c \in Conns,
               Client(c) \/ ReadFails(c) \/ ReadPartial(c) \/ ReadInError(c) \/ WriteDies(c)
        PROVE  UNCHANGED <<interest, outVars>> /\ turn' \in {turn, Idle}
    BY <1>4 DEF Client, ReadFails, ReadPartial, ReadInError, WriteDies, sockVars
  <1>5. CASE (\E b \in Boxes, m \in Mails : Deliver(b, m)) \/ Administer \/ UNCHANGED vars
    BY <1>1, <1>5 DEF Deliver, Administer, vars, sockVars
  <1> QED
    BY <1>1, <1>2, <1>3, <1>4, <1>5, ReadDrains, WriteDrains DEF Next, Serve, Read, Write

LEMMA InitDrains == Init => DrainInv
  BY DEF Init, DrainInv, Drained

(* RetrIsExact, of one conversation, but for the order of the pieces.      *)
Complete(s) ==
    \A j \in DOMAIN s : Terminates(s[j]) => Numbers(s, Bodies(s, s[j].n)) = 1 .. Size[s[j].m]

LEMMA PlainComplete ==
    ASSUME NEW s \in Seq(Unit), NEW w \in Seq(Unit), NEW v, Joins(v, s, w), NEW n, Plain(w, n),
           Complete(s)
    PROVE  Complete(v) /\ \A i : Numbers(v, Bodies(v, i)) = Numbers(s, Bodies(s, i))
  <1>1. ASSUME NEW i
        PROVE  Numbers(v, Bodies(v, i)) = Numbers(s, Bodies(s, i))
    <2>1. Bodies(w, i) = {}
      BY DEF Plain, Bodies, At
    <2>2. Numbers(w, {}) = {}
      BY DEF Numbers
    <2>3. Numbers(v, Bodies(v, i)) = Numbers(s, Bodies(s, i)) \cup Numbers(w, Bodies(w, i))
      BY JoinNumbers
    <2> QED
      BY <2>1, <2>2, <2>3
  <1>2. \A j \in DOMAIN w : ~Terminates(w[j])
    BY DEF Plain, Terminates
  <1>3. ASSUME NEW j \in DOMAIN v, Terminates(v[j])
        PROVE  Numbers(v, Bodies(v, v[j].n)) = 1 .. Size[v[j].m]
    <2>1. j \in DOMAIN s /\ v[j] = s[j]
      BY <1>2, <1>3, JoinLemma
    <2>2. Numbers(s, Bodies(s, s[j].n)) = 1 .. Size[s[j].m]
      BY <1>3, <2>1 DEF Complete
    <2> QED
      BY <1>1, <2>1, <2>2
  <1> QED
    BY <1>1, <1>3 DEF Complete

LEMMA ShapeComplete ==
    ASSUME NEW s \in Seq(Unit), NEW v, NEW w, Joins(v, s, w), NEW n, NEW m, NEW x, NEW k, NEW h,
           NEW e, Shape(w, n, m, x, h, k, e), Open(s, n, m, x), Complete(s),
           e = 1 => x + k = Size[m]
    PROVE  Complete(v) /\ Numbers(v, Bodies(v, n)) = 1 .. x + k
  <1>1. /\ w \in Seq(Unit) /\ x \in Nat /\ k \in Nat /\ h \in {0, 1} /\ e \in {0, 1}
        /\ DOMAIN w = 1 .. h + k + e
        /\ \A j \in 1 .. h + k + e : w[j].n = n
        /\ \A j \in 1 .. h + k + e : j > h + k => w[j].kind = "end" /\ w[j].m = m
    BY ShapeParts
  <1>2. GoesOn(w, n, m, x) /\ \A j \in DOMAIN w : Terminates(w[j]) => e = 1
    BY <1>1, ShapeGoesOn
  <1>3. Numbers(v, Bodies(v, n)) = 1 .. x + k
    <2>1. Numbers(v, Bodies(v, n)) = Numbers(s, Bodies(s, n)) \cup Numbers(w, Bodies(w, n))
      BY <1>1, JoinNumbers
    <2>2. Numbers(w, Bodies(w, n)) = x + 1 .. x + k
      BY ShapeNumbers
    <2>3. Numbers(s, Bodies(s, n)) = 1 .. x
      BY DEF Open
    <2>4. (1 .. x) \cup (x + 1 .. x + k) = 1 .. x + k
      BY <1>1
    <2> QED
      BY <2>1, <2>2, <2>3, <2>4
  <1>4. ASSUME NEW i, i # n
        PROVE  Numbers(v, Bodies(v, i)) = Numbers(s, Bodies(s, i))
    <2>1. Bodies(w, i) = {}
      BY <1>1, <1>4 DEF Bodies, At
    <2>2. Numbers(w, {}) = {}
      BY DEF Numbers
    <2>3. Numbers(v, Bodies(v, i)) = Numbers(s, Bodies(s, i)) \cup Numbers(w, Bodies(w, i))
      BY <1>1, JoinNumbers
    <2> QED
      BY <2>1, <2>2, <2>3
  <1>5. ASSUME NEW j \in DOMAIN v, Terminates(v[j])
        PROVE  Numbers(v, Bodies(v, v[j].n)) = 1 .. Size[v[j].m]
    <2>1. CASE j \in DOMAIN s /\ v[j] = s[j]
      <3>1. s[j].n # n
        BY <1>5, <2>1 DEF Open, At
      <3>2. Numbers(s, Bodies(s, s[j].n)) = 1 .. Size[s[j].m]
        BY <1>5, <2>1 DEF Complete
      <3> QED
        BY <1>4, <2>1, <3>1, <3>2
    <2>2. ASSUME NEW i \in DOMAIN w, v[j] = w[i]
          PROVE  Numbers(v, Bodies(v, v[j].n)) = 1 .. Size[v[j].m]
      <3>1. w[i].n = n /\ w[i].m = m /\ e = 1
        BY <1>1, <1>2, <1>5, <2>2 DEF GoesOn
      <3> QED
        BY <1>3, <2>2, <3>1
    <2>3. w \in Seq(Unit)
      BY <1>1
    <2>4. (j \in DOMAIN s /\ v[j] = s[j]) \/ \E i \in DOMAIN w : v[j] = w[i]
      BY <2>3, JoinLemma
    <2> QED
      BY <2>1, <2>2, <2>4
  <1> QED
    BY <1>3, <1>5 DEF Complete

(* What has been sent of a message goes up to read_index.                  *)
SentSoFar(c) ==
    pending[c] # NoToken => Numbers(Conversation(c), Bodies(Conversation(c), served[c])) = 1 .. ridx[c]

ExactInv == \A c \in Conns : Complete(Conversation(c)) /\ SentSoFar(c)

LEMMA SameExact ==
    ASSUME NEW d \in Conns, Complete(Conversation(d)) /\ SentSoFar(d), SameTalk(d)
    PROVE  Complete(Conversation(d))' /\ SentSoFar(d)'
  BY DEF SameTalk, SentSoFar

LEMMA RepliesExact ==
    ASSUME DataInv, NEW c \in Conns, NEW n, RepliesTo(c, n), UNCHANGED got, Complete(Conversation(c))
    PROVE  /\ Complete(Conversation(c)')
           /\ \A i : Numbers(Conversation(c)', Bodies(Conversation(c)', i))
                       = Numbers(Conversation(c), Bodies(Conversation(c), i))
  <1>1. PICK us \in Seq(Unit) : Put(c, us) /\ Plain(us, n)
    BY DEF RepliesTo
  <1>2. PICK k \in 0 .. Len(us) : Joins(Conversation(c)', Conversation(c), SubSeq(us, 1, k))
    BY <1>1, PutJoins
  <1>3. Plain(SubSeq(us, 1, k), n) /\ SubSeq(us, 1, k) \in Seq(Unit)
    BY <1>1, FrontIsPlain
  <1>4. Conversation(c) \in Seq(Unit)
    BY ConversationLemma
  <1> QED
    BY <1>2, <1>3, <1>4, PlainComplete

LEMMA RetrExact ==
    ASSUME DataInv, NEW c \in Conns, NEW t \in Token, t = pending[c] \/ pending[c] = NoToken,
           RetrHandler(c, t), UNCHANGED got, Room(c) > 1, Complete(Conversation(c)),
           Open(Conversation(c), t.n, MailFile(c, t), ridx[c])
    PROVE  /\ Complete(Conversation(c)')
           /\ pending'[c] # NoToken =>
                Numbers(Conversation(c)', Bodies(Conversation(c)', t.n)) = 1 .. ridx'[c]
  <1> DEFINE n == t.n
             m == MailFile(c, t)
             s == Conversation(c)
             v == Conversation(c)'
  <1>1. s \in Seq(Unit) /\ ridx[c] \in Nat
    BY ConversationLemma DEF DataInv, ListInv
  <1>2. CASE RepliesTo(c, n) /\ UNCHANGED <<pending, ridx>>
    <2>1. Complete(v) /\ Numbers(v, Bodies(v, n)) = Numbers(s, Bodies(s, n))
      BY <1>2, RepliesExact
    <2>2. Numbers(s, Bodies(s, n)) = 1 .. ridx[c]
      BY DEF Open
    <2> QED
      BY <1>2, <2>1, <2>2
  <1>3. CASE RetrAdds(c, t)
    <2>1. PICK h \in {0, 1}, e \in {0, 1}, k \in Nat, w \in Seq(Unit) :
            /\ Joins(v, s, w)
            /\ Shape(w, n, m, ridx[c], h, k, e)
            /\ e = 1 => ridx[c] + k = Size[m] /\ pending'[c] = NoToken
            /\ e = 0 => ridx'[c] = ridx[c] + k
      <3>1. ~(Room(c) <= 1)
        BY RoomLemma, SizesAssumption
      <3> QED
        BY <1>3, <3>1 DEF RetrAdds
    <2> HIDE DEF n, m, s, v
    <2>2. Open(s, n, m, ridx[c]) /\ Complete(s)
      BY DEF s, n, m
    <2>3. Complete(v) /\ Numbers(v, Bodies(v, n)) = 1 .. ridx[c] + k
      BY <1>1, <2>1, <2>2, ShapeComplete
    <2> QED
      BY <2>1, <2>3 DEF v, n
  <1> QED
    BY <1>2, <1>3, RetrReply

LEMMA DrainedRoom ==
    ASSUME DataInv, DrainInv, BUFFER_SIZE >= 2, NEW c \in Conns, CallsRead(c)
    PROVE  Room(c) = BUFFER_SIZE /\ Room(c) > 1
  <1>1. outw[c] = 0
    BY DEF DrainInv, Drained, CallsRead
  <1> QED
    BY <1>1, SizesAssumption DEF Room

LEMMA ReadLineExact ==
    ASSUME SessionInv, DataInv, LineInv, TalkInv, DrainInv, ExactInv, BUFFER_SIZE >= 2,
           NEW c \in Conns, ReadLine(c)
    PROVE  ExactInv'
  <1> DEFINE s == Conversation(c)
             v == Conversation(c)'
             n == served[c] + 1
  <1>1. /\ Whole(c) /\ pending[c] = NoToken /\ stm[c] \in {"AUTHORIZATION", "TRANSACTION"}
        /\ UNCHANGED got /\ CallsRead(c)
    BY ReadingState DEF ReadLine
  <1>2. PICK t \in Token : t = [Head(Taken(c)) EXCEPT !.part = "all"]
    BY <1>1, TakenLemma DEF Token
  <1>3. served' = Upd(served, c, n) /\ Head(Taken(c)).n = n
    BY NextLine
  <1>4. t.n = n
    BY <1>1, <1>2, <1>3, TakenLemma DEF Token
  <1>5. Handler(c, t) \/ Rejected(c)
    BY <1>2 DEF ReadLine
  <1>6. /\ served[c] \in Nat /\ n \in Nat /\ served[c] < n /\ served'[c] = n /\ s \in Seq(Unit)
        /\ ridx[c] = 0
    BY <1>1, <1>3, ConversationLemma, SizesAssumption DEF DataInv, InInv, ListInv, Fits, Upd
  <1> HIDE DEF s, v, n
  <1>7. Complete(s) /\ At(s, n) = {}
    BY <1>6, AfterAll DEF TalkInv, Talks, ExactInv, s
  <1>8. Complete(v) /\ (pending'[c] # NoToken => Numbers(v, Bodies(v, n)) = 1 .. ridx'[c])
    <2>1. CASE RetrHandler(c, t)
      <3>1. Open(s, n, MailFile(c, t), 0)
        BY <1>6, <1>7, EmptyIsOpen
      <3> QED
        BY <1>1, <1>4, <1>6, <1>7, <2>1, <3>1, DrainedRoom, RetrExact DEF s, v
    <2>2. CASE RepliesTo(c, n) /\ pending'[c] = NoToken
      BY <1>1, <1>7, <2>2, RepliesExact DEF s, v
    <2>3. CASE UNCHANGED outVars /\ pending'[c] = NoToken
      BY <1>1, <1>7, <2>3, NoPutJoins DEF s, v
    <2> QED
      BY <1>1, <1>4, <1>5, <2>1, <2>2, <2>3, HandlerReplies
  <1>9. Complete(Conversation(c))' /\ SentSoFar(c)'
    BY <1>6, <1>8 DEF SentSoFar, v
  <1> QED
    BY <1>9, ReadLineOthers, SameExact DEF ExactInv

LEMMA ReadResumesExact ==
    ASSUME SessionInv, DataInv, TalkInv, DrainInv, ExactInv, BUFFER_SIZE >= 2,
           NEW c \in Conns, ReadResumes(c)
    PROVE  ExactInv'
  <1> DEFINE s == Conversation(c)
  <1>1. PICK t \in Token \cup {NoToken} : t = pending[c]
    BY DEF DataInv, ListInv
  <1>2. /\ t \in Token /\ t # NoToken /\ RetrHandler(c, t) /\ UNCHANGED <<served, got>>
        /\ CallsRead(c)
    BY <1>1 DEF ReadResumes
  <1>3. t.n = served[c] /\ HalfSent(s, served[c], MailFile(c, t), ridx[c])
    BY <1>1, <1>2 DEF TalkInv, Talks, MailFile
  <1>4. Complete(s) /\ Numbers(s, Bodies(s, served[c])) = 1 .. ridx[c]
    BY <1>1, <1>2 DEF ExactInv, SentSoFar
  <1> HIDE DEF s
  <1>5. Open(s, t.n, MailFile(c, t), ridx[c])
    BY <1>3, <1>4 DEF HalfSent, Open
  <1>6. /\ Complete(Conversation(c)')
        /\ pending'[c] # NoToken =>
             Numbers(Conversation(c)', Bodies(Conversation(c)', t.n)) = 1 .. ridx'[c]
    BY <1>1, <1>2, <1>4, <1>5, DrainedRoom, RetrExact DEF s
  <1>7. Complete(Conversation(c))' /\ SentSoFar(c)'
    BY <1>2, <1>3, <1>6 DEF SentSoFar
  <1> QED
    BY <1>7, ReadResumesOthers, SameExact DEF ExactInv

LEMMA WriteExact ==
    ASSUME SessionInv, DataInv, ExactInv, NEW c \in Conns, Write(c)
    PROVE  ExactInv'
  <1>1. UNCHANGED <<served, pending, ridx>>
    BY DEF Write, WriteSends, WriteFails, WriteDies, writeFrame, inVars
  <1>2. CASE UNCHANGED <<outVars, got>>
    BY <1>1, <1>2, NoPutJoins DEF ExactInv, SentSoFar
  <1>3. ASSUME NEW k \in Amounts(Queue(c)), Flush(c, Queue(c), k)
        PROVE  ExactInv'
    <2>1. /\ Joins(Conversation(c)', Conversation(c), Added(c))
          /\ \A d \in Conns \ {c} : Conversation(d)' = Conversation(d)
      BY <1>3, FlushJoins
    <2>2. Conversation(c) \in Seq(Unit) /\ Added(c) \in Seq(Unit)
      BY ConversationLemma, AddedLemma
    <2>3. Plain(Added(c), IF stm[c] = "NONE" THEN 0 ELSE served[c])
      BY DEF Added, Plain, U
    <2>4. /\ Complete(Conversation(c)')
          /\ \A i : Numbers(Conversation(c)', Bodies(Conversation(c)', i))
                      = Numbers(Conversation(c), Bodies(Conversation(c), i))
      BY <2>1, <2>2, <2>3, PlainComplete DEF ExactInv
    <2>5. Complete(Conversation(c))' /\ SentSoFar(c)'
      BY <1>1, <2>4 DEF ExactInv, SentSoFar
    <2> QED
      BY <1>1, <2>1, <2>5 DEF ExactInv, SentSoFar
  <1> QED
    BY <1>2, <1>3 DEF Write, WriteSends, WriteFails, WriteDies

LEMMA InitExact == Init => ExactInv
  <1> SUFFICES ASSUME Init, NEW c \in Conns
               PROVE  Complete(Conversation(c)) /\ SentSoFar(c)
    BY DEF ExactInv
  <1>1. Conversation(c) = <<>> /\ pending[c] = NoToken
    BY EmptySeq, ConcatEmptySeq DEF Init, Conversation
  <1> QED
    BY <1>1 DEF Complete, SentSoFar

LEMMA NextExact ==
    ASSUME SessionInv, DataInv, LineInv, TalkInv, DrainInv, ExactInv, BUFFER_SIZE >= 2, [Next]_vars
    PROVE  ExactInv'
  <1>1. CASE UNCHANGED <<served, pending, ridx, outVars, got>>
    BY <1>1, NoPutJoins DEF ExactInv, SentSoFar
  <1>2. ASSUME NEW c \in Conns,
               \/ Accept(c) \/ Client(c) \/ ReadEnds(c) \/ ReadFails(c) \/ ReadPartial(c)
               \/ ReadInError(c)
        PROVE  UNCHANGED <<served, pending, ridx, outVars, got>>
    BY <1>2 DEF Accept, Client, ReadEnds, ReadFails, ReadPartial, ReadInError, inVars, mailVars
  <1>3. CASE (\E b \in Boxes, m \in Mails : Deliver(b, m)) \/ Administer \/ UNCHANGED vars
    BY <1>1, <1>3 DEF Deliver, Administer, vars, inVars, mailVars
  <1> QED
    BY <1>1, <1>2, <1>3, ReadLineExact, ReadResumesExact, WriteExact DEF Next, Serve, Read

(* As long as send takes all that it is given, the terminator of a message *)
(* follows the whole of it, however many calls RETR is spread on, if       *)
(* out_buff has room for more than a status line.                          *)
THEOREM MessagesArriveWhole ==
    ASSUME ~PartialSends, BUFFER_SIZE >= 2
    PROVE  Spec => []RetrIsExact
  <1>1. Init => DrainInv /\ ExactInv
    BY InitDrains, InitExact
  <1>2. SessionInv /\ DataInv /\ LineInv /\ TalkInv /\ DrainInv /\ ExactInv /\ [Next]_vars
          => DrainInv' /\ ExactInv'
    BY NextDrains, NextExact
  <1>3. ExactInv /\ PiecesInOrder => RetrIsExact
    BY DEF ExactInv, Complete, RetrIsExact, EndsAreWhole
  <1> QED
    BY <1>1, <1>2, <1>3, SpecInv, SpecData, SpecLines, SpecTalks, MessagesArriveInPieces,
       PTL DEF Spec

----------------------------------------------------------------------------
(* Whole replies: as long as send takes all that it is given and out_buff  *)
(* has room for the longest listing of any maildir.                        *)
Eventual(b) == InitialFiles[b] \cup {m \in Mails : <<b, m>> \in Arriving}

RoomForReplies ==
    /\ ~PartialSends /\ BUFFER_SIZE >= 4
    /\ \A b \in Boxes : Cardinality(Eventual(b)) + 2 <= BUFFER_SIZE

FewFiles == \A b \in Boxes : files[b] \subseteq Eventual(b)
FewMails == \A c \in Conns : Len(mails[c]) + 2 <= BUFFER_SIZE

LEMMA InitFew == ASSUME RoomForReplies, Init PROVE FewFiles /\ FewMails
  <1>1. \A c \in Conns : Len(mails[c]) = 0
    BY EmptySeq DEF Init
  <1> QED
    BY <1>1, SizesAssumption DEF RoomForReplies, Init, FewFiles, FewMails, Eventual

LEMMA ScanFew ==
    ASSUME RoomForReplies, SessionInv, DataInv, FewFiles, FewMails,
           NEW c \in Conns, NEW b \in Boxes, Scan(c, b)
    PROVE  FewMails'
  <1>1. CASE UNCHANGED mails
    BY <1>1 DEF FewMails
  <1>2. ASSUME NEW l \in Listings(c, b), mails' = Upd(mails, c, l)
        PROVE  FewMails'
    <2>1. /\ l \in Seq(Mails)
          /\ cap[c] # 0 => l = <<>>
          /\ cap[c] = 0 => Len(l) <= Cardinality(files[b])
      BY ListingsLemma
    <2>2. Eventual(b) \subseteq Mails /\ files[b] \subseteq Eventual(b)
      BY BoxesAssumption DEF Eventual, FewFiles
    <2>3. IsFiniteSet(Eventual(b))
      BY <2>2, BoxesAssumption, FS_Subset
    <2>4. /\ Cardinality(files[b]) \in Nat /\ Cardinality(Eventual(b)) \in Nat
          /\ Cardinality(files[b]) <= Cardinality(Eventual(b))
      BY <2>2, <2>3, FS_Subset, FS_CardinalityType
    <2>5. Len(l) + 2 <= BUFFER_SIZE
      <3>1. Len(l) = 0 \/ Len(l) <= Cardinality(files[b])
        BY <2>1, EmptySeq DEF DataInv, ListInv
      <3>2. Len(l) \in Nat /\ BUFFER_SIZE \in Nat /\ BUFFER_SIZE >= 4
        BY <2>1, LenProperties, SizesAssumption DEF RoomForReplies
      <3>3. Cardinality(Eventual(b)) + 2 <= BUFFER_SIZE
        BY DEF RoomForReplies
      <3> QED
        BY <2>4, <3>1, <3>2, <3>3
    <2>6. mails'[c] = l /\ \A d \in Conns \ {c} : mails'[d] = mails[d]
      BY <1>2 DEF DataInv, ListInv, Upd
    <2> QED
      BY <2>5, <2>6 DEF FewMails
  <1> QED
    BY <1>1, <1>2 DEF Scan, listVars

LEMMA QuitFew ==
    ASSUME RoomForReplies, DataInv, FewFiles, FewMails, NEW c \in Conns, NEW t, QuitHandler(c, t)
    PROVE  FewFiles' /\ FewMails'
  <1>1. CASE UNCHANGED <<mails, files>>
    BY <1>1 DEF FewFiles, FewMails
  <1>2. CASE /\ mails' = Upd(mails, c, <<>>)
             /\ files' = [files EXCEPT ![session[c]] = @ \ Marked(c)]
    <2>1. mails'[c] = <<>> /\ \A d \in Conns \ {c} : mails'[d] = mails[d]
      BY <1>2 DEF DataInv, ListInv, Upd
    <2>2. \A b \in Boxes : files'[b] \subseteq files[b]
      BY <1>2 DEF DataInv, DirInv
    <2>3. 0 + 2 <= BUFFER_SIZE
      BY SizesAssumption DEF RoomForReplies
    <2> QED
      BY <2>1, <2>2, <2>3, EmptySeq DEF FewFiles, FewMails
  <1> QED
    BY <1>1, <1>2 DEF QuitHandler

LEMMA StmWriteFew ==
    ASSUME RoomForReplies, SessionInv, DataInv, FewFiles, FewMails, NEW c \in Conns, StmWrite(c)
    PROVE  FewMails'
  <1>1. CASE UNCHANGED mails
    BY <1>1 DEF FewMails
  <1>2. CASE ErrorFits(c) /\ last_state[c] = "TRANSACTION" /\ Scan(c, session[c])
    <2>1. session[c] \in Boxes
      <3>1. session[c] # NoBox
        BY <1>2 DEF SessionInv, ConnInv, Matches, InTransaction, ErrorFits
      <3> QED
        BY <3>1 DEF SessionInv, Maps
    <2> QED
      BY <1>2, <2>1, ScanFew
  <1> QED
    BY <1>1, <1>2 DEF StmWrite, listVars

LEMMA NextFew ==
    ASSUME RoomForReplies, SessionInv, DataInv, FewFiles, FewMails, [Next]_vars
    PROVE  FewFiles' /\ FewMails'
  <1>1. CASE UNCHANGED <<mails, files>>
    BY <1>1 DEF FewFiles, FewMails
  <1>2. ASSUME NEW c \in Conns, ReadLine(c)
        PROVE  FewFiles' /\ FewMails'
    <2>1. PICK t : Handler(c, t) \/ Rejected(c)
      BY <1>2 DEF ReadLine
    <2>2. CASE PassHandler(c, t)
      <3>1. UNCHANGED files
        BY <2>2 DEF PassHandler
      <3>2. UNCHANGED mails \/ \E b \in Boxes : Scan(c, b)
        BY <2>2 DEF PassHandler, listVars
      <3> QED
        BY <3>1, <3>2, ScanFew DEF FewFiles, FewMails
    <2> QED
      BY <1>1, <2>1, <2>2, QuitFew
      DEF Handler, Rejected, UserHandler, StatHandler, ListHandler, RetrHandler, DeleHandler,
          NoopHandler, RsetHandler, CapaHandler, mailVars, listVars
  <1>3. ASSUME NEW c \in Conns, WriteSends(c) \/ WriteFails(c)
        PROVE  FewFiles' /\ FewMails'
    BY <1>3, StmWriteFew DEF WriteSends, WriteFails, writeFrame, dirVars, FewFiles
  <1>4. ASSUME NEW b \in Boxes, NEW m \in Mails, Deliver(b, m)
        PROVE  FewFiles' /\ FewMails'
    <2>1. <<b, m>> \in Arriving /\ files' = [files EXCEPT ![b] = @ \cup {m}] /\ UNCHANGED mails
      BY <1>4 DEF Deliver, mailVars, listVars, DataInv, DirInv
    <2>2. m \in Eventual(b)
      BY <2>1 DEF Eventual
    <2> QED
      BY <2>1, <2>2 DEF FewFiles, FewMails, DataInv, DirInv
  <1>5. ASSUME NEW c \in Conns,
               \/ Accept(c) \/ Client(c) \/ ReadEnds(c) \/ ReadFails(c) \/ ReadPartial(c)
               \/ ReadResumes(c) \/ ReadInError(c) \/ WriteDies(c)
        PROVE  UNCHANGED <<mails, files>>
    BY <1>5 DEF Accept, Client, ReadEnds, ReadFails, ReadPartial, ReadResumes, RetrHandler,
                ReadInError, WriteDies, writeFrame, mailVars, listVars, dirVars
  <1>6. CASE Administer \/ UNCHANGED vars
    BY <1>1, <1>6 DEF Administer, vars, mailVars, listVars, dirVars
  <1> QED
    BY <1>1, <1>2, <1>3, <1>4, <1>5, <1>6 DEF Next, Serve, Read, Write

(* What follows a reply leaves it as it is.                                *)
LEMMA JoinKeeps ==
    ASSUME NEW s \in Seq(Unit), NEW w \in Seq(Unit), NEW v, Joins(v, s, w), NEW n,
           \A j \in DOMAIN w : w[j].n = n, NEW i, i # n
    PROVE  /\ At(v, i) = At(s, i) /\ \A j \in At(s, i) : v[j] = s[j]
           /\ WellFormed(s, i) => WellFormed(v, i)
  <1>1. At(w, i) = {}
    BY DEF At
  <1>2. At(v, i) = At(s, i) /\ \A j \in At(s, i) : v[j] = s[j]
    <2>1. \A j \in At(v, i) : j \in At(s, i)
      BY <1>1, JoinAt
    <2>2. \A j \in At(s, i) : j \in At(v, i) /\ v[j] = s[j]
      BY JoinAt
    <2> QED
      BY <2>1, <2>2
  <1>3. ASSUME WellFormed(s, i)
        PROVE  WellFormed(v, i)
    <2>1. PICK first \in At(s, i), last \in At(s, i) :
            /\ s[first].kind \in {"ok", "err"}
            /\ first < last => s[first].kind = "ok" /\ s[last].kind = "end"
            /\ \A j \in At(s, i) : /\ first <= j /\ j <= last
                                   /\ first < j /\ j < last => s[j].kind \in {"entry", "body"}
      BY <1>3 DEF WellFormed
    <2>2. /\ first \in At(v, i) /\ last \in At(v, i) /\ v[first].kind \in {"ok", "err"}
          /\ first < last => v[first].kind = "ok" /\ v[last].kind = "end"
          /\ \A j \in At(v, i) : /\ first <= j /\ j <= last
                                 /\ first < j /\ j < last => v[j].kind \in {"entry", "body"}
      BY <1>2, <2>1
    <2> QED
      BY <2>2 DEF WellFormed
  <1> QED
    BY <1>2, <1>3

(* The places of a line that had none: those of what is added.             *)
LEMMA JoinFirst ==
    ASSUME NEW s \in Seq(Unit), NEW w \in Seq(Unit), NEW v, Joins(v, s, w), NEW n, At(s, n) = {}
    PROVE  /\ Len(s) \in Nat
           /\ \A j \in At(v, n) : \E k \in At(w, n) : j = Len(s) + k /\ v[j] = w[k]
           /\ \A k \in At(w, n) : /\ Len(s) + k \in At(v, n) /\ v[Len(s) + k] = w[k]
                                  /\ k \in Nat
  <1>1. Len(s) \in Nat /\ Len(w) \in Nat
    BY LenProperties
  <1>2. \A j \in At(v, n) : \E k \in At(w, n) : j = Len(s) + k /\ v[j] = w[k]
    BY JoinAt
  <1>3. \A k \in At(w, n) : Len(s) + k \in At(v, n) /\ v[Len(s) + k] = w[k] /\ k \in 1 .. Len(w)
    BY JoinAt
  <1> QED
    BY <1>1, <1>2, <1>3

LEMMA JoinWhole ==
    ASSUME NEW s \in Seq(Unit), NEW w \in Seq(Unit), NEW v, Joins(v, s, w), NEW n, At(s, n) = {},
           WellFormed(w, n)
    PROVE  WellFormed(v, n)
  <1>1. /\ Len(s) \in Nat
        /\ \A j \in At(v, n) : \E k \in At(w, n) : j = Len(s) + k /\ v[j] = w[k]
        /\ \A k \in At(w, n) : Len(s) + k \in At(v, n) /\ v[Len(s) + k] = w[k] /\ k \in Nat
    BY JoinFirst
  <1>2. PICK first \in At(w, n), last \in At(w, n) :
          /\ w[first].kind \in {"ok", "err"}
          /\ first < last => w[first].kind = "ok" /\ w[last].kind = "end"
          /\ \A j \in At(w, n) : /\ first <= j /\ j <= last
                                 /\ first < j /\ j < last => w[j].kind \in {"entry", "body"}
    BY DEF WellFormed
  <1>3. first \in Nat /\ last \in Nat
    BY <1>1
  <1> DEFINE f == Len(s) + first
             l == Len(s) + last
  <1>4. f \in At(v, n) /\ l \in At(v, n) /\ v[f] = w[first] /\ v[l] = w[last]
    BY <1>1
  <1>5. f < l => first < last
    BY <1>1, <1>3
  <1>6. ASSUME NEW j \in At(v, n)
        PROVE  /\ f <= j /\ j <= l
               /\ f < j /\ j < l => v[j].kind \in {"entry", "body"}
    <2>1. PICK k \in At(w, n) : j = Len(s) + k /\ v[j] = w[k]
      BY <1>1
    <2>2. k \in Nat /\ first <= k /\ k <= last
      BY <1>1, <1>2
    <2>3. first < k /\ k < last => w[k].kind \in {"entry", "body"}
      BY <1>2
    <2>4. f <= j /\ j <= l /\ (f < j => first < k) /\ (j < l => k < last)
      <3>1. Len(s) \in Nat /\ j = Len(s) + k
        BY <1>1, <2>1
      <3> QED
        BY <1>3, <2>2, <3>1
    <2> QED
      BY <2>1, <2>3, <2>4
  <1> HIDE DEF f, l
  <1> QED
    BY <1>2, <1>4, <1>5, <1>6 DEF WellFormed

(* A reply of RETR that is not finished.                                   *)
Begun(s, n) ==
    \E first \in At(s, n) :
        /\ s[first].kind = "ok"
        /\ \A j \in At(s, n) : first <= j /\ (first < j => s[j].kind = "body")

LEMMA JoinBegun ==
    ASSUME NEW s \in Seq(Unit), NEW w \in Seq(Unit), NEW v, Joins(v, s, w), NEW n, At(s, n) = {},
           Begun(w, n)
    PROVE  Begun(v, n)
  <1>1. /\ Len(s) \in Nat
        /\ \A j \in At(v, n) : \E k \in At(w, n) : j = Len(s) + k /\ v[j] = w[k]
        /\ \A k \in At(w, n) : Len(s) + k \in At(v, n) /\ v[Len(s) + k] = w[k] /\ k \in Nat
    BY JoinFirst
  <1>2. PICK first \in At(w, n) :
          /\ w[first].kind = "ok"
          /\ \A j \in At(w, n) : first <= j /\ (first < j => w[j].kind = "body")
    BY DEF Begun
  <1> DEFINE f == Len(s) + first
  <1>3. first \in Nat /\ f \in At(v, n) /\ v[f] = w[first]
    BY <1>1
  <1>4. ASSUME NEW j \in At(v, n)
        PROVE  f <= j /\ (f < j => v[j].kind = "body")
    <2>1. PICK k \in At(w, n) : j = Len(s) + k /\ v[j] = w[k]
      BY <1>1
    <2>2. k \in Nat /\ first <= k /\ (first < k => w[k].kind = "body")
      BY <1>1, <1>2
    <2>3. f <= j /\ (f < j => first < k)
      BY <1>1, <1>3, <2>1, <2>2
    <2> QED
      BY <2>1, <2>2, <2>3
  <1> HIDE DEF f
  <1> QED
    BY <1>2, <1>3, <1>4 DEF Begun

(* What RETR sends first: a beginning, or a whole reply.                   *)
LEMMA ShapeBegins ==
    ASSUME NEW w, NEW n, NEW m, NEW x, NEW k, NEW e, Shape(w, n, m, x, 1, k, e)
    PROVE  IF e = 1 THEN WellFormed(w, n) ELSE Begun(w, n)
  <1>1. /\ k \in Nat /\ e \in {0, 1} /\ DOMAIN w = 1 .. 1 + k + e
        /\ \A j \in 1 .. 1 + k + e : w[j].n = n
        /\ \A j \in 1 .. 1 + k + e : j <= 1 => w[j].kind = "ok"
        /\ \A j \in 1 + 1 .. 1 + k : w[j].kind = "body"
        /\ \A j \in 1 .. 1 + k + e : j > 1 + k => w[j].kind = "end"
    BY ShapeParts
  <1>2. At(w, n) = 1 .. 1 + k + e
    BY <1>1 DEF At
  <1>3. 1 \in At(w, n) /\ w[1].kind = "ok"
    BY <1>1, <1>2
  <1>4. CASE e = 1
    <2>1. k + 2 \in At(w, n) /\ w[k + 2].kind = "end" /\ 1 < k + 2
      <3>1. k + 2 \in 1 .. 1 + k + e /\ k + 2 > 1 + k
        BY <1>1, <1>4
      <3> QED
        BY <1>1, <1>2, <3>1
    <2>2. ASSUME NEW j \in At(w, n)
          PROVE  1 <= j /\ j <= k + 2 /\ (1 < j /\ j < k + 2 => w[j].kind = "body")
      BY <1>1, <1>2, <1>4, <2>2
    <2>3. WellFormed(w, n)
      BY <1>3, <2>1, <2>2 DEF WellFormed
    <2> QED
      BY <1>4, <2>3
  <1>5. CASE e = 0
    <2>1. ASSUME NEW j \in At(w, n)
          PROVE  1 <= j /\ (1 < j => w[j].kind = "body")
      BY <1>1, <1>2, <1>5, <2>1
    <2>2. Begun(w, n)
      BY <1>3, <2>1 DEF Begun
    <2> QED
      BY <1>5, <2>2
  <1> QED
    BY <1>1, <1>4, <1>5

(* What RETR sends next: more pieces, or the last and the terminator.      *)
LEMMA ShapeResumes ==
    ASSUME NEW s \in Seq(Unit), NEW v, NEW w, Joins(v, s, w), NEW n, NEW m, NEW x, NEW k, NEW e,
           Shape(w, n, m, x, 0, k, e), Begun(s, n)
    PROVE  IF e = 1 THEN WellFormed(v, n) ELSE Begun(v, n)
  <1>1. /\ k \in Nat /\ e \in {0, 1} /\ DOMAIN w = 1 .. k + e /\ Len(w) = k + e /\ w \in Seq(Unit)
        /\ \A j \in 1 .. k + e : w[j].n = n
        /\ \A j \in 1 .. k : w[j].kind = "body"
        /\ \A j \in 1 .. k + e : j > k => w[j].kind = "end"
    <2>1. /\ k \in Nat /\ e \in {0, 1} /\ DOMAIN w = 1 .. 0 + k + e /\ Len(w) = 0 + k + e
          /\ w \in Seq(Unit)
          /\ \A j \in 1 .. 0 + k + e : w[j].n = n
          /\ \A j \in 0 + 1 .. 0 + k : w[j].kind = "body"
          /\ \A j \in 1 .. 0 + k + e : j > 0 + k => w[j].kind = "end"
      BY ShapeParts
    <2>2. 0 + k = k /\ 0 + k + e = k + e /\ 0 + 1 = 1
      BY <2>1
    <2> QED
      BY <2>1, <2>2
  <1>2. /\ Len(s) \in Nat /\ Len(v) = Len(s) + k + e /\ DOMAIN v = 1 .. Len(v)
        /\ \A i \in 1 .. k + e : Len(s) + i \in DOMAIN v /\ v[Len(s) + i] = w[i]
    BY <1>1, JoinLemma
  <1>3. PICK first \in At(s, n) :
          /\ s[first].kind = "ok"
          /\ \A j \in At(s, n) : first <= j /\ (first < j => s[j].kind = "body")
    BY DEF Begun
  <1>4. first \in At(v, n) /\ v[first].kind = "ok" /\ first \in 1 .. Len(s)
    BY <1>1, <1>3, JoinAt
  <1>5. ASSUME NEW j \in At(v, n)
        PROVE  /\ first <= j /\ j <= Len(s) + k + e
               /\ first < j /\ (j <= Len(s) + k) => v[j].kind = "body"
    <2>1. CASE j \in At(s, n) /\ v[j] = s[j]
      <3>1. j \in 1 .. Len(s)
        BY <1>1, <2>1, JoinAt
      <3> QED
        BY <1>1, <1>2, <1>3, <2>1, <3>1
    <2>2. ASSUME NEW i \in At(w, n), j = Len(s) + i, v[j] = w[i]
          PROVE  /\ first <= j /\ j <= Len(s) + k + e
                 /\ first < j /\ (j <= Len(s) + k) => v[j].kind = "body"
      <3>1. i \in 1 .. k + e
        BY <1>1 DEF At
      <3>2. first <= j /\ j <= Len(s) + k + e /\ (j <= Len(s) + k => i \in 1 .. k)
        BY <1>1, <1>2, <1>4, <2>2, <3>1
      <3> QED
        BY <1>1, <2>2, <3>2
    <2> QED
      BY <1>1, <2>1, <2>2, JoinAt
  <1>6. CASE e = 1
    <2> DEFINE l == Len(s) + (k + 1)
    <2>1. l \in At(v, n) /\ v[l].kind = "end" /\ first < l
      <3>1. k + 1 \in 1 .. k + e /\ k + 1 > k
        BY <1>1, <1>6
      <3>2. l \in DOMAIN v /\ v[l] = w[k + 1] /\ w[k + 1].n = n /\ w[k + 1].kind = "end"
        BY <1>1, <1>2, <3>1
      <3>3. first < l
        BY <1>1, <1>2, <1>4
      <3> QED
        BY <3>2, <3>3 DEF At
    <2>2. ASSUME NEW j \in At(v, n)
          PROVE  first <= j /\ j <= l /\ (first < j /\ j < l => v[j].kind = "body")
      <3>1. j \in DOMAIN v
        BY DEF At
      <3>2. j \in Int /\ (j < l => j <= Len(s) + k) /\ l = Len(s) + k + e
        BY <1>1, <1>2, <1>6, <3>1
      <3> QED
        BY <1>5, <3>2
    <2> HIDE DEF l
    <2>3. WellFormed(v, n)
      BY <1>4, <2>1, <2>2 DEF WellFormed
    <2> QED
      BY <1>6, <2>3
  <1>7. CASE e = 0
    <2>1. ASSUME NEW j \in At(v, n)
          PROVE  first <= j /\ (first < j => v[j].kind = "body")
      <3>1. Len(s) + k + e = Len(s) + k
        BY <1>1, <1>2, <1>7
      <3> QED
        BY <1>5, <3>1
    <2>2. Begun(v, n)
      BY <1>4, <2>1 DEF Begun
    <2> QED
      BY <1>7, <2>2
  <1> QED
    BY <1>1, <1>6, <1>7

----------------------------------------------------------------------------
(* RepliesInOrder, of one connection, but for the order of the replies.    *)
Owes(c) == pending[c] # NoToken \/ stm[c] = "ERROR" \/ phase[c] = "closed"

HasReply(c, n) ==
    LET s == Conversation(c) IN
    WellFormed(s, n) \/ (OfNoMessage(script[c][n]) /\ At(s, n) = {})

Replied(c) ==
    /\ \A n \in 1 .. served[c] : HasReply(c, n) \/ (n = served[c] /\ Owes(c))
    /\ pending[c] # NoToken /\ up => Begun(Conversation(c), served[c])

ReplyInv == \A c \in Conns : Replied(c)

SameReply(d) == SameTalk(d) /\ phase'[d] = phase[d] /\ script'[d] = script[d] /\ (up' => up)

LEMMA SameReplied == ASSUME NEW d \in Conns, Replied(d), SameReply(d) PROVE Replied(d)'
  BY DEF SameReply, SameTalk, Replied, HasReply, Owes

(* A reply is added whole: out_buff is empty when a line is parsed.        *)
LEMMA WholeReply ==
    ASSUME RoomForReplies, DataInv, DrainInv, FewMails, NEW c \in Conns, CallsRead(c),
           NEW n, RepliesTo(c, n), UNCHANGED got
    PROVE  \E us \in Seq(Unit) : /\ Joins(Conversation(c)', Conversation(c), us)
                                 /\ WellFormed(us, n) /\ Plain(us, n)
  <1>1. PICK us \in Seq(Unit) : /\ Put(c, us) /\ Plain(us, n) /\ WellFormed(us, n)
                                /\ Len(us) <= 4 \/ Len(us) <= Len(mails[c]) + 2
    BY DEF RepliesTo
  <1>2. BUFFER_SIZE \in Nat /\ BUFFER_SIZE >= 4 /\ Len(mails[c]) + 2 <= BUFFER_SIZE
    BY SizesAssumption DEF RoomForReplies, FewMails
  <1>3. Room(c) = BUFFER_SIZE
    BY <1>2, DrainedRoom
  <1>4. Len(us) \in Nat /\ Len(mails[c]) \in Nat
    BY LenProperties DEF DataInv, ListInv
  <1>5. Len(us) <= Room(c)
    BY <1>1, <1>2, <1>3, <1>4
  <1> QED
    BY <1>1, <1>5, PutWhole

LEMMA RetrReplied ==
    ASSUME RoomForReplies, DataInv, DrainInv, FewMails, NEW c \in Conns, NEW t \in Token, CallsRead(c),
           t = pending[c] \/ pending[c] = NoToken, RetrHandler(c, t), UNCHANGED got,
           pending[c] = NoToken => At(Conversation(c), t.n) = {},
           pending[c] # NoToken => Begun(Conversation(c), t.n)
    PROVE  /\ \E w \in Seq(Unit) : /\ Joins(Conversation(c)', Conversation(c), w)
                                   /\ \A j \in DOMAIN w : w[j].n = t.n
           /\ WellFormed(Conversation(c)', t.n) \/ pending'[c] # NoToken
           /\ pending'[c] # NoToken /\ up' => Begun(Conversation(c)', t.n)
  <1> DEFINE n == t.n
             s == Conversation(c)
             v == Conversation(c)'
  <1>1. s \in Seq(Unit) /\ t # NoToken
    BY ConversationLemma DEF Token, NoToken
  <1>2. Room(c) > 1
    BY DrainedRoom, SizesAssumption DEF RoomForReplies
  <1>3. CASE /\ RepliesTo(c, n) /\ UNCHANGED pending
             /\ pending[c] # NoToken => up' = FALSE
    <2>1. PICK us \in Seq(Unit) : Joins(v, s, us) /\ WellFormed(us, n) /\ Plain(us, n)
      BY <1>3, WholeReply
    <2>2. \A j \in DOMAIN us : us[j].n = n
      BY <2>1 DEF Plain
    <2>3. pending[c] = NoToken => WellFormed(v, n)
      BY <1>1, <2>1, JoinWhole
    <2> QED
      BY <1>3, <2>1, <2>2, <2>3
  <1>4. CASE RetrAdds(c, t)
    <2> DEFINE m == MailFile(c, t)
    <2>1. PICK h \in {0, 1}, e \in {0, 1}, k \in Nat, w \in Seq(Unit) :
            /\ Joins(v, s, w) /\ Shape(w, n, m, ridx[c], h, k, e)
            /\ h = 1 <=> pending[c] = NoToken /\ Room(c) > 0
            /\ e = 1 => pending'[c] = NoToken
            /\ e = 0 => pending'[c] = t
      BY <1>4 DEF RetrAdds
    <2>2. h = 1 <=> pending[c] = NoToken
      <3>1. Room(c) > 0
        BY <1>2, RoomLemma, SizesAssumption
      <3> QED
        BY <2>1, <3>1
    <2> HIDE DEF m, n, s, v
    <2>3. \A j \in DOMAIN w : w[j].n = n
      BY <2>1, ShapeParts
    <2>4. IF e = 1 THEN WellFormed(v, n) ELSE Begun(v, n)
      <3>1. CASE h = 1
        <4>1. Shape(w, n, m, ridx[c], 1, k, e)
          BY <2>1, <3>1
        <4>2. IF e = 1 THEN WellFormed(w, n) ELSE Begun(w, n)
          BY <4>1, ShapeBegins
        <4>3. At(s, n) = {}
          BY <2>2, <3>1 DEF s, n
        <4> QED
          BY <1>1, <2>1, <4>2, <4>3, JoinWhole, JoinBegun
      <3>2. CASE h = 0
        <4>1. Shape(w, n, m, ridx[c], 0, k, e) /\ Joins(v, s, w)
          BY <2>1, <3>2
        <4>2. Begun(s, n)
          BY <2>2, <3>2 DEF s, n
        <4> QED
          BY <1>1, <4>1, <4>2, ShapeResumes
      <3> QED
        BY <3>1, <3>2
    <2>5. e = 1 => WellFormed(v, n) /\ pending'[c] = NoToken
      BY <2>1, <2>4
    <2>6. e = 0 => Begun(v, n) /\ pending'[c] = t
      BY <2>1, <2>4
    <2> QED
      BY <1>1, <2>1, <2>3, <2>5, <2>6 DEF n, s, v
  <1> QED
    BY <1>3, <1>4, RetrReply

(* The replies there were are still there.                                 *)
LEMMA KeepsReplies ==
    ASSUME DataInv, NEW c \in Conns, NEW w \in Seq(Unit), NEW n,
           Joins(Conversation(c)', Conversation(c), w), \A j \in DOMAIN w : w[j].n = n,
           UNCHANGED script, NEW i, i # n, HasReply(c, i)
    PROVE  HasReply(c, i)'
  <1>1. Conversation(c) \in Seq(Unit)
    BY ConversationLemma
  <1> DEFINE s == Conversation(c)
             v == Conversation(c)'
  <1> HIDE DEF s, v
  <1>2. /\ At(v, i) = At(s, i)
        /\ WellFormed(s, i) => WellFormed(v, i)
    <2>1. s \in Seq(Unit) /\ Joins(v, s, w)
      BY <1>1 DEF s, v
    <2> QED
      BY <2>1, JoinKeeps
  <1> QED
    BY <1>2 DEF HasReply, s, v

LEMMA ReadLineReplied ==
    ASSUME RoomForReplies, SessionInv, DataInv, LineInv, TalkInv, DrainInv, FewMails, ReplyInv,
           NEW c \in Conns, ReadLine(c)
    PROVE  ReplyInv'
  <1>1. \A d \in Conns \ {c} : SameReply(d)
    <2>1. UNCHANGED <<phase, script>> /\ up
      BY DEF ReadLine, WillWrite, peerVars, CallsRead
    <2> QED
      BY <2>1, ReadLineOthers DEF SameReply
  <1> SUFFICES Replied(c)'
    BY <1>1, SameReplied DEF ReplyInv
  <1> DEFINE s == Conversation(c)
             v == Conversation(c)'
  <1>2. /\ Whole(c) /\ pending[c] = NoToken /\ stm[c] \in {"AUTHORIZATION", "TRANSACTION"}
        /\ UNCHANGED <<got, script>> /\ CallsRead(c) /\ phase[c] = "open" /\ up
    BY ReadingState DEF ReadLine, CallsRead, peerVars
  <1>3. PICK t \in Token : t = [Head(Taken(c)) EXCEPT !.part = "all"]
    BY <1>2, TakenLemma DEF Token
  <1>4. PICK n \in Nat : n = served[c] + 1
    BY SizesAssumption DEF DataInv, InInv
  <1>5. served' = Upd(served, c, n) /\ Head(Taken(c)).n = n /\ Head(Taken(c)).line = script[c][n]
    BY <1>4, NextLine
  <1>6. t.n = n /\ t.line = script[c][n]
    BY <1>2, <1>3, <1>5, TakenLemma DEF Token
  <1>7. Handler(c, t) \/ Rejected(c)
    BY <1>3 DEF ReadLine
  <1>8. /\ served[c] \in Nat /\ n \in Nat /\ served[c] < n /\ served'[c] = n /\ s \in Seq(Unit)
        /\ \A i \in 1 .. n : i = n \/ (i # n /\ i \in 1 .. served[c])
    BY <1>4, <1>5, ConversationLemma, SizesAssumption DEF DataInv, InInv, Upd
  <1>9. \A i \in 1 .. served[c] : HasReply(c, i)
    BY <1>2 DEF ReplyInv, Replied, Owes
  <1> HIDE DEF s, v
  <1>10. At(s, n) = {}
    BY <1>8, AfterAll DEF TalkInv, Talks, s
  <1>11. ASSUME NEW w \in Seq(Unit), Joins(v, s, w), \A j \in DOMAIN w : w[j].n = n,
               WellFormed(v, n) \/ pending'[c] # NoToken,
               pending'[c] # NoToken /\ up' => Begun(v, n)
        PROVE  Replied(c)'
    <2>1. \A i \in 1 .. served[c] : i # n => HasReply(c, i)'
      BY <1>2, <1>9, <1>11, KeepsReplies DEF s, v
    <2>2. HasReply(c, n)' \/ Owes(c)'
      BY <1>11 DEF HasReply, Owes, v
    <2> QED
      BY <1>8, <1>11, <2>1, <2>2 DEF Replied, v
  <1>12. CASE RetrHandler(c, t)
    <2>1. /\ \E w \in Seq(Unit) : Joins(v, s, w) /\ \A j \in DOMAIN w : w[j].n = n
          /\ WellFormed(v, n) \/ pending'[c] # NoToken
          /\ pending'[c] # NoToken /\ up' => Begun(v, n)
      BY <1>2, <1>6, <1>10, <1>12, RetrReplied DEF s, v
    <2> QED
      BY <1>11, <2>1
  <1>13. CASE RepliesTo(c, n) /\ pending'[c] = NoToken
    <2>1. PICK w \in Seq(Unit) : Joins(v, s, w) /\ WellFormed(w, n) /\ Plain(w, n)
      BY <1>2, <1>13, WholeReply DEF s, v
    <2>2. WellFormed(v, n) /\ \A j \in DOMAIN w : w[j].n = n
      BY <1>8, <1>10, <2>1, JoinWhole DEF Plain
    <2> QED
      BY <1>11, <1>13, <2>1, <2>2
  <1>14. CASE /\ UNCHANGED outVars /\ pending'[c] = NoToken
              /\ stm'[c] = "ERROR" \/ OfNoMessage(script[c][n])
    <2>1. v = s
      BY <1>2, <1>14, NoPutJoins DEF s, v
    <2>2. \A i \in 1 .. served[c] : HasReply(c, i)'
      BY <1>2, <1>9, <2>1 DEF HasReply, s, v
    <2>3. HasReply(c, n)' \/ Owes(c)'
      BY <1>2, <1>10, <1>14, <2>1 DEF HasReply, Owes, v
    <2> QED
      BY <1>8, <1>14, <2>2, <2>3 DEF Replied
  <1> QED
    BY <1>2, <1>6, <1>7, <1>12, <1>13, <1>14, HandlerReplies

LEMMA ReadResumesReplied ==
    ASSUME RoomForReplies, SessionInv, DataInv, TalkInv, DrainInv, FewMails, ReplyInv,
           NEW c \in Conns, ReadResumes(c)
    PROVE  ReplyInv'
  <1> DEFINE s == Conversation(c)
             v == Conversation(c)'
  <1>1. PICK t \in Token \cup {NoToken} : t = pending[c]
    BY DEF DataInv, ListInv
  <1>2. PICK n \in Nat : n = served[c]
    BY SizesAssumption DEF DataInv, InInv
  <1>3. /\ t \in Token /\ t # NoToken /\ RetrHandler(c, t)
        /\ UNCHANGED <<served, got, script, phase>> /\ CallsRead(c) /\ up /\ stm[c] # "ERROR"
        /\ UNCHANGED stm
    BY <1>1 DEF ReadResumes, WillWrite, peerVars, CallsRead, RetrHandler, Stays, stmVars
  <1>4. t.n = n /\ Begun(s, n)
    BY <1>1, <1>2, <1>3 DEF TalkInv, Talks, ReplyInv, Replied
  <1>5. /\ served'[c] = n /\ phase[c] = "open" /\ s \in Seq(Unit)
    BY <1>2, <1>3, ConversationLemma DEF CallsRead
  <1>6. \A i \in 1 .. n : i # n => HasReply(c, i)
    BY <1>2 DEF ReplyInv, Replied
  <1> HIDE DEF s, v
  <1>7. /\ \E w \in Seq(Unit) : Joins(v, s, w) /\ \A j \in DOMAIN w : w[j].n = n
        /\ WellFormed(v, n) \/ pending'[c] # NoToken
        /\ pending'[c] # NoToken /\ up' => Begun(v, n)
    BY <1>1, <1>3, <1>4, RetrReplied DEF s, v
  <1>8. \A i \in 1 .. n : i # n => HasReply(c, i)'
    BY <1>3, <1>6, <1>7, KeepsReplies DEF s, v
  <1>9. HasReply(c, n)' \/ Owes(c)'
    BY <1>7 DEF HasReply, Owes, v
  <1>10. Replied(c)'
    BY <1>5, <1>7, <1>8, <1>9 DEF Replied, v
  <1>11. \A d \in Conns \ {c} : SameReply(d)
    BY <1>3, ReadResumesOthers DEF SameReply
  <1> QED
    BY <1>10, <1>11, SameReplied DEF ReplyInv

(* The line in ERROR is owed its -ERR, and handle_write adds it.           *)
LEMMA WriteReplied ==
    ASSUME SessionInv, DataInv, TalkInv, ReplyInv, NEW c \in Conns, Write(c)
    PROVE  ReplyInv'
  <1> DEFINE s == Conversation(c)
             v == Conversation(c)'
  <1>1. UNCHANGED <<served, pending, ridx, script>> /\ up /\ phase[c] = "open"
    BY DEF Write, WriteSends, WriteFails, WriteDies, writeFrame, inVars, peerVars, CallsWrite
  <1>2. \A d \in Conns \ {c} : phase'[d] = phase[d]
    BY DEF Write, WriteSends, WriteFails, WriteDies, AfterSend, Unregister, sockVars, DataInv,
           SockInv, Upd
  <1>3. PICK n \in Nat : n = served[c]
    BY SizesAssumption DEF DataInv, InInv
  <1>4. /\ n \in Nat /\ (stm[c] = "NONE" => n = 0) /\ s \in Seq(Unit)
        /\ (stm[c] = "ERROR" => At(s, n) = {} /\ pending[c] = NoToken)
    BY <1>3, ConversationLemma DEF TalkInv, Talks
  <1>5. /\ \A i \in 1 .. n : HasReply(c, i) \/ (i = n /\ Owes(c))
        /\ pending[c] # NoToken => Begun(s, n)
    BY <1>1, <1>3 DEF ReplyInv, Replied
  <1>6. ASSUME \A d \in Conns \ {c} : /\ Conversation(d)' = Conversation(d) /\ stm'[d] = stm[d]
                                      /\ mails'[d] = mails[d],
               Replied(c)'
        PROVE  ReplyInv'
    <2>1. \A d \in Conns \ {c} : SameReply(d)
      BY <1>1, <1>2, <1>6 DEF SameReply, SameTalk
    <2> QED
      BY <1>6, <2>1, SameReplied DEF ReplyInv
  <1> HIDE DEF s, v
  <1>7. ASSUME v = s, stm'[c] = stm[c] \/ phase'[c] = "closed"
        PROVE  Replied(c)'
    <2>1. \A i \in 1 .. n : HasReply(c, i) => HasReply(c, i)'
      BY <1>1, <1>7 DEF HasReply, s, v
    <2>2. Owes(c) => Owes(c)'
      BY <1>1, <1>7 DEF Owes
    <2>3. served'[c] = n /\ (pending'[c] # NoToken => Begun(v, n))
      BY <1>1, <1>3, <1>5, <1>7
    <2> QED
      BY <1>5, <2>1, <2>2, <2>3 DEF Replied, v
  <1>8. ASSUME NEW k \in Amounts(Queue(c)), Flush(c, Queue(c), k), StmWrite(c)
        PROVE  ReplyInv'
    <2>1. /\ Joins(v, s, Added(c)) /\ Added(c) \in Seq(Unit)
          /\ \A d \in Conns \ {c} : Conversation(d)' = Conversation(d)
      BY <1>8, FlushJoins, AddedLemma DEF v, s
    <2>2. UNCHANGED <<session, deleted, pending>>
      BY DEF Write, WriteSends, WriteFails, WriteDies, writeFrame, inVars
    <2>3. \A d \in Conns \ {c} : stm'[d] = stm[d] /\ mails'[d] = mails[d]
      BY <1>8, <2>2, StmWriteLemma
    <2>4. CASE ErrorFits(c)
      <3>1. Added(c) = <<U(n, "err", 0)>> /\ At(s, n) = {} /\ pending[c] = NoToken
        BY <1>3, <1>4, <2>4 DEF ErrorFits, Added
      <3>2. \A j \in DOMAIN Added(c) : Added(c)[j].n = n
        BY <3>1 DEF U
      <3>3. WellFormed(Added(c), n)
        <4> DEFINE w == <<U(n, "err", 0)>>
        <4>1. DOMAIN w = {1} /\ w[1].n = n /\ w[1].kind = "err"
          BY DEF U
        <4> HIDE DEF w
        <4>2. At(w, n) = {1}
          BY <4>1 DEF At
        <4>3. WellFormed(w, n)
          BY <4>1, <4>2 DEF WellFormed
        <4> QED
          BY <3>1, <4>3 DEF w
      <3>4. WellFormed(v, n)
        BY <1>4, <2>1, <3>1, <3>3, JoinWhole
      <3>5. \A i \in 1 .. n : HasReply(c, i)'
        <4> TAKE i \in 1 .. n
        <4>1. CASE i = n
          BY <3>4, <4>1 DEF HasReply, v
        <4>2. CASE i # n
          BY <1>1, <1>5, <2>1, <3>2, <4>2, KeepsReplies DEF s, v
        <4> QED
          BY <4>1, <4>2
      <3>6. served'[c] = n /\ pending'[c] = NoToken
        BY <1>1, <1>3, <3>1
      <3>7. Replied(c)'
        BY <3>5, <3>6 DEF Replied
      <3> QED
        BY <1>6, <2>1, <2>3, <3>7
    <2>5. CASE stm[c] = "NONE"
      <3>1. n = 0 /\ served'[c] = n
        BY <1>1, <1>3, <1>4, <2>5
      <3>2. pending[c] = NoToken
        BY <2>5 DEF SessionInv, ConnInv, Matches, InTransaction
      <3>3. Replied(c)'
        BY <1>1, <3>1, <3>2 DEF Replied
      <3> QED
        BY <1>6, <2>1, <2>3, <3>3
    <2>6. CASE stm[c] # "NONE" /\ ~ErrorFits(c)
      <3>1. Added(c) = <<>> /\ UNCHANGED stm
        BY <1>8, <2>6 DEF Added, StmWrite, stmVars
      <3>2. v = s
        BY <1>4, <2>1, <3>1, ConcatEmptySeq DEF Joins
      <3> QED
        BY <1>6, <1>7, <2>1, <2>3, <3>1, <3>2
    <2> QED
      BY <2>4, <2>5, <2>6
  <1>9. CASE /\ UNCHANGED <<outVars, got>>
             /\ UNCHANGED <<stm, mails>> \/ StmWrite(c)
             /\ stm'[c] = stm[c] \/ phase'[c] = "closed"
    <2>1. \A d \in Conns : Conversation(d)' = Conversation(d)
      BY <1>9, NoPutJoins
    <2>2. UNCHANGED <<session, deleted, pending>>
      BY DEF Write, WriteSends, WriteFails, WriteDies, writeFrame, inVars
    <2>3. \A d \in Conns \ {c} : stm'[d] = stm[d] /\ mails'[d] = mails[d]
      BY <1>9, <2>2, StmWriteLemma
    <2>4. Replied(c)'
      BY <1>7, <1>9, <2>1 DEF s, v
    <2> QED
      BY <1>6, <2>1, <2>3, <2>4
  <1>10. CASE WriteFails(c)
    <2>1. phase'[c] = "closed" /\ StmWrite(c)
      BY <1>10 DEF WriteFails, Unregister, Upd, DataInv, SockInv
    <2> QED
      BY <1>8, <1>9, <1>10, <2>1 DEF WriteFails
  <1>11. CASE WriteDies(c)
    BY <1>9, <1>11 DEF WriteDies, stmVars, listVars
  <1> QED
    BY <1>8, <1>10, <1>11 DEF Write, WriteSends

LEMMA InitReplied == Init => ReplyInv
  BY DEF Init, ReplyInv, Replied

(* Nothing happens once the process has ended.                             *)
LEMMA NextUp == ASSUME [Next]_vars PROVE up \/ UNCHANGED vars
  <1>1. CASE Administer
    BY <1>1 DEF Administer, AdminNext, ReceiveRequest
  <1>2. ASSUME NEW c \in Conns, Accept(c) \/ Client(c) \/ Serve(c)
        PROVE  up
    <2>1. CASE Accept(c) \/ Client(c)
      BY <2>1 DEF Accept, Client, SendLine, SendHead, SendRest, Leave, Connected
    <2>2. CASE Serve(c)
      BY <2>2 DEF Serve, Read, ReadEnds, ReadFails, ReadPartial, ReadLine, ReadResumes,
                  ReadInError, CallsRead, Write, WriteSends, WriteFails, WriteDies, CallsWrite
    <2> QED
      BY <1>2, <2>1, <2>2
  <1> QED
    BY <1>1, <1>2 DEF Next, Deliver

LEMMA NextReplied ==
    ASSUME RoomForReplies, SessionInv, DataInv, LineInv, TalkInv, DrainInv, FewMails, ReplyInv,
           [Next]_vars
    PROVE  ReplyInv'
  <1>1. up' => up
    BY NextUp DEF vars, adminVars
  <1>2. CASE /\ UNCHANGED <<stm, served, pending, mails, ridx, outVars, got, script>>
             /\ \A d \in Conns : phase'[d] = phase[d] \/ phase'[d] = "closed" \/ phase[d] = "new"
    BY <1>1, <1>2, NoPutJoins DEF ReplyInv, Replied, HasReply, Owes
  <1>3. ASSUME NEW c \in Conns,
               \/ Client(c) \/ ReadFails(c) \/ ReadPartial(c) \/ ReadInError(c)
        PROVE  UNCHANGED <<stm, served, pending, mails, ridx, outVars, got, script, phase>>
    BY <1>3 DEF Client, SendLine, SendHead, SendRest, Leave, ReadFails, ReadPartial, ReadInError,
                sockVars, stmVars, inVars, mailVars, listVars, peerVars
  <1>4. ASSUME NEW c \in Conns, Accept(c) \/ ReadEnds(c)
        PROVE  /\ UNCHANGED <<stm, served, pending, mails, ridx, outVars, got, script>>
               /\ \A d \in Conns : phase'[d] = phase[d] \/ phase'[d] = "closed" \/ phase[d] = "new"
    BY <1>4 DEF Accept, ReadEnds, Unregister, stmVars, inVars, mailVars, listVars, peerVars,
                DataInv, SockInv, Upd
  <1>5. CASE (\E b \in Boxes, m \in Mails : Deliver(b, m)) \/ Administer \/ UNCHANGED vars
    <2>1. UNCHANGED <<stm, served, pending, mails, ridx, outVars, got, script, phase>>
      BY <1>5 DEF Deliver, Administer, vars, sockVars, stmVars, inVars, mailVars, listVars, peerVars
    <2> QED
      BY <1>2, <2>1
  <1> QED
    BY <1>2, <1>3, <1>4, <1>5, ReadLineReplied, ReadResumesReplied, WriteReplied
    DEF Next, Serve, Read

(* PIPELINING: the replies come in the order of the lines, a whole reply   *)
(* for each line but the one being answered and a LIST of no message. As   *)
(* long as send takes all that it is given, and out_buff has room for the  *)
(* reply to CAPA and for the listing of any maildir.                       *)
THEOREM RepliesFollowLines ==
    ASSUME RoomForReplies
    PROVE  Spec => []RepliesInOrder
  <1>1. Init => DrainInv /\ FewFiles /\ FewMails /\ ReplyInv
    BY InitDrains, InitFew, InitReplied
  <1>2. SessionInv /\ DataInv /\ LineInv /\ TalkInv /\ DrainInv /\ FewFiles /\ FewMails /\ ReplyInv
          /\ [Next]_vars => DrainInv' /\ FewFiles' /\ FewMails' /\ ReplyInv'
    BY NextDrains, NextFew, NextReplied DEF RoomForReplies
  <1>3. TalkInv /\ ReplyInv => RepliesInOrder
    BY DEF TalkInv, Talks, Ordered, ReplyInv, Replied, HasReply, Owes, RepliesInOrder
  <1> QED
    BY <1>1, <1>2, <1>3, SpecInv, SpecData, SpecLines, SpecTalks, PTL DEF Spec
=============================================================================
