------------------------- MODULE AdminClientProofs -------------------------
(***************************************************************************)
(* Proofs about the administration client and the server together, for     *)
(* every set of command lines and of datagrams of others, and any number   *)
(* of invocations: no answer is taken for another, requests run in order,  *)
(* and the server is the one of Managment.                                 *)
(***************************************************************************)
EXTENDS AdminClient, ManagmentProofs, SequenceTheorems

Result   == [at : Nat \ {0}, reply : Replies]
Datagram == [run : 1 .. MaxRuns, at : Nat \ {0}, request : AdminRequests]

Types ==
    /\ runs \in 0 .. MaxRuns /\ spent \in 0 .. MaxOthers
    /\ plan \in Seq(AdminRequests)
    /\ i \in 1 .. Len(plan) + 1
    /\ cpc \in {"idle", "send", "wait"} /\ (cpc = "wait" => i <= Len(plan))
    /\ (runs = 0 => cpc = "idle" /\ i = 1)
    /\ inbox \in Seq(Datagram)
    /\ answers \in Seq(Replies)
    /\ printed \in Seq(Result)
    /\ results \in [1 .. MaxRuns -> Seq(Result)]

(* A datagram on its way is the next of its invocation, and the only one.  *)
InboxIsNext ==
    /\ \A k \in DOMAIN inbox :
          /\ inbox[k].run <= runs
          /\ inbox[k].at = Len(results[inbox[k].run]) + 1
    /\ \A k, l \in DOMAIN inbox : k # l => inbox[k].run # inbox[l].run

(* What was run is numbered as it was sent.                                *)
Numbered ==
    /\ \A r \in 1 .. MaxRuns : \A l \in DOMAIN results[r] : results[r][l].at = l
    /\ \A r \in 1 .. MaxRuns : r > runs => results[r] = <<>>
    /\ Len(printed) = i - 1
    /\ \A l \in DOMAIN printed : printed[l].at = l

(* What the current invocation knows of its requests: before it sends the  *)
(* i-th, that all the ones before it have run and been answered; while it  *)
(* waits or after, that the i-th alone may have run.                       *)
Pending == \E k \in DOMAIN inbox : inbox[k].run = runs

InStep ==
    runs > 0 =>
      /\ Len(results[runs]) \in {i - 1, i}
      /\ \A l \in 1 .. i - 1 : printed[l] = results[runs][l]
      /\ Len(results[runs]) = i => cpc # "send" /\ ~Pending
      /\ Pending => cpc # "send"

OneAnswer ==
    answers # <<>> =>
      /\ Len(answers) = 1 /\ cpc = "wait" /\ runs > 0
      /\ Len(results[runs]) = i
      /\ results[runs][i].reply = answers[1]

ClientInv == AdminTypeOK /\ Types /\ InboxIsNext /\ Numbered /\ InStep /\ OneAnswer

LEMMA Appending ==
    ASSUME NEW S, NEW s \in Seq(S), NEW e \in S
    PROVE  /\ Append(s, e) \in Seq(S)
           /\ Len(Append(s, e)) = Len(s) + 1
           /\ DOMAIN Append(s, e) = 1 .. Len(s) + 1
           /\ \A k \in DOMAIN s : Append(s, e)[k] = s[k]
           /\ Append(s, e)[Len(s) + 1] = e
           /\ DOMAIN s = 1 .. Len(s) /\ Len(s) \in Nat
  OBVIOUS

LEMMA Beheading ==
    ASSUME NEW S, NEW s \in Seq(S), s # <<>>
    PROVE  /\ Head(s) = s[1] /\ 1 \in DOMAIN s /\ Head(s) \in S
           /\ Tail(s) \in Seq(S) /\ Len(Tail(s)) = Len(s) - 1
           /\ \A k \in DOMAIN Tail(s) : k + 1 \in DOMAIN s /\ k + 1 # 1 /\ Tail(s)[k] = s[k + 1]
           /\ DOMAIN Tail(s) \subseteq Nat
  OBVIOUS

LEMMA Elements ==
    ASSUME NEW S, NEW s \in Seq(S)
    PROVE  \A k \in DOMAIN s : s[k] \in S
  OBVIOUS

LEMMA OnlyOne ==
    ASSUME NEW S, NEW s \in Seq(S), Len(s) = 1
    PROVE  Tail(s) = <<>>
  <1>1. s # <<>>
    BY EmptySeq
  <1>2. Tail(s) \in Seq(S) /\ Len(Tail(s)) = 0
    BY <1>1, HeadTailProperties
  <1> QED
    BY <1>2, EmptySeq

LEMMA InboxIsTyped ==
    ASSUME Types
    PROVE  \A k \in DOMAIN inbox :
             inbox[k] \in Datagram /\ inbox[k].run \in 1 .. MaxRuns /\ inbox[k].run \in Nat
  <1>1. \A k \in DOMAIN inbox : inbox[k] \in Datagram
    BY Elements DEF Types
  <1> QED
    BY <1>1, BoundsAssumption DEF Datagram

LEMMA InitInv == Init => ClientInv
  <1> SUFFICES ASSUME Init
               PROVE  ClientInv
    OBVIOUS
  <1>1. AdminTypeOK
    BY InitType DEF Init
  <1>2. Types
    BY BoundsAssumption DEF Init, Types
  <1> QED
    BY <1>1, <1>2 DEF Init, ClientInv, InboxIsNext, Numbered, InStep, OneAnswer

(* The client's own steps leave the server alone.                          *)
LEMMA InvokeKeeps ==
    ASSUME ClientInv, NEW line \in Lines, Invoke(line)
    PROVE  ClientInv'
  <1> USE DEF ClientInv, Invoke
  <1>1. AdminTypeOK'
    BY DEF AdminTypeOK, adminVars
  <1>2. Plan(line) \in Seq(AdminRequests)
    BY LinesAssumption
  <1>3. Types'
    BY <1>2, BoundsAssumption DEF Types
  <1>4. InboxIsNext'
    <2>1. \A k \in DOMAIN inbox : inbox[k].run <= runs + 1
      BY InboxIsTyped, BoundsAssumption DEF InboxIsNext, Types
    <2> QED
      BY <2>1 DEF InboxIsNext
  <1>5. runs + 1 \in 1 .. MaxRuns /\ results[runs + 1] = <<>> /\ ~Pending'
    <2>1. runs + 1 \in 1 .. MaxRuns /\ results[runs + 1] = <<>>
      BY BoundsAssumption DEF Types, Numbered
    <2>2. \A k \in DOMAIN inbox : inbox[k].run # runs + 1
      BY InboxIsTyped, BoundsAssumption DEF InboxIsNext, Types
    <2> QED
      BY <2>1, <2>2 DEF Pending
  <1>6. Numbered'
    BY BoundsAssumption DEF Numbered, Types
  <1>7. InStep'
    BY <1>5 DEF InStep
  <1>8. OneAnswer'
    BY DEF OneAnswer
  <1> QED
    BY <1>1, <1>3, <1>4, <1>6, <1>7, <1>8

LEMMA SendKeeps ==
    ASSUME ClientInv, SendRequest
    PROVE  ClientInv'
  <1> USE DEF ClientInv, SendRequest
  <1>1. AdminTypeOK'
    BY DEF AdminTypeOK, adminVars
  <1>2. runs \in 1 .. MaxRuns /\ plan[i] \in AdminRequests /\ i \in Nat \ {0}
    <2>1. runs \in 1 .. MaxRuns
      BY BoundsAssumption DEF Types
    <2>2. i \in DOMAIN plan /\ i \in Nat \ {0}
      BY DEF Types
    <2> QED
      BY <2>1, <2>2, Elements DEF Types
  <1>3. Sent \in Datagram
    BY <1>2 DEF Sent, Datagram
  <1>4. Types'
    <2>1. inbox' \in Seq(Datagram)
      BY <1>3, Appending DEF Types
    <2> QED
      BY <2>1 DEF Types
  <1>5. Len(results[runs]) = i - 1 /\ ~Pending
    BY <1>2 DEF InStep
  <1>6. InboxIsNext'
    <2>1. CASE inbox' = Append(inbox, Sent)
      <3>1. inbox \in Seq(Datagram)
        BY DEF Types
      <3>2. /\ DOMAIN inbox' = 1 .. Len(inbox) + 1 /\ DOMAIN inbox = 1 .. Len(inbox)
            /\ Len(inbox) \in Nat
            /\ \A k \in DOMAIN inbox : inbox'[k] = inbox[k]
            /\ inbox'[Len(inbox) + 1] = Sent
        BY <2>1, <3>1, <1>3, Appending
      <3>3. Sent.run = runs /\ Sent.at = Len(results[runs]) + 1
        BY <1>2, <1>5 DEF Sent
      <3>4. \A k \in DOMAIN inbox' : k \in DOMAIN inbox \/ k = Len(inbox) + 1
        BY <3>2
      <3>5. \A k \in DOMAIN inbox : inbox[k].run # runs
        BY <1>5 DEF Pending
      <3>6. \A k \in DOMAIN inbox' : inbox'[k].run <= runs
                                     /\ inbox'[k].at = Len(results[inbox'[k].run]) + 1
        <4>1. \A k \in DOMAIN inbox : inbox'[k].run <= runs
                                     /\ inbox'[k].at = Len(results[inbox'[k].run]) + 1
          BY <3>2 DEF InboxIsNext
        <4>2. runs <= runs
          BY <1>2, BoundsAssumption
        <4> QED
          BY <3>2, <3>3, <3>4, <4>1, <4>2
      <3>7. ASSUME NEW k \in DOMAIN inbox', NEW l \in DOMAIN inbox', k # l
            PROVE  inbox'[k].run # inbox'[l].run
        <4>1. CASE k \in DOMAIN inbox /\ l \in DOMAIN inbox
          BY <4>1, <3>2, <3>7 DEF InboxIsNext
        <4>2. CASE k \in DOMAIN inbox /\ l = Len(inbox) + 1
          BY <4>2, <3>2, <3>3, <3>5
        <4>3. CASE l \in DOMAIN inbox /\ k = Len(inbox) + 1
          BY <4>3, <3>2, <3>3, <3>5
        <4> QED
          BY <4>1, <4>2, <4>3, <3>4, <3>7
      <3> QED
        BY <3>6, <3>7 DEF InboxIsNext
    <2>2. CASE UNCHANGED inbox
      BY <2>2 DEF InboxIsNext
    <2> QED
      BY <2>1, <2>2
  <1>7. Numbered'
    BY DEF Numbered
  <1>8. InStep'
    BY <1>2, <1>5 DEF InStep
  <1>9. OneAnswer'
    BY DEF OneAnswer
  <1> QED
    BY <1>1, <1>4, <1>6, <1>7, <1>8, <1>9

LEMMA TakeKeeps ==
    ASSUME ClientInv, TakeAnswer
    PROVE  ClientInv'
  <1> USE DEF ClientInv, TakeAnswer
  <1>1. AdminTypeOK'
    BY DEF AdminTypeOK, adminVars
  <1>2. /\ runs \in 1 .. MaxRuns /\ i \in Nat \ {0} /\ Len(results[runs]) = i
        /\ Len(answers) = 1 /\ results[runs][i].reply = answers[1] /\ answers[1] \in Replies
        /\ results[runs] \in Seq(Result)
    BY BoundsAssumption DEF Types, OneAnswer
  <1> DEFINE p == [at |-> i, reply |-> Head(answers)]
  <1>3. p \in Result /\ results[runs][i] = p
    <2>1. results[runs][i] \in Result /\ results[runs][i].at = i
      BY <1>2 DEF Numbered
    <2> QED
      BY <1>2, <2>1 DEF Result
  <1>4. printed \in Seq(Result) /\ Len(printed) = i - 1
    BY DEF Types, Numbered
  <1>5. /\ Len(printed') = i /\ printed'[i] = p
        /\ \A l \in 1 .. i - 1 : printed'[l] = printed[l]
        /\ printed' \in Seq(Result)
    <2>1. printed' = Append(printed, p)
      OBVIOUS
    <2>2. Len(printed) + 1 = i /\ DOMAIN printed = 1 .. i - 1
      BY <1>2, <1>4
    <2> HIDE DEF p
    <2> QED
      BY <2>1, <2>2, <1>2, <1>3, <1>4, Appending
  <1>6. answers' = <<>>
    BY <1>2, OnlyOne DEF Types
  <1>7. Types'
    BY <1>2, <1>5, <1>6 DEF Types
  <1>8. InboxIsNext'
    BY DEF InboxIsNext
  <1>9. Numbered'
    <2>1. \A l \in 1 .. i - 1 : printed[l].at = l
      BY <1>4 DEF Numbered
    <2>2. \A l \in DOMAIN printed' : printed'[l].at = l
      <3>1. DOMAIN printed' = 1 .. i
        BY <1>2, <1>5
      <3>2. p.at = i
        OBVIOUS
      <3> HIDE DEF p
      <3> QED
        BY <2>1, <3>1, <3>2, <1>2, <1>5
    <2> QED
      BY <2>2, <1>2, <1>5 DEF Numbered
  <1>10. InStep'
    <2>1. ~Pending /\ ~Pending'
      BY <1>2 DEF InStep, Pending
    <2>2. \A l \in 1 .. i : printed'[l] = results[runs][l]
      BY <1>2, <1>3, <1>5 DEF InStep
    <2> QED
      <3>1. /\ i' - 1 = i /\ i' # i /\ UNCHANGED <<results, runs>>
        BY <1>2
      <3>2. \A l \in 1 .. i' - 1 : printed'[l] = results'[runs'][l]
        BY <2>2, <3>1
      <3>3. Len(results'[runs']) = i' - 1 /\ Len(results'[runs']) # i'
        BY <1>2, <3>1
      <3> QED
        BY <2>1, <3>2, <3>3 DEF InStep
  <1>11. OneAnswer'
    BY <1>6 DEF OneAnswer
  <1> QED
    BY <1>1, <1>7, <1>8, <1>9, <1>10, <1>11

LEMMA EndKeeps ==
    ASSUME ClientInv, GiveUp \/ Exit
    PROVE  ClientInv'
  <1> USE DEF ClientInv
  <1>1. /\ cpc' = "idle" /\ answers = <<>>
        /\ UNCHANGED <<adminVars, runs, plan, i, inbox, answers, printed, results, spent>>
    BY DEF GiveUp, Exit, OneAnswer
  <1>2. AdminTypeOK'
    BY <1>1 DEF AdminTypeOK, adminVars
  <1>3. Types'
    BY <1>1 DEF Types
  <1>4. InboxIsNext' /\ Numbered'
    BY <1>1 DEF InboxIsNext, Numbered
  <1>5. InStep'
    BY <1>1 DEF InStep, Pending
  <1>6. OneAnswer'
    BY <1>1 DEF OneAnswer
  <1> QED
    BY <1>2, <1>3, <1>4, <1>5, <1>6

(* The first datagram leaves the inbox: what is left was there before, and *)
(* none of it is of the same invocation.                                   *)
LEMMA OneLess ==
    ASSUME Types, InboxIsNext, inbox # <<>>, inbox' = Tail(inbox)
    PROVE  /\ inbox' \in Seq(Datagram)
           /\ Head(inbox) \in Datagram /\ Head(inbox).run \in 1 .. runs
           /\ Head(inbox).at = Len(results[Head(inbox).run]) + 1
           /\ \A k \in DOMAIN inbox' :
                 /\ inbox'[k].run <= runs /\ inbox'[k].run \in 1 .. MaxRuns
                 /\ inbox'[k].at = Len(results[inbox'[k].run]) + 1
                 /\ inbox'[k].run # Head(inbox).run
                 /\ \E l \in DOMAIN inbox : inbox'[k] = inbox[l]
           /\ \A k, l \in DOMAIN inbox' : k # l => inbox'[k].run # inbox'[l].run
  <1>1. /\ inbox \in Seq(Datagram)
        /\ Head(inbox) = inbox[1] /\ 1 \in DOMAIN inbox /\ inbox' \in Seq(Datagram)
        /\ \A k \in DOMAIN inbox' : k + 1 \in DOMAIN inbox /\ k + 1 # 1 /\ inbox'[k] = inbox[k + 1]
        /\ DOMAIN inbox' \subseteq Nat
    BY Beheading DEF Types
  <1>2. \A k \in DOMAIN inbox : /\ inbox[k].run <= runs /\ inbox[k].run \in 1 .. MaxRuns
                                /\ inbox[k].at = Len(results[inbox[k].run]) + 1
                                /\ inbox[k] \in Datagram
    BY InboxIsTyped DEF InboxIsNext
  <1>3. Head(inbox).run \in 1 .. runs
    BY <1>1, <1>2, BoundsAssumption DEF Types
  <1>4. \A k \in DOMAIN inbox' : inbox'[k].run # Head(inbox).run
    BY <1>1 DEF InboxIsNext
  <1>5. \A k, l \in DOMAIN inbox' : k # l => inbox'[k].run # inbox'[l].run
    <2> SUFFICES ASSUME NEW k \in DOMAIN inbox', NEW l \in DOMAIN inbox', k # l
                 PROVE  inbox'[k].run # inbox'[l].run
      OBVIOUS
    <2>1. k + 1 \in DOMAIN inbox /\ l + 1 \in DOMAIN inbox /\ k + 1 # l + 1
      BY <1>1
    <2> QED
      BY <2>1, <1>1 DEF InboxIsNext
  <1> QED
    BY <1>1, <1>2, <1>3, <1>4, <1>5

(* A request that is run and answered.                                     *)
LEMMA ServeKeeps ==
    ASSUME ClientInv, Serve
    PROVE  ClientInv'
  <1> DEFINE d == Head(inbox)
             e == [at |-> d.at, reply |-> admin_reply']
  <1>1. /\ inbox # <<>> /\ inbox' = Tail(inbox) /\ ReceiveRequest(d.request)
        /\ UNCHANGED <<runs, plan, i, cpc, printed, spent>>
        /\ \/ /\ results' = [results EXCEPT ![d.run] = Append(@, e)]
              /\ \/ d.run = runs /\ cpc # "idle" /\ answers' = Append(answers, admin_reply')
                 \/ UNCHANGED answers
           \/ UNCHANGED <<results, answers>>
    BY DEF Serve
  <1>2. AdminTypeOK /\ Types /\ InboxIsNext /\ Numbered /\ InStep /\ OneAnswer
    BY DEF ClientInv
  <1>3. /\ inbox' \in Seq(Datagram)
        /\ d \in Datagram /\ d.run \in 1 .. runs
        /\ d.at = Len(results[d.run]) + 1
        /\ \A k \in DOMAIN inbox' :
              /\ inbox'[k].run <= runs /\ inbox'[k].run \in 1 .. MaxRuns
              /\ inbox'[k].at = Len(results[inbox'[k].run]) + 1
              /\ inbox'[k].run # d.run
              /\ \E l \in DOMAIN inbox : inbox'[k] = inbox[l]
        /\ \A k, l \in DOMAIN inbox' : k # l => inbox'[k].run # inbox'[l].run
    BY <1>1, <1>2, OneLess
  <1>4. d.request \in AdminRequests
    BY <1>3 DEF Datagram
  <1>5. AdminTypeOK'
    BY <1>1, <1>2, <1>4, RequestType
  <1>6. admin_reply' \in Replies
    BY <1>5 DEF AdminTypeOK
  <1>7. Pending' => Pending
    BY <1>1, <1>3 DEF Pending
  <1>8. runs \in 1 .. MaxRuns /\ d.run \in 1 .. MaxRuns /\ i \in Nat \ {0}
    BY <1>2, <1>3, BoundsAssumption DEF Types
  <1>9. d.run = runs => /\ Pending /\ ~Pending' /\ cpc # "send" /\ answers = <<>>
                        /\ Len(results[runs]) = i - 1
    <2> SUFFICES ASSUME d.run = runs
                 PROVE  /\ Pending /\ ~Pending' /\ cpc # "send" /\ answers = <<>>
                        /\ Len(results[runs]) = i - 1
      OBVIOUS
    <2>1. Pending
      <3>1. 1 \in DOMAIN inbox /\ d = inbox[1]
        BY <1>1, <1>2, Beheading DEF Types
      <3> QED
        BY <3>1 DEF Pending
    <2>2. ~Pending'
      BY <1>1, <1>3 DEF Pending
    <2> QED
      BY <1>2, <1>8, <2>1, <2>2 DEF InStep, OneAnswer
  <1> HIDE DEF d, e
  <1>10. CASE /\ results' = [results EXCEPT ![d.run] = Append(@, e)]
              /\ \/ d.run = runs /\ cpc # "idle" /\ answers' = Append(answers, admin_reply')
                 \/ UNCHANGED answers
    <2>1. e \in Result /\ e.at = d.at /\ e.reply = admin_reply'
      BY <1>3, <1>6 DEF e, Datagram, Result
    <2>2. results[d.run] \in Seq(Result)
      BY <1>2, <1>8 DEF Types
    <2>3. /\ \A r \in 1 .. MaxRuns : r # d.run => results'[r] = results[r]
          /\ results'[d.run] = Append(results[d.run], e)
      BY <1>2, <1>8, <1>10 DEF Types
    <2>4. /\ results'[d.run] \in Seq(Result) /\ Len(results'[d.run]) = Len(results[d.run]) + 1
          /\ DOMAIN results'[d.run] = 1 .. Len(results[d.run]) + 1
          /\ DOMAIN results[d.run] = 1 .. Len(results[d.run])
          /\ \A l \in DOMAIN results[d.run] : results'[d.run][l] = results[d.run][l]
          /\ results'[d.run][Len(results[d.run]) + 1] = e
          /\ Len(results[d.run]) \in Nat
      BY <2>1, <2>2, <2>3, Appending
    <2>5. Types'
      <3>1. answers' \in Seq(Replies)
        <4>1. answers \in Seq(Replies)
          BY <1>2 DEF Types
        <4>2. Append(answers, admin_reply') \in Seq(Replies)
          BY <4>1, <1>6, AppendProperties
        <4> QED
          BY <4>1, <4>2, <1>10
      <3>2. results' \in [1 .. MaxRuns -> Seq(Result)]
        BY <1>2, <1>8, <1>10, <2>3, <2>4 DEF Types
      <3> QED
        BY <1>1, <1>2, <1>3, <3>1, <3>2 DEF Types
    <2>6. InboxIsNext'
      BY <1>1, <1>3, <2>3 DEF InboxIsNext
    <2>7. Numbered'
      <3>1. \A l \in DOMAIN results'[d.run] : results'[d.run][l].at = l
        <4>1. \A l \in DOMAIN results[d.run] : results'[d.run][l].at = l
          BY <1>2, <1>8, <2>4 DEF Numbered
        <4>2. results'[d.run][Len(results[d.run]) + 1].at = Len(results[d.run]) + 1
          BY <1>3, <2>1, <2>4
        <4>3. \A l \in DOMAIN results'[d.run] :
                l \in DOMAIN results[d.run] \/ l = Len(results[d.run]) + 1
          BY <2>4
        <4> QED
          BY <4>1, <4>2, <4>3
      <3>2. \A r \in 1 .. MaxRuns : r > runs => r # d.run
        BY <1>3, <1>8, BoundsAssumption
      <3> QED
        BY <1>1, <1>2, <2>3, <3>1, <3>2 DEF Numbered
    <2>8. InStep'
      <3>1. CASE d.run = runs
        <4>1. \A l \in 1 .. i - 1 : printed[l] = results'[runs][l]
          BY <1>2, <1>8, <1>9, <2>4, <3>1 DEF InStep
        <4>2. Len(results'[runs]) = i
          BY <1>8, <1>9, <2>4, <3>1
        <4> QED
          BY <1>1, <1>9, <3>1, <4>1, <4>2 DEF InStep
      <3>2. CASE d.run # runs
        <4>1. results'[runs] = results[runs]
          BY <1>8, <2>3, <3>2
        <4> QED
          BY <1>1, <1>2, <1>7, <4>1 DEF InStep
      <3> QED
        BY <3>1, <3>2
    <2>9. OneAnswer'
      <3>1. CASE d.run = runs /\ cpc # "idle" /\ answers' = Append(answers, admin_reply')
        <4>1. Len(answers') = 1 /\ answers'[1] = admin_reply'
          <5>1. answers' = Append(<<>>, admin_reply') /\ <<>> \in Seq(Replies) /\ Len(<<>>) = 0
            BY <1>9, <3>1
          <5> QED
            BY <5>1, <1>6, AppendProperties
        <4>2. cpc = "wait"
          BY <1>2, <1>9, <3>1 DEF Types
        <4>3. Len(results'[runs]) = i /\ results'[runs][i].reply = admin_reply'
          BY <1>8, <1>9, <2>1, <2>4, <3>1
        <4> QED
          BY <1>1, <1>8, <4>1, <4>2, <4>3 DEF OneAnswer
      <3>2. CASE UNCHANGED answers
        <4>1. answers # <<>> => results'[runs] = results[runs]
          BY <1>8, <1>9, <2>3
        <4> QED
          BY <1>1, <1>2, <3>2, <4>1 DEF OneAnswer
      <3> QED
        BY <1>10, <3>1, <3>2
    <2> QED
      BY <1>5, <2>5, <2>6, <2>7, <2>8, <2>9 DEF ClientInv
  <1>11. CASE UNCHANGED <<results, answers>>
    <2>1. Types'
      BY <1>1, <1>2, <1>3, <1>11 DEF Types
    <2>2. InboxIsNext'
      BY <1>1, <1>3, <1>11 DEF InboxIsNext
    <2>3. Numbered' /\ OneAnswer'
      BY <1>1, <1>2, <1>11 DEF Numbered, OneAnswer
    <2>4. InStep'
      BY <1>1, <1>2, <1>7, <1>11 DEF InStep
    <2> QED
      BY <1>5, <2>1, <2>2, <2>3, <2>4 DEF ClientInv
  <1> QED
    BY <1>1, <1>10, <1>11 DEF d, e

LEMMA OtherKeeps ==
    ASSUME ClientInv, ServeOther
    PROVE  ClientInv'
  <1>1. PICK r \in Others : ReceiveRequest(r)
    BY DEF ServeOther
  <1>2. AdminTypeOK'
    BY <1>1, OthersAssumption, RequestType DEF ClientInv
  <1>3. UNCHANGED <<runs, plan, i, cpc, inbox, answers, printed, results>>
    BY DEF ServeOther
  <1>4. Types'
    BY <1>3, BoundsAssumption DEF ServeOther, ClientInv, Types
  <1>5. InboxIsNext' /\ Numbered' /\ OneAnswer'
    BY <1>3 DEF ClientInv, InboxIsNext, Numbered, OneAnswer
  <1>6. InStep'
    BY <1>3 DEF ClientInv, InStep, Pending
  <1> QED
    BY <1>2, <1>4, <1>5, <1>6 DEF ClientInv

LEMMA StutterKeeps ==
    ASSUME ClientInv, UNCHANGED vars
    PROVE  ClientInv'
  <1>1. UNCHANGED <<adminVars, runs, plan, i, cpc, inbox, answers, printed, results, spent>>
    BY DEF vars, clientVars
  <1>2. AdminTypeOK'
    BY <1>1 DEF ClientInv, AdminTypeOK, adminVars
  <1>3. Types' /\ InboxIsNext' /\ Numbered' /\ OneAnswer'
    BY <1>1 DEF ClientInv, Types, InboxIsNext, Numbered, OneAnswer
  <1>4. InStep'
    BY <1>1 DEF ClientInv, InStep, Pending
  <1> QED
    BY <1>2, <1>3, <1>4 DEF ClientInv

LEMMA Inductive == Spec => []ClientInv
  <1>1. ClientInv /\ [Next]_vars => ClientInv'
    BY InvokeKeeps, SendKeeps, TakeKeeps, EndKeeps, ServeKeeps, OtherKeeps, StutterKeeps
    DEF Next, Client
  <1> QED
    BY InitInv, <1>1, PTL DEF Spec

----------------------------------------------------------------------------
(* Whatever is lost or late, the client, its datagrams and its answers are *)
(* where they may be, and never more than one answer waits.                *)
THEOREM ClientStaysInItsPlan == Spec => []ClientTypeOK
  <1>1. ClientInv => ClientTypeOK
    <2> SUFFICES ASSUME Types, OneAnswer
                 PROVE  ClientTypeOK
      BY DEF ClientInv
    <2>1. Len(answers) <= 1
      <3>1. CASE answers = <<>>
        BY <3>1, EmptySeq
      <3>2. CASE answers # <<>>
        <4>1. Len(answers) = 1
          BY <3>2 DEF OneAnswer
        <4> QED
          BY <4>1
      <3> QED
        BY <3>1, <3>2
    <2> QED
      BY <2>1 DEF Types, ClientTypeOK, Result, Datagram
  <1> QED
    BY Inductive, <1>1, PTL

(* For any number of invocations, what is printed for a request is the     *)
(* answer of the server to that request and to no other.                   *)
THEOREM AnswersAreNotMixed == Spec => []AnswersMatch
  <1>1. ClientInv => AnswersMatch
    <2> SUFFICES ASSUME ClientInv, NEW k \in DOMAIN printed
                 PROVE  \E l \in DOMAIN results[runs] : results[runs][l] = printed[k]
      BY DEF AnswersMatch
    <2>1. k \in 1 .. i - 1 /\ i \in Nat \ {0}
      BY DEF ClientInv, Types, Numbered
    <2>2. runs \in 1 .. MaxRuns
      BY <2>1, BoundsAssumption DEF ClientInv, Types
    <2>3. k \in DOMAIN results[runs] /\ printed[k] = results[runs][k]
      BY <2>1, <2>2 DEF ClientInv, Types, InStep
    <2> QED
      BY <2>3
  <1> QED
    BY Inductive, <1>1, PTL

(* Requests run in the order they were sent, each at most once, and at     *)
(* most the last is in doubt when the client ends.                         *)
THEOREM RequestsRunInOrder == Spec => []RunInOrder
  <1>1. ClientInv => RunInOrder
    <2> SUFFICES ASSUME ClientInv
                 PROVE  RunInOrder
      OBVIOUS
    <2>1. runs > 0 => Len(results[runs]) <= Len(printed) + 1
      BY DEF ClientInv, Types, InStep, Numbered
    <2> QED
      BY <2>1 DEF ClientInv, Numbered, RunInOrder
  <1> QED
    BY Inductive, <1>1, PTL

(* The server, with the client and the others that send to it, is the one  *)
(* of Managment: what is shown of it for any requests holds here.          *)
THEOREM ServerIsManagment == Spec => AdminSpec
  <1>1. Init => AdminInit
    BY DEF Init
  <1>2. ClientInv /\ [Next]_vars => [AdminNext]_adminVars
    <2> SUFFICES ASSUME ClientInv, [Next]_vars
                 PROVE  [AdminNext]_adminVars
      OBVIOUS
    <2>1. CASE Serve
      <3>1. ReceiveRequest(Head(inbox).request) /\ inbox # <<>> /\ inbox' = Tail(inbox)
        BY <2>1 DEF Serve
      <3>2. Head(inbox) \in Datagram
        BY <3>1, OneLess DEF ClientInv
      <3>3. Head(inbox).request \in AdminRequests
        BY <3>2 DEF Datagram
      <3> QED
        BY <3>1, <3>3 DEF AdminNext
    <2>2. CASE ServeOther
      BY <2>2, OthersAssumption DEF ServeOther, AdminNext
    <2>3. CASE Client \/ \E line \in Lines : Invoke(line)
      BY <2>3 DEF Client, SendRequest, TakeAnswer, GiveUp, Exit, Invoke
    <2>4. CASE UNCHANGED vars
      BY <2>4 DEF vars
    <2> QED
      BY <2>1, <2>2, <2>3, <2>4 DEF Next
  <1> QED
    BY Inductive, <1>1, <1>2, PTL DEF Spec, AdminSpec
=============================================================================
