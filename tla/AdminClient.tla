---------------------------- MODULE AdminClient ----------------------------
(***************************************************************************)
(* The administration client, admin/admin.c and admin/args/admin_args.c,   *)
(* and the server it talks to over UDP. Each invocation makes requests of  *)
(* its options, sends one, and waits up to a second for the answer before  *)
(* it sends the next; at the first that does not come it ends. Datagrams   *)
(* may be lost, the server may be slow, so that it runs a request that the *)
(* client has given up, and others send datagrams of their own.            *)
(*                                                                         *)
(* Every invocation has a socket, and a port, of its own: an answer that   *)
(* comes after its end is lost.                                            *)
(***************************************************************************)
EXTENDS Managment, Sequences

CONSTANTS
    Lines,      \* the command lines that the operator may type
    Others,     \* the datagrams that anyone else may send
    NotGiven,   \* "not-given", what stands for an empty key or value
    MaxRuns,    \* a bound on the invocations
    MaxOthers   \* a bound on the datagrams of others

(* enum args_type. The slots of HELP and of CONFIG_SERVER_PORT are never   *)
(* filled.                                                                 *)
Slots == <<"help", "add-user", "change-pass", "change-maildir", "remove-user",
           "config-server-port", "token", "version", "get-max-mails", "set-max-mails",
           "stat-historic-connections", "stat-current-connections", "stat-bytes-transferred">>

(* An option is [slot, key, value, number, token]; one that ends the       *)
(* program while it is parsed has the slot Stops: -h, an unknown one, a -u *)
(* without a password, a token of another length, and -p, whose argument   *)
(* the short options forget.                                               *)
Stops == "stops"

VARIABLES
    runs,      \* how many invocations there were
    plan,      \* the requests of the current one
    i,         \* the one it is at
    cpc,       \* where the client is
    inbox,     \* what the server has not received yet
    answers,   \* what the client has not received yet
    printed,   \* what it has printed: the requests and their answers
    results,   \* what the server did: for each invocation, in order
    spent      \* how many datagrams others have sent

clientVars == <<runs, plan, i, cpc, inbox, answers, printed, results, spent>>
vars == <<adminVars, clientVars>>

----------------------------------------------------------------------------
(* parse_args: each option overwrites the slot of its kind.                *)
Given(line, s) == \E k \in DOMAIN line : line[k].slot = s

Kept(line, s) ==
    line[CHOOSE k \in DOMAIN line :
           /\ line[k].slot = s
           /\ \A j \in DOMAIN line : line[j].slot = s => j <= k]

Wire(text) == IF text = Empty THEN NotGiven ELSE text

(* The datagram of a slot, and what the server reads in it.                *)
Request(line, s) ==
    [token |-> Kept(line, "token").token, name |-> s,
     key |-> Wire(Kept(line, s).key), value |-> Wire(Kept(line, s).value),
     number |-> Kept(line, s).number]

Plan(line) ==
    IF Given(line, Stops) \/ ~Given(line, "token") THEN <<>>
    ELSE LET given == SelectSeq(Slots, LAMBDA s : Given(line, s))
         IN  [k \in DOMAIN given |-> Request(line, given[k])]

ASSUME LinesAssumption  == \A line \in Lines : Plan(line) \in Seq(AdminRequests)
ASSUME OthersAssumption == Others \subseteq AdminRequests
ASSUME BoundsAssumption == MaxRuns \in Nat /\ MaxOthers \in Nat

----------------------------------------------------------------------------
Init ==
    /\ AdminInit
    /\ runs = 0 /\ plan = <<>> /\ i = 1 /\ cpc = "idle"
    /\ inbox = <<>> /\ answers = <<>>
    /\ printed = <<>>
    /\ results = [r \in 1 .. MaxRuns |-> <<>>]
    /\ spent = 0

Invoke(line) ==
    /\ cpc = "idle" /\ runs < MaxRuns
    /\ runs' = runs + 1
    /\ plan' = Plan(line) /\ i' = 1 /\ cpc' = "send"
    /\ answers' = <<>> /\ printed' = <<>>
    /\ UNCHANGED <<adminVars, inbox, results, spent>>

Sent == [run |-> runs, at |-> i, request |-> plan[i]]

SendAll ==
    /\ cpc = "send" /\ i <= Len(plan)
    /\ \/ inbox' = Append(inbox, Sent)
       \/ UNCHANGED inbox
    /\ i' = i + 1
    /\ UNCHANGED <<adminVars, runs, plan, cpc, answers, printed, results, spent>>

(* sendto; the datagram may be lost, or not even sent.                     *)
SendRequest ==
    /\ cpc = "send" /\ i <= Len(plan)
    /\ \/ inbox' = Append(inbox, Sent)
       \/ UNCHANGED inbox
    /\ cpc' = "wait"
    /\ UNCHANGED <<adminVars, runs, plan, i, answers, printed, results, spent>>

(* recvfrom, of whatever comes first.                                      *)
TakeAnswer ==
    /\ cpc = "wait" /\ answers # <<>>
    /\ printed' = Append(printed, [at |-> i, reply |-> Head(answers)])
    /\ answers' = Tail(answers)
    /\ i' = i + 1 /\ cpc' = "send"
    /\ UNCHANGED <<adminVars, runs, plan, inbox, results, spent>>

GiveUpOne ==
    /\ cpc = "wait" /\ answers = <<>>
    /\ i' = i + 1 /\ cpc' = "send"
    /\ UNCHANGED <<adminVars, runs, plan, inbox, answers, printed, results, spent>>

WaitAgain ==
    /\ cpc = "wait" /\ answers = <<>>
    /\ UNCHANGED vars

(* A second has passed: "Server did not respond", and the client ends.     *)
GiveUp ==
    /\ cpc = "wait" /\ answers = <<>>
    /\ cpc' = "idle"
    /\ UNCHANGED <<adminVars, runs, plan, i, inbox, answers, printed, results, spent>>

Exit ==
    /\ cpc = "send" /\ i > Len(plan)
    /\ cpc' = "idle"
    /\ UNCHANGED <<adminVars, runs, plan, i, inbox, answers, printed, results, spent>>

(* The server receives the next datagram of a client, and answers unless   *)
(* it is no more; the answer may be lost, and is when its client has ended.*)
Serve ==
    /\ up /\ inbox # <<>>
    /\ LET d == Head(inbox) IN
       /\ ReceiveRequest(d.request)
       /\ IF up'
          THEN /\ results' = [results EXCEPT ![d.run] =
                                Append(@, [at |-> d.at, reply |-> admin_reply'])]
               /\ \/ d.run = runs /\ cpc # "idle" /\ answers' = Append(answers, admin_reply')
                  \/ UNCHANGED answers
          ELSE UNCHANGED <<results, answers>>
    /\ inbox' = Tail(inbox)
    /\ UNCHANGED <<runs, plan, i, cpc, printed, spent>>

ServeOther ==
    /\ spent < MaxOthers
    /\ \E r \in Others : ReceiveRequest(r)
    /\ spent' = spent + 1
    /\ UNCHANGED <<runs, plan, i, cpc, inbox, answers, printed, results>>

Client == SendRequest \/ TakeAnswer \/ GiveUp \/ Exit
Next   == Client \/ Serve \/ ServeOther \/ \E line \in Lines : Invoke(line)

Spec     == Init /\ [][Next]_vars
FairSpec == Spec /\ WF_vars(Client)

----------------------------------------------------------------------------
(* Where the client, its datagrams and its answers may be.                 *)
ClientTypeOK ==
    /\ runs \in 0 .. MaxRuns /\ spent \in 0 .. MaxOthers
    /\ plan \in Seq(AdminRequests)
    /\ i \in 1 .. Len(plan) + 1
    /\ cpc \in {"idle", "send", "wait"} /\ (cpc = "wait" => i <= Len(plan))
    /\ inbox \in Seq([run : 1 .. MaxRuns, at : Nat \ {0}, request : AdminRequests])
    /\ answers \in Seq(Replies) /\ Len(answers) <= 1
    /\ printed \in Seq([at : Nat \ {0}, reply : Replies])
    /\ results \in [1 .. MaxRuns -> Seq([at : Nat \ {0}, reply : Replies])]

(* What the client prints for a request is the answer to that request, as  *)
(* the server gave it: datagrams carry nothing that binds them, and only   *)
(* the end at the first answer that is late keeps it from being taken for  *)
(* that of the next.                                                       *)
AnswersMatch ==
    \A k \in DOMAIN printed :
        \E l \in DOMAIN results[runs] : results[runs][l] = printed[k]

(* The requests of an invocation are run each at most once, in the order   *)
(* of the slots and with none left out before one that is run; when it     *)
(* ends, whether or not it was answered, at most one request is in doubt.  *)
RunInOrder ==
    /\ \A r \in 1 .. MaxRuns : \A l \in DOMAIN results[r] : results[r][l].at = l
    /\ \A l \in DOMAIN printed : printed[l].at = l
    /\ runs > 0 => Len(results[runs]) <= Len(printed) + 1

(* Whatever becomes of the server and of the datagrams, the client ends.   *)
ClientEnds == cpc # "idle" ~> cpc = "idle"
=============================================================================
