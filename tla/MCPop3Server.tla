--------------------------- MODULE MCPop3Server ----------------------------
(* Pop3Server for TLC: the accounts, maildirs and lines of the runs.       *)
EXTENDS Pop3Server, TLC

CONSTANTS m1, m2, m3

L(verb, arg, num) == [verb |-> verb, arg |-> arg, num |-> num]
User == L("USER", "ana", 0)
Pass == L("PASS", "p", 0)
Quit == L("QUIT", "", 0)
List == L("LIST", "", 0)
Noop == L("NOOP", "", 0)
Rset == L("RSET", "", 0)
Stat == L("STAT", "", 0)
Capa == L("CAPA", "", 0)
Bad  == L("XXXX", "", 0)
Retr(n) == L("RETR", ToString(n), n)
Dele(n) == L("DELE", ToString(n), n)
List1(n) == L("LIST", ToString(n), n)

MCNames     == {"ana"}
MCPasswords == {"p", "q"}
MCDirs      == {"d"}
MCUsers     == <<[name |-> "ana", pass |-> "p"]>>
Ana         == <<"d", "ana">>

TwoMails == Ana :> {m1, m2}
Sizes    == m1 :> 5 @@ m2 :> 1 @@ m3 :> 1

(* All the continuations of length n of a script.                          *)
Then(s, X, n) == {s \o t : t \in [1 .. n -> X]}
LogIn         == <<User, Pass>>

(* One client with everything in flight: from no session, within one, and  *)
(* from one session into the next.                                         *)
PipelineScripts ==
    Then(<<>>, {User, Pass, L("PASS", "q", 0), Capa, Quit, Bad}, 3)
      \cup Then(LogIn, {List, Retr(1), Dele(1), Dele(3), Rset, Noop, Quit, Bad}, 3)
      \cup {LogIn \o <<Dele(1), Quit, Pass, x>> : x \in {List, Retr(1), Retr(2), Quit}}

(* Two clients of the same maildir, a delivery, and an administrator.      *)
Reconfigure ==
    {[token |-> TRUE, name |-> "set-max-mails", key |-> "n", value |-> Empty, number |-> 2]}

SessionScripts ==
    {LogIn \o <<Dele(1), Quit>>, LogIn \o <<Bad, Retr(1), Quit>>}

OneDelivery == {<<Ana, m3>>}
Clients     == Permutations(Conns)

(* One client over a connection that takes output in pieces and may fail,  *)
(* whose lines come in pieces too; and the corners: an unknown user, one   *)
(* without a maildir, an empty maildir and QUIT of it, LIST at and around  *)
(* the bounds, max_mails at its limits, a second session after a QUIT.     *)
Names4      == {"ana", "bob", "eve", "zed"}
Users3      == <<[name |-> "ana", pass |-> "p"], [name |-> "bob", pass |-> "p"],
                 [name |-> "eve", pass |-> "p"]>>
TwoBoxes    == Ana :> {m1, m2} @@ <<"d", "bob">> :> {}
As(u)       == <<L("USER", u, 0), Pass>>

PartialScripts ==
    {LogIn \o <<x, y>> : x, y \in {List, Capa, Retr(1), Retr(2), Dele(1), Quit, Bad}}
      \cup {As("zed"), As("eve"), As("bob") \o <<List1(1)>>, As("bob") \o <<List1(0), Quit>>,
            LogIn \o <<List1(2), List1(3)>>, LogIn \o <<Dele(1), Stat, Quit>>,
            As("bob") \o <<Quit, Quit>>, LogIn \o <<Quit, Pass, Quit>>}
EdgeRequests ==
    {[token |-> TRUE, name |-> "set-max-mails", key |-> "n", value |-> Empty, number |-> n] : n \in {3, -1}}

(* The disagreement: a script that shows it.                               *)
SplitScripts == {<<User, Pass>>}

=============================================================================
