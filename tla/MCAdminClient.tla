--------------------------- MODULE MCAdminClient ---------------------------
(* AdminClient for TLC: three slots, two names and two passwords, and what *)
(* the client sends for one that is empty.                                 *)
EXTENDS AdminClient

Req(name, key, value, number) ==
    [token |-> TRUE, name |-> name, key |-> key, value |-> value, number |-> number]

MCNotGiven  == "not-given"
MCNames     == {"ana", "bob", MCNotGiven}
MCPasswords == {"p", "q", MCNotGiven}
MCDirs      == {"d1", "d2", MCNotGiven}
MCUsers     == <<[name |-> "ana", pass |-> "p"]>>
MCPrintable == -4 .. 2

(* Datagrams written by hand: one that competes for an account, and one    *)
(* that ends the server.                                                   *)
MCOthers == {Req("add-user", "bob", "q", 0), Req("help", Empty, Empty, 0)}

(* Command lines: slots given twice and out of their order, an empty       *)
(* password, a wrong token, lines that send nothing.                       *)
Opt(slot, key, value, number) ==
    [slot |-> slot, key |-> key, value |-> value, number |-> number, token |-> TRUE]

Token         == Opt("token", "123456", Empty, 0)
WrongToken    == [Token EXCEPT !.key = "654321", !.token = FALSE]
Add(k, v)     == Opt("add-user", k, v, 0)
Remove(k)     == Opt("remove-user", k, Empty, 0)
NewPass(k, v) == Opt("change-pass", k, v, 0)

MCLines ==
    {<<Add("bob", "p"), Token, Add("ana", "q"), Remove("ana")>>,
     <<Token, NewPass("bob", "q"), Add("bob", Empty)>>,
     <<Token, Opt("set-max-mails", "n", Empty, 3), Opt("get-max-mails", Empty, Empty, 0)>>,
     <<Opt("change-maildir", "d2", Empty, 0), WrongToken>>,
     <<Add("bob", "p")>>,
     <<Token, Opt(Stops, Empty, Empty, 0)>>}

MCRequests ==
    MCOthers \cup UNION {{Plan(line)[k] : k \in DOMAIN Plan(line)} : line \in MCLines}
=============================================================================
