---------------------------- MODULE MCManagment ----------------------------
(* Managment for TLC: three slots, two names, two passwords.               *)
EXTENDS Managment, Sequences

Req(name, key, value, number) ==
    [token |-> TRUE, name |-> name, key |-> key, value |-> value, number |-> number]

AccountRequests ==
    {Req(c, k, v, 0) : c \in {"add-user", "change-pass"},
                       k \in Names \cup {Empty}, v \in Passwords \cup {Empty}}
      \cup {Req("remove-user", k, Empty, 0) : k \in Names \cup {Empty}}

OtherRequests ==
    {Req("set-max-mails", "n", Empty, n) : n \in {-1, 0, 3}}
      \cup {Req("set-max-mails", Empty, Empty, 0)}
      \cup {Req("change-maildir", d, Empty, 0) : d \in Directories \cup {Empty}}
      \cup {Req(c, Empty, Empty, 0) : c \in {"get-max-mails", "token", "version", "help", "not-given"}}
      \cup {[Req("remove-user", "ana", Empty, 0) EXCEPT !.token = FALSE]}

AllRequests == AccountRequests \cup OtherRequests

MCNames     == {"ana", "bob"}
MCPasswords == {"p", "q"}
MCDirs      == {"d1", "d2"}
MCUsers     == <<[name |-> "ana", pass |-> "p"]>>
MCPrintable == -4 .. 2
=============================================================================
