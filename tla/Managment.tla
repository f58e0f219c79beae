----------------------------- MODULE Managment -----------------------------
(***************************************************************************)
(* The administration protocol of the server, server/managment/            *)
(* managment.c: one UDP datagram is one request, receive_managment_message *)
(* parses it, runs the action of the command it names on the shared        *)
(* `struct args`, and sends back what the action left in write_buffer.     *)
(* The server is a single thread, so a request is one atomic step.         *)
(*                                                                         *)
(* The users table is the array users[MAX_USERS] with its users_count; a   *)
(* slot at or beyond users_count keeps what it last held.                  *)
(***************************************************************************)
EXTENDS Integers, FiniteSets

CONSTANTS
    MAX_USERS,      \* size of args->users
    Names,          \* user names (non-empty strings)
    Passwords,      \* passwords (non-empty strings)
    Directories,    \* mail directories
    InitialUsers,   \* the accounts of the -u options: a sequence of slots
    InitialMax,     \* INITIAL_MAILS_QTY
    SIZE_MOD,       \* 2^w for size_t, the type of args->max_mails
    PRINTABLE,      \* the ints whose get-max-mails answer fits msj[25]
    AdminRequests   \* the datagrams the administrator may send

VARIABLES
    users,          \* args->users
    users_count,    \* args->users_count
    max_mails,      \* args->max_mails
    mail_directory, \* args->mail_directory
    admin_reply,    \* what write_buffer held when the last request was answered
    up              \* the process is running

adminVars == <<users, users_count, max_mails, mail_directory, admin_reply, up>>

Empty == "" \* the empty C string
Slot  == [name : Names \cup {Empty}, pass : Passwords \cup {Empty}]
Ints  == -(SIZE_MOD \div 2) .. (SIZE_MOD \div 2 - 1)

(* A parsed datagram, struct argument, is [token, name, key, value, number]:*)
(* `token` says that the token is right, `number` is atoi(key), which      *)
(* set-max-mails alone reads.                                              *)
ASSUME MaxUsersAssumption == MAX_USERS \in Nat \ {0}
ASSUME SizeAssumption     == SIZE_MOD \in Nat \ {0} /\ InitialMax \in 0 .. SIZE_MOD - 1
ASSUME NamesAssumption    == Empty \notin Names /\ Empty \notin Passwords
ASSUME UsersAssumption    == \E n \in 0 .. MAX_USERS : InitialUsers \in [1 .. n -> Slot]
ASSUME RequestAssumption  ==
    \A r \in AdminRequests :
        /\ r.token \in BOOLEAN
        /\ r.value \in Passwords \cup {Empty}
        /\ r.name \in {"add-user", "change-pass", "remove-user"} => r.key \in Names \cup {Empty}
        /\ r.name = "change-maildir" => r.key \in Directories \cup {Empty}
        /\ r.name = "set-max-mails" => r.number \in Ints

Replies == {"OK", "ERR", "nothing"}

----------------------------------------------------------------------------
(* main, parse_args: the table is cleared and filled from the command line.*)
AdminInit ==
    /\ users = [i \in 1 .. MAX_USERS |->
                  IF i \in DOMAIN InitialUsers THEN InitialUsers[i]
                                               ELSE [name |-> Empty, pass |-> Empty]]
    /\ users_count = CHOOSE n \in 0 .. MAX_USERS : DOMAIN InitialUsers = 1 .. n
    /\ max_mails = InitialMax
    /\ mail_directory \in Directories
    /\ admin_reply = "nothing"
    /\ up = TRUE

Visible == 1 .. users_count

(* The slot the linear searches of managment.c and of pop3_stm.c stop at.  *)
IsFirst(i, n) == users[i].name = n /\ \A j \in Visible : users[j].name = n => i <= j

Answer(text) == admin_reply' = text

----------------------------------------------------------------------------
HasRoomOffByOne == users_count <= MAX_USERS
HasRoom         == users_count < MAX_USERS

(* strcpy of the key and of the value over what the slot held.             *)
FilledNameOnly(i, r) == [users[i] EXCEPT !.name = r.key]
Filled(i, r)         == [name |-> r.key, pass |-> r.value]

AddUser(r) ==
    /\ UNCHANGED <<max_mails, mail_directory>>
    /\ \/ /\ ~HasRoom \/ r.key = Empty \/ r.value = Empty
          /\ Answer("ERR")
          /\ UNCHANGED <<users, users_count>>
       \/ /\ HasRoom /\ r.key # Empty /\ r.value # Empty
          /\ users' = [users EXCEPT ![users_count + 1] = Filled(users_count + 1, r)]
          /\ users_count' = users_count + 1
          /\ Answer("OK")

(* The name is blanked only if it is found; the count shrinks either way,  *)
(* and only a found name leaves a text in write_buffer.                    *)
RemoveUser(r) ==
    /\ UNCHANGED <<max_mails, mail_directory>>
    /\ \/ /\ users_count = 0 \/ r.key = Empty
          /\ Answer("ERR")
          /\ UNCHANGED <<users, users_count>>
       \/ /\ users_count > 0 /\ r.key # Empty
          /\ users_count' = users_count - 1
          /\ \/ /\ \A i \in Visible : users[i].name # r.key
                /\ Answer("nothing")
                /\ UNCHANGED users
             \/ \E i \in Visible :
                  /\ IsFirst(i, r.key)
                  /\ users' = [users EXCEPT ![i].name = Empty]
                  /\ Answer("OK")

RepassLast(i, p) == [users EXCEPT ![users_count].pass = p]
Repass(i, p)     == [users EXCEPT ![i].pass = p]

ChangePass(r) ==
    /\ UNCHANGED <<users_count, max_mails, mail_directory>>
    /\ \/ /\ users_count = 0 \/ r.key = Empty \/ r.value = Empty
          /\ Answer("ERR")
          /\ UNCHANGED users
       \/ /\ users_count > 0 /\ r.key # Empty /\ r.value # Empty
          /\ \/ /\ \A i \in Visible : users[i].name # r.key
                /\ Answer("nothing")
                /\ UNCHANGED users
             \/ \E i \in Visible :
                  /\ IsFirst(i, r.key)
                  /\ users' = Repass(i, r.value)
                  /\ Answer("OK")

ChangeMaildir(r) ==
    /\ UNCHANGED <<users, users_count, max_mails>>
    /\ \/ r.key = Empty /\ Answer("ERR") /\ UNCHANGED mail_directory
       \/ r.key # Empty /\ Answer("OK") /\ mail_directory' = r.key

(* An int stored in a size_t, and a size_t read back as an int.            *)
ToSize(n) == n % SIZE_MOD
ToInt(s)  == IF s < SIZE_MOD \div 2 THEN s ELSE s - SIZE_MOD

(* atoi's result is stored before it is looked at.                         *)
SetMaxMails(r) ==
    /\ UNCHANGED <<users, users_count, mail_directory>>
    /\ \/ r.key = Empty /\ Answer("ERR") /\ UNCHANGED max_mails
       \/ /\ r.key # Empty
          /\ max_mails' = ToSize(r.number)
          /\ Answer(IF max_mails' > 0 THEN "OK" ELSE "ERR")

(* sprintf into msj[25]: past it the write is out of bounds, which the     *)
(* build may survive or not.                                               *)
GetMaxMails(r) ==
    /\ UNCHANGED <<users, users_count, max_mails, mail_directory>>
    /\ Answer("OK")
    /\ up' \in (IF ToInt(max_mails) \in PRINTABLE THEN {TRUE} ELSE BOOLEAN)

(* version and the three statistics only answer; token has nothing to do.  *)
Report(r) ==
    /\ UNCHANGED <<users, users_count, max_mails, mail_directory>>
    /\ Answer(IF r.name = "token" THEN "nothing" ELSE "OK")

(* commands[0], help, has a NULL action that is called.                    *)
Help(r) ==
    /\ up' = FALSE
    /\ UNCHANGED <<users, users_count, max_mails, mail_directory, admin_reply>>

(* The search runs to MAX_ARGUMENTS = 13 over a table of 12: a name that   *)
(* is in no entry reads commands[12], and the process dies or goes on.     *)
UnknownCommand(r) ==
    /\ up' \in BOOLEAN
    /\ Answer("nothing")
    /\ UNCHANGED <<users, users_count, max_mails, mail_directory>>

BadToken(r) ==
    /\ Answer("ERR")
    /\ UNCHANGED <<users, users_count, max_mails, mail_directory>>

Reports  == {"token", "version", "stat-historic-connections", "stat-current-connections",
             "stat-bytes-transferred"}
Commands == Reports \cup {"help", "add-user", "change-pass", "change-maildir", "remove-user",
                          "get-max-mails", "set-max-mails"}

(* receive_managment_message: the token, then the search of the command.   *)
ReceiveRequest(r) ==
    /\ up
    /\ \/ ~r.token /\ BadToken(r) /\ UNCHANGED up
       \/ /\ r.token
          /\ \/ r.name = "add-user" /\ AddUser(r) /\ UNCHANGED up
             \/ r.name = "remove-user" /\ RemoveUser(r) /\ UNCHANGED up
             \/ r.name = "change-pass" /\ ChangePass(r) /\ UNCHANGED up
             \/ r.name = "change-maildir" /\ ChangeMaildir(r) /\ UNCHANGED up
             \/ r.name = "set-max-mails" /\ SetMaxMails(r) /\ UNCHANGED up
             \/ r.name = "get-max-mails" /\ GetMaxMails(r)
             \/ r.name \in Reports /\ Report(r) /\ UNCHANGED up
             \/ r.name = "help" /\ Help(r)
             \/ r.name \notin Commands /\ UnknownCommand(r)

AdminNext == \E r \in AdminRequests : ReceiveRequest(r)

AdminSpec == AdminInit /\ [][AdminNext]_adminVars

----------------------------------------------------------------------------
(* The table keeps its shape: its count never leaves the array, whatever   *)
(* sequence of requests grows and shrinks it.                              *)
AdminTypeOK ==
    /\ users \in [1 .. MAX_USERS -> Slot]
    /\ users_count \in 0 .. MAX_USERS
    /\ max_mails \in 0 .. SIZE_MOD - 1
    /\ mail_directory \in Directories
    /\ admin_reply \in Replies
    /\ up \in BOOLEAN

(* What user_handler and pass_handler make of the table: n logs in with p. *)
Accepts(n, p) == \E i \in Visible : IsFirst(i, n) /\ users[i].pass = p

(* A request makes the server accept a new pair of name and password only  *)
(* if it names that user, and names that password unless it is a removal   *)
(* (which may bare a second slot of the name): growing and shrinking the   *)
(* table past stale slots never opens an account nobody asked for.         *)
OnlyTheNamedAccountOpens ==
    [][\A r \in AdminRequests : ReceiveRequest(r)
         => \A n \in Names, p \in Passwords :
              Accepts(n, p)' /\ ~Accepts(n, p)
                => r.key = n /\ (r.name = "remove-user" \/ r.value = p)]_adminVars

(* Granting is exact: an accepted add-user or change-pass leaves every     *)
(* other account as it was (add_user_action, change_pass_action).          *)
GrantsTouchOneAccount ==
    [][\A r \in AdminRequests :
         r.name \in {"add-user", "change-pass"} /\ ReceiveRequest(r)
           => \A n \in Names \ {r.key}, p \in Passwords :
                Accepts(n, p)' <=> Accepts(n, p)]_adminVars
=============================================================================
