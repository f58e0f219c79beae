-------------------------- MODULE ManagmentProofs --------------------------
(***************************************************************************)
(* Proofs about the administration protocol, for every table size, every   *)
(* set of names and passwords and every set of requests: the table never   *)
(* leaves its array, granting an account is exact, and no account opens to *)
(* a password but by a request that names it.                              *)
(***************************************************************************)
EXTENDS Managment, TLAPS

LEMMA SlotLemma ==
    ASSUME NEW n \in Names \cup {Empty}, NEW p \in Passwords \cup {Empty}
    PROVE  [name |-> n, pass |-> p] \in Slot
  BY DEF Slot

LEMMA InitType == AdminInit => AdminTypeOK
  <1> SUFFICES ASSUME AdminInit
               PROVE  AdminTypeOK
    OBVIOUS
  <1>1. PICK n \in 0 .. MAX_USERS : InitialUsers \in [1 .. n -> Slot]
    BY UsersAssumption
  <1>2. DOMAIN InitialUsers = 1 .. n
    BY <1>1
  <1>3. users_count \in 0 .. MAX_USERS
    <2>1. \E k \in 0 .. MAX_USERS : DOMAIN InitialUsers = 1 .. k
      BY <1>2
    <2> QED
      BY <2>1 DEF AdminInit
  <1>4. users \in [1 .. MAX_USERS -> Slot]
    <2>1. [name |-> Empty, pass |-> Empty] \in Slot
      BY DEF Slot
    <2>2. \A i \in DOMAIN InitialUsers : InitialUsers[i] \in Slot
      BY <1>1
    <2> QED
      BY <2>1, <2>2 DEF AdminInit
  <1> QED
    BY <1>3, <1>4, SizeAssumption DEF AdminInit, AdminTypeOK, Replies

(* One request, whatever it is: the table stays in its array.              *)
LEMMA AddUserType ==
    ASSUME AdminTypeOK, NEW r \in AdminRequests, r.name = "add-user", AddUser(r), UNCHANGED up
    PROVE  AdminTypeOK'
  <1>1. r.value \in Passwords \cup {Empty} /\ r.key \in Names \cup {Empty}
    BY RequestAssumption
  <1>2. CASE Answer("ERR") /\ UNCHANGED <<users, users_count>>
    BY <1>2 DEF AddUser, AdminTypeOK, Answer, Replies
  <1>3. CASE /\ HasRoom
             /\ users' = [users EXCEPT ![users_count + 1] = Filled(users_count + 1, r)]
             /\ users_count' = users_count + 1
             /\ Answer("OK")
    <2>1. Filled(users_count + 1, r) \in Slot
      BY <1>1, SlotLemma DEF Filled
    <2>2. users' \in [1 .. MAX_USERS -> Slot]
      BY <1>3, <2>1 DEF AdminTypeOK
    <2>3. users_count' \in 0 .. MAX_USERS
      BY <1>3, MaxUsersAssumption DEF HasRoom, AdminTypeOK
    <2> QED
      BY <1>3, <2>2, <2>3 DEF AddUser, AdminTypeOK, Answer, Replies
  <1> QED
    BY <1>2, <1>3 DEF AddUser

LEMMA RemoveUserType ==
    ASSUME AdminTypeOK, NEW r \in AdminRequests, r.name = "remove-user", RemoveUser(r), UNCHANGED up
    PROVE  AdminTypeOK'
  <1>1. CASE Answer("ERR") /\ UNCHANGED <<users, users_count>>
    BY <1>1 DEF RemoveUser, AdminTypeOK, Answer, Replies
  <1>2. CASE /\ users_count > 0 /\ users_count' = users_count - 1
             /\ \/ Answer("nothing") /\ UNCHANGED users
                \/ \E i \in Visible : users' = [users EXCEPT ![i].name = Empty] /\ Answer("OK")
    <2>1. users_count' \in 0 .. MAX_USERS
      BY <1>2, MaxUsersAssumption DEF AdminTypeOK
    <2>2. ASSUME NEW i \in Visible, users' = [users EXCEPT ![i].name = Empty]
          PROVE  users' \in [1 .. MAX_USERS -> Slot]
      <3>1. i \in 1 .. MAX_USERS /\ users[i] \in Slot
        BY MaxUsersAssumption DEF Visible, AdminTypeOK
      <3>2. [users[i] EXCEPT !.name = Empty] \in Slot
        BY <3>1 DEF Slot
      <3> QED
        BY <2>2, <3>1, <3>2 DEF AdminTypeOK
    <2>3. users' \in [1 .. MAX_USERS -> Slot]
      BY <1>2, <2>2 DEF AdminTypeOK
    <2>4. admin_reply' \in Replies
      BY <1>2 DEF Answer, Replies
    <2> QED
      BY <2>1, <2>3, <2>4 DEF RemoveUser, AdminTypeOK
  <1> QED
    BY <1>1, <1>2 DEF RemoveUser

LEMMA ChangePassType ==
    ASSUME AdminTypeOK, NEW r \in AdminRequests, r.name = "change-pass", ChangePass(r), UNCHANGED up
    PROVE  AdminTypeOK'
  <1>1. r.value \in Passwords \cup {Empty}
    BY RequestAssumption
  <1>2. admin_reply' \in Replies
    BY DEF ChangePass, Answer, Replies
  <1>3. ASSUME NEW i \in Visible, users' = Repass(i, r.value)
        PROVE  users' \in [1 .. MAX_USERS -> Slot]
    <2>1. i \in 1 .. MAX_USERS /\ users[i] \in Slot
      BY MaxUsersAssumption DEF Visible, AdminTypeOK
    <2>2. [users[i] EXCEPT !.pass = r.value] \in Slot
      BY <1>1, <2>1 DEF Slot
    <2> QED
      BY <1>3, <2>1, <2>2 DEF AdminTypeOK, Repass
  <1>4. users' \in [1 .. MAX_USERS -> Slot]
    BY <1>3 DEF ChangePass, AdminTypeOK
  <1> QED
    BY <1>2, <1>4 DEF ChangePass, AdminTypeOK

LEMMA SetMaxMailsType ==
    ASSUME AdminTypeOK, NEW r \in AdminRequests, r.name = "set-max-mails", SetMaxMails(r), UNCHANGED up
    PROVE  AdminTypeOK'
  <1>1. r.number \in Int
    <2>1. r.number \in Ints
      BY RequestAssumption
    <2> QED
      BY <2>1, SizeAssumption DEF Ints
  <1>2. ToSize(r.number) \in 0 .. SIZE_MOD - 1
    BY <1>1, SizeAssumption DEF ToSize
  <1>3. admin_reply' \in Replies
    BY DEF SetMaxMails, Answer, Replies
  <1>4. max_mails' \in 0 .. SIZE_MOD - 1
    BY <1>2 DEF SetMaxMails, AdminTypeOK
  <1> QED
    BY <1>3, <1>4 DEF SetMaxMails, AdminTypeOK

LEMMA ChangeMaildirType ==
    ASSUME AdminTypeOK, NEW r \in AdminRequests, r.name = "change-maildir", ChangeMaildir(r),
           UNCHANGED up
    PROVE  AdminTypeOK'
  <1>1. r.key \in Directories \cup {Empty}
    BY RequestAssumption
  <1>2. mail_directory' \in Directories /\ admin_reply' \in Replies
    BY <1>1 DEF ChangeMaildir, Answer, Replies, AdminTypeOK
  <1> QED
    BY <1>2 DEF ChangeMaildir, AdminTypeOK

(* The requests that only answer, or crash.                                *)
LEMMA OtherType ==
    ASSUME AdminTypeOK, NEW r \in AdminRequests,
           \/ BadToken(r) /\ UNCHANGED up
           \/ GetMaxMails(r)
           \/ Report(r) /\ UNCHANGED up
           \/ Help(r)
           \/ UnknownCommand(r)
    PROVE  AdminTypeOK'
  <1>1. UNCHANGED <<users, users_count, max_mails, mail_directory>>
    BY DEF BadToken, GetMaxMails, Report, Help, UnknownCommand
  <1>2. admin_reply' \in Replies
    BY DEF BadToken, GetMaxMails, Report, Help, UnknownCommand, Answer, Replies, AdminTypeOK
  <1>3. up' \in BOOLEAN
    BY DEF BadToken, GetMaxMails, Report, Help, UnknownCommand, AdminTypeOK
  <1> QED
    BY <1>1, <1>2, <1>3 DEF AdminTypeOK

LEMMA RequestType ==
    ASSUME AdminTypeOK, NEW r \in AdminRequests, ReceiveRequest(r)
    PROVE  AdminTypeOK'
  BY AddUserType, RemoveUserType, ChangePassType, SetMaxMailsType, ChangeMaildirType, OtherType
  DEF ReceiveRequest

(* However many requests grow and shrink it, users[] is never written past *)
(* MAX_USERS (managment.c:32 is the only guard) and users_count never      *)
(* leaves 0 .. MAX_USERS, an unsigned count that two actions decrement.    *)
THEOREM TableStaysInItsArray == AdminSpec => []AdminTypeOK
  <1>1. AdminTypeOK /\ [AdminNext]_adminVars => AdminTypeOK'
    <2> SUFFICES ASSUME AdminTypeOK, [AdminNext]_adminVars
                 PROVE  AdminTypeOK'
      OBVIOUS
    <2>1. CASE AdminNext
      BY <2>1, RequestType DEF AdminNext
    <2>2. CASE UNCHANGED adminVars
      BY <2>2 DEF adminVars, AdminTypeOK
    <2> QED
      BY <2>1, <2>2
  <1> QED
    BY InitType, <1>1, PTL DEF AdminSpec

----------------------------------------------------------------------------
(* Granting an account.                                                    *)

(* A login depends on nothing but the visible slots.                       *)
LEMMA SameTable ==
    ASSUME UNCHANGED <<users, users_count>>, NEW n, NEW p
    PROVE  Accepts(n, p)' <=> Accepts(n, p)
  BY DEF Accepts, IsFirst, Visible

(* One more slot of another name shadows nobody: it is the last one.       *)
LEMMA OneMoreSlot ==
    ASSUME AdminTypeOK, users_count < MAX_USERS, NEW s \in Slot, NEW n, NEW p, s.name # n,
           users' = [users EXCEPT ![users_count + 1] = s], users_count' = users_count + 1
    PROVE  Accepts(n, p)' <=> Accepts(n, p)
  <1>0. PICK k : k = users_count + 1
    OBVIOUS
  <1>1. users_count \in Nat /\ k \in 1 .. MAX_USERS /\ Visible = 1 .. users_count
    BY <1>0, MaxUsersAssumption DEF AdminTypeOK, Visible
  <1>2. Visible' = Visible \cup {k}
    BY <1>0, <1>1 DEF Visible
  <1>3. \A i \in Visible : i # k /\ i \in 1 .. MAX_USERS
    BY <1>0, <1>1, MaxUsersAssumption
  <1>4. users'[k] = s /\ \A i \in Visible : users'[i] = users[i]
    BY <1>0, <1>1, <1>3 DEF AdminTypeOK
  <1>5. ASSUME NEW i \in Visible
        PROVE  IsFirst(i, n)' <=> IsFirst(i, n)
    BY <1>2, <1>4, <1>5 DEF IsFirst
  <1>6. ~IsFirst(k, n)'
    BY <1>4 DEF IsFirst
  <1> QED
    BY <1>2, <1>4, <1>5, <1>6 DEF Accepts

(* A new password in a slot of another name changes no other login.        *)
LEMMA OnePassword ==
    ASSUME AdminTypeOK, NEW i \in Visible, NEW v, NEW n, NEW p, users[i].name # n,
           users' = Repass(i, v), users_count' = users_count
    PROVE  Accepts(n, p)' <=> Accepts(n, p)
  <1>1. Visible' = Visible /\ \A j \in Visible : j \in 1 .. MAX_USERS /\ users[j] \in Slot
    BY MaxUsersAssumption DEF AdminTypeOK, Visible
  <1>2. /\ users'[i].name = users[i].name
        /\ \A j \in Visible : j # i => users'[j] = users[j]
    <2>1. users'[i] = [users[i] EXCEPT !.pass = v]
      BY <1>1 DEF Repass, AdminTypeOK
    <2>2. users'[i].name = users[i].name
      BY <1>1, <2>1 DEF Slot
    <2>3. \A j \in Visible : j # i => users'[j] = users[j]
      BY <1>1 DEF Repass, AdminTypeOK
    <2> QED
      BY <2>2, <2>3
  <1>3. \A j \in Visible : users'[j].name = users[j].name
    BY <1>2
  <1>4. \A j \in Visible : IsFirst(j, n)' <=> IsFirst(j, n)
    BY <1>1, <1>3 DEF IsFirst
  <1>5. \A j \in Visible : IsFirst(j, n) => j # i
    BY DEF IsFirst
  <1>6. ASSUME NEW j \in Visible, IsFirst(j, n)
        PROVE  users'[j].pass = users[j].pass
    BY <1>2, <1>5, <1>6
  <1> QED
    BY <1>1, <1>4, <1>6 DEF Accepts

LEMMA GrantIsExact ==
    ASSUME AdminTypeOK, NEW r \in AdminRequests, r.name \in {"add-user", "change-pass"},
           ReceiveRequest(r), NEW n \in Names \ {r.key}, NEW p \in Passwords
    PROVE  Accepts(n, p)' <=> Accepts(n, p)
  <1>1. CASE BadToken(r)
    BY <1>1, SameTable DEF BadToken
  <1>2. CASE r.name = "add-user" /\ AddUser(r)
    <2>1. CASE UNCHANGED <<users, users_count>>
      BY <2>1, SameTable
    <2>2. CASE /\ HasRoom
               /\ users' = [users EXCEPT ![users_count + 1] = Filled(users_count + 1, r)]
               /\ users_count' = users_count + 1
      <3>1. r.value \in Passwords \cup {Empty} /\ r.key \in Names \cup {Empty}
        BY <1>2, RequestAssumption
      <3>2. Filled(users_count + 1, r) \in Slot /\ Filled(users_count + 1, r).name = r.key
        BY <3>1, SlotLemma DEF Filled
      <3> QED
        BY <2>2, <3>2, OneMoreSlot DEF HasRoom
    <2> QED
      BY <1>2, <2>1, <2>2 DEF AddUser
  <1>3. CASE r.name = "change-pass" /\ ChangePass(r)
    <2>1. CASE UNCHANGED users
      BY <1>3, <2>1, SameTable DEF ChangePass
    <2>2. ASSUME NEW i \in Visible, IsFirst(i, r.key), users' = Repass(i, r.value)
          PROVE  Accepts(n, p)' <=> Accepts(n, p)
      BY <1>3, <2>2, OnePassword DEF IsFirst, ChangePass
    <2> QED
      BY <1>3, <2>1, <2>2 DEF ChangePass
  <1> QED
    BY <1>1, <1>2, <1>3 DEF ReceiveRequest, Reports, Commands

(* Whatever the table went through before, the stale slots included, an    *)
(* add-user or a change-pass lets nobody else in and locks nobody else out.*)
THEOREM GrantingIsExact == AdminSpec => GrantsTouchOneAccount
  <1> DEFINE Exact == \A r \in AdminRequests :
                        r.name \in {"add-user", "change-pass"} /\ ReceiveRequest(r)
                          => \A n \in Names \ {r.key}, p \in Passwords :
                               Accepts(n, p)' <=> Accepts(n, p)
  <1>1. AdminTypeOK => Exact
    BY GrantIsExact
  <1>2. AdminTypeOK /\ [AdminNext]_adminVars => [Exact]_adminVars
    BY <1>1
  <1> QED
    BY TableStaysInItsArray, <1>2, PTL DEF AdminSpec, GrantsTouchOneAccount
----------------------------------------------------------------------------
(* Who may open an account.                                                *)

(* A shorter table stops at the same slot, if it stops at all.             *)
LEMMA ShorterTable ==
    ASSUME AdminTypeOK, users_count > 0, users_count' = users_count - 1,
           NEW n, NEW p, Accepts(n, p)',
           \A j \in Visible : /\ users'[j].name = n <=> users[j].name = n
                              /\ users'[j].pass = users[j].pass
    PROVE  Accepts(n, p)
  <1>1. PICK i \in Visible' : IsFirst(i, n)' /\ users'[i].pass = p
    BY DEF Accepts
  <1>2. users_count \in Nat /\ Visible = 1 .. users_count /\ Visible' = 1 .. users_count - 1
    BY MaxUsersAssumption DEF AdminTypeOK, Visible
  <1>3. i \in Visible /\ users[i].name = n /\ users[i].pass = p
    BY <1>1, <1>2 DEF IsFirst
  <1>4. ASSUME NEW j \in Visible, users[j].name = n
        PROVE  i <= j
    <2>1. CASE j \in Visible'
      BY <1>1, <1>4, <2>1 DEF IsFirst
    <2>2. CASE j = users_count
      BY <1>1, <1>2, <2>2
    <2> QED
      BY <1>2, <2>1, <2>2
  <1> QED
    BY <1>3, <1>4 DEF Accepts, IsFirst

LEMMA AddOpens ==
    ASSUME AdminTypeOK, NEW r \in AdminRequests, r.name = "add-user", AddUser(r),
           NEW n \in Names, NEW p, Accepts(n, p)', ~Accepts(n, p)
    PROVE  r.key = n /\ r.value = p
  <1>1. PICK k : /\ k = users_count + 1 /\ HasRoom
                 /\ users' = [users EXCEPT ![k] = Filled(k, r)]
                 /\ users_count' = k
    BY SameTable DEF AddUser
  <1>2. r.value \in Passwords \cup {Empty} /\ r.key \in Names \cup {Empty}
    BY RequestAssumption
  <1>3. Filled(k, r) \in Slot /\ Filled(k, r).name = r.key /\ Filled(k, r).pass = r.value
    BY <1>2, SlotLemma DEF Filled
  <1>4. r.key = n
    BY <1>1, <1>3, OneMoreSlot DEF HasRoom
  <1>5. PICK i \in Visible' : IsFirst(i, n)' /\ users'[i].pass = p
    BY DEF Accepts
  <1>6. users_count \in Nat /\ k \in 1 .. MAX_USERS /\ Visible' = Visible \cup {k}
    BY <1>1, MaxUsersAssumption DEF AdminTypeOK, HasRoom, Visible
  <1>7. users'[k] = Filled(k, r) /\ \A j \in Visible : users'[j] = users[j]
    <2>1. \A j \in Visible : j # k /\ j \in 1 .. MAX_USERS
      BY <1>1, <1>6, MaxUsersAssumption DEF AdminTypeOK, Visible
    <2> QED
      BY <1>1, <1>6, <2>1 DEF AdminTypeOK
  <1>8. i \notin Visible
    <2>1. ASSUME i \in Visible
          PROVE  IsFirst(i, n)
      BY <1>5, <1>6, <1>7, <2>1 DEF IsFirst
    <2> QED
      BY <1>5, <1>7, <2>1 DEF Accepts
  <1> QED
    BY <1>3, <1>4, <1>5, <1>6, <1>7, <1>8

LEMMA RepassOpens ==
    ASSUME AdminTypeOK, NEW r \in AdminRequests, r.name = "change-pass", ChangePass(r),
           NEW n \in Names, NEW p, Accepts(n, p)', ~Accepts(n, p)
    PROVE  r.key = n /\ r.value = p
  <1>1. PICK i \in Visible : IsFirst(i, r.key) /\ users' = Repass(i, r.value)
    BY SameTable DEF ChangePass
  <1>2. users_count' = users_count
    BY DEF ChangePass
  <1>3. r.key = n
    BY <1>1, <1>2, OnePassword DEF IsFirst
  <1>4. \A j \in Visible : j \in 1 .. MAX_USERS /\ users[j] \in Slot
    BY MaxUsersAssumption DEF AdminTypeOK, Visible
  <1>5. users'[i] = [users[i] EXCEPT !.pass = r.value]
    BY <1>1, <1>4 DEF Repass, AdminTypeOK
  <1>6. users'[i].pass = r.value /\ users'[i].name = users[i].name
    BY <1>4, <1>5 DEF Slot
  <1>7. \A j \in Visible : j # i => users'[j] = users[j]
    BY <1>1, <1>4 DEF Repass, AdminTypeOK
  <1>8. PICK j \in Visible : IsFirst(j, n)' /\ users'[j].pass = p
    BY <1>2 DEF Accepts, Visible
  <1>9. j = i
    <2>1. users'[j].name = n /\ users'[i].name = n /\ users[j].name = n
      BY <1>1, <1>3, <1>6, <1>7, <1>8 DEF IsFirst
    <2>2. j <= i /\ i <= j
      BY <1>1, <1>2, <1>3, <1>8, <2>1 DEF IsFirst, Visible
    <2>3. i \in Int /\ j \in Int
      BY <1>4
    <2> QED
      BY <2>2, <2>3
  <1> QED
    BY <1>3, <1>6, <1>8, <1>9

LEMMA RemoveOpens ==
    ASSUME AdminTypeOK, NEW r \in AdminRequests, RemoveUser(r),
           NEW n \in Names, NEW p, Accepts(n, p)', ~Accepts(n, p)
    PROVE  r.key = n
  <1>1. users_count > 0 /\ users_count' = users_count - 1
    BY SameTable DEF RemoveUser
  <1>2. CASE UNCHANGED users
    BY <1>1, <1>2, ShorterTable
  <1>3. ASSUME NEW i \in Visible, IsFirst(i, r.key), users' = [users EXCEPT ![i].name = Empty],
               r.key # n
        PROVE  FALSE
    <2>1. \A j \in Visible : j \in 1 .. MAX_USERS /\ users[j] \in Slot
      BY MaxUsersAssumption DEF AdminTypeOK, Visible
    <2>2. users'[i] = [users[i] EXCEPT !.name = Empty]
      BY <1>3, <2>1 DEF AdminTypeOK
    <2>3. users'[i].name = Empty /\ users'[i].pass = users[i].pass
      BY <2>1, <2>2 DEF Slot
    <2>4. \A j \in Visible : j # i => users'[j] = users[j]
      BY <1>3, <2>1 DEF AdminTypeOK
    <2>5. users[i].name # n /\ Empty # n
      BY <1>3, NamesAssumption DEF IsFirst
    <2>6. \A j \in Visible : /\ users'[j].name = n <=> users[j].name = n
                             /\ users'[j].pass = users[j].pass
      BY <2>3, <2>4, <2>5
    <2> QED
      BY <1>1, <2>6, ShorterTable
  <1> QED
    BY <1>1, <1>2, <1>3, SameTable DEF RemoveUser

LEMMA RequestOpens ==
    ASSUME AdminTypeOK, NEW r \in AdminRequests, ReceiveRequest(r),
           NEW n \in Names, NEW p \in Passwords, Accepts(n, p)', ~Accepts(n, p)
    PROVE  r.key = n /\ (r.name = "remove-user" \/ r.value = p)
  <1>1. ~UNCHANGED <<users, users_count>>
    BY SameTable
  <1> QED
    BY <1>1, AddOpens, RepassOpens, RemoveOpens
    DEF ReceiveRequest, BadToken, ChangeMaildir, SetMaxMails, GetMaxMails, Report, Help,
        UnknownCommand

(* However the table grew and shrank before, no request opens an account   *)
(* but that of the user it names, with the password it names unless it is  *)
(* a removal: the slots left behind are never seen by a search again as    *)
(* they were, because adding a user writes over one whole.                 *)
THEOREM NobodyElseGetsIn == AdminSpec => OnlyTheNamedAccountOpens
  <1> DEFINE Named == \A r \in AdminRequests : ReceiveRequest(r)
                        => \A n \in Names, p \in Passwords :
                             Accepts(n, p)' /\ ~Accepts(n, p)
                               => r.key = n /\ (r.name = "remove-user" \/ r.value = p)
  <1>1. AdminTypeOK => Named
    BY RequestOpens
  <1>2. AdminTypeOK /\ [AdminNext]_adminVars => [Named]_adminVars
    BY <1>1
  <1> QED
    BY TableStaysInItsArray, <1>2, PTL DEF AdminSpec, OnlyTheNamedAccountOpens
=============================================================================
