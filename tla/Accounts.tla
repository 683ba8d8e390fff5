------------------------------- MODULE Accounts -------------------------------
(***************************************************************************)
(* One username: the account that administrators create, change, deactivate*)
(* and give roles (users/service.py), and its logins by one-time password  *)
(* (auth/service.py), whose codes live in the memory of the worker process *)
(* that sent them.                                                         *)
(*                                                                         *)
(* A request runs in a thread of one worker.  Changes of the account are   *)
(* transactions: a handler reads its snapshot, and its writes happen at the*)
(* commit, except for the DELETE of assign_roles, which is executed at once*)
(* and locks the roles of the user.  An UPDATE writes the columns that     *)
(* changed, over whatever was committed meanwhile: a database with snapshot*)
(* isolation refuses some of these commits, and Rollback covers it.        *)
(***************************************************************************)
EXTENDS Naturals, Sequences, FiniteSets

CONSTANTS
    Worker,     \* the processes of gunicorn
    Thread,     \* requests handled at once
    Role,       \* the roles there are
    Employee,   \* the role of a new account
    MaxCodes    \* bound on the codes ever sent

ASSUME BoundAssumption == Employee \in Role /\ MaxCodes \in Nat

VARIABLES
    users,      \* the rows of users with this username, by id
    roles,      \* the rows of user_roles of each
    store,      \* _otp_store[username] of every worker
    sent,       \* how many codes were sent: they are 1 .. sent, all different
    expired,    \* the codes that are not valid any more
    spent,      \* history: the codes with which a verification succeeded
    req         \* the request of every thread

account == <<users, roles>>
codes == <<store, sent, expired, spent>>
vars == <<account, codes, req>>

NoCode == 0
Code == 1 .. MaxCodes

\* phone: the account has a phone number and an auth_method of OTP or BOTH
User == [active : BOOLEAN, phone : BOOLEAN]

Idle == [kind |-> "IDLE"]

\* RoleAssignRequest: max_two_roles
Assignable == {s \in SUBSET Role : Cardinality(s) <= 2}

\* What a request has read and is going to do, and in the end its answer.
Creation == [kind : {"CREATE"}, phone : BOOLEAN]
Update == [kind : {"UPDATE"}, id : Nat, row : User, phone : BOOLEAN, active : BOOLEAN]
Assignment == [kind : {"ASSIGN"}, id : Nat, seen : SUBSET Role, new : Assignable]
Deletion == [kind : {"DELETED"}, id : Nat, new : Assignable, off : SUBSET Role]
Sending == [kind : {"SEND"}, worker : Worker]
Login == [kind : {"VERIFY", "TOO_OLD", "MATCHED", "DROPPED"}, worker : Worker,
          code : Code, got : Code \cup {NoCode}, late : BOOLEAN]
Answer == [kind : {"ANSWERED"}, late : BOOLEAN, good : BOOLEAN, tokens : BOOLEAN]

Request == {Idle} \cup Creation \cup Update \cup Assignment \cup Deletion
              \cup Sending \cup Login \cup Answer

Init ==
    /\ users = <<>> /\ roles = <<>>
    /\ store = [w \in Worker |-> NoCode]
    /\ sent = 0 /\ expired = {} /\ spent = {}
    /\ req = [t \in Thread |-> Idle]

Goes(t, next) == req' = [req EXCEPT ![t] = next]

\* Reading the snapshot leaves everything as it is.
Open(t, request) ==
    /\ req[t].kind = "IDLE"
    /\ Goes(t, request)
    /\ UNCHANGED <<account, codes>>

-----------------------------------------------------------------------------
(* The account.                                                            *)

\* create_user: the username is not taken.
CreateUser(t, phone) ==
    /\ users = <<>>
    /\ Open(t, [kind |-> "CREATE", phone |-> phone])

\* update_user and deactivate_user, with the row as it was loaded.
UpdateUser(t, u, phone) == Open(t, [kind |-> "UPDATE", id |-> u, row |-> users[u],
                                    phone |-> phone, active |-> users[u].active])
DeactivateUser(t, u) == Open(t, [kind |-> "UPDATE", id |-> u, row |-> users[u],
                                 phone |-> users[u].phone, active |-> FALSE])

AssignRoles(t, u, new) ==
    /\ new \in Assignable
    /\ Open(t, [kind |-> "ASSIGN", id |-> u, seen |-> roles[u], new |-> new])

\* Mutated form of Deleted: the rows of the snapshot are deleted one by one.
DeletedSeen(u, seen) == roles[u] \cap seen

\* DELETE FROM user_roles WHERE user_id = u
Deleted(u, seen) == roles[u]

\* The DELETE waits while another one holds the roles of the user.
DeleteRoles(t) ==
    /\ req[t].kind = "ASSIGN"
    /\ \A o \in Thread : req[o].kind = "DELETED" => req[o].id # req[t].id
    /\ Goes(t, [kind |-> "DELETED", id |-> req[t].id, new |-> req[t].new,
                off |-> Deleted(req[t].id, req[t].seen)])
    /\ UNCHANGED <<account, codes>>

\* Mutated form of KeyClash: users.username is not unique.
NoKeyClash == FALSE

\* The unique key of users.username
KeyClash == users # <<>>

\* Mutated form of Merged: the row is written as the request has it.
MergedWhole(r) == [active |-> r.active, phone |-> r.phone]

\* The UPDATE sets the columns in which the object differs from the loaded row.
Merged(r) == [active |-> IF r.active # r.row.active THEN r.active ELSE users[r.id].active,
              phone  |-> IF r.phone # r.row.phone THEN r.phone ELSE users[r.id].phone]

Commit(t) ==
    LET r == req[t]
    IN  /\ \/ /\ r.kind = "CREATE" /\ ~KeyClash
              /\ users' = Append(users, [active |-> TRUE, phone |-> r.phone])
              /\ roles' = Append(roles, {Employee})
           \/ /\ r.kind = "UPDATE"
              /\ users' = [users EXCEPT ![r.id] = Merged(r)]
              /\ UNCHANGED roles
           \/ /\ r.kind = "DELETED"
              /\ roles' = [roles EXCEPT ![r.id] = (@ \ r.off) \cup r.new]
              /\ UNCHANGED users
        /\ Goes(t, Idle)
        /\ UNCHANGED codes

\* The request fails and its session is closed.
Rollback(t) ==
    /\ req[t].kind \notin {"IDLE", "ANSWERED"}
    /\ Goes(t, Idle)
    /\ UNCHANGED <<account, codes>>

-----------------------------------------------------------------------------
(* One-time passwords.                                                     *)

\* send_otp checks the account, and then stores a new code in its own process.
SendOtp(t, w) ==
    /\ \E u \in DOMAIN users : users[u].active /\ users[u].phone
    /\ Open(t, [kind |-> "SEND", worker |-> w])

StoreCode(t) ==
    /\ req[t].kind = "SEND" /\ sent < MaxCodes
    /\ sent' = sent + 1
    /\ store' = [store EXCEPT ![req[t].worker] = sent']
    /\ Goes(t, Idle)
    /\ UNCHANGED <<account, expired, spent>>

Active == \E u \in DOMAIN users : users[u].active

\* The code is the last one sent, valid, unused, and the account is active.
Good(c) == c = sent /\ c \notin expired \cup spent /\ Active

\* The answer to a verification.  good: it answers a good code.
Answers(t, tokens) ==
    LET r == req[t]
    IN  Goes(t, [kind |-> "ANSWERED", late |-> r.late, good |-> Good(r.code),
                 tokens |-> tokens])

\* verify_otp: _otp_store.get(username) in the worker that has the request.
\* late (history): the code was used before, or the account is inactive.
VerifyOtp(t, w, c) ==
    Open(t, [kind |-> "VERIFY", worker |-> w, code |-> c, got |-> store[w],
             late |-> c \in spent \/ ~Active])

Refuse(t) ==
    /\ req[t].kind = "VERIFY"
    /\ \/ req[t].got = NoCode
       \/ req[t].got \notin expired /\ req[t].got # req[t].code
    /\ Answers(t, FALSE)
    /\ UNCHANGED <<account, codes>>

\* The checks are passed, or the code is too old: it is dropped next.
Decided(r, kind) == [kind |-> kind, worker |-> r.worker, code |-> r.code, got |-> r.got,
                     late |-> r.late]

Decide(t, kind) ==
    /\ Goes(t, Decided(req[t], kind))
    /\ UNCHANGED <<account, codes>>

Check(t) ==
    /\ req[t].kind = "VERIFY" /\ req[t].got # NoCode
    /\ \/ req[t].got \in expired /\ Decide(t, "TOO_OLD")
       \/ req[t].got \notin expired /\ req[t].got = req[t].code /\ Decide(t, "MATCHED")

\* Mutated form of Dropped: the store keeps the code.
DroppedNever(w) == store

\* _otp_store.pop(username, None), whatever the store has now
Dropped(w) == [store EXCEPT ![w] = NoCode]

Drop(t) ==
    /\ \/ /\ req[t].kind = "TOO_OLD"
          /\ Answers(t, FALSE)
          /\ UNCHANGED spent
       \/ /\ req[t].kind = "MATCHED"
          /\ Goes(t, Decided(req[t], "DROPPED"))
          /\ spent' = spent \cup {req[t].code}
    /\ store' = Dropped(req[t].worker)
    /\ UNCHANGED <<account, sent, expired>>

\* The account is read last, in a fresh snapshot.
Finish(t) ==
    /\ req[t].kind = "DROPPED"
    /\ Answers(t, Active)
    /\ UNCHANGED <<account, codes>>

Leave(t) ==
    /\ req[t].kind = "ANSWERED"
    /\ Goes(t, Idle)
    /\ UNCHANGED <<account, codes>>

Expire(c) ==
    /\ c \notin expired
    /\ expired' = expired \cup {c}
    /\ UNCHANGED <<account, store, sent, spent, req>>

\* A worker is replaced: its codes are lost, and the logins it was handling.
Restart(w) ==
    /\ store[w] # NoCode
    /\ store' = [store EXCEPT ![w] = NoCode]
    /\ req' = [t \in Thread |->
                IF "worker" \in DOMAIN req[t] /\ req[t].worker = w THEN Idle ELSE req[t]]
    /\ UNCHANGED <<account, sent, expired, spent>>

Administer(t) ==
    \/ \E phone \in BOOLEAN : CreateUser(t, phone)
    \/ \E u \in DOMAIN users :
          \/ \E phone \in BOOLEAN : UpdateUser(t, u, phone)
          \/ DeactivateUser(t, u)
          \/ \E new \in SUBSET Role : AssignRoles(t, u, new)
    \/ DeleteRoles(t) \/ Commit(t) \/ Rollback(t)

LogIn(t) ==
    \/ \E w \in Worker : SendOtp(t, w)
    \/ StoreCode(t)
    \/ \E w \in Worker, c \in 1 .. sent : VerifyOtp(t, w, c)
    \/ Refuse(t) \/ Check(t) \/ Drop(t) \/ Finish(t) \/ Leave(t)

Next ==
    \/ \E t \in Thread : Administer(t) \/ LogIn(t)
    \/ \E c \in 1 .. sent : Expire(c)
    \/ \E w \in Worker : Restart(w)

Spec == Init /\ [][Next]_vars

-----------------------------------------------------------------------------
(* Properties.                                                             *)

\* Every variable has its type.
TypeOK ==
    /\ users \in Seq(User) /\ roles \in Seq(SUBSET Role) /\ Len(roles) = Len(users)
    /\ store \in [Worker -> Code \cup {NoCode}]
    /\ sent \in 0 .. MaxCodes /\ expired \subseteq 1 .. sent /\ spent \subseteq 1 .. sent
    /\ req \in [Thread -> Request]

\* No two accounts have one username, although create_user looks for it in a
\* snapshot: a second row would make every login of that name fail.
OneUserPerName == Len(users) <= 1

\* "Max 2 roles per user": the validator only bounds one assignment, and two at
\* once never add up.
AtMostTwoRoles == \A u \in DOMAIN roles : Cardinality(roles[u]) <= 2

\* Nothing activates an account again, in particular no update that was open
\* while the account was deactivated.
DeactivationHolds ==
    [][\A u \in DOMAIN users : ~users[u].active => ~users'[u].active]_vars

\* A verification that begins when its code has been used, or when the account
\* is deactivated, gets no tokens, whichever worker has it and whatever others do.
LateVerificationFails ==
    \A t \in Thread : req[t].kind = "ANSWERED" /\ req[t].late => ~req[t].tokens

\* An open request has a user to write, and an update never activates it.
UpdatesHold ==
    \A t \in Thread :
        LET r == req[t]
        IN  /\ r.kind \in {"UPDATE", "ASSIGN", "DELETED"} => r.id \in DOMAIN users
            /\ r.kind = "UPDATE" => (r.active => r.row.active)

\* After its DELETE a request has the roles of the user for itself, all of them.
RolesHeld ==
    \A t \in Thread : req[t].kind = "DELETED" =>
        /\ req[t].off = roles[req[t].id]
        /\ \A o \in Thread : req[o].kind = "DELETED" /\ req[o].id = req[t].id => o = t

\* A code was sent to somebody, one worker has it, and none once it was used.
StoresHold ==
    /\ sent # 0 => users # <<>>
    /\ \A w \in Worker : store[w] \in (0 .. sent) \ spent
    /\ \A v, w \in Worker : store[v] = store[w] /\ v # w => store[v] = NoCode

\* What a login knows of its code, and that a late one that passes the check does
\* so for an inactive account.
LoginsHold ==
    \A t \in Thread :
        LET r == req[t]
        IN  /\ r.kind = "SEND" => users # <<>>
            /\ r.kind \in {"VERIFY", "MATCHED", "DROPPED"} => r.code \in 1 .. sent
            /\ r.kind \in {"VERIFY", "MATCHED"} =>
                  /\ r.got \in 0 .. sent
                  /\ \A w \in Worker : w # r.worker /\ store[w] = r.got => r.got = NoCode
            /\ r.kind = "VERIFY" /\ r.late /\ r.got = r.code => ~Active
            /\ r.kind = "MATCHED" => r.got = r.code
            /\ r.kind \in {"MATCHED", "DROPPED"} /\ r.late => ~Active

\* The inductive invariant.
IInv == TypeOK /\ OneUserPerName /\ AtMostTwoRoles /\ UpdatesHold /\ RolesHeld
          /\ StoresHold /\ LoginsHold /\ LateVerificationFails

\* "System checks code exists, is not expired, and matches.  On success: tokens
\* are issued": the last code sent, still valid and unused, is accepted.
GoodCodeAccepted ==
    \A t \in Thread : req[t].kind = "ANSWERED" /\ req[t].good => req[t].tokens

=============================================================================
