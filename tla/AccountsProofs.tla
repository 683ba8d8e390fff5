---------------------------- MODULE AccountsProofs ----------------------------
(***************************************************************************)
(* For any number of requests, workers, roles and codes: a username has one*)
(* account, an account has two roles at most, a deactivation is never      *)
(* undone, and a used code or an inactive account gets no tokens.          *)
(***************************************************************************)
EXTENDS Accounts, TLAPS, FiniteSetTheorems

\* The kind of a request says what else it has.
LEMMA RequestKinds ==
    ASSUME NEW r \in Request
    PROVE  /\ r.kind = "CREATE" => r \in Creation
           /\ r.kind = "UPDATE" => r \in Update
           /\ r.kind = "ASSIGN" => r \in Assignment
           /\ r.kind = "DELETED" => r \in Deletion
           /\ r.kind = "SEND" => r \in Sending
           /\ r.kind \in {"VERIFY", "TOO_OLD", "MATCHED", "DROPPED"} => r \in Login
           /\ r.kind = "ANSWERED" => r \in Answer
  BY DEF Request, Idle, Creation, Update, Assignment, Deletion, Sending, Login, Answer

\* The role of a new account may be assigned.
LEMMA EmployeeAssignable == {Employee} \in Assignable
<1>1. IsFiniteSet({Employee}) /\ Cardinality({Employee}) = 1
  BY FS_Singleton
<1> QED
  BY <1>1, BoundAssumption DEF Assignable

LEMMA InitInv == Init => IInv
<1> SUFFICES ASSUME Init PROVE IInv
  OBVIOUS
<1>1. TypeOK
  BY BoundAssumption DEF Init, TypeOK, Request, NoCode
<1>2. OneUserPerName /\ AtMostTwoRoles
  BY DEF Init, OneUserPerName, AtMostTwoRoles
<1>3. UpdatesHold /\ RolesHeld /\ LoginsHold /\ LateVerificationFails
  BY DEF Init, Idle, UpdatesHold, RolesHeld, LoginsHold, LateVerificationFails
<1>4. StoresHold
  BY DEF Init, StoresHold, NoCode
<1> QED
  BY <1>1, <1>2, <1>3, <1>4 DEF IInv

-----------------------------------------------------------------------------
(* The parts of the invariant that speak of one request.                   *)

Fits(r) ==
    /\ r.kind \in {"UPDATE", "ASSIGN", "DELETED"} => r.id \in DOMAIN users
    /\ r.kind = "UPDATE" => (r.active => r.row.active)
    /\ r.kind = "SEND" => users # <<>>
    /\ r.kind \in {"VERIFY", "MATCHED", "DROPPED"} => r.code \in 1 .. sent
    /\ r.kind \in {"VERIFY", "MATCHED"} =>
          /\ r.got \in 0 .. sent
          /\ \A w \in Worker : w # r.worker /\ store[w] = r.got => r.got = NoCode
    /\ r.kind = "VERIFY" /\ r.late /\ r.got = r.code => ~Active
    /\ r.kind = "MATCHED" => r.got = r.code
    /\ r.kind \in {"MATCHED", "DROPPED"} /\ r.late => ~Active
    /\ r.kind = "ANSWERED" /\ r.late => ~r.tokens

LEMMA AllFit ==
    (UpdatesHold /\ LoginsHold /\ LateVerificationFails) <=> \A t \in Thread : Fits(req[t])
  BY DEF UpdatesHold, LoginsHold, LateVerificationFails, Fits

LEMMA AllFitNext ==
    (UpdatesHold /\ LoginsHold /\ LateVerificationFails)' <=> (\A t \in Thread : Fits(req[t]))'
  BY DEF UpdatesHold, LoginsHold, LateVerificationFails, Fits

\* A step that only changes one request.
LEMMA RequestInv ==
    ASSUME IInv, NEW t \in Thread, NEW r \in Request, Goes(t, r), UNCHANGED <<account, codes>>,
           Fits(r),
           r.kind = "DELETED" =>
              /\ r.off = roles[r.id]
              /\ \A o \in Thread \ {t} : req[o].kind = "DELETED" => req[o].id # r.id
    PROVE  IInv'
<1> USE DEF account, codes, Goes
<1>1. req' \in [Thread -> Request] /\ req'[t] = r /\ \A o \in Thread \ {t} : req'[o] = req[o]
  BY DEF IInv, TypeOK
<1>2. TypeOK' /\ OneUserPerName' /\ AtMostTwoRoles' /\ StoresHold'
  BY <1>1 DEF IInv, TypeOK, OneUserPerName, AtMostTwoRoles, StoresHold
<1>3. RolesHeld'
  BY <1>1 DEF IInv, RolesHeld
<1>4. (\A o \in Thread : Fits(req[o]))'
  <2>1. \A o \in Thread : Fits(req[o])
    BY AllFit DEF IInv
  <2>2. ASSUME NEW o \in Thread PROVE Fits(req[o])'
    BY <1>1, <2>1 DEF Fits, Active
  <2> QED
    BY <2>2
<1> QED
  BY <1>2, <1>3, <1>4, AllFitNext DEF IInv

\* The requests that change the account are opened.
LEMMA AdministerOpens ==
    ASSUME IInv, NEW t \in Thread,
           \/ \E phone \in BOOLEAN : CreateUser(t, phone)
           \/ \E u \in DOMAIN users :
                 \/ \E phone \in BOOLEAN : UpdateUser(t, u, phone)
                 \/ DeactivateUser(t, u)
                 \/ \E new \in SUBSET Role : AssignRoles(t, u, new)
    PROVE  IInv'
<1>1. ASSUME NEW phone \in BOOLEAN, CreateUser(t, phone) PROVE IInv'
  <2> DEFINE r == [kind |-> "CREATE", phone |-> phone]
  <2>1. r \in Request /\ Fits(r)
    BY DEF Request, Creation, Fits
  <2> QED
    BY <1>1, <2>1, RequestInv DEF CreateUser, Open
<1>2. ASSUME NEW u \in DOMAIN users, NEW row \in User, row = users[u],
             NEW phone \in BOOLEAN, NEW active \in BOOLEAN, active => row.active,
             Open(t, [kind |-> "UPDATE", id |-> u, row |-> row, phone |-> phone,
                      active |-> active])
      PROVE  IInv'
  <2> DEFINE r == [kind |-> "UPDATE", id |-> u, row |-> row, phone |-> phone,
                   active |-> active]
  <2>1. u \in Nat
    BY <1>2 DEF IInv, TypeOK
  <2>2. r \in Request /\ Fits(r)
    BY <1>2, <2>1 DEF Request, Update, Fits
  <2> QED
    BY <1>2, <2>2, RequestInv DEF Open
<1>3. ASSUME NEW u \in DOMAIN users
      PROVE  users[u] \in User /\ users[u].active \in BOOLEAN /\ users[u].phone \in BOOLEAN
  <2>1. users[u] \in User
    BY <1>3 DEF IInv, TypeOK
  <2> QED
    BY <2>1 DEF User
<1>4. ASSUME NEW u \in DOMAIN users, NEW phone \in BOOLEAN, UpdateUser(t, u, phone)
      PROVE  IInv'
  BY <1>2, <1>3, <1>4 DEF UpdateUser
<1>5. ASSUME NEW u \in DOMAIN users, DeactivateUser(t, u) PROVE IInv'
  BY <1>2, <1>3, <1>5 DEF DeactivateUser
<1>6. ASSUME NEW u \in DOMAIN users, NEW new \in SUBSET Role, AssignRoles(t, u, new)
      PROVE  IInv'
  <2> DEFINE r == [kind |-> "ASSIGN", id |-> u, seen |-> roles[u], new |-> new]
  <2>1. u \in Nat /\ roles[u] \in SUBSET Role
    BY <1>6 DEF IInv, TypeOK
  <2>2. r \in Request /\ Fits(r)
    BY <1>6, <2>1 DEF AssignRoles, Request, Assignment, Fits
  <2> QED
    BY <1>6, <2>2, RequestInv DEF AssignRoles, Open
<1> QED
  BY <1>1, <1>4, <1>5, <1>6

LEMMA DeleteRolesInv ==
    ASSUME IInv, NEW t \in Thread, DeleteRoles(t)
    PROVE  IInv'
<1> DEFINE q == req[t]
           r == [kind |-> "DELETED", id |-> q.id, new |-> q.new, off |-> roles[q.id]]
<1>1. q \in Request /\ q \in Assignment /\ Fits(q)
  BY RequestKinds, AllFit DEF IInv, TypeOK, DeleteRoles
<1>2. q.id \in DOMAIN users /\ roles[q.id] \in SUBSET Role
  BY <1>1 DEF IInv, TypeOK, Fits, DeleteRoles
<1>3. r \in Request /\ Fits(r)
  BY <1>1, <1>2 DEF Request, Assignment, Deletion, Fits
<1>4. Goes(t, r) /\ \A o \in Thread \ {t} : req[o].kind = "DELETED" => req[o].id # r.id
  BY DEF DeleteRoles, Deleted
<1> QED
  BY <1>3, <1>4, RequestInv DEF DeleteRoles

LEMMA IdleFits == Idle \in Request /\ Fits(Idle) /\ Idle.kind = "IDLE"
  BY DEF Idle, Request, Fits

\* A request fails, or its answer has been sent.
LEMMA EndInv ==
    ASSUME IInv, NEW t \in Thread, Rollback(t) \/ Leave(t)
    PROVE  IInv'
  BY IdleFits, RequestInv DEF Rollback, Leave

\* The steps of a login that leave the store alone.
LEMMA LoginInv ==
    ASSUME IInv, NEW t \in Thread,
           \/ \E w \in Worker : SendOtp(t, w)
           \/ \E w \in Worker, c \in 1 .. sent : VerifyOtp(t, w, c)
           \/ Refuse(t) \/ Check(t) \/ Finish(t)
    PROVE  IInv'
<1> DEFINE q == req[t]
<1>1. q \in Request /\ Fits(q) /\ (q.kind \in {"VERIFY", "DROPPED"} => q \in Login)
  BY RequestKinds, AllFit DEF IInv, TypeOK
<1>2. ASSUME NEW w \in Worker, SendOtp(t, w) PROVE IInv'
  <2> DEFINE r == [kind |-> "SEND", worker |-> w]
  <2>1. r \in Request
    BY DEF Request, Sending
  <2>2. Fits(r)
    BY <1>2 DEF Fits, SendOtp
  <2> QED
    BY <1>2, <2>1, <2>2, RequestInv DEF SendOtp, Open
<1>3. ASSUME NEW w \in Worker, NEW c \in 1 .. sent, VerifyOtp(t, w, c) PROVE IInv'
  <2> DEFINE r == [kind |-> "VERIFY", worker |-> w, code |-> c, got |-> store[w],
                   late |-> c \in spent \/ ~Active]
  <2>1. r \in Request
    <3>1. c \in Code /\ store[w] \in Code \cup {NoCode}
      BY BoundAssumption DEF IInv, TypeOK, Code
    <3> QED
      BY <3>1 DEF Request, Login
  <2>2. Fits(r)
    BY DEF Fits, IInv, StoresHold
  <2> QED
    BY <1>3, <2>1, <2>2, RequestInv DEF VerifyOtp, Open
<1>4. ASSUME NEW tokens \in BOOLEAN, Answers(t, tokens), q \in Login,
             UNCHANGED <<account, codes>>, q.late => ~tokens
      PROVE  IInv'
  <2> DEFINE r == [kind |-> "ANSWERED", late |-> q.late, good |-> Good(q.code),
                   tokens |-> tokens]
  <2>1. r \in Request
    BY <1>4 DEF Request, Login, Answer, Good
  <2>2. Fits(r)
    BY <1>4 DEF Fits
  <2> QED
    BY <1>4, <2>1, <2>2, RequestInv DEF Answers
<1>5. ASSUME Refuse(t) PROVE IInv'
  BY <1>1, <1>4, <1>5 DEF Refuse
<1>6. ASSUME NEW kind \in {"TOO_OLD", "MATCHED"}, Decide(t, kind), q.kind = "VERIFY",
             kind = "MATCHED" => q.got = q.code
      PROVE  IInv'
  <2>1. Decided(q, kind) \in Request
    BY <1>1, <1>6 DEF Request, Login, Decided
  <2>2. Fits(Decided(q, kind))
    BY <1>1, <1>6 DEF Fits, Decided
  <2> QED
    BY <1>6, <2>1, <2>2, RequestInv DEF Decide, Decided
<1>7. ASSUME Check(t) PROVE IInv'
  BY <1>6, <1>7 DEF Check
<1>8. ASSUME Finish(t) PROVE IInv'
  <2>1. Active \in BOOLEAN /\ (q.late => ~Active)
    BY <1>1, <1>8 DEF Fits, Finish, Active
  <2> QED
    BY <1>1, <1>4, <1>8, <2>1 DEF Finish
<1> QED
  BY <1>2, <1>3, <1>5, <1>7, <1>8

-----------------------------------------------------------------------------
(* The commit.  A step that keeps the accounts that there are, activates   *)
(* none and ends the request t keeps what the others know.                 *)

Keeps ==
    /\ users' \in Seq(User) /\ roles' \in Seq(SUBSET Role) /\ Len(roles') = Len(users')
    /\ Len(users') <= 1
    /\ DOMAIN users \subseteq DOMAIN users'
    /\ \A u \in DOMAIN users : users'[u].active => users[u].active

LEMMA ActiveStays ==
    ASSUME IInv, Keeps, users # <<>>, ~Active
    PROVE  users' # <<>> /\ ~Active'
<1>1. DOMAIN users = 1 .. Len(users) /\ DOMAIN users' = 1 .. Len(users') /\ Len(users) # 0
  BY DEF IInv, TypeOK, Keeps
<1>2. Len(users) \in Nat /\ Len(users') \in Nat /\ Len(users) <= 1 /\ Len(users') <= 1
  BY DEF IInv, TypeOK, OneUserPerName, Keeps
<1>3. DOMAIN users' = DOMAIN users
  BY <1>1, <1>2 DEF Keeps
<1> QED
  BY <1>1, <1>3 DEF Active, Keeps

LEMMA KeptFit ==
    ASSUME IInv, Keeps, UNCHANGED codes, NEW r \in Request, Fits(r)
    PROVE  Fits(r)'
<1>1. users # <<>> => users' # <<>>
  BY DEF IInv, TypeOK, Keeps
<1>2. r.kind \in {"VERIFY", "MATCHED", "DROPPED"} => users # <<>>
  BY DEF Fits, IInv, StoresHold, TypeOK
<1> QED
  BY <1>1, <1>2, ActiveStays DEF Fits, Keeps, codes

LEMMA CommitInv ==
    ASSUME IInv, NEW t \in Thread, Commit(t)
    PROVE  IInv' /\ Keeps
<1> DEFINE r == req[t]
<1>1. /\ req' \in [Thread -> Request] /\ req'[t] = Idle
      /\ \A o \in Thread \ {t} : req'[o] = req[o]
  BY IdleFits DEF IInv, TypeOK, Commit, Goes
<1>2. r \in Request /\ Fits(r)
  BY AllFit DEF IInv, TypeOK
<1>3. UNCHANGED codes
  BY DEF Commit
<1>4. ASSUME Keeps, AtMostTwoRoles', RolesHeld' PROVE IInv' /\ Keeps
  <2>1. TypeOK' /\ OneUserPerName'
    BY <1>1, <1>3, <1>4 DEF IInv, TypeOK, OneUserPerName, Keeps, codes
  <2>2. StoresHold'
    <3>1. users # <<>> => users' # <<>>
      BY <1>4 DEF IInv, TypeOK, Keeps
    <3> QED
      BY <1>3, <3>1 DEF IInv, StoresHold, codes
  <2>3. ASSUME NEW o \in Thread PROVE Fits(req[o])'
    <3>1. CASE o = t
      BY <1>1, <3>1, IdleFits DEF Fits, Idle
    <3>2. CASE o # t
      <4>1. req[o] \in Request /\ Fits(req[o]) /\ req'[o] = req[o]
        BY <1>1, <3>2, AllFit DEF IInv, TypeOK
      <4>2. Fits(req[o])' <=> \E q \in {req[o]} : Fits(q)'
        BY <4>1 DEF Fits, Active
      <4> QED
        BY <1>3, <1>4, <4>1, <4>2, KeptFit
    <3> QED
      BY <3>1, <3>2
  <2> QED
    BY <1>4, <2>1, <2>2, <2>3, AllFitNext DEF IInv
<1>5. ASSUME r.kind = "CREATE", ~KeyClash,
             users' = Append(users, [active |-> TRUE, phone |-> r.phone]),
             roles' = Append(roles, {Employee})
      PROVE  IInv' /\ Keeps
  <2>1. users = <<>> /\ Len(roles) = 0 /\ roles = <<>>
    BY <1>5 DEF KeyClash, IInv, TypeOK
  <2>2. [active |-> TRUE, phone |-> r.phone] \in User
    BY <1>2, <1>5, RequestKinds DEF Creation, User
  <2>3. /\ users' \in Seq(User) /\ Len(users') = 1 /\ DOMAIN users = {}
        /\ roles' \in Seq(SUBSET Role) /\ Len(roles') = 1 /\ roles'[1] = {Employee}
        /\ DOMAIN roles' = {1}
    BY <1>5, <2>1, <2>2, BoundAssumption
  <2>4. Keeps
    BY <2>3 DEF Keeps
  <2>5. AtMostTwoRoles'
    BY <2>3, EmployeeAssignable DEF AtMostTwoRoles, Assignable
  <2>6. RolesHeld'
    <3>1. ASSUME NEW o \in Thread, req'[o].kind = "DELETED" PROVE FALSE
      <4>1. o # t /\ req'[o] = req[o] /\ Fits(req[o])
        BY <1>1, <3>1, IdleFits, AllFit DEF IInv
      <4> QED
        BY <2>3, <3>1, <4>1 DEF Fits
    <3> QED
      BY <3>1 DEF RolesHeld
  <2> QED
    BY <1>4, <2>4, <2>5, <2>6
<1>6. ASSUME r.kind = "UPDATE", users' = [users EXCEPT ![r.id] = Merged(r)], UNCHANGED roles
      PROVE  IInv' /\ Keeps
  <2>1. r \in Update /\ r.id \in DOMAIN users /\ users[r.id] \in User
        /\ (r.active => r.row.active)
    BY <1>2, <1>6, RequestKinds DEF Fits, IInv, TypeOK
  <2>2. Merged(r) \in User /\ (Merged(r).active => users[r.id].active)
    BY <2>1 DEF Merged, Update, User
  <2>3. users' \in Seq(User) /\ Len(users') = Len(users) /\ DOMAIN users' = DOMAIN users
    BY <1>6, <2>1, <2>2 DEF IInv, TypeOK
  <2>4. Keeps
    BY <1>6, <2>2, <2>3 DEF Keeps, IInv, TypeOK, OneUserPerName
  <2>5. AtMostTwoRoles' /\ RolesHeld'
    BY <1>1, <1>6, IdleFits DEF IInv, AtMostTwoRoles, RolesHeld
  <2> QED
    BY <1>4, <2>4, <2>5
<1>7. ASSUME r.kind = "DELETED", UNCHANGED users,
             roles' = [roles EXCEPT ![r.id] = (@ \ r.off) \cup r.new]
      PROVE  IInv' /\ Keeps
  <2>1. /\ r \in Deletion /\ r.id \in DOMAIN users /\ r.off = roles[r.id]
        /\ DOMAIN roles = DOMAIN users
    BY <1>2, <1>7, RequestKinds DEF Fits, IInv, TypeOK, RolesHeld
  <2>2. /\ roles' = [roles EXCEPT ![r.id] = r.new]
        /\ r.new \in SUBSET Role /\ Cardinality(r.new) <= 2
    BY <1>7, <2>1 DEF Deletion, Assignable
  <2>3. /\ roles' \in Seq(SUBSET Role) /\ Len(roles') = Len(roles)
        /\ DOMAIN roles' = DOMAIN roles /\ roles'[r.id] = r.new
        /\ \A u \in DOMAIN roles \ {r.id} : roles'[u] = roles[u]
    BY <2>1, <2>2 DEF IInv, TypeOK
  <2>4. Keeps
    BY <1>7, <2>3 DEF Keeps, IInv, TypeOK, OneUserPerName
  <2>5. AtMostTwoRoles'
    BY <2>2, <2>3 DEF IInv, AtMostTwoRoles
  <2>6. RolesHeld'
    <3>1. ASSUME NEW o \in Thread, req'[o].kind = "DELETED"
          PROVE  o # t /\ req'[o] = req[o] /\ req[o].id \in DOMAIN roles \ {r.id}
      <4>1. o # t /\ req'[o] = req[o] /\ Fits(req[o])
        BY <1>1, <3>1, IdleFits, AllFit DEF IInv
      <4> QED
        BY <1>7, <2>1, <3>1, <4>1 DEF Fits, IInv, RolesHeld
    <3> QED
      BY <2>3, <3>1 DEF IInv, RolesHeld
  <2> QED
    BY <1>4, <2>4, <2>5, <2>6
<1> QED
  BY <1>5, <1>6, <1>7 DEF Commit

-----------------------------------------------------------------------------
(* The codes.                                                              *)

LEMMA StoreCodeInv ==
    ASSUME IInv, NEW t \in Thread, StoreCode(t)
    PROVE  IInv'
<1> DEFINE w == req[t].worker
<1>1. /\ req' \in [Thread -> Request] /\ req'[t] = Idle
      /\ \A o \in Thread \ {t} : req'[o] = req[o]
  BY IdleFits DEF IInv, TypeOK, StoreCode, Goes
<1>2. req[t] \in Sending /\ Fits(req[t]) /\ users # <<>> /\ w \in Worker
  BY RequestKinds, AllFit DEF IInv, TypeOK, StoreCode, Fits, Sending
<1>3. sent' = sent + 1 /\ sent \in Nat /\ sent' \in 1 .. MaxCodes
  BY BoundAssumption DEF IInv, TypeOK, StoreCode
<1>4. /\ store'[w] = sent' /\ \A v \in Worker \ {w} : store'[v] = store[v]
      /\ store' \in [Worker -> Code \cup {NoCode}]
  BY <1>2, <1>3 DEF IInv, TypeOK, StoreCode, Code
<1>5. users' = users /\ roles' = roles /\ expired' = expired /\ spent' = spent
  BY DEF StoreCode, account
<1>6. spent \subseteq 1 .. sent /\ \A v \in Worker : store[v] \in (0 .. sent) \ spent
  BY DEF IInv, TypeOK, StoresHold
<1>7. TypeOK' /\ OneUserPerName' /\ AtMostTwoRoles'
  BY <1>1, <1>3, <1>4, <1>5 DEF IInv, TypeOK, OneUserPerName, AtMostTwoRoles
<1>8. RolesHeld'
  BY <1>1, <1>5, IdleFits DEF IInv, RolesHeld
<1>9. StoresHold'
  <2>1. \A v \in Worker : store'[v] \in (0 .. sent') \ spent'
    BY <1>3, <1>4, <1>5, <1>6
  <2>2. \A u, v \in Worker : store'[u] = store'[v] /\ u # v => store'[u] = NoCode
    <3>1. \A v \in Worker \ {w} : store'[v] # sent'
      BY <1>3, <1>4, <1>6
    <3> QED
      BY <1>4, <3>1 DEF IInv, StoresHold
  <2> QED
    BY <1>2, <1>5, <2>1, <2>2 DEF StoresHold
<1>10. ASSUME NEW o \in Thread PROVE Fits(req[o])'
  <2>1. CASE o = t
    BY <1>1, <2>1, IdleFits DEF Fits, Idle
  <2>2. CASE o # t
    <3>1. Fits(req[o]) /\ req'[o] = req[o]
      BY <1>1, <2>2, AllFit DEF IInv
    <3>2. req[o].kind \in {"VERIFY", "MATCHED", "DROPPED"} => req[o].code \in 1 .. sent'
      BY <1>3, <3>1 DEF Fits
    <3>3. req[o].kind \in {"VERIFY", "MATCHED"} =>
             /\ req[o].got \in 0 .. sent'
             /\ \A v \in Worker : v # req[o].worker /\ store'[v] = req[o].got
                                    => req[o].got = NoCode
      BY <1>3, <1>4, <3>1 DEF Fits
    <3> QED
      BY <1>5, <3>1, <3>2, <3>3 DEF Fits, Active
  <2> QED
    BY <2>1, <2>2
<1> QED
  BY <1>7, <1>8, <1>9, <1>10, AllFitNext DEF IInv

LEMMA RestartInv ==
    ASSUME IInv, NEW w \in Worker, Restart(w)
    PROVE  IInv'
<1>1. \A o \in Thread : req'[o] = req[o] \/ req'[o] = Idle
  BY DEF Restart
<1>2. /\ users' = users /\ roles' = roles /\ sent' = sent /\ expired' = expired
      /\ spent' = spent /\ store' = [store EXCEPT ![w] = NoCode]
  BY DEF Restart, account
<1>3. req' \in [Thread -> Request]
  BY <1>1, IdleFits DEF IInv, TypeOK, Restart
<1>4. TypeOK' /\ OneUserPerName' /\ AtMostTwoRoles'
  BY <1>2, <1>3 DEF IInv, TypeOK, OneUserPerName, AtMostTwoRoles
<1>5. RolesHeld'
  BY <1>1, <1>2, IdleFits DEF IInv, RolesHeld
<1>6. StoresHold'
  BY <1>2 DEF IInv, TypeOK, StoresHold, NoCode
<1>7. ASSUME NEW o \in Thread PROVE Fits(req[o])'
  <2>1. Fits(req'[o])
    BY <1>1, IdleFits, AllFit DEF IInv
  <2>2. store \in [Worker -> Code \cup {NoCode}]
    BY DEF IInv, TypeOK
  <2> QED
    BY <1>2, <2>1, <2>2 DEF Fits, Active
<1> QED
  BY <1>4, <1>5, <1>6, <1>7, AllFitNext DEF IInv

LEMMA ExpireInv ==
    ASSUME IInv, NEW c \in 1 .. sent, Expire(c)
    PROVE  IInv'
<1>1. TypeOK' /\ OneUserPerName' /\ AtMostTwoRoles' /\ RolesHeld' /\ StoresHold'
  BY DEF Expire, account, IInv, TypeOK, OneUserPerName, AtMostTwoRoles, RolesHeld, StoresHold
<1>2. UpdatesHold' /\ LoginsHold' /\ LateVerificationFails'
  BY DEF Expire, account, IInv, UpdatesHold, LoginsHold, LateVerificationFails, Active
<1> QED
  BY <1>1, <1>2 DEF IInv

LEMMA DropInv ==
    ASSUME IInv, NEW t \in Thread, Drop(t)
    PROVE  IInv'
<1> DEFINE q == req[t]
<1>1. q \in Login /\ Fits(q) /\ q.worker \in Worker /\ q.kind \in {"TOO_OLD", "MATCHED"}
  <2>1. q \in Request /\ Fits(q)
    BY AllFit DEF IInv, TypeOK
  <2>2. q.kind \in {"TOO_OLD", "MATCHED"}
    BY DEF Drop
  <2>3. q \in Login
    BY <2>1, <2>2, RequestKinds
  <2> QED
    BY <2>1, <2>2, <2>3 DEF Login
<1>2. /\ users' = users /\ roles' = roles /\ sent' = sent /\ expired' = expired
      /\ store' = [store EXCEPT ![q.worker] = NoCode]
  BY DEF Drop, Dropped, account
<1>3. ASSUME NEW r \in Request, Goes(t, r), Fits(r), r.kind # "DELETED",
             spent' \subseteq 1 .. sent,
             \A v \in Worker \ {q.worker} : store[v] # NoCode => store[v] \notin spent',
             NoCode \notin spent'
      PROVE  IInv'
  <2>1. /\ req' \in [Thread -> Request] /\ req'[t] = r
        /\ \A o \in Thread \ {t} : req'[o] = req[o]
    BY <1>3 DEF IInv, TypeOK, Goes
  <2>2. TypeOK' /\ OneUserPerName' /\ AtMostTwoRoles'
    BY <1>1, <1>2, <1>3, <2>1 DEF IInv, TypeOK, OneUserPerName, AtMostTwoRoles
  <2>3. RolesHeld'
    BY <1>2, <1>3, <2>1 DEF IInv, RolesHeld
  <2>4. StoresHold'
    BY <1>1, <1>2, <1>3 DEF IInv, TypeOK, StoresHold, NoCode
  <2>5. ASSUME NEW o \in Thread PROVE Fits(req[o])'
    <3>1. Fits(req'[o])
      BY <1>3, <2>1, AllFit DEF IInv
    <3>2. store \in [Worker -> Code \cup {NoCode}]
      BY DEF IInv, TypeOK
    <3> QED
      BY <1>1, <1>2, <3>1, <3>2 DEF Fits, Active
  <2> QED
    BY <2>2, <2>3, <2>4, <2>5, AllFitNext DEF IInv
<1>4. spent \subseteq 1 .. sent /\ \A v \in Worker : store[v] \notin spent
  BY DEF IInv, TypeOK, StoresHold
<1>5. ASSUME q.kind = "TOO_OLD", Answers(t, FALSE), UNCHANGED spent PROVE IInv'
  <2> DEFINE r == [kind |-> "ANSWERED", late |-> q.late, good |-> Good(q.code),
                   tokens |-> FALSE]
  <2>1. r \in Request /\ Fits(r)
    BY <1>1 DEF Request, Login, Answer, Good, Fits
  <2> QED
    BY <1>3, <1>4, <1>5, <2>1 DEF Answers, NoCode
<1>6. ASSUME q.kind = "MATCHED", Goes(t, Decided(q, "DROPPED")),
             spent' = spent \cup {q.code}
      PROVE  IInv'
  <2> DEFINE r == Decided(q, "DROPPED")
  <2>1. r \in Request /\ Fits(r) /\ r.kind # "DELETED"
    BY <1>1, <1>6 DEF Request, Login, Decided, Fits
  <2>2. q.code \in 1 .. sent /\ q.got = q.code
    BY <1>1, <1>6 DEF Fits
  <2>3. \A v \in Worker \ {q.worker} : store[v] # q.code
    BY <1>1, <1>6, <2>2 DEF Fits, NoCode
  <2>4. /\ spent' \subseteq 1 .. sent /\ NoCode \notin spent'
        /\ \A v \in Worker \ {q.worker} : store[v] # NoCode => store[v] \notin spent'
    BY <1>4, <1>6, <2>2, <2>3 DEF NoCode
  <2> QED
    BY <1>3, <1>6, <2>1, <2>4
<1> QED
  BY <1>5, <1>6 DEF Drop

-----------------------------------------------------------------------------
(* The theorems.                                                           *)

LEMMA NextInv == IInv /\ [Next]_vars => IInv'
<1> SUFFICES ASSUME IInv, [Next]_vars PROVE IInv'
  OBVIOUS
<1>1. ASSUME NEW t \in Thread, Administer(t) PROVE IInv'
  BY <1>1, AdministerOpens, DeleteRolesInv, CommitInv, EndInv DEF Administer
<1>2. ASSUME NEW t \in Thread, LogIn(t) PROVE IInv'
  BY <1>2, LoginInv, StoreCodeInv, DropInv, EndInv DEF LogIn
<1>3. CASE UNCHANGED vars
  BY <1>3 DEF vars, account, codes, IInv, TypeOK, OneUserPerName, AtMostTwoRoles, UpdatesHold,
     RolesHeld, StoresHold, LoginsHold, LateVerificationFails, Active
<1> QED
  BY <1>1, <1>2, <1>3, ExpireInv, RestartInv DEF Next

\* Whatever requests, workers, expiries and restarts do, every open update fits
\* the account it was read from, codes are stored unspent, and the properties
\* below hold with it.
THEOREM Invariance == Spec => []IInv
  BY InitInv, NextInv, PTL DEF Spec

\* create_user looks for the name in a snapshot, and the unique key does the rest:
\* no two accounts have one username.
THEOREM UniqueNames == Spec => []OneUserPerName
<1>1. IInv => OneUserPerName
  BY DEF IInv
<1> QED
  BY <1>1, Invariance, PTL

\* assign_roles checks a single request, and its DELETE takes the roles of the
\* user for itself: nobody has more than two roles.
THEOREM TwoRoles == Spec => []AtMostTwoRoles
<1>1. IInv => AtMostTwoRoles
  BY DEF IInv
<1> QED
  BY <1>1, Invariance, PTL

\* verify_otp: whatever the workers do, a used code or an inactive account gets
\* no tokens.
THEOREM NoLateLogins == Spec => []LateVerificationFails
<1>1. IInv => LateVerificationFails
  BY DEF IInv
<1> QED
  BY <1>1, Invariance, PTL

\* deactivate_user: no update that was open meanwhile activates the account again.
THEOREM StaysDeactivated == Spec => DeactivationHolds
<1> DEFINE Holds == \A u \in DOMAIN users : ~users[u].active => ~users'[u].active
<1>1. IInv /\ [Next]_vars => [Holds]_vars
  <2> SUFFICES ASSUME IInv, Next PROVE Holds
    BY DEF Holds, vars, account
  <2>1. CASE \E t \in Thread : Commit(t)
    BY <2>1, CommitInv DEF Keeps
  <2>2. CASE users' = users
    BY <2>2
  <2>3. (\E t \in Thread : Commit(t)) \/ users' = users
    BY DEF Next, Administer, LogIn, CreateUser, UpdateUser, DeactivateUser, AssignRoles,
       SendOtp, VerifyOtp, Open, DeleteRoles, Rollback, StoreCode, Refuse, Check, Decide,
       Drop, Finish, Leave, Expire, Restart, account
  <2> QED
    BY <2>1, <2>2, <2>3
<1> QED
  BY <1>1, Invariance, PTL DEF Spec, DeactivationHolds, Holds

=============================================================================
