--------------------------- MODULE AccountsProofs ---------------------------
(***************************************************************************)
(* Proofs about accounts, sessions and the login limiter. The invariant    *)
(* gives each table and each request in flight its type, with what a       *)
(* request has read when it comes to a statement that needs it. The frame  *)
(* lemmas say which steps touch a table at all; each promise then needs    *)
(* only these.                                                             *)
(***************************************************************************)
EXTENDS Accounts, TLAPS, FiniteSetTheorems

LimiterInv == LimiterTypeOK /\ \A k \in Key : IsFiniteSet(attempts[k])

\* The rows the table of users can hold.
Account == {x \in UserRow : x.role = "none" <=> x.pw = NoPassword}

\* The rows the table of sessions can hold.
Session == {x \in SessionRow : x.state = "valid" <=> x.pw # NoPassword}

\* A login that has checked a password holds it, and an update the role.
Carries(x) == /\ x.pc \in {"count", "write"} => x.role \in Role
              /\ x.pc \in {"reset", "reset_ip", "rehash", "open"} => x.pw \in Password
              /\ x.pc = "rehash" => x.legacy
InFlight == {x \in RequestT : Carries(x)}

AccountsInv == /\ LimiterInv
               /\ up \in BOOLEAN
               /\ users \in [User -> Account]
               /\ sessions \in [Token -> Session]
               /\ req \in [Request -> InFlight]
               /\ ~up => req = [r \in Request |-> Idle]

LEMMA InvType == AccountsInv => AccountsTypeOK
  BY DEF AccountsInv, AccountsTypeOK, LimiterInv, Account, Session, InFlight

-----------------------------------------------------------------------------
(* The limiter *)

\* What the requests and the timers do with the limiter.
LimiterNext == \/ \E k \in Key : Admit(k) \/ Refuse(k)
               \/ \E r \in Request : At(r, "reset") /\ Reset(req[r].user)
               \/ \E r \in Request : At(r, "reset_ip") /\ Reset(Ip)
               \/ NewLimiter /\ up /\ ~up'
               \/ Evict
               \/ LimiterTick
               \/ UNCHANGED attempts

LEMMA LimiterFrame ==
  ASSUME AccountsInv, [AccountsNext]_accountsVars
  PROVE  LimiterNext
  <1>1. ASSUME NEW r \in Request, Login(r) PROVE LimiterNext
    <2>1. CASE BeginLogin(r)
      BY <2>1, AccountsAssumption DEF BeginLogin, LimiterNext
    <2>2. CASE LimitUser(r)
      <3>1. req[r].user \in Key
        BY AccountsAssumption DEF AccountsInv, InFlight, RequestT
      <3> QED
        BY <2>2, <3>1 DEF LimitUser, LimiterNext
    <2>3. CASE ResetUser(r) \/ ResetIp(r)
      BY <2>3 DEF ResetUser, ResetIp, LimiterNext
    <2>4. CASE UNCHANGED attempts
      BY <2>4 DEF LimiterNext
    <2> QED
      BY <1>1, <2>1, <2>2, <2>3, <2>4 DEF Login, Lookup, Verify, Rehash, Open, OpenFails
  <1>2. ASSUME NEW r \in Request, Check(r) \/ Administer(r) PROVE UNCHANGED attempts
    BY <1>2 DEF Check, Administer, Present, CheckAccount, DropOrphan, PresentKey, CreateUser,
       BeginUpdate, CountOthers, WriteUser, BeginDelete, DeleteUser, DropSessions,
       StatementFails
  <1>3. ASSUME NEW t \in Token, Logout(t) PROVE UNCHANGED attempts
    BY <1>3 DEF Logout
  <1>4. ASSUME Timers PROVE LimiterNext
    BY <1>4 DEF Timers, CleanExpired, LimiterNext
  <1>5. CASE ProcessEnds
    BY <1>5 DEF ProcessEnds, LimiterNext
  <1>7. ASSUME \/ \E pw \in Password : ProcessStarts(pw)
               \/ \E t \in Token : Expire(t)
        PROVE  UNCHANGED attempts
    BY <1>7 DEF ProcessStarts, Expire
  <1>6. CASE UNCHANGED accountsVars
    BY <1>6 DEF accountsVars, LimiterNext
  <1> QED
    BY <1>1, <1>2, <1>3, <1>4, <1>5, <1>6, <1>7, Zenon DEF AccountsNext, LimiterNext

LEMMA RecentFinite ==
  ASSUME NEW S \in SUBSET Attempt, IsFiniteSet(S)
  PROVE  Recent(S) \in SUBSET Attempt /\ IsFiniteSet(Recent(S))
  BY FS_Subset DEF Recent

\* Time makes the attempts older and no more.
Aged(S) == {[a EXCEPT !.age = IF @ < Window THEN @ + 1 ELSE @] : a \in S}

LEMMA AgedFinite ==
  ASSUME NEW S \in SUBSET Attempt, IsFiniteSet(S)
  PROVE  Aged(S) \in SUBSET Attempt /\ IsFiniteSet(Aged(S))
  <1> DEFINE older == [a \in S |-> [a EXCEPT !.age = IF @ < Window THEN @ + 1 ELSE @]]
  <1>1. Aged(S) \in SUBSET Attempt
    BY LimiterAssumption DEF Aged, Attempt
  <1>2. older \in Surjection(S, Aged(S))
    BY DEF Aged, Surjection
  <1> QED
    BY <1>1, <1>2, FS_Surjection

\* What an admission leaves of the attempts with a key.
WithNewest(R) == R \cup {[age |-> 0, nth |-> Cardinality({a \in R : a.age = 0}) + 1]}

LEMMA WithNewestFinite ==
  ASSUME NEW R \in SUBSET Attempt, IsFiniteSet(R)
  PROVE  WithNewest(R) \in SUBSET Attempt /\ IsFiniteSet(WithNewest(R))
  <1>1. IsFiniteSet({a \in R : a.age = 0})
    BY FS_Subset
  <1>2. Cardinality({a \in R : a.age = 0}) \in Nat
    BY <1>1, FS_CardinalityType
  <1>3. IsFiniteSet(WithNewest(R))
    BY FS_AddElement DEF WithNewest
  <1> QED
    BY <1>2, <1>3, LimiterAssumption DEF WithNewest, Attempt

LEMMA LimiterStep ==
  ASSUME AccountsInv, LimiterNext
  PROVE  LimiterInv'
  <1> USE DEF AccountsInv, LimiterInv, LimiterTypeOK
  <1>1. ASSUME NEW k \in Key, Admit(k) PROVE LimiterInv'
    <2> DEFINE R == Recent(attempts[k])
    <2>1. R \in SUBSET Attempt /\ IsFiniteSet(R)
      BY RecentFinite
    <2>2. WithNewest(R) \in SUBSET Attempt /\ IsFiniteSet(WithNewest(R))
      BY <2>1, WithNewestFinite
    <2>3. attempts' = [attempts EXCEPT ![k] = WithNewest(R)]
      BY <1>1 DEF Admit, Record, WithNewest
    <2> HIDE DEF R
    <2> QED
      BY <2>2, <2>3
  <1>2. ASSUME NEW k \in Key, Refuse(k) PROVE LimiterInv'
    <2>1. Recent(attempts[k]) \in SUBSET Attempt /\ IsFiniteSet(Recent(attempts[k]))
      BY RecentFinite
    <2> QED
      BY <1>2, <2>1 DEF Refuse
  <1>3. ASSUME NEW k \in Key, Reset(k) PROVE LimiterInv'
    BY <1>3, FS_EmptySet DEF Reset
  <1>7. CASE NewLimiter
    BY <1>7, FS_EmptySet DEF NewLimiter
  <1>8. Ip \in Key /\ \A r \in Request : req[r].user \in Key
    BY AccountsAssumption DEF InFlight, RequestT
  <1>4. CASE Evict
    BY <1>4, FS_EmptySet DEF Evict
  <1>5. CASE LimiterTick
    <2>1. \A k \in Key : Aged(attempts[k]) \in SUBSET Attempt /\ IsFiniteSet(Aged(attempts[k]))
      BY AgedFinite
    <2>2. attempts' = [k \in Key |-> Aged(attempts[k])]
      BY <1>5 DEF LimiterTick, Aged
    <2> QED
      BY <2>1, <2>2
  <1>6. CASE UNCHANGED attempts
    BY <1>6
  <1> QED
    BY <1>1, <1>2, <1>3, <1>4, <1>5, <1>6, <1>7, <1>8 DEF LimiterNext

-----------------------------------------------------------------------------
(* The tables and the requests *)

LEMMA IdleInFlight == Idle \in InFlight
  BY AccountsAssumption DEF Idle, InFlight, RequestT, Carries

LEMMA Rows == NoUser \in Account /\ NoSession \in Session
  BY AccountsAssumption DEF NoUser, NoSession, Account, UserRow, Session, SessionRow, Lapse

LEMMA OneRequest ==
  ASSUME AccountsInv, NEW r \in Request, NEW x \in InFlight, req' = [req EXCEPT ![r] = x]
  PROVE  req' \in [Request -> InFlight]
  BY DEF AccountsInv

LEMMA OutdatedType ==
  ASSUME AccountsInv, NEW q \in Request
  PROVE  [req[q] EXCEPT !.outdated = TRUE] \in InFlight
  <1> DEFINE x == [req[q] EXCEPT !.outdated = TRUE]
  <1>1. req[q] \in RequestT /\ Carries(req[q])
    BY DEF AccountsInv, InFlight
  <1>2. x \in RequestT
    BY <1>1 DEF RequestT
  <1>3. x.pc = req[q].pc /\ x.role = req[q].role /\ x.pw = req[q].pw
          /\ x.legacy = req[q].legacy
    BY <1>1 DEF RequestT
  <1> HIDE DEF x
  <1>4. Carries(x)
    BY <1>1, <1>3, Zenon DEF Carries
  <1> QED
    BY <1>2, <1>4 DEF InFlight, x

\* A change of a user outdates what others have read, and nothing else of them.
LEMMA ChangedType ==
  ASSUME AccountsInv, NEW r \in Request, NEW u \in User, NEW pc \in {"idle", "drop"},
         Changed(r, u, pc)
  PROVE  req' \in [Request -> InFlight]
  <1>1. [Idle EXCEPT !.pc = pc, !.user = IF pc = "idle" THEN @ ELSE u] \in InFlight
    BY AccountsAssumption DEF Idle, InFlight, RequestT, Carries
  <1>2. \A q \in Request : [req[q] EXCEPT !.outdated = TRUE] \in InFlight
    BY OutdatedType
  <1> QED
    BY <1>1, <1>2 DEF Changed, AccountsInv

LEMMA LapsedType ==
  ASSUME AccountsInv, NEW T, NEW why \in Lapse
  PROVE  Lapsed(T, why) \in [Token -> Session]
  <1>1. \A t \in Token : [sessions[t] EXCEPT !.lapse = why] \in Session
    BY DEF AccountsInv, Session, SessionRow
  <1> QED
    BY <1>1 DEF Lapsed, AccountsInv

LEMMA WithoutType ==
  ASSUME AccountsInv, NEW T
  PROVE  Without(T) \in [Token -> Session]
  BY Rows DEF Without, AccountsInv

\* What the tables and the requests are after a step.
TablesInv == /\ users \in [User -> Account]
             /\ sessions \in [Token -> Session]
             /\ req \in [Request -> InFlight]

\* A request at another statement, with what it has read there.
LEMMA VerifiedType ==
  ASSUME NEW y \in RequestT, NEW pw \in Password
  PROVE  [y EXCEPT !.pc = "reset", !.pw = pw] \in InFlight
  <1> DEFINE x == [y EXCEPT !.pc = "reset", !.pw = pw]
  <1>1. x \in RequestT /\ x.pc = "reset" /\ x.pw = pw
    BY DEF RequestT
  <1> QED
    BY <1>1 DEF InFlight, Carries

LEMMA PresentedType ==
  ASSUME NEW y \in RequestT, NEW t \in Token, NEW u \in User
  PROVE  [y EXCEPT !.pc = "account", !.token = t, !.user = u] \in InFlight
  <1> DEFINE x == [y EXCEPT !.pc = "account", !.token = t, !.user = u]
  <1>1. x \in RequestT /\ x.pc = "account"
    BY DEF RequestT
  <1> QED
    BY <1>1 DEF InFlight, Carries

LEMMA LoginType ==
  ASSUME AccountsInv, NEW r \in Request, Login(r)
  PROVE  TablesInv'
  <1> USE DEF AccountsInv, TablesInv
  <1>1. CASE BeginLogin(r)
    <2>1. [req[r] EXCEPT !.pc = "lookup"] \in InFlight
      BY DEF InFlight, RequestT, Carries
    <2> QED
      BY <1>1, <2>1, OneRequest DEF BeginLogin, GoTo
  <1>2. ASSUME NEW u \in User, Lookup(r, u) PROVE TablesInv'
    <2>1. /\ [Idle EXCEPT !.pc = "limit", !.user = u, !.legacy = users[u].legacy] \in InFlight
          /\ [Idle EXCEPT !.pc = "unknown", !.user = u] \in InFlight
      BY AccountsAssumption DEF Idle, InFlight, RequestT, Carries, Account, UserRow
    <2> QED
      BY <1>2, <2>1, OneRequest DEF Lookup
  <1>3. CASE LimitUser(r)
    <2>1. [req[r] EXCEPT !.pc = "verify"] \in InFlight
      BY DEF InFlight, RequestT, Carries
    <2> QED
      BY <1>3, <2>1, OneRequest, IdleInFlight DEF LimitUser, GoTo, Finish
  <1>4. ASSUME NEW pw \in Password, Verify(r, pw) PROVE TablesInv'
    <2> DEFINE x == [req[r] EXCEPT !.pc = "reset", !.pw = pw]
    <2>1. x \in InFlight
      BY VerifiedType DEF InFlight
    <2>2. req' = [req EXCEPT ![r] = x] \/ Finish(r)
      BY <1>4 DEF Verify
    <2> QED
      BY <1>4, <2>1, <2>2, OneRequest, IdleInFlight DEF Verify, Finish
  <1>9. ASSUME req[r].pc \in {"reset_ip", "rehash"} PROVE Opening(r) \in InFlight
    <2>1. req[r] \in RequestT /\ Carries(req[r])
      BY OneRequest DEF InFlight
    <2>2. Opening(r) \in RequestT
      BY <2>1 DEF Opening, RequestT
    <2>3. Opening(r).pc = "open" /\ Opening(r).pw = req[r].pw /\ ~Opening(r).legacy
      BY <2>1 DEF Opening, RequestT
    <2> QED
      BY <1>9, <2>1, <2>2, <2>3 DEF InFlight, Carries
  <1>10. CASE ResetUser(r)
    <2>1. [req[r] EXCEPT !.pc = "reset_ip"] \in InFlight
      BY <1>10 DEF ResetUser, At, InFlight, RequestT, Carries
    <2> QED
      BY <1>10, <2>1, OneRequest DEF ResetUser, GoTo
  <1>5. CASE ResetIp(r)
    <2>1. req[r].legacy => [req[r] EXCEPT !.pc = "rehash"] \in InFlight
      BY <1>5 DEF ResetIp, At, InFlight, RequestT, Carries
    <2>2. Opening(r) \in InFlight
      BY <1>5, <1>9 DEF ResetIp, At
    <2> QED
      BY <1>5, <2>1, <2>2, OneRequest DEF ResetIp, GoTo, Proceed
  <1>6. CASE Rehash(r)
    <2>1. Opening(r) \in InFlight
      BY <1>6, <1>9 DEF Rehash, At
    <2>2. \A q \in Request : [req[q] EXCEPT !.outdated = TRUE] \in InFlight
      BY OutdatedType
    <2>3. req' \in [Request -> InFlight]
      BY <1>6, <2>1, <2>2, OneRequest DEF Rehash, Proceed
    <2>4. req[r].user \in User /\ req[r].pw \in Password
      BY <1>6 DEF Rehash, At, InFlight, RequestT, Carries
    <2>5. Exists(req[r].user)
            => [users[req[r].user] EXCEPT !.pw = req[r].pw, !.legacy = FALSE] \in Account
      BY <2>4, AccountsAssumption, ZenonT(40) DEF Exists, Account, UserRow
    <2>6. users' \in [User -> Account]
      <3> DEFINE x == [users[req[r].user] EXCEPT !.pw = req[r].pw, !.legacy = FALSE]
      <3>1. \/ UNCHANGED users
            \/ Exists(req[r].user) /\ users' = [users EXCEPT ![req[r].user] = x]
        BY <1>6 DEF Rehash
      <3> QED
        BY <2>4, <2>5, <3>1
    <2>7. sessions' \in [Token -> Session]
      BY <1>6, LapsedType DEF Rehash, Lapse
    <2> QED
      BY <2>3, <2>6, <2>7
  <1>7. ASSUME NEW t \in Token, Open(r, t) PROVE TablesInv'
    <2> DEFINE why == IF users[req[r].user].pw = req[r].pw THEN "no" ELSE "login"
    <2>1. [user |-> req[r].user, state |-> "valid", pw |-> req[r].pw, lapse |-> why] \in Session
      <3>1. req[r].user \in User /\ req[r].pw \in Password /\ why \in Lapse
        BY <1>7 DEF Open, At, InFlight, RequestT, Carries, Lapse
      <3> QED
        BY <3>1, AccountsAssumption DEF Session, SessionRow
    <2> QED
      BY <1>7, <2>1, OneRequest, IdleInFlight DEF Open, Finish
  <1>8. CASE OpenFails(r)
    BY <1>8, OneRequest, IdleInFlight DEF OpenFails, Finish
  <1> QED
    BY <1>1, <1>2, <1>3, <1>4, <1>5, <1>6, <1>7, <1>8, <1>10 DEF Login

LEMMA CheckType ==
  ASSUME AccountsInv, NEW r \in Request, Check(r)
  PROVE  TablesInv'
  <1> USE DEF AccountsInv, TablesInv
  <1>1. ASSUME NEW pc \in {"gone", "admitted"}
        PROVE  [req[r] EXCEPT !.pc = pc] \in InFlight
    BY DEF InFlight, RequestT, Carries
  <1>2. CASE CheckAccount(r)
    <2>1. [Idle EXCEPT !.pc = "admitted"] \in InFlight
      BY AccountsAssumption DEF Idle, InFlight, RequestT, Carries
    <2> QED
      BY <1>1, <1>2, <2>1, OneRequest, IdleInFlight DEF CheckAccount, GoTo, Finish
  <1>3. CASE DropOrphan(r)
    BY <1>3, OneRequest, IdleInFlight, WithoutType DEF DropOrphan, Finish
  <1>4. CASE PresentKey(r)
    BY <1>1, <1>4, OneRequest DEF PresentKey, GoTo
  <1>5. ASSUME NEW t \in Token, Present(r, t) PROVE TablesInv'
    <2> DEFINE x == [req[r] EXCEPT !.pc = "account", !.token = t, !.user = sessions[t].user]
    <2>1. x \in InFlight
      BY PresentedType DEF InFlight, Session, SessionRow
    <2>2. req' = [req EXCEPT ![r] = x] \/ UNCHANGED req
      BY <1>5 DEF Present
    <2> QED
      BY <1>5, <2>1, <2>2, OneRequest, WithoutType DEF Present
  <1> QED
    BY <1>2, <1>3, <1>4, <1>5 DEF Check

LEMMA UpdatedRow ==
  ASSUME AccountsInv, NEW r \in Request, At(r, "write"), Exists(req[r].user),
         NEW row \in Updated(r)
  PROVE  row \in Account
  <1>1. req[r].user \in User /\ req[r].role \in Role
    BY DEF AccountsInv, At, InFlight, RequestT, Carries
  <1>2. users[req[r].user] \in Account /\ users[req[r].user].pw # NoPassword
    BY <1>1 DEF AccountsInv, Exists, Account
  <1>3. [users[req[r].user] EXCEPT !.role = req[r].role] \in Account
    BY <1>1, <1>2 DEF Account, UserRow, Role
  <1>4. [role : {req[r].role}, pw : Password, legacy : {FALSE}] \in SUBSET Account
    BY <1>1, AccountsAssumption DEF Account, UserRow, Role
  <1> QED
    BY <1>3, <1>4 DEF Updated

LEMMA AdministerType ==
  ASSUME AccountsInv, NEW r \in Request, Administer(r)
  PROVE  TablesInv'
  <1> USE DEF AccountsInv, TablesInv
  <1>0. req[r].user \in User
    BY DEF InFlight, RequestT
  <1>1. ASSUME NEW u \in User, NEW role \in Role
        PROVE  \A failed \in BOOLEAN :
                    /\ [Idle EXCEPT !.pc = "count", !.user = u, !.role = role,
                                    !.outdated = failed] \in InFlight
                    /\ [Idle EXCEPT !.pc = "write", !.user = u, !.role = role,
                                    !.outdated = failed] \in InFlight
    BY AccountsAssumption DEF Idle, InFlight, RequestT, Carries
  <1>2. ASSUME NEW u \in User, NEW pw \in Password, NEW role \in Role,
               CreateUser(r, u, pw, role)
        PROVE  TablesInv'
    <2>1. [role |-> role, pw |-> pw, legacy |-> FALSE] \in Account
      BY AccountsAssumption DEF Account, UserRow, Role
    <2>2. req' \in [Request -> InFlight]
      BY <1>2, ChangedType, OneRequest, IdleInFlight DEF CreateUser, Finish
    <2> QED
      BY <1>2, <2>1, <2>2 DEF CreateUser
  <1>3. ASSUME NEW u \in User, NEW role \in Role, BeginUpdate(r, u, role)
        PROVE  TablesInv'
    <2>1. PICK failed \in BOOLEAN :
            req' = [req EXCEPT ![r] =
              [Idle EXCEPT !.pc = IF role # "admin" /\ IsAdmin(u) /\ ~failed THEN "count"
                                                                             ELSE "write",
                           !.user = u, !.role = role, !.outdated = failed]]
      BY <1>3 DEF BeginUpdate
    <2> QED
      BY <1>1, <1>3, <2>1, OneRequest DEF BeginUpdate
  <1>4. CASE CountOthers(r)
    <2>1. At(r, "count") => [req[r] EXCEPT !.pc = "write"] \in InFlight
      BY DEF At, InFlight, RequestT, Carries
    <2> QED
      BY <1>4, <2>1, OneRequest, IdleInFlight DEF CountOthers, GoTo, Finish
  <1>5. ASSUME NEW row \in Updated(r), WriteUser(r, row) PROVE TablesInv'
    <2>1. CASE Exists(req[r].user)
      <3>1. row \in Account
        BY <1>5, <2>1, UpdatedRow DEF WriteUser
      <3>2. req' \in [Request -> InFlight]
        BY <1>0, <1>5, <2>1, ChangedType DEF WriteUser
      <3> QED
        BY <1>0, <1>5, <2>1, <3>1, <3>2 DEF WriteUser
    <2>2. CASE ~Exists(req[r].user)
      <3>1. [Idle EXCEPT !.pc = "drop", !.user = req[r].user] \in InFlight
        BY <1>0, AccountsAssumption DEF Idle, InFlight, RequestT, Carries
      <3> QED
        BY <1>5, <2>2, <3>1, OneRequest DEF WriteUser
    <2> QED
      BY <2>1, <2>2
  <1>6. ASSUME NEW u \in User, BeginDelete(r, u) PROVE TablesInv'
    <2>1. [Idle EXCEPT !.pc = "delete", !.user = u] \in InFlight
      BY AccountsAssumption DEF Idle, InFlight, RequestT, Carries
    <2> QED
      BY <1>6, <2>1, OneRequest, IdleInFlight DEF BeginDelete, Finish
  <1>7. CASE DeleteUser(r)
    <2>1. req' \in [Request -> InFlight]
      BY <1>0, <1>7, ChangedType DEF DeleteUser
    <2> QED
      BY <1>0, <1>7, <2>1, Rows DEF DeleteUser
  <1>8. CASE DropSessions(r)
    BY <1>8, WithoutType, LapsedType, OneRequest, IdleInFlight DEF DropSessions, Finish, Lapse
  <1>9. CASE StatementFails(r)
    BY <1>9, OneRequest, IdleInFlight DEF StatementFails, Finish
  <1> QED
    BY <1>2, <1>3, <1>4, <1>5, <1>6, <1>7, <1>8, <1>9 DEF Administer

LEMMA ProcessType ==
  ASSUME AccountsInv, ProcessEnds \/ \E pw \in Password : ProcessStarts(pw)
  PROVE  TablesInv'
  <1>1. CASE ProcessEnds
    BY <1>1, LapsedType, IdleInFlight DEF ProcessEnds, AccountsInv, TablesInv, Lapse
  <1>2. ASSUME NEW pw \in Password, ProcessStarts(pw) PROVE TablesInv'
    <2>1. [role |-> "admin", pw |-> pw, legacy |-> FALSE] \in Account
      BY AccountsAssumption DEF Account, UserRow, Role
    <2> QED
      BY <1>2, <2>1 DEF ProcessStarts, AccountsInv, TablesInv
  <1> QED
    BY <1>1, <1>2

LEMMA TimersType ==
  ASSUME AccountsInv, Timers \/ \E t \in Token : Expire(t)
  PROVE  TablesInv'
  <1>1. ASSUME NEW t \in Token, Expire(t) PROVE TablesInv'
    <2>1. [NoSession EXCEPT !.user = sessions[t].user, !.state = "expired"] \in Session
      BY Rows DEF NoSession, AccountsInv, Session, SessionRow
    <2> QED
      BY <1>1, <2>1 DEF Expire, AccountsInv, TablesInv
  <1>2. CASE CleanExpired
    BY <1>2, WithoutType DEF CleanExpired, AccountsInv, TablesInv
  <1> QED
    BY <1>1, <1>2 DEF Timers, AccountsInv, TablesInv

LEMMA InitInv == AccountsInit => AccountsInv
  <1> SUFFICES ASSUME AccountsInit PROVE AccountsInv
    OBVIOUS
  <1>1. LimiterInv
    BY FS_EmptySet DEF AccountsInit, LimiterInit, LimiterInv, LimiterTypeOK
  <1>2. users \in [User -> Account]
    BY Rows, AccountsAssumption DEF AccountsInit, Account, UserRow, Role
  <1> QED
    BY <1>1, <1>2, Rows, IdleInFlight DEF AccountsInit, AccountsInv

LEMMA InvStep ==
  ASSUME AccountsInv, [AccountsNext]_accountsVars
  PROVE  AccountsInv'
  <1>1. LimiterInv'
    BY LimiterFrame, LimiterStep
  <1>2. TablesInv'
    <2>1. ASSUME NEW t \in Token, Logout(t) PROVE TablesInv'
      BY <2>1, WithoutType DEF Logout, AccountsInv, TablesInv
    <2>2. CASE UNCHANGED accountsVars
      BY <2>2 DEF accountsVars, AccountsInv, TablesInv
    <2> QED
      BY <2>1, <2>2, LoginType, CheckType, AdministerType, ProcessType, TimersType
      DEF AccountsNext
  <1>3. up' \in BOOLEAN
    BY DEF AccountsNext, AccountsInv, ProcessEnds, ProcessStarts, accountsVars
  <1>4. ~up' => req' = [r \in Request |-> Idle]
    BY DEF AccountsNext, AccountsInv, Expire, ProcessEnds, ProcessStarts, accountsVars
  <1> QED
    BY <1>1, <1>2, <1>3, <1>4 DEF AccountsInv, TablesInv

LEMMA Invariance == AccountsSpec => []AccountsInv
  BY InitInv, InvStep, PTL DEF AccountsSpec

\* Every table keeps its type, whichever requests interleave: no row without a password,
\* and no account written by half.
THEOREM AccountsTypeCorrect == AccountsSpec => []AccountsTypeOK
  BY Invariance, InvType, PTL

-----------------------------------------------------------------------------
(* The promise of the limiter *)

\* The promise counts as the limiter does.
LEMMA PromiseCounts ==
  ASSUME NEW S
  PROVE  Promise!Cardinality(S) = Cardinality(S)
  BY DEF Promise!Cardinality, Cardinality

\* An admission reads and writes the recent attempts only.
LEMMA AdmitAdmits ==
  ASSUME AccountsInv, NEW k \in Key, Admit(k)
  PROVE  Promise!Admitted(k)
  <1> DEFINE R == Recent(attempts[k])
             x == [age |-> 0, nth |-> Cardinality({a \in R : a.age = 0}) + 1]
  <1>1. attempts \in [Key -> SUBSET Attempt]
    BY DEF AccountsInv, LimiterInv, LimiterTypeOK
  <1>2. attempts' = [attempts EXCEPT ![k] = R \cup {x}] /\ Cardinality(R) < Limit[k]
    BY DEF Admit, Record
  <1>3. x.age < Window /\ Promise!Newest(R) = x
    BY LimiterAssumption, PromiseCounts DEF Promise!Newest
  <1> HIDE DEF x
  <1>4. Recent(R \cup {x}) = R \cup {x}
    BY <1>3 DEF Recent
  <1> HIDE DEF R
  <1>5. [j \in Key |-> Recent(attempts[j])]'
          = [[j \in Key |-> Recent(attempts[j])] EXCEPT ![k] = R \cup {x}]
    BY <1>1, <1>2, <1>4
  <1>6. R = Recent(attempts[k])
    BY DEF R
  <1> QED
    BY <1>2, <1>3, <1>5, <1>6, PromiseCounts DEF Promise!Admitted

\* A refusal and an eviction drop only what no longer counts.
LEMMA DropsStutter ==
  ASSUME AccountsInv, Evict \/ \E k \in Key : Refuse(k)
  PROVE  UNCHANGED [k \in Key |-> Recent(attempts[k])]
  <1>1. attempts \in [Key -> SUBSET Attempt]
    BY DEF AccountsInv, LimiterInv, LimiterTypeOK
  <1>2. \A S : Recent(Recent(S)) = Recent(S)
    BY DEF Recent
  <1>3. Recent({}) = {}
    BY DEF Recent
  <1>4. \A k \in Key : Recent(attempts'[k]) = Recent(attempts[k])
    BY <1>1, <1>2, <1>3 DEF Evict, Refuse
  <1> QED
    BY <1>4

LEMMA ResetForgives ==
  ASSUME AccountsInv, NEW k \in Verified, k \in Key, Reset(k)
  PROVE  Promise!Forgiven(k)
  <1>1. Recent({}) = {}
    BY DEF Recent
  <1>2. \A j \in Key : attempts'[j] = IF j = k THEN {} ELSE attempts[j]
    BY DEF Reset, AccountsInv, LimiterInv, LimiterTypeOK
  <1>3. [j \in Key |-> Recent(attempts[j])]'
          = [[j \in Key |-> Recent(attempts[j])] EXCEPT ![k] = {}]
    BY <1>1, <1>2
  <1> QED
    BY <1>3 DEF Promise!Forgiven

\* Time moves the same attempts out of the window on both sides.
LEMMA TickPasses ==
  ASSUME AccountsInv, LimiterTick
  PROVE  Promise!Passes
  <1>1. \A k \in Key : attempts[k] \in SUBSET Attempt
    BY DEF AccountsInv, LimiterInv, LimiterTypeOK
  <1>2. \A k \in Key : attempts'[k] = Aged(attempts[k])
    BY DEF LimiterTick, Aged
  <1>3. ASSUME NEW S \in SUBSET Attempt PROVE Recent(Aged(S)) = Promise!Later(Recent(S))
    <2>1. ASSUME NEW a \in S
          PROVE  /\ [a EXCEPT !.age = IF @ < Window THEN @ + 1 ELSE @].age < Window
                      <=> a.age < Window /\ a.age + 1 < Window
                 /\ a.age < Window => [a EXCEPT !.age = IF @ < Window THEN @ + 1 ELSE @]
                                        = [a EXCEPT !.age = @ + 1]
      BY LimiterAssumption DEF Attempt
    <2> QED
      BY <2>1 DEF Recent, Aged, Promise!Later
  <1> QED
    BY <1>1, <1>2, <1>3 DEF Promise!Passes

LEMMA PromiseStep ==
  ASSUME AccountsInv, [AccountsNext]_accountsVars
  PROVE  [Promise!WindowNext]_[k \in Key |-> Recent(attempts[k])]
  <1>1. ASSUME NEW k \in Key, Admit(k) PROVE Promise!WindowNext
    BY <1>1, AdmitAdmits DEF Promise!WindowNext
  <1>2. ASSUME NEW r \in Request,
               \/ At(r, "reset") /\ Reset(req[r].user)
               \/ At(r, "reset_ip") /\ Reset(Ip)
        PROVE  Promise!WindowNext
    <2>1. Ip \in Key /\ req[r].user \in Key
      BY AccountsAssumption DEF AccountsInv, InFlight, RequestT
    <2>2. PICK k \in Key : k \in Verified /\ Reset(k)
      BY <1>2, <2>1 DEF Verified
    <2> QED
      BY <2>2, ResetForgives DEF Promise!WindowNext
  <1>3. CASE NewLimiter /\ up /\ ~up'
    <2>1. Recent({}) = {}
      BY DEF Recent
    <2>2. [k \in Key |-> Recent(attempts[k])]' = [k \in Key |-> {}]
      BY <1>3, <2>1 DEF NewLimiter
    <2> QED
      BY <1>3, <2>2 DEF Promise!Forgotten, Promise!WindowNext
  <1>4. CASE LimiterTick
    BY <1>4, TickPasses DEF Promise!WindowNext
  <1>5. CASE UNCHANGED attempts
    BY <1>5
  <1> QED
    BY <1>1, <1>2, <1>3, <1>4, <1>5, LimiterFrame, DropsStutter DEF LimiterNext

\* The limiter in the middle of any requests implements its promise: refusals and
\* evictions are invisible; while the process runs, only the passing of the window
\* uncounts an attempt, or a login with its very key that has succeeded and is about to
\* reset it.
THEOREM LimiterKeepsPromise == AccountsSpec => LimiterPromise
  <1>1. AccountsInit => Promise!WindowInit
    BY DEF AccountsInit, LimiterInit, Recent, Promise!WindowInit
  <1>2. AccountsInv /\ [AccountsNext]_accountsVars
          => [Promise!WindowNext]_[k \in Key |-> Recent(attempts[k])]
    BY PromiseStep
  <1> QED
    BY <1>1, <1>2, Invariance, PTL DEF AccountsSpec, LimiterPromise, Promise!WindowSpec

-----------------------------------------------------------------------------
(* What a request does to the others, and who writes the table of users *)

\* A step of r leaves every other request where it is; it may outdate what that has read.
Bystander(q) == req'[q] \in {req[q], [req[q] EXCEPT !.outdated = TRUE]}

LEMMA OthersStay ==
  ASSUME AccountsInv, NEW r \in Request, Login(r) \/ Check(r) \/ Administer(r),
         NEW q \in Request \ {r}
  PROVE  Bystander(q)
  <1> USE DEF AccountsInv, Bystander
  <1>1. CASE Login(r)
    BY <1>1 DEF Login, BeginLogin, Lookup, LimitUser, Verify, ResetUser, ResetIp,
       Rehash, Open, OpenFails, GoTo, Finish, Proceed
  <1>2. CASE Check(r)
    BY <1>2 DEF Check, CheckAccount, DropOrphan, PresentKey, Present, GoTo, Finish
  <1>3. CASE Administer(r)
    BY <1>3 DEF Administer, CreateUser, BeginUpdate, CountOthers, WriteUser, BeginDelete,
       DeleteUser, DropSessions, StatementFails, GoTo, Finish, Changed
  <1> QED
    BY <1>1, <1>2, <1>3, Zenon

\* The statements that write the table of users.
WritesUsers(r) ==
    \/ \E u \in User, pw \in Password, role \in Role : CreateUser(r, u, pw, role)
    \/ Rehash(r)
    \/ \E row \in Updated(r) : WriteUser(r, row)
    \/ DeleteUser(r)

LEMMA OwnUsers ==
  ASSUME NEW r \in Request, Login(r) \/ Check(r) \/ Administer(r)
  PROVE  UNCHANGED users \/ WritesUsers(r)
  BY DEF Login, BeginLogin, Lookup, LimitUser, Verify, ResetUser, ResetIp, Open, OpenFails,
     Check, CheckAccount, DropOrphan, PresentKey, Present, Administer, BeginUpdate,
     CountOthers, BeginDelete, DropSessions, StatementFails, WritesUsers

LEMMA UsersFrame ==
  ASSUME [AccountsNext]_accountsVars
  PROVE  \/ UNCHANGED users
         \/ \E r \in Request : WritesUsers(r)
         \/ \E pw \in Password : ProcessStarts(pw)
  <1>1. ASSUME \/ Timers \/ (\E t \in Token : Logout(t) \/ Expire(t))
               \/ ProcessEnds \/ UNCHANGED accountsVars
        PROVE  UNCHANGED users
    BY <1>1 DEF Timers, CleanExpired, Expire, Logout, ProcessEnds, accountsVars
  <1> QED
    BY <1>1, OwnUsers DEF AccountsNext

\* Timers, logouts, starts of the process and stuttering leave the requests alone.
LEMMA RequestsFrame ==
  ASSUME [AccountsNext]_accountsVars
  PROVE  \/ UNCHANGED req
         \/ \E r \in Request : Login(r) \/ Check(r) \/ Administer(r)
         \/ ProcessEnds
  BY DEF AccountsNext, Timers, CleanExpired, Expire, Logout, ProcessStarts, accountsVars

\* The end of the process and its start find no request to go on with.
LEMMA ProcessIdle ==
  ASSUME AccountsInv, ProcessEnds \/ \E pw \in Password : ProcessStarts(pw)
  PROVE  req' = [r \in Request |-> Idle]
  BY DEF AccountsInv, ProcessEnds, ProcessStarts

\* Where a login, a check and an administration handler take their request.
LEMMA LoginMoves ==
  ASSUME AccountsInv, NEW r \in Request, Login(r)
  PROVE  /\ \/ ResetUser(r) \/ ResetIp(r)
            \/ \E pw \in Password : Verify(r, pw)
            \/ req'[r].pc \in {"idle", "lookup", "unknown", "limit", "verify", "open"}
         /\ req'[r].pc \notin {"write", "delete"}
  <1> DEFINE Stages == {"idle", "lookup", "unknown", "limit", "verify", "open"}
  <1>0. req \in [Request -> InFlight] /\ req[r] \in RequestT
    BY DEF AccountsInv, InFlight
  <1>1. BeginLogin(r) => req'[r].pc \in Stages
    BY <1>0 DEF BeginLogin, GoTo, At, RequestT
  <1>2. LimitUser(r) => req'[r].pc \in Stages
    BY <1>0 DEF LimitUser, GoTo, Finish, Idle, RequestT
  <1>3. Rehash(r) => req'[r].pc \in Stages
    <2>1. Opening(r).pc = "open"
      BY <1>0 DEF Opening, RequestT
    <2>2. Rehash(r) => req'[r] = Opening(r)
      BY <1>0 DEF Rehash, Proceed
    <2> QED
      BY <2>1, <2>2
  <1>4. OpenFails(r) \/ (\E t \in Token : Open(r, t)) => req'[r].pc \in Stages
    BY <1>0 DEF OpenFails, Open, Finish, Idle
  <1>5. (\E u \in User : Lookup(r, u)) => req'[r].pc \in Stages
    BY <1>0 DEF Lookup, Idle
  <1>8. ResetUser(r) => req'[r].pc = "reset_ip"
    BY <1>0 DEF ResetUser, GoTo, RequestT
  <1>6. ResetIp(r) => req'[r].pc \in {"rehash", "open"}
    <2>1. GoTo(r, "rehash") => req'[r].pc = "rehash"
      BY <1>0 DEF GoTo, RequestT
    <2>2. Proceed(r) => req'[r].pc = "open"
      BY <1>0 DEF Proceed, Opening, RequestT
    <2> QED
      BY <2>1, <2>2 DEF ResetIp
  <1>7. ASSUME NEW pw \in Password, Verify(r, pw) PROVE req'[r].pc \in {"reset", "idle"}
    <2>1. Finish(r) => req'[r].pc = "idle"
      BY <1>0 DEF Finish, Idle
    <2>2. Finish(r) \/ req'[r].pc = "reset"
      BY <1>0, <1>7 DEF Verify, RequestT
    <2> QED
      BY <2>1, <2>2
  <1> QED
    BY <1>1, <1>2, <1>3, <1>4, <1>5, <1>6, <1>7, <1>8 DEF Login

LEMMA CheckMoves ==
  ASSUME AccountsInv, NEW r \in Request, Check(r)
  PROVE  req'[r].pc \in {"idle", "account", "admitted", "gone"}
  <1> DEFINE Stages == {"idle", "account", "admitted", "gone"}
  <1>0. req \in [Request -> InFlight] /\ req[r] \in RequestT
    BY DEF AccountsInv, InFlight
  <1>1. CheckAccount(r) => req'[r].pc \in Stages
    BY <1>0 DEF CheckAccount, GoTo, Finish, Idle, RequestT
  <1>2. DropOrphan(r) => req'[r].pc \in Stages
    BY <1>0 DEF DropOrphan, Finish, Idle
  <1>3. PresentKey(r) => req'[r].pc \in Stages
    BY <1>0 DEF PresentKey, GoTo, RequestT
  <1>4. (\E t \in Token : Present(r, t)) => req'[r].pc \in Stages
    BY <1>0 DEF Present, At, RequestT
  <1> QED
    BY <1>1, <1>2, <1>3, <1>4 DEF Check

LEMMA AdministerMoves ==
  ASSUME AccountsInv, NEW r \in Request, Administer(r)
  PROVE  /\ req'[r].pc \in {"idle", "count", "write", "delete", "drop"}
         /\ req'[r].pc = "write" => \/ CountOthers(r)
                                    \/ \E u \in User, role \in Role : BeginUpdate(r, u, role)
         /\ req'[r].pc = "delete" => \E u \in User : BeginDelete(r, u)
  <1>0. req \in [Request -> InFlight] /\ req[r] \in RequestT
    BY DEF AccountsInv, InFlight
  <1>1. (\E u \in User, pw \in Password, role \in Role : CreateUser(r, u, pw, role))
          => req'[r].pc = "idle"
    <2>1. ASSUME NEW u \in User, NEW pw \in Password, NEW role \in Role,
                 CreateUser(r, u, pw, role)
          PROVE  Finish(r) \/ Changed(r, u, "idle")
      BY <2>1 DEF CreateUser
    <2>2. ASSUME NEW u \in User, Changed(r, u, "idle") PROVE req'[r].pc = "idle"
      BY <2>2 DEF Changed, Idle
    <2>3. Finish(r) => req'[r].pc = "idle"
      BY <1>0 DEF Finish, Idle
    <2> QED
      BY <2>1, <2>2, <2>3
  <1>2. (\E u \in User, role \in Role : BeginUpdate(r, u, role))
          => req'[r].pc \in {"count", "write"}
    BY <1>0 DEF BeginUpdate, Idle
  <1>3. CountOthers(r) => req'[r].pc \in {"write", "idle"}
    BY <1>0 DEF CountOthers, GoTo, Finish, Idle, RequestT
  <1>4. (\E u \in User : BeginDelete(r, u)) => req'[r].pc \in {"delete", "idle"}
    <2>1. ASSUME NEW u \in User, BeginDelete(r, u)
          PROVE  Finish(r) \/ req'[r] = [Idle EXCEPT !.pc = "delete", !.user = u]
      BY <1>0, <2>1 DEF BeginDelete
    <2>2. Finish(r) => req'[r].pc = "idle"
      BY <1>0 DEF Finish, Idle
    <2> QED
      BY <2>1, <2>2 DEF Idle
  <1>5. (\E row \in Updated(r) : WriteUser(r, row)) => req'[r].pc = "drop"
    BY <1>0 DEF WriteUser, Changed, Idle
  <1>6. DeleteUser(r) => req'[r].pc = "drop"
    BY <1>0 DEF DeleteUser, Changed, Idle
  <1>7. DropSessions(r) \/ StatementFails(r) => req'[r].pc = "idle"
    BY <1>0 DEF DropSessions, StatementFails, Finish, Idle
  <1> QED
    BY <1>1, <1>2, <1>3, <1>4, <1>5, <1>6, <1>7 DEF Administer

-----------------------------------------------------------------------------
(* The upgrade of a hash *)

\* A login that is going to replace a hash holds the password of the row, as long as
\* nobody has changed it since.
KnowsPassword ==
    \A q \in Request :
      Upgrades(q, req[q].user) =>
        req[q].outdated \/ (Exists(req[q].user) /\ users[req[q].user].pw = req[q].pw)

LEMMA KnowsStep ==
  ASSUME AccountsInv, KnowsPassword, [AccountsNext]_accountsVars
  PROVE  KnowsPassword'
  <1> DEFINE Replaces(q) == Upgrades(q, req[q].user)
             Knows(q) == req[q].outdated
                           \/ (Exists(req[q].user) /\ users[req[q].user].pw = req[q].pw)
  <1>0. \A q \in Request : req[q] \in InFlight /\ req[q].user \in User
    BY DEF AccountsInv, InFlight, RequestT
  <1>1. ASSUME NEW q \in Request, Bystander(q) \/ UNCHANGED req, Replaces(q)',
               users'[req[q].user] = users[req[q].user] \/ req'[q].outdated
        PROVE  Knows(q)'
    <2>1. /\ req'[q].user = req[q].user /\ req'[q].pw = req[q].pw
          /\ req[q].outdated => req'[q].outdated
          /\ Replaces(q)
      BY <1>0, <1>1 DEF Bystander, InFlight, RequestT, Upgrades
    <2> QED
      BY <1>1, <2>1 DEF KnowsPassword, Exists
  <1>2. ASSUME NEW r \in Request, WritesUsers(r), NEW q \in Request \ {r}, Replaces(q)'
        PROVE  users'[req[q].user] = users[req[q].user] \/ req'[q].outdated \/ Knows(q)'
    <2>1. Bystander(q)
      BY <1>2, OthersStay DEF WritesUsers, Login, Administer
    <2>2. /\ Replaces(q) /\ req'[q].user = req[q].user /\ req'[q].pw = req[q].pw
          /\ req[q].outdated => req'[q].outdated
      BY <1>0, <1>2, <2>1 DEF Bystander, InFlight, RequestT, Upgrades
    <2>3. ASSUME NEW u \in User, NEW pc, Changed(r, u, pc), req[q].user = u
          PROVE  req'[q].outdated
      BY <1>0, <2>2, <2>3 DEF Changed, ReliesOn, InFlight, RequestT
    <2>4. ASSUME NEW u \in User, NEW pw \in Password, NEW role \in Role,
                 CreateUser(r, u, pw, role)
          PROVE  users'[req[q].user] = users[req[q].user] \/ req'[q].outdated
      BY <1>0, <2>3, <2>4 DEF CreateUser, AccountsInv
    <2>5. ASSUME NEW row \in Updated(r), WriteUser(r, row)
          PROVE  users'[req[q].user] = users[req[q].user] \/ req'[q].outdated
      BY <1>0, <2>3, <2>5 DEF WriteUser, AccountsInv
    <2>6. CASE DeleteUser(r)
      BY <1>0, <2>3, <2>6 DEF DeleteUser, AccountsInv
    <2>7. CASE Rehash(r)
      <3>1. CASE UNCHANGED users
        BY <3>1
      <3>2. CASE req[q].user # req[r].user
        BY <1>0, <2>7, <3>2 DEF Rehash, AccountsInv
      <3>3. CASE req[q].user = req[r].user /\ ~UNCHANGED users
        <4> DEFINE u == req[r].user
        <4>1. Exists(u) /\ users'[u].pw = req[r].pw /\ users'[u].role = users[u].role
          BY <1>0, <2>7, <3>3 DEF Rehash, AccountsInv, Account, UserRow
        <4>2. users[u].pw # req[r].pw => req'[q].outdated
          BY <1>0, <2>2, <2>7, <3>3, <4>1 DEF Rehash, InFlight, RequestT
        <4>3. users[u].pw = req[r].pw => Knows(q)'
          BY <2>2, <3>3, <4>1 DEF KnowsPassword, Exists
        <4> QED
          BY <4>2, <4>3
      <3> QED
        BY <3>1, <3>2, <3>3
    <2> QED
      BY <1>2, <2>4, <2>5, <2>6, <2>7 DEF WritesUsers
  <1>3. ASSUME NEW r \in Request, Login(r) \/ Check(r) \/ Administer(r), Replaces(r)'
        PROVE  Knows(r)'
    <2>1. ASSUME NEW pw \in Password, Verify(r, pw) PROVE Knows(r)'
      <3>1. Finish(r) => ~Replaces(r)'
        BY DEF Finish, Idle, AccountsInv, Upgrades
      <3>2. /\ Exists(req[r].user) /\ users[req[r].user].pw = pw /\ UNCHANGED users
            /\ req' = [req EXCEPT ![r].pc = "reset", ![r].pw = pw]
        BY <1>3, <2>1, <3>1 DEF Verify
      <3>3. req'[r].user = req[r].user /\ req'[r].pw = pw
        BY <1>0, <3>2 DEF AccountsInv, InFlight, RequestT
      <3> QED
        BY <3>2, <3>3 DEF Exists
    <2>2. CASE ResetUser(r) \/ ResetIp(r)
      <3>1. Proceed(r) => req'[r].pc = "open"
        BY <1>0 DEF Proceed, Opening, AccountsInv, InFlight, RequestT
      <3>2. GoTo(r, "reset_ip") \/ GoTo(r, "rehash")
        BY <1>3, <2>2, <3>1 DEF ResetUser, ResetIp, Upgrades
      <3>3. /\ req'[r].user = req[r].user /\ req'[r].pw = req[r].pw
            /\ req'[r].outdated = req[r].outdated /\ req'[r].legacy = req[r].legacy
        BY <1>0, <3>2 DEF GoTo, AccountsInv, InFlight, RequestT
      <3>4. Replaces(r) /\ UNCHANGED users
        BY <1>3, <2>2, <3>3 DEF ResetUser, ResetIp, At, Upgrades
      <3> QED
        BY <3>3, <3>4 DEF KnowsPassword, Exists
    <2>3. req'[r].pc \in {"reset", "reset_ip", "rehash"}
      BY <1>3 DEF Upgrades
    <2> QED
      BY <1>3, <2>1, <2>2, <2>3, LoginMoves, CheckMoves, AdministerMoves
  <1>4. ASSUME ProcessEnds \/ \E pw \in Password : ProcessStarts(pw), NEW q \in Request
        PROVE  ~Replaces(q)'
    BY <1>4, ProcessIdle DEF Idle, Upgrades
  <1>6. ASSUME NEW q \in Request, Replaces(q)' PROVE Knows(q)'
    <2>1. CASE ProcessEnds
      BY <1>4, <1>6, <2>1
    <2>2. CASE UNCHANGED req
      <3>1. UNCHANGED users \/ \E r \in Request : WritesUsers(r)
        BY <1>4, <1>6, UsersFrame
      <3>2. UNCHANGED users => Knows(q)'
        BY <1>1, <1>6, <2>2
      <3>3. ASSUME NEW r \in Request, WritesUsers(r) PROVE Knows(q)'
        <4>1. CASE r = q
          BY <1>3, <1>6, <3>3, <4>1 DEF WritesUsers, Login, Administer
        <4>2. CASE r # q
          BY <1>1, <1>2, <1>6, <2>2, <3>3, <4>2
        <4> QED
          BY <4>1, <4>2
      <3> QED
        BY <3>1, <3>2, <3>3
    <2>3. ASSUME NEW r \in Request, Login(r) \/ Check(r) \/ Administer(r) PROVE Knows(q)'
      <3>1. CASE r = q
        BY <1>3, <1>6, <2>3, <3>1
      <3>2. CASE r # q
        <4>1. Bystander(q)
          BY <2>3, <3>2, OthersStay
        <4>2. UNCHANGED users => Knows(q)'
          BY <1>1, <1>6, <4>1
        <4>3. WritesUsers(r) => Knows(q)'
          BY <1>1, <1>2, <1>6, <3>2, <4>1
        <4>4. UNCHANGED users \/ WritesUsers(r)
          BY <2>3, OwnUsers
        <4> QED
          BY <4>2, <4>3, <4>4
      <3> QED
        BY <3>1, <3>2
    <2> QED
      BY <2>1, <2>2, <2>3, RequestsFrame
  <1> QED
    BY <1>6 DEF KnowsPassword

LEMMA KnowsInvariance == AccountsSpec => []KnowsPassword
  <1>1. AccountsInit => KnowsPassword
    BY DEF AccountsInit, KnowsPassword, Upgrades, Idle
  <1>2. AccountsInv /\ KnowsPassword /\ [AccountsNext]_accountsVars => KnowsPassword'
    BY KnowsStep
  <1> QED
    BY <1>1, <1>2, Invariance, PTL DEF AccountsSpec

\* The password of a user changes.
PasswordChanges(u) == Exists(u) /\ users'[u].role # "none" /\ users'[u].pw # users[u].pw

LEMMA UpgradeStep ==
  ASSUME AccountsInv, KnowsPassword, [AccountsNext]_accountsVars,
         NEW u \in User, PasswordChanges(u)
  PROVE  \E r \in Request : /\ req[r].user = u
                            /\ At(r, "write") \/ (At(r, "rehash") /\ req[r].outdated)
  <1> USE DEF PasswordChanges
  <1>0. \A r \in Request : req[r].user \in User
    BY DEF AccountsInv, InFlight, RequestT
  <1>1. ASSUME NEW pw \in Password, ProcessStarts(pw) PROVE FALSE
    BY <1>1 DEF ProcessStarts, Exists, AccountsInv
  <1>2. PICK r \in Request : WritesUsers(r)
    BY <1>1, UsersFrame
  <1>3. ASSUME NEW v \in User, NEW pw \in Password, NEW role \in Role,
               CreateUser(r, v, pw, role)
        PROVE  FALSE
    BY <1>3 DEF CreateUser, Exists, AccountsInv
  <1>4. ASSUME NEW row \in Updated(r), WriteUser(r, row)
        PROVE  At(r, "write") /\ req[r].user = u
    BY <1>0, <1>4 DEF WriteUser, AccountsInv
  <1>5. ASSUME DeleteUser(r) PROVE FALSE
    BY <1>0, <1>5 DEF DeleteUser, NoUser, AccountsInv
  <1>6. ASSUME Rehash(r) PROVE At(r, "rehash") /\ req[r].user = u /\ req[r].outdated
    <2>1. At(r, "rehash") /\ Exists(req[r].user) /\ req[r].user = u
      BY <1>0, <1>6 DEF Rehash, AccountsInv
    <2>2. users'[u].pw = req[r].pw
      BY <1>0, <1>6, <2>1 DEF Rehash, AccountsInv, Account, UserRow
    <2>3. Upgrades(r, u)
      BY <2>1 DEF Upgrades, At, AccountsInv, InFlight, Carries
    <2> QED
      BY <2>1, <2>2, <2>3 DEF KnowsPassword
  <1> QED
    BY <1>2, <1>3, <1>4, <1>5, <1>6 DEF WritesUsers

\* The upgrade of a hash never changes a password, unless an update has overtaken the
\* login: whatever logins, updates and removals are under way.
THEOREM UpgradesAreTransparent == AccountsSpec => UpgradeIsTransparent
  <1>1. AccountsInv /\ KnowsPassword /\ [AccountsNext]_accountsVars
          => [\A u \in User : Exists(u) /\ users'[u].role # "none" /\ users'[u].pw # users[u].pw =>
                \E r \in Request : /\ req[r].user = u
                                   /\ \/ At(r, "write")
                                      \/ At(r, "rehash") /\ req[r].outdated]_accountsVars
    BY UpgradeStep DEF PasswordChanges
  <1> QED
    BY <1>1, Invariance, KnowsInvariance, PTL DEF AccountsSpec, UpgradeIsTransparent

-----------------------------------------------------------------------------
(* The last administrator *)

\* What the checks of an update and of a removal have established, as long as nobody has
\* written the table since.
ChecksHold ==
    \A q \in Request : ~req[q].outdated =>
      /\ At(q, "write") => \/ req[q].role = "admin" \/ ~IsAdmin(req[q].user)
                           \/ OtherAdmin(req[q].user)
      /\ At(q, "delete") => OtherAdmin(req[q].user)

\* The same administrators as before.
SameRoles == \A u \in User : users'[u].role = users[u].role

LEMMA RehashKeepsRoles ==
  ASSUME AccountsInv, NEW r \in Request, Rehash(r)
  PROVE  SameRoles
  <1>1. req[r].user \in User
    BY DEF AccountsInv, InFlight, RequestT
  <1> QED
    BY <1>1 DEF Rehash, SameRoles, AccountsInv, Account, UserRow

LEMMA ChecksStep ==
  ASSUME AccountsInv, ChecksHold, [AccountsNext]_accountsVars
  PROVE  ChecksHold'
  <1> DEFINE Holds(q) ==
        ~req[q].outdated =>
          /\ At(q, "write") => \/ req[q].role = "admin" \/ ~IsAdmin(req[q].user)
                               \/ OtherAdmin(req[q].user)
          /\ At(q, "delete") => OtherAdmin(req[q].user)
  <1>0. \A q \in Request : req[q] \in RequestT /\ req[q].user \in User
    BY DEF AccountsInv, InFlight, RequestT
  <1>1. ASSUME NEW q \in Request, Bystander(q) \/ UNCHANGED req, SameRoles \/ req'[q].outdated
        PROVE  Holds(q)'
    <2>1. /\ req'[q].user = req[q].user /\ req'[q].pc = req[q].pc /\ req'[q].role = req[q].role
          /\ req[q].outdated => req'[q].outdated
      BY <1>0, <1>1 DEF Bystander, RequestT
    <2>2. CASE req'[q].outdated
      BY <2>2
    <2>3. CASE SameRoles
      <3>1. \A u \in User : IsAdmin(u)' <=> IsAdmin(u)
        BY <2>3 DEF SameRoles, IsAdmin
      <3>2. OtherAdmin(req[q].user) => OtherAdmin(req[q].user)'
        BY <2>1, <3>1 DEF OtherAdmin
      <3>3. Holds(q)
        BY DEF ChecksHold
      <3> QED
        BY <1>0, <2>1, <3>1, <3>2, <3>3 DEF At
    <2> QED
      BY <1>1, <2>2, <2>3
  <1>2. ASSUME NEW r \in Request, WritesUsers(r), NEW q \in Request \ {r}, ~Holds(q)'
        PROVE  SameRoles \/ req'[q].outdated
    <2>1. Bystander(q)
      BY <1>2, OthersStay DEF WritesUsers, Login, Administer
    <2>2. req'[q].pc = req[q].pc /\ req[q].pc \in {"write", "delete"}
      BY <1>0, <1>2, <2>1 DEF Bystander, RequestT, At
    <2>3. ASSUME NEW u \in User, NEW pc, Changed(r, u, pc) PROVE req'[q].outdated
      BY <1>0, <2>2, <2>3 DEF Changed, ReliesOn, RequestT
    <2>4. ASSUME NEW u \in User, NEW pw \in Password, NEW role \in Role,
                 CreateUser(r, u, pw, role)
          PROVE  SameRoles \/ req'[q].outdated
      BY <2>3, <2>4 DEF CreateUser, SameRoles
    <2>5. ASSUME NEW row \in Updated(r), WriteUser(r, row)
          PROVE  SameRoles \/ req'[q].outdated
      BY <1>0, <2>3, <2>5 DEF WriteUser, SameRoles
    <2>6. DeleteUser(r) => req'[q].outdated
      BY <1>0, <2>3 DEF DeleteUser
    <2> QED
      BY <1>2, <2>4, <2>5, <2>6, RehashKeepsRoles DEF WritesUsers
  <1>3. ASSUME NEW r \in Request, Login(r) \/ Check(r) \/ Administer(r) PROVE Holds(r)'
    <2>1. ASSUME NEW u \in User, NEW role \in Role, BeginUpdate(r, u, role) PROVE Holds(r)'
      <3>1. PICK failed \in BOOLEAN :
              req'[r] = [Idle EXCEPT
                !.pc = IF role # "admin" /\ IsAdmin(u) /\ ~failed THEN "count" ELSE "write",
                !.user = u, !.role = role, !.outdated = failed]
        BY <2>1, ZenonT(40) DEF BeginUpdate, AccountsInv
      <3>2. /\ req'[r].outdated = failed /\ req'[r].user = u /\ req'[r].role = role
            /\ req'[r].pc = IF role # "admin" /\ IsAdmin(u) /\ ~failed THEN "count" ELSE "write"
        BY <3>1 DEF Idle
      <3>3. UNCHANGED users
        BY <2>1 DEF BeginUpdate
      <3> QED
        BY <3>2, <3>3 DEF At, IsAdmin
    <2>2. CASE CountOthers(r)
      <3>1. Finish(r) => req'[r].pc = "idle"
        BY DEF Finish, Idle, AccountsInv
      <3>2. GoTo(r, "write") => req'[r].pc = "write" /\ req'[r].user = req[r].user
        BY <1>0 DEF GoTo, AccountsInv, RequestT
      <3> QED
        BY <2>2, <3>1, <3>2 DEF CountOthers, OtherAdmin, IsAdmin, At
    <2>3. ASSUME NEW u \in User, BeginDelete(r, u) PROVE Holds(r)'
      <3>1. Finish(r) => req'[r].pc = "idle"
        BY DEF Finish, Idle, AccountsInv
      <3>2. \/ Finish(r)
            \/ OtherAdmin(u) /\ req'[r] = [Idle EXCEPT !.pc = "delete", !.user = u]
        BY <2>3 DEF BeginDelete, AccountsInv
      <3>3. Finish(r) \/ (OtherAdmin(u) /\ req'[r].pc = "delete" /\ req'[r].user = u)
        BY <3>2 DEF Idle
      <3> QED
        BY <2>3, <3>1, <3>3 DEF BeginDelete, OtherAdmin, IsAdmin, At
    <2>4. CASE req'[r].pc \notin {"write", "delete"}
      BY <2>4 DEF At
    <2> QED
      BY <1>3, <2>1, <2>2, <2>3, <2>4, LoginMoves, CheckMoves, AdministerMoves
  <1>4. ASSUME ProcessEnds \/ \E pw \in Password : ProcessStarts(pw), NEW q \in Request
        PROVE  Holds(q)'
    BY <1>4, ProcessIdle DEF Idle, At
  <1>5. ASSUME NEW q \in Request PROVE Holds(q)'
    <2>1. UNCHANGED users => SameRoles
      BY DEF SameRoles
    <2>2. CASE UNCHANGED req
      <3>1. ASSUME NEW r \in Request, WritesUsers(r) PROVE Holds(q)'
        <4>1. CASE r = q
          BY <1>3, <3>1, <4>1 DEF WritesUsers, Login, Administer
        <4>2. CASE r # q
          BY <1>1, <1>2, <2>2, <3>1, <4>2
        <4> QED
          BY <4>1, <4>2
      <3> QED
        BY <1>1, <1>4, <2>1, <2>2, <3>1, UsersFrame
    <2>3. ASSUME NEW r \in Request, Login(r) \/ Check(r) \/ Administer(r) PROVE Holds(q)'
      <3>1. CASE r = q
        BY <1>3, <2>3, <3>1
      <3>2. CASE r # q
        <4>1. Bystander(q) /\ (UNCHANGED users \/ WritesUsers(r))
          BY <2>3, <3>2, OthersStay, OwnUsers
        <4> QED
          BY <1>1, <1>2, <2>1, <3>2, <4>1
      <3> QED
        BY <3>1, <3>2
    <2> QED
      BY <1>4, <2>2, <2>3, RequestsFrame
  <1> QED
    BY <1>5 DEF ChecksHold

LEMMA ChecksInvariance == AccountsSpec => []ChecksHold
  <1>1. AccountsInit => ChecksHold
    BY DEF AccountsInit, ChecksHold, At, Idle
  <1>2. AccountsInv /\ ChecksHold /\ [AccountsNext]_accountsVars => ChecksHold'
    BY ChecksStep
  <1> QED
    BY <1>1, <1>2, Invariance, PTL DEF AccountsSpec

LEMMA LastAdminStep ==
  ASSUME AccountsInv, ChecksHold, [AccountsNext]_accountsVars, HasAdmin, ~HasAdmin'
  PROVE  \E r \in Request : /\ req[r].pc \in {"write", "delete"}
                            /\ req[r].outdated
                            /\ req'[r].pc # req[r].pc
  <1>0. \A r \in Request : req[r] \in RequestT /\ req[r].user \in User
    BY DEF AccountsInv, InFlight, RequestT
  <1>1. ~SameRoles /\ ~UNCHANGED users
    BY DEF SameRoles, HasAdmin, IsAdmin
  <1>2. ASSUME NEW pw \in Password, ProcessStarts(pw) PROVE FALSE
    <2>1. PICK u \in User : IsAdmin(u)
      BY DEF HasAdmin
    <2>2. Exists(u) /\ users'[DefaultUser].role = "admin" /\ DefaultUser \in User
      BY <1>1, <1>2, <2>1, AccountsAssumption DEF ProcessStarts, Exists, IsAdmin, AccountsInv
    <2> QED
      BY <2>2 DEF HasAdmin, IsAdmin
  <1>3. PICK r \in Request : WritesUsers(r)
    BY <1>1, <1>2, UsersFrame
  <1>4. ASSUME NEW u \in User, OtherAdmin(u), \A v \in User \ {u} : users'[v] = users[v]
        PROVE  FALSE
    BY <1>4 DEF OtherAdmin, IsAdmin, HasAdmin
  <1>5. ASSUME NEW u \in User, NEW pw \in Password, NEW role \in Role,
               CreateUser(r, u, pw, role)
        PROVE  FALSE
    <2>1. ~Exists(u) /\ \A v \in User \ {u} : users'[v] = users[v]
      BY <1>1, <1>5 DEF CreateUser, AccountsInv
    <2>2. OtherAdmin(u)
      BY <2>1 DEF HasAdmin, OtherAdmin, Exists, IsAdmin
    <2> QED
      BY <1>4, <2>1, <2>2
  <1>6. ASSUME NEW row \in Updated(r), WriteUser(r, row)
        PROVE  At(r, "write") /\ req[r].outdated /\ req'[r].pc # "write"
    <2> DEFINE u == req[r].user
    <2>1. /\ At(r, "write") /\ Exists(u) /\ users' = [users EXCEPT ![u] = row]
          /\ Changed(r, u, "drop")
      BY <1>1, <1>6 DEF WriteUser
    <2>2. users'[u] = row /\ \A v \in User \ {u} : users'[v] = users[v]
      BY <1>0, <2>1 DEF AccountsInv
    <2>3. row.role = req[r].role
      <3>1. users[u] \in UserRow
        BY <1>0 DEF AccountsInv, Account
      <3>2. row = [users[u] EXCEPT !.role = req[r].role]
            \/ row \in [role : {req[r].role}, pw : Password, legacy : {FALSE}]
        BY DEF Updated
      <3> QED
        BY <3>1, <3>2 DEF UserRow
    <2>4. req[r].role # "admin"
      BY <1>0, <2>2, <2>3 DEF HasAdmin, IsAdmin
    <2>5. ~OtherAdmin(u)
      BY <1>0, <1>4, <2>2
    <2>6. IsAdmin(u)
      BY <2>5 DEF HasAdmin, OtherAdmin
    <2>7. req'[r].pc = "drop"
      BY <2>1 DEF Changed, Idle
    <2> QED
      BY <2>1, <2>4, <2>5, <2>6, <2>7 DEF ChecksHold
  <1>7. ASSUME DeleteUser(r)
        PROVE  At(r, "delete") /\ req[r].outdated /\ req'[r].pc # "delete"
    <2>1. \A v \in User \ {req[r].user} : users'[v] = users[v]
      BY <1>0, <1>7 DEF DeleteUser, AccountsInv
    <2>2. ~OtherAdmin(req[r].user)
      BY <1>0, <1>4, <2>1
    <2>3. At(r, "delete") /\ Changed(r, req[r].user, "drop")
      BY <1>7 DEF DeleteUser
    <2>4. req'[r].pc = "drop"
      BY <2>3 DEF Changed, Idle
    <2> QED
      BY <2>2, <2>3, <2>4 DEF ChecksHold
  <1> QED
    BY <1>1, <1>3, <1>5, <1>6, <1>7, RehashKeepsRoles DEF WritesUsers, At

\* The table of users loses its last administrator only by an update or a removal whose
\* check another request has overtaken, or whose read failed: for any number of users and
\* requests.
THEOREM LastAdminLostOnlyByRace == AccountsSpec => LastAdminLostByRace
  <1>1. AccountsInv /\ ChecksHold /\ [AccountsNext]_accountsVars
          => [HasAdmin => HasAdmin' \/ \E r \in Request : /\ req[r].pc \in {"write", "delete"}
                                                          /\ req[r].outdated
                                                          /\ req'[r].pc # req[r].pc]_accountsVars
    BY LastAdminStep
  <1> QED
    BY <1>1, Invariance, ChecksInvariance, PTL DEF AccountsSpec, LastAdminLostByRace

-----------------------------------------------------------------------------
(* Sessions of changed accounts *)

LEMMA StaleMeans ==
  ASSUME NEW t \in Token
  PROVE  Stale(t) <=> Valid(t) /\ sessions[t].pw # users[sessions[t].user].pw
  BY DEF Stale, OfOther

\* A step leaves a session with nothing to explain as it was, or opens it.
LEMMA SessionKept ==
  ASSUME AccountsInv, [AccountsNext]_accountsVars, NEW t \in Token,
         Valid(t)', sessions'[t].lapse = "no"
  PROVE  sessions'[t] = sessions[t] \/ \E r \in Request : Open(r, t)
  <1>0. sessions \in [Token -> Session]
    BY DEF AccountsInv
  <1>1. ASSUME NEW T, sessions' = Without(T) PROVE sessions'[t] = sessions[t]
    BY <1>1 DEF Without, NoSession, Valid
  <1>2. ASSUME NEW T, NEW why, why # "no", sessions' = Lapsed(T, why)
        PROVE  sessions'[t] = sessions[t]
    <2>1. [sessions[t] EXCEPT !.lapse = why].lapse = why
      BY <1>0 DEF Session, SessionRow
    <2> QED
      BY <1>2, <2>1 DEF Lapsed
  <1>3. ASSUME NEW r \in Request, NEW s \in Token, Open(r, s), s # t
        PROVE  sessions'[t] = sessions[t]
    BY <1>0, <1>3 DEF Open
  <1>4. ASSUME NEW s \in Token, Expire(s) PROVE sessions'[t] = sessions[t]
    BY <1>0, <1>4, Zenon DEF Expire, NoSession, Valid
  <1>5. ASSUME NEW r \in Request, Login(r)
        PROVE  \/ UNCHANGED sessions \/ \E T : sessions' = Lapsed(T, "upgrade")
               \/ \E s \in Token : Open(r, s)
    BY <1>5 DEF Login, BeginLogin, Lookup, LimitUser, Verify, ResetUser, ResetIp, Rehash,
       OpenFails
  <1>6. ASSUME NEW r \in Request, Check(r)
        PROVE  UNCHANGED sessions \/ \E T : sessions' = Without(T)
    BY <1>6 DEF Check, CheckAccount, DropOrphan, PresentKey, Present
  <1>7. ASSUME NEW r \in Request, Administer(r)
        PROVE  \/ UNCHANGED sessions \/ \E T : sessions' = Without(T)
               \/ \E T : sessions' = Lapsed(T, "fault")
    BY <1>7 DEF Administer, CreateUser, BeginUpdate, CountOthers, WriteUser, BeginDelete,
       DeleteUser, DropSessions, StatementFails
  <1>8. \/ UNCHANGED sessions
        \/ \E T : sessions' = Without(T)
        \/ \E T : \/ sessions' = Lapsed(T, "upgrade") \/ sessions' = Lapsed(T, "fault")
                 \/ sessions' = Lapsed(T, "end")
        \/ \E r \in Request, s \in Token : Open(r, s)
        \/ \E s \in Token : Expire(s)
    <2>2. Timers \/ (\E s \in Token : Logout(s)) \/ (\E pw \in Password : ProcessStarts(pw))
            \/ UNCHANGED accountsVars
          => UNCHANGED sessions \/ \E T : sessions' = Without(T)
      BY DEF Timers, CleanExpired, Logout, ProcessStarts, accountsVars
    <2>3. ProcessEnds => \E T : sessions' = Lapsed(T, "end")
      BY DEF ProcessEnds
    <2> QED
      BY <1>5, <1>6, <1>7, <2>2, <2>3 DEF AccountsNext
  <1> QED
    BY <1>1, <1>2, <1>3, <1>4, <1>8

\* Who is on the way to remove sessions stays on it until the removal or the end.
LEMMA StillDropping ==
  ASSUME AccountsInv, [AccountsNext]_accountsVars, NEW u \in User, Dropping(u)
  PROVE  \/ Dropping(u)'
         \/ \E r \in Request : DropSessions(r) /\ req[r].user = u
         \/ ProcessEnds
  <1>0. PICK q \in Request : At(q, "drop") /\ req[q].user = u
    BY DEF Dropping
  <1>1. CASE UNCHANGED req
    BY <1>0, <1>1 DEF Dropping, At
  <1>2. ASSUME NEW r \in Request, Login(r) \/ Check(r) \/ Administer(r), r # q
        PROVE  Dropping(u)'
    <2>1. Bystander(q)
      BY <1>2, OthersStay
    <2>2. req'[q].pc = "drop" /\ req'[q].user = u
      BY <1>0, <2>1 DEF Bystander, At, AccountsInv, InFlight, RequestT
    <2> QED
      BY <2>2 DEF Dropping, At
  <1>3. ASSUME Login(q) \/ Check(q) \/ Administer(q) PROVE DropSessions(q)
    <2>1. ~Login(q) /\ ~Check(q)
      BY <1>0 DEF At, Login, BeginLogin, Lookup, LimitUser, Verify, ResetUser, ResetIp, Rehash,
         Open, OpenFails, Check, CheckAccount, DropOrphan, PresentKey, Present
    <2> QED
      BY <1>0, <1>3, <2>1 DEF At, Administer, CreateUser, BeginUpdate, CountOthers, WriteUser,
         BeginDelete, DeleteUser, StatementFails
  <1> QED
    BY <1>0, <1>1, <1>2, <1>3, RequestsFrame

\* The password of u changes when u appears, by a request that goes on to remove the
\* sessions of u, or by the upgrade of a hash.
LEMMA PasswordChanged ==
  ASSUME AccountsInv, [AccountsNext]_accountsVars, NEW u \in User,
         users'[u].pw # users[u].pw
  PROVE  \/ users[u].pw = NoPassword
         \/ Dropping(u)'
         \/ \E r \in Request : /\ Rehash(r) /\ req[r].user = u /\ Exists(u)
                               /\ users'[u].pw = req[r].pw
  <1>0. \A r \in Request : req[r].user \in User
    BY DEF AccountsInv, InFlight, RequestT
  <1>1. \A v \in User : ~Exists(v) => users[v].pw = NoPassword
    BY DEF AccountsInv, Account, Exists
  <1>2. ASSUME NEW r \in Request, Changed(r, u, "drop") PROVE Dropping(u)'
    <2>1. req'[r].pc = "drop" /\ req'[r].user = u
      BY <1>2 DEF Changed, Idle
    <2> QED
      BY <2>1 DEF Dropping, At
  <1>3. ASSUME NEW pw \in Password, ProcessStarts(pw) PROVE ~Exists(u)
    BY <1>3 DEF ProcessStarts, AccountsInv
  <1>4. ASSUME NEW r \in Request, NEW v \in User, NEW pw \in Password, NEW role \in Role,
               CreateUser(r, v, pw, role)
        PROVE  ~Exists(u)
    BY <1>4 DEF CreateUser, AccountsInv
  <1>5. ASSUME NEW r \in Request, DeleteUser(r) \/ \E row \in Updated(r) : WriteUser(r, row)
        PROVE  Changed(r, u, "drop")
    BY <1>0, <1>5 DEF DeleteUser, WriteUser, AccountsInv
  <1>6. ASSUME NEW r \in Request, Rehash(r)
        PROVE  req[r].user = u /\ Exists(u) /\ users'[u].pw = req[r].pw
    <2>1. /\ Exists(req[r].user)
          /\ users' = [users EXCEPT ![req[r].user].pw = req[r].pw,
                                    ![req[r].user].legacy = FALSE]
      BY <1>6 DEF Rehash
    <2>2. req[r].user = u
      BY <1>0, <2>1 DEF AccountsInv
    <2> QED
      BY <1>0, <2>1, <2>2 DEF AccountsInv, Account, UserRow
  <1> QED
    BY <1>1, <1>2, <1>3, <1>4, <1>5, <1>6, UsersFrame DEF WritesUsers

LEMMA SessionsStep ==
  ASSUME AccountsInv, SessionsAreCurrent, [AccountsNext]_accountsVars
  PROVE  SessionsAreCurrent'
  <1> SUFFICES ASSUME NEW t \in Token, Stale(t)', sessions'[t].lapse = "no"
               PROVE  Dropping(sessions[t].user)'
    BY DEF SessionsAreCurrent
  <1> SUFFICES ASSUME NEW u, u = sessions'[t].user PROVE Dropping(u)'
    BY DEF Dropping
  <1>0. /\ Valid(t)'
        /\ sessions'[t].pw # users'[sessions'[t].user].pw
    BY DEF Stale, OfOther
  <1>1. ASSUME NEW r \in Request, Open(r, t) PROVE FALSE
    <2>1. sessions'[t].user = req[r].user /\ sessions'[t].pw = req[r].pw
          /\ sessions'[t].lapse = IF users[req[r].user].pw = req[r].pw THEN "no" ELSE "login"
      BY <1>1 DEF Open, AccountsInv
    <2> QED
      BY <1>0, <1>1, <2>1 DEF Open
  <1>2. sessions'[t] = sessions[t]
    BY <1>0, <1>1, SessionKept
  <1>3. u \in User /\ u = sessions[t].user /\ Valid(t) /\ sessions[t].pw # NoPassword /\ sessions[t].lapse = "no"
    BY <1>0, <1>2 DEF AccountsInv, Session, SessionRow, Valid
  <1>4. ASSUME sessions[t].pw # users[u].pw PROVE Dropping(u)'
    <2>1. Stale(t)
      BY <1>3, <1>4, StaleMeans
    <2>2. Dropping(u)
      BY <1>3, <2>1 DEF SessionsAreCurrent
    <2>3. ASSUME NEW T, NEW why, why # "no", sessions' = Lapsed(T, why), t \in T
          PROVE  FALSE
      BY <1>2, <1>3, <2>3 DEF Lapsed, AccountsInv, Session, SessionRow
    <2>4. ASSUME NEW r \in Request, DropSessions(r), req[r].user = u PROVE FALSE
      <3>1. t \in OfOther(u, users[u].pw)
        BY <1>3, <1>4 DEF OfOther
      <3>2. sessions' = Without({s \in Token : HasSession(s) /\ sessions[s].user = u})
            \/ sessions' = Lapsed(OfOther(u, users[u].pw), "fault")
        BY <2>4 DEF DropSessions
      <3>3. sessions' = Without({s \in Token : HasSession(s) /\ sessions[s].user = u}) => FALSE
        BY <1>0, <1>3 DEF Without, NoSession, HasSession, Valid
      <3> QED
        BY <2>3, <3>1, <3>2, <3>3
    <2>5. ~ProcessEnds
      BY <1>3, <2>1, <2>2, <2>3 DEF ProcessEnds
    <2> QED
      BY <1>3, <2>2, <2>4, <2>5, StillDropping
  <1>5. ASSUME NEW r \in Request, Rehash(r), req[r].user = u, Exists(u),
               users'[u].pw = req[r].pw, users[u].pw # req[r].pw
        PROVE  FALSE
    <2>1. t \in OfOther(u, req[r].pw)
      BY <1>0, <1>2, <1>3, <1>5 DEF OfOther
    <2>2. sessions' = Lapsed(OfOther(u, req[r].pw), "upgrade")
      BY <1>5 DEF Rehash
    <2> QED
      BY <1>2, <1>3, <2>1, <2>2 DEF Lapsed, AccountsInv, Session, SessionRow
  <1>6. CASE users'[u].pw = users[u].pw
    BY <1>0, <1>2, <1>4, <1>6
  <1>7. CASE users'[u].pw # users[u].pw
    BY <1>2, <1>3, <1>4, <1>5, <1>7, PasswordChanged
  <1> QED
    BY <1>2, <1>6, <1>7

\* No session outlives the account or the password it was opened for, except while the
\* request that changed them is on its way to remove it, and four ways a session escapes
\* the removal: its login was overtaken, an upgrade of the hash overwrote the password,
\* the removal failed, or the process ended before it. There is no fifth, whatever
\* requests interleave.
THEOREM SessionsStayCurrent == AccountsSpec => []SessionsAreCurrent
  <1>1. AccountsInit => SessionsAreCurrent
    BY DEF AccountsInit, SessionsAreCurrent, Stale, OfOther, Valid, NoSession
  <1>2. AccountsInv /\ SessionsAreCurrent /\ [AccountsNext]_accountsVars
          => SessionsAreCurrent'
    BY SessionsStep
  <1> QED
    BY <1>1, <1>2, Invariance, PTL DEF AccountsSpec
=============================================================================
