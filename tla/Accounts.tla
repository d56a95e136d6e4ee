------------------------------ MODULE Accounts ------------------------------
(***************************************************************************)
(* Accounts and sessions (internal/store/users.go, internal/api/auth.go):  *)
(* login, logout, the checks before a handler, and the administration of   *)
(* users. net/http runs each request in a goroutine of its own, and no     *)
(* request opens a transaction or takes a lock: every statement on the     *)
(* tables users and sessions, and every use of the login limiter, is an    *)
(* action, so requests interleave between any two of them.                 *)
(***************************************************************************)
EXTENDS RateLimiter

CONSTANTS User,         \* user names
          DefaultUser,  \* "admin", the name the first account gets
          Password,
          NoPassword,   \* where there is none to tell
          Token,        \* session tokens, for which the database keeps hashes
          Request,      \* requests that may be under way at a time
          Ip,           \* the limiter's key for the clients' address
          ApiKey,       \* an admin key is configured
          DbFaults      \* statements may fail

ASSUME AccountsAssumption == /\ DefaultUser \in User /\ NoPassword \notin Password
                             /\ Key = User \cup {Ip} /\ Ip \notin User
                             /\ ApiKey \in BOOLEAN /\ DbFaults \in BOOLEAN

VARIABLES up,        \* the process runs
          users,     \* table users; role "none": no row
          sessions,  \* table sessions; state "none": no row
          req        \* the requests under way, with what each has read

accountsVars == <<up, attempts, users, sessions, req>>

Role == {"admin", "reader"}

UserRow == [role : Role \cup {"none"}, pw : Password \cup {NoPassword},
            legacy : BOOLEAN]
NoUser  == [role |-> "none", pw |-> NoPassword, legacy |-> FALSE]

\* The role a session was opened with is left out: nothing reads it, the checks read the
\* account's. Two fields are history, for a valid session: the password its login has
\* checked, and the event since which no statement to come will remove it with that
\* password: a change that overtook its login, an upgrade of a hash that overwrote the
\* password, a failed removal, the end of the process before a removal.
Lapse == {"no", "login", "upgrade", "fault", "end"}
SessionRow == [user : User, state : {"none", "valid", "expired"},
               pw : Password \cup {NoPassword}, lapse : Lapse]
NoSession  == [user |-> DefaultUser, state |-> "none", pw |-> NoPassword, lapse |-> "no"]

\* A login needs the password it has checked for the new hash, and for the history of
\* the session. outdated is history: what the request relies on has changed since it was
\* read, or could not be read.
RequestT ==
    [pc : {"idle", "lookup", "unknown", "limit", "verify", "reset", "reset_ip", "rehash",
           "open", "account", "gone", "admitted", "count", "write", "delete", "drop"},
     user : User, role : Role \cup {"none"}, token : Token \cup {Ip},
     pw : Password \cup {NoPassword}, legacy : BOOLEAN, outdated : BOOLEAN]
Idle == [pc |-> "idle", user |-> DefaultUser, role |-> "none", token |-> Ip,
         pw |-> NoPassword, legacy |-> FALSE, outdated |-> FALSE]

AccountsTypeOK == /\ LimiterTypeOK
                  /\ up \in BOOLEAN
                  /\ users \in [User -> UserRow]
                  /\ \A u \in User : users[u].role = "none" <=> users[u].pw = NoPassword
                  /\ sessions \in [Token -> SessionRow]
                  /\ \A t \in Token : sessions[t].state = "valid" <=> sessions[t].pw # NoPassword
                  /\ req \in [Request -> RequestT]

\* The first start of the database: Open has created the default administrator, or an
\* older version of the program had, with a hash of the older kind.
AccountsInit ==
    /\ LimiterInit
    /\ up = TRUE
    /\ \E pw \in Password, legacy \in BOOLEAN :
         users = [u \in User |-> IF u = DefaultUser
                                   THEN [role |-> "admin", pw |-> pw, legacy |-> legacy]
                                   ELSE NoUser]
    /\ sessions = [t \in Token |-> NoSession]
    /\ req = [r \in Request |-> Idle]

At(r, pc)     == req[r].pc = pc
GoTo(r, pc)   == req' = [req EXCEPT ![r].pc = pc]
Opening(r)    == [req[r] EXCEPT !.pc = "open", !.legacy = FALSE, !.outdated = FALSE]
Proceed(r)    == req' = [req EXCEPT ![r] = Opening(r)]
Finish(r)     == req' = [req EXCEPT ![r] = Idle]
Exists(u)     == users[u].role # "none"
IsAdmin(u)    == users[u].role = "admin"
HasSession(t) == sessions[t].state # "none"
Valid(t)      == sessions[t].state = "valid"

\* q has checked the password of u, and goes on to replace its hash.
Upgrades(q, u) == /\ req[q].pc \in {"reset", "reset_ip", "rehash"} /\ req[q].legacy
                  /\ req[q].user = u

\* Sessions of u for which a login has checked another password than pw.
OfOther(u, pw) == {t \in Token : Valid(t) /\ sessions[t].user = u /\ sessions[t].pw # pw}

\* Sessions of a password that is no longer its user's, or of a removed user.
Stale(t) == t \in OfOther(sessions[t].user, users[sessions[t].user].pw)

\* A request is about to remove the sessions of u.
Dropping(u) == \E r \in Request : At(r, "drop") /\ req[r].user = u

\* From now on only another change, expiry or a logout removes the sessions T.
Lapsed(T, why) == [t \in Token |-> IF t \in T THEN [sessions[t] EXCEPT !.lapse = why]
                                             ELSE sessions[t]]

-----------------------------------------------------------------------------
(* handleLogin *)

\* The address is limited before anything is read.
BeginLogin(r) ==
    /\ At(r, "idle")
    /\ \/ Admit(Ip) /\ GoTo(r, "lookup")
       \/ Refuse(Ip) /\ UNCHANGED req
    /\ UNCHANGED <<users, sessions>>

\* GetUser. An error reads as no such user.
Lookup(r, u) ==
    /\ At(r, "lookup")
    /\ \/ /\ Exists(u)
          /\ req' = [req EXCEPT ![r] = [Idle EXCEPT !.pc = "limit", !.user = u,
                                                    !.legacy = users[u].legacy]]
       \/ /\ ~Exists(u) \/ DbFaults
          /\ req' = [req EXCEPT ![r] = [Idle EXCEPT !.pc = "unknown", !.user = u]]
    /\ UNCHANGED <<attempts, users, sessions>>

\* The name is limited whether it exists or not.
LimitUser(r) ==
    /\ req[r].pc \in {"limit", "unknown"}
    /\ \/ /\ Admit(req[r].user)
          /\ IF At(r, "limit") THEN GoTo(r, "verify") ELSE Finish(r)
       \/ Refuse(req[r].user) /\ Finish(r)
    /\ UNCHANGED <<users, sessions>>

\* Faulty variant: a hash of the older kind matches any password.
VerifyCurrent(r, pw) ==
    /\ At(r, "verify")
    /\ LET u == req[r].user IN
       IF Exists(u) /\ (users[u].legacy \/ users[u].pw = pw)
         THEN req' = [req EXCEPT ![r].pc = "reset", ![r].pw = pw]
         ELSE Finish(r)
    /\ UNCHANGED <<attempts, users, sessions>>

\* VerifyPassword reads the user again.
Verify(r, pw) ==
    /\ At(r, "verify")
    /\ LET u == req[r].user IN
       IF Exists(u) /\ users[u].pw = pw
         THEN req' = [req EXCEPT ![r].pc = "reset", ![r].pw = pw]
         ELSE Finish(r)
    /\ UNCHANGED <<attempts, users, sessions>>

\* The limits are reset one after the other.
ResetUser(r) ==
    /\ At(r, "reset")
    /\ Reset(req[r].user)
    /\ GoTo(r, "reset_ip")
    /\ UNCHANGED <<users, sessions>>

\* Whether the hash is of the old kind was read by Lookup.
ResetIp(r) ==
    /\ At(r, "reset_ip")
    /\ Reset(Ip)
    /\ IF req[r].legacy THEN GoTo(r, "rehash") ELSE Proceed(r)
    /\ UNCHANGED <<users, sessions>>

\* The hash is replaced by a new one of the password that was given, whatever the row
\* holds by now: another password is overwritten, and the other logins have checked
\* one that is gone. An error is ignored.
Rehash(r) ==
    /\ At(r, "rehash")
    /\ \/ LET u == req[r].user
              changes == Exists(u) /\ users[u].pw # req[r].pw
          IN /\ users' = IF Exists(u)
                            THEN [users EXCEPT ![u].pw = req[r].pw, ![u].legacy = FALSE]
                            ELSE users
             /\ req' = [q \in Request |->
                  IF q = r THEN Opening(r)
                  ELSE IF changes /\ Upgrades(q, u) THEN [req[q] EXCEPT !.outdated = TRUE]
                  ELSE req[q]]
             /\ sessions' = IF changes THEN Lapsed(OfOther(u, req[r].pw), "upgrade")
                                       ELSE sessions
       \/ DbFaults /\ Proceed(r) /\ UNCHANGED <<users, sessions>>
    /\ UNCHANGED attempts

\* CreateSession, with a token nobody has. The account is not read again: a change of it
\* may have overtaken the login.
Open(r, t) ==
    /\ At(r, "open") /\ ~HasSession(t)
    /\ \A q \in Request : req[q].token # t
    /\ sessions' = [sessions EXCEPT ![t] =
         [user |-> req[r].user, state |-> "valid", pw |-> req[r].pw,
          lapse |-> IF users[req[r].user].pw = req[r].pw THEN "no" ELSE "login"]]
    /\ Finish(r)
    /\ UNCHANGED <<attempts, users>>

OpenFails(r) == /\ DbFaults /\ At(r, "open")
                /\ Finish(r)
                /\ UNCHANGED <<attempts, users, sessions>>

-----------------------------------------------------------------------------
(* Sessions, and the checks before an administration handler *)

Without(T) == [t \in Token |-> IF t \in T THEN NoSession ELSE sessions[t]]

\* Twelve hours pass.
Expire(t) == /\ Valid(t)
             /\ sessions' = [sessions EXCEPT ![t] = [NoSession EXCEPT
                                           !.user = sessions[t].user, !.state = "expired"]]
             /\ UNCHANGED <<attempts, users, req>>

\* CleanExpiredSessions, from a timer.
CleanExpired == /\ sessions' = Without({t \in Token : sessions[t].state = "expired"})
                /\ UNCHANGED <<attempts, users, req>>

\* handleLogout needs no more than the token.
Logout(t) == /\ HasSession(t)
             /\ sessions' = Without({t})
             /\ UNCHANGED <<attempts, users, req>>

\* GetSession; an expired session is removed.
Present(r, t) ==
    /\ At(r, "idle") /\ HasSession(t)
    /\ IF ~Valid(t)
         THEN sessions' = Without({t}) /\ UNCHANGED req
         ELSE /\ req' = [req EXCEPT ![r].pc = "account", ![r].token = t,
                                    ![r].user = sessions[t].user]
              /\ UNCHANGED sessions
    /\ UNCHANGED <<attempts, users>>

\* sessionFromCookie reads the account, and requireAdmin asks for its role. An error is
\* taken for a removed account.
CheckAccount(r) ==
    /\ At(r, "account")
    /\ LET u == req[r].user IN
       \/ IsAdmin(u) /\ req' = [req EXCEPT ![r] = [Idle EXCEPT !.pc = "admitted"]]
       \/ Exists(u) /\ ~IsAdmin(u) /\ Finish(r)
       \/ (~Exists(u) \/ DbFaults) /\ GoTo(r, "gone")
    /\ UNCHANGED <<attempts, users, sessions>>

\* The session of a removed account is removed.
DropOrphan(r) == /\ At(r, "gone")
                 /\ sessions' = Without({req[r].token})
                 /\ Finish(r)
                 /\ UNCHANGED <<attempts, users>>

\* requireAdmin: the key needs no session.
PresentKey(r) == /\ ApiKey /\ At(r, "idle")
                 /\ GoTo(r, "admitted")
                 /\ UNCHANGED <<attempts, users, sessions>>

-----------------------------------------------------------------------------
(* handleAdminUsers *)

\* Another administrator than u.
OtherAdmin(u) == \E v \in User \ {u} : IsAdmin(v)

\* The row of u changes: what the other requests have read of it, or have counted,
\* belongs to an earlier state of the table.
ReliesOn(q, u) == req[q].pc \in {"write", "delete"} \/ Upgrades(q, u)
Changed(r, u, pc) ==
    req' = [q \in Request |->
              IF q = r THEN [Idle EXCEPT !.pc = pc, !.user = IF pc = "idle" THEN @ ELSE u]
              ELSE IF ReliesOn(q, u) THEN [req[q] EXCEPT !.outdated = TRUE] ELSE req[q]]

\* POST. The name is unique in the table.
CreateUser(r, u, pw, role) ==
    /\ At(r, "admitted")
    /\ IF Exists(u) THEN Finish(r) /\ UNCHANGED users
       ELSE /\ users' = [users EXCEPT ![u] = [role |-> role, pw |-> pw, legacy |-> FALSE]]
            /\ Changed(r, u, "idle")
    /\ UNCHANGED <<attempts, sessions>>

\* PUT: UpdateUser to role. A demotion reads whether it is one; an error reads as none.
BeginUpdate(r, u, role) ==
    /\ At(r, "admitted")
    /\ \E failed \in {FALSE} \cup (IF DbFaults /\ role # "admin" THEN {TRUE} ELSE {}) :
         req' = [req EXCEPT ![r] =
           [Idle EXCEPT !.pc = IF role # "admin" /\ IsAdmin(u) /\ ~failed THEN "count"
                                                                          ELSE "write",
                        !.user = u, !.role = role, !.outdated = failed]]
    /\ UNCHANGED <<attempts, users, sessions>>

\* An error counts none, which refuses the demotion.
CountOthers(r) ==
    /\ At(r, "count")
    /\ \/ /\ OtherAdmin(req[r].user)
          /\ GoTo(r, "write")
       \/ (~OtherAdmin(req[r].user) \/ DbFaults) /\ Finish(r)
    /\ UNCHANGED <<attempts, users, sessions>>

\* Faulty variant: the sessions of the user are left alone.
WriteOnly(r, row) ==
    /\ At(r, "write")
    /\ LET u == req[r].user IN
       IF Exists(u)
         THEN users' = [users EXCEPT ![u] = row] /\ Changed(r, u, "idle")
         ELSE Finish(r) /\ UNCHANGED users
    /\ UNCHANGED <<attempts, sessions>>

\* Faulty variant: an account that is gone is written anew.
WriteAlways(r, row) ==
    /\ At(r, "write")
    /\ users' = [users EXCEPT ![req[r].user] = row]
    /\ Changed(r, req[r].user, "drop")
    /\ UNCHANGED <<attempts, sessions>>

\* The update, with a new password or without. It may find no row; the sessions are
\* dropped all the same, but not when it fails.
WriteUser(r, row) ==
    /\ At(r, "write")
    /\ LET u == req[r].user IN
       IF Exists(u)
         THEN users' = [users EXCEPT ![u] = row] /\ Changed(r, u, "drop")
         ELSE /\ req' = [req EXCEPT ![r] = [Idle EXCEPT !.pc = "drop", !.user = u]]
              /\ UNCHANGED users
    /\ UNCHANGED <<attempts, sessions>>

Updated(r) == {[users[req[r].user] EXCEPT !.role = req[r].role]}
              \cup [role : {req[r].role}, pw : Password, legacy : {FALSE}]

\* Faulty variant: nobody counts.
DeleteUncounted(r, u) ==
    /\ At(r, "admitted")
    /\ req' = [req EXCEPT ![r] = [Idle EXCEPT !.pc = "delete", !.user = u]]
    /\ UNCHANGED <<attempts, users, sessions>>

\* DELETE: DeleteUser counts the other administrators, whatever the user's role.
BeginDelete(r, u) ==
    /\ At(r, "admitted")
    /\ \/ OtherAdmin(u) /\ req' = [req EXCEPT ![r] = [Idle EXCEPT !.pc = "delete", !.user = u]]
       \/ (~OtherAdmin(u) \/ DbFaults) /\ Finish(r)
    /\ UNCHANGED <<attempts, users, sessions>>

DeleteUser(r) ==
    /\ At(r, "delete")
    /\ LET u == req[r].user IN
       /\ users' = [users EXCEPT ![u] = NoUser]
       /\ Changed(r, u, "drop")
    /\ UNCHANGED <<attempts, sessions>>

\* DeleteSessionsForUser; an error is ignored.
DropSessions(r) ==
    /\ At(r, "drop")
    /\ LET u == req[r].user IN
       \/ sessions' = Without({t \in Token : HasSession(t) /\ sessions[t].user = u})
       \/ DbFaults /\ sessions' = Lapsed(OfOther(u, users[u].pw), "fault")
    /\ Finish(r)
    /\ UNCHANGED <<attempts, users>>

StatementFails(r) == /\ DbFaults /\ req[r].pc \in {"write", "delete"}
                     /\ Finish(r)
                     /\ UNCHANGED <<attempts, users, sessions>>

-----------------------------------------------------------------------------

\* The process ends: requests are cut off where they stand, and the limits are gone.
ProcessEnds ==
    /\ up /\ up' = FALSE
    /\ NewLimiter
    /\ req' = [r \in Request |-> Idle]
    /\ sessions' = Lapsed({t \in Token : Stale(t) /\ Dropping(sessions[t].user)}, "end")
    /\ UNCHANGED users

\* Open: seedDefaultAdmin counts the users, takes an error for an empty table, and then
\* creates the default administrator. If that name is taken, Open fails and the process
\* does not start.
ProcessStarts(pw) ==
    /\ ~up /\ up' = TRUE
    /\ \/ (\E u \in User : Exists(u)) /\ UNCHANGED users
       \/ /\ (\A u \in User : ~Exists(u)) \/ (DbFaults /\ ~Exists(DefaultUser))
          /\ users' = [users EXCEPT ![DefaultUser] =
                         [role |-> "admin", pw |-> pw, legacy |-> FALSE]]
    /\ UNCHANGED <<attempts, sessions, req>>

Timers == \/ LimiterTick /\ UNCHANGED <<users, sessions, req>>
          \/ Evict /\ UNCHANGED <<users, sessions, req>>
          \/ CleanExpired

Login(r) == \/ BeginLogin(r) \/ LimitUser(r) \/ ResetUser(r) \/ ResetIp(r) \/ Rehash(r)
            \/ OpenFails(r)
            \/ \E u \in User : Lookup(r, u)
            \/ \E pw \in Password : Verify(r, pw)
            \/ \E t \in Token : Open(r, t)

Check(r) == \/ CheckAccount(r) \/ DropOrphan(r) \/ PresentKey(r)
            \/ \E t \in Token : Present(r, t)

Administer(r) ==
    \/ \E u \in User, pw \in Password, role \in Role : CreateUser(r, u, pw, role)
    \/ \E u \in User, role \in Role : BeginUpdate(r, u, role)
    \/ \E u \in User : BeginDelete(r, u)
    \/ \E row \in Updated(r) : WriteUser(r, row)
    \/ CountOthers(r) \/ DeleteUser(r) \/ DropSessions(r) \/ StatementFails(r)

AccountsNext ==
    \/ /\ up /\ UNCHANGED up
       /\ \/ \E r \in Request : Login(r) \/ Check(r) \/ Administer(r)
          \/ \E t \in Token : Logout(t)
          \/ Timers
    \/ UNCHANGED up /\ \E t \in Token : Expire(t)
    \/ ProcessEnds
    \/ \E pw \in Password : ProcessStarts(pw)

AccountsSpec == AccountsInit /\ [][AccountsNext]_accountsVars

-----------------------------------------------------------------------------
(* What accounts and sessions promise *)

HasAdmin == \E u \in User : IsAdmin(u)

\* "Blocks updates that would leave the system with zero admin users" (users.go), as far
\* as a check in a statement of its own can: the last administrator goes only by a
\* request whose check another request has overtaken, or whose read failed.
LastAdminLostByRace ==
    [][HasAdmin => HasAdmin' \/ \E r \in Request : /\ req[r].pc \in {"write", "delete"}
                                                   /\ req[r].outdated
                                                   /\ req'[r].pc # req[r].pc]_accountsVars

\* A session does not outlive the account and the password it was opened for: whoever
\* changes them is on the way to remove it, unless a login was overtaken, an upgrade
\* overwrote the password, the removal failed or the process ended before it.
SessionsAreCurrent ==
    \A t \in Token : Stale(t) => Dropping(sessions[t].user) \/ sessions[t].lapse # "no"

\* "invalidate sessions on user delete, demote, and password change" (VERIFICATION-v3.md):
\* with no failure and no end of the process, a session of a removed user or a replaced
\* password is about to be removed.
SessionsEndWithPassword ==
    \A t \in Token : Stale(t) => \/ Dropping(sessions[t].user)
                                 \/ sessions[t].lapse \in {"fault", "end"}

\* A password changes by an administrator's update; the upgrade of its hash by a login is
\* transparent, unless an update has overtaken that login.
UpgradeIsTransparent ==
    [][\A u \in User : Exists(u) /\ users'[u].role # "none" /\ users'[u].pw # users[u].pw =>
         \E r \in Request : /\ req[r].user = u
                            /\ \/ At(r, "write")
                               \/ At(r, "rehash") /\ req[r].outdated]_accountsVars

\* The keys that a login whose password was right is about to reset.
Verified == {req[r].user : r \in {q \in Request : At(q, "reset")}}
            \cup {Ip : r \in {q \in Request : At(q, "reset_ip")}}

Promise == INSTANCE SlidingWindow
             WITH admitted <- [k \in Key |-> Recent(attempts[k])], verified <- Verified,
                  running <- up

\* The limiter keeps its promise, whoever uses it in which order: while the process runs,
\* no key is admitted more often than its limit within a window, unless a login with it
\* succeeded in between. No eviction, refusal or other request's success forgets it.
LimiterPromise == Promise!WindowSpec
=============================================================================
