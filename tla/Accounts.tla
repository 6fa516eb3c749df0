------------------------------ MODULE Accounts ------------------------------
(***************************************************************************)
(* Accounts, sessions and the login throttle: what the threads of the Web  *)
(* process and the processes of the command line do to the tables users    *)
(* and login_throttle (wg_manager/routes.py, services.py, security.py,     *)
(* __init__.py).                                                           *)
(*                                                                         *)
(* Outside a transaction every SQL statement commits on its own, so a step *)
(* is one statement, or one write transaction; update_user, which calls    *)
(* the reconciler while it holds the write lock, is two steps.  A cookie   *)
(* is signed and kept by the browser: the server cannot take it back, and  *)
(* logging out only makes the browser forget its copy.                     *)
(***************************************************************************)
EXTENDS Naturals, FiniteSets

CONSTANTS
    Users,   \* usernames; each is logged in to from one source address
    Admins,  \* those whose role is 'admin'
    Web,     \* threads of the Web process
    Cli,     \* command-line processes
    None,    \* no row, no holder of the write lock
    Limit,   \* LOGIN_ATTEMPT_LIMIT
    Window,  \* LOGIN_WINDOW_SECONDS
    MaxTime, \* bound on the clock
    Budgets  \* bounds on logins tried, changes to users and failing statements

ASSUME AccountsAssumption ==
    /\ Admins \subseteq Users
    /\ Limit \in Nat \ {0} /\ Window \in Nat \ {0} /\ MaxTime \in Nat
    /\ IsFiniteSet(Web)
    /\ None \notin Users \cup Web \cup Cli
    /\ None \notin [enabled : BOOLEAN, version : Nat]
    /\ None \notin [failures : Nat, started : Nat, blocked : Nat]
    /\ Budgets \subseteq [tries : Nat, changes : Nat, faults : Nat]

VARIABLES
    user,     \* users: the row of each username
    era,      \* how often each user's sessions should have been revoked
    cookies,  \* the session cookies given out
    throttle, \* login_throttle: the row of each username's login key
    since,    \* the second from which on wrong passwords are counted
    guesses,  \* those compared since then, or since one was right
    lost,     \* those of them whose count could not be stored
    request,  \* what each thread and each command is doing
    writer,   \* the holder of SQLite's write lock between two steps
    now,      \* the clock
    budget    \* what is left of the bounds

avars == <<user, era, cookies, throttle, guesses, lost, since, request, writer, now, budget>>

Workers == Web \cup Cli
Time == 0 .. MaxTime

UserRow == [enabled : BOOLEAN, version : Nat]
ThrottleRow == [failures : Nat, started : Time, blocked : Nat]
Cookie == [user : Users, version : Nat, era : Nat]

Idle == [at |-> "idle"]

Request ==
    {Idle}
    \cup [at : {"expiring", "looking", "recording", "confirmed"}, who : Users]
    \cup [at : {"writing"}, who : Users, row : ThrottleRow]
    \cup [at : {"clearing"}, cookie : Cookie]
    \cup [at : {"acting"}, who : Users \cup {None}]
    \cup [at : {"updating"}, who : Users, enabled : BOOLEAN]

AccountsTypeOK ==
    /\ user \in [Users -> UserRow \cup {None}]
    /\ era \in [Users -> Nat]
    /\ cookies \subseteq Cookie
    /\ throttle \in [Users -> ThrottleRow \cup {None}]
    /\ guesses \in [Users -> Nat]
    /\ lost \in [Users -> Nat]
    /\ since \in Time
    /\ request \in [Workers -> Request]
    /\ writer \in Workers \cup {None}
    /\ \A w \in Workers : writer = w <=> request[w].at = "updating"
    /\ now \in Time
    /\ budget \in [tries : Nat, changes : Nat, faults : Nat]

NewRow == [enabled |-> TRUE, version |-> 1]

AccountsInit ==
    /\ \E U \in SUBSET Users : user = [u \in Users |-> IF u \in U THEN NewRow ELSE None]
    /\ era = [u \in Users |-> 0]
    /\ cookies = {}
    /\ throttle = [u \in Users |-> None]
    /\ guesses = [u \in Users |-> 0]
    /\ lost = [u \in Users |-> 0]
    /\ since = 0
    /\ request = [w \in Workers |-> Idle]
    /\ writer = None
    /\ now = 0
    /\ budget \in Budgets

-----------------------------------------------------------------------------
Exists(u) == user[u] # None

Goto(w, r) == request' = [request EXCEPT ![w] = r]

(* Every write waits until no other transaction is open.                   *)
Unlocked == writer = None

Spend(what) == budget[what] > 0 /\ budget' = [budget EXCEPT ![what] = @ - 1]

(*************************** the login page ********************************)
Expired(row) == now - row.started >= Window

(* throttle_status returns a time to wait.                                 *)
Refused(u) == LET row == throttle[u] IN
    /\ row # None
    /\ row.blocked > now \/ (~Expired(row) /\ row.failures >= Limit)

(* POST /login: the throttle row is read; one whose window is over is      *)
(* deleted by a statement of its own.                                      *)
LoginBegin(w, u) ==
    /\ request[w] = Idle
    /\ ~Refused(u)
    /\ Spend("tries")
    /\ LET over == throttle[u] # None /\ Expired(throttle[u]) IN
       Goto(w, [at |-> IF over THEN "expiring" ELSE "looking", who |-> u])
    /\ UNCHANGED <<user, era, cookies, throttle, guesses, lost, since, writer, now>>

(* The DELETE takes whatever row is there by now.                          *)
LoginExpire(w) == LET r == request[w] IN
    /\ r.at = "expiring" /\ Unlocked
    /\ throttle' = [throttle EXCEPT ![r.who] = None]
    /\ Goto(w, [at |-> "looking", who |-> r.who])
    /\ UNCHANGED <<user, era, cookies, guesses, lost, since, writer, now, budget>>

CookieOf(u) == [user |-> u, version |-> user[u].version, era |-> era[u]]

(* The users row is read once, and password, enabled flag and session      *)
(* version all come from that row.                                         *)
LoginCheck(w) == LET r == request[w] IN
    /\ r.at = "looking"
    /\ \/ /\ Exists(r.who) /\ user[r.who].enabled
          /\ Goto(w, [at |-> "clearing", cookie |-> CookieOf(r.who)])
          /\ UNCHANGED guesses
       \/ /\ Goto(w, [at |-> "recording", who |-> r.who])
          /\ guesses' = [guesses EXCEPT ![r.who] = @ + 1]
    /\ UNCHANGED <<user, era, cookies, throttle, lost, since, writer, now, budget>>

(* Mutation of NextThrottle: every failure starts a window of its own.     *)
NextThrottleAnew(u) ==
    [failures |-> 1, started |-> now,
     blocked |-> IF Limit = 1 THEN now + Window ELSE 0]

(* record_login_failure reads the row and computes the next one...         *)
NextThrottle(u) ==
    LET row == throttle[u]
        new == row = None \/ Expired(row)
        failures == IF new THEN 1 ELSE row.failures + 1
        started == IF new THEN now ELSE row.started
    IN  [failures |-> failures, started |-> started,
         blocked |-> IF failures >= Limit THEN started + Window ELSE 0]

LoginCount(w) == LET r == request[w] IN
    /\ r.at = "recording"
    /\ Goto(w, [at |-> "writing", who |-> r.who, row |-> NextThrottle(r.who)])
    /\ UNCHANGED <<user, era, cookies, throttle, guesses, lost, since, writer, now, budget>>

(* ...and stores it over whatever is there by then.                        *)
LoginRecord(w) == LET r == request[w] IN
    /\ r.at = "writing" /\ Unlocked
    /\ throttle' = [throttle EXCEPT ![r.who] = r.row]
    /\ Goto(w, Idle)
    /\ UNCHANGED <<user, era, cookies, guesses, lost, since, writer, now, budget>>

(* clear_login_failures, and the cookie goes out with the response.        *)
LoginSucceed(w) == LET r == request[w] IN
    /\ r.at = "clearing" /\ Unlocked
    /\ throttle' = [throttle EXCEPT ![r.cookie.user] = None]
    /\ guesses' = [guesses EXCEPT ![r.cookie.user] = 0]
    /\ lost' = [lost EXCEPT ![r.cookie.user] = 0]
    /\ cookies' = cookies \cup {r.cookie}
    /\ Goto(w, Idle)
    /\ UNCHANGED <<user, era, since, writer, now, budget>>

(* A statement of a login fails: the disk refuses it, or another writer    *)
(* keeps the lock for longer than busy_timeout.  The page ends in an error *)
(* and no cookie goes out.                                                 *)
LoginFails(w) ==
    /\ request[w].at \in {"expiring", "looking", "clearing"}
    /\ Spend("faults")
    /\ Goto(w, Idle)
    /\ UNCHANGED <<user, era, cookies, throttle, guesses, lost, since, writer, now>>

(* So may record_login_failure, when the password has been compared.       *)
CountFails(w) ==
    /\ request[w].at \in {"recording", "writing"}
    /\ Spend("faults")
    /\ lost' = [lost EXCEPT ![request[w].who] = @ + 1]
    /\ Goto(w, Idle)
    /\ UNCHANGED <<user, era, cookies, throttle, guesses, since, writer, now>>

(************************* requests with a session *************************)
(* load_authenticated_user: the row must exist, be enabled and be at the   *)
(* version of the cookie.                                                  *)
Accepted(c) == /\ Exists(c.user)
               /\ user[c.user].enabled
               /\ user[c.user].version = c.version

(* From here on the request acts with the rights of the row it read.       *)
WebBegin(w, c) ==
    /\ request[w] = Idle /\ Accepted(c)
    /\ budget.changes > 0
    /\ Goto(w, [at |-> "acting", who |-> c.user])
    /\ UNCHANGED <<user, era, cookies, throttle, guesses, lost, since, writer, now, budget>>

(* A command acts for the operator of the host.                            *)
CliBegin(w) ==
    /\ request[w] = Idle
    /\ budget.changes > 0
    /\ Goto(w, [at |-> "acting", who |-> None])
    /\ UNCHANGED <<user, era, cookies, throttle, guesses, lost, since, writer, now, budget>>

Privileged(w) == request[w].at = "acting" /\ request[w].who \in Admins \cup {None}

(* POST /account/password compares the current password and then stores    *)
(* the new one; the two are separate statements.                           *)
ConfirmPassword(w) ==
    /\ request[w].at = "acting" /\ request[w].who # None
    /\ Goto(w, [at |-> "confirmed", who |-> request[w].who])
    /\ UNCHANGED <<user, era, cookies, throttle, guesses, lost, since, writer, now, budget>>

Revoke(u) == era' = [era EXCEPT ![u] = @ + 1]

(* Mutation of NewPassword: the sessions are left alone.                   *)
NewPasswordOnly(u) == Revoke(u) /\ UNCHANGED user

(* set_user_password: whoever has the old password is shut out.            *)
NewPassword(u) ==
    /\ Revoke(u)
    /\ user' = [user EXCEPT ![u].version = @ + 1]

SetPassword(w, u) ==
    /\ Unlocked /\ Exists(u)
    /\ \/ request[w] = [at |-> "confirmed", who |-> u]
       \/ Privileged(w)
    /\ Spend("changes")
    /\ NewPassword(u)
    /\ Goto(w, Idle)
    /\ UNCHANGED <<cookies, throttle, guesses, lost, since, writer, now>>

(* create_user; the Web page creates users only, a command administrators  *)
(* as well.                                                                *)
CreateUser(w, u) ==
    /\ Unlocked /\ ~Exists(u)
    /\ Privileged(w)
    /\ request[w].who = None \/ u \notin Admins
    /\ Spend("changes")
    /\ user' = [user EXCEPT ![u] = NewRow]
    /\ Goto(w, Idle)
    /\ UNCHANGED <<era, cookies, throttle, guesses, lost, since, writer, now>>

LastEnabledAdmin(u) ==
    u \in Admins /\ Cardinality({a \in Admins : Exists(a) /\ user[a].enabled}) <= 1

(* Mutation of UpdateLock: the check is made before the write lock is      *)
(* taken.                                                                  *)
UpdateLockLate(w) == UNCHANGED writer

(* BEGIN IMMEDIATE.                                                        *)
UpdateLock(w) == Unlocked /\ writer' = w

(* update_user: checks under the write lock; then the live state is        *)
(* reconciled with the lock held, if the flag changes.                     *)
UpdateBegin(w, u, enabled) ==
    /\ Privileged(w) /\ Exists(u)
    /\ ~enabled => ~LastEnabledAdmin(u)
    /\ UpdateLock(w)
    /\ Spend("changes")
    /\ Goto(w, [at |-> "updating", who |-> u, enabled |-> enabled])
    /\ UNCHANGED <<user, era, cookies, throttle, guesses, lost, since, now>>

(* Mutation of Release: the transaction is left open.                      *)
ReleaseForgotten == UNCHANGED writer

(* COMMIT or ROLLBACK.                                                     *)
Release == writer' = None

UpdateCommit(w) == LET r == request[w]
                       flips == user[r.who].enabled # r.enabled
                   IN
    /\ r.at = "updating"
    /\ user' = [user EXCEPT ![r.who].enabled = r.enabled,
                            ![r.who].version = IF flips THEN @ + 1 ELSE @]
    /\ IF flips THEN Revoke(r.who) ELSE UNCHANGED era
    /\ Release
    /\ Goto(w, Idle)
    /\ UNCHANGED <<cookies, throttle, guesses, lost, since, now, budget>>

(* The live apply or the commit failed: nothing of it stays.               *)
UpdateRollback(w) ==
    /\ request[w].at = "updating"
    /\ user[request[w].who].enabled # request[w].enabled
    /\ Release
    /\ Goto(w, Idle)
    /\ UNCHANGED <<user, era, cookies, throttle, guesses, lost, since, now, budget>>

(* A request is turned down by one of the checks, or only looks at pages.  *)
Turned(w) ==
    /\ request[w].at \in {"acting", "confirmed"}
    /\ Goto(w, Idle)
    /\ UNCHANGED <<user, era, cookies, throttle, guesses, lost, since, writer, now, budget>>

Tick ==
    /\ now < MaxTime
    /\ now' = now + 1
    /\ \/ now' < since + Window /\ UNCHANGED <<guesses, lost, since>>
       \/ /\ guesses' = [u \in Users |-> 0] /\ lost' = [u \in Users |-> 0]
          /\ since' = now'
    /\ UNCHANGED <<user, era, cookies, throttle, request, writer, budget>>

AccountsNext ==
    \/ \E w \in Web : \/ \E u \in Users : LoginBegin(w, u)
                      \/ LoginExpire(w) \/ LoginCheck(w) \/ LoginCount(w)
                      \/ LoginRecord(w) \/ LoginSucceed(w)
                      \/ LoginFails(w) \/ CountFails(w)
                      \/ \E c \in cookies : WebBegin(w, c)
                      \/ ConfirmPassword(w)
    \/ \E w \in Cli : CliBegin(w)
    \/ \E w \in Workers : \/ \E u \in Users :
                              \/ SetPassword(w, u) \/ CreateUser(w, u)
                              \/ \E e \in BOOLEAN : UpdateBegin(w, u, e)
                          \/ UpdateCommit(w) \/ UpdateRollback(w) \/ Turned(w)
    \/ Tick

AccountsSpec == AccountsInit /\ [][AccountsNext]_avars

-----------------------------------------------------------------------------
(* Whatever interleaves with a login, a cookie that requests still accept  *)
(* comes from a row read after the last password change and the last       *)
(* enabling or disabling of its user: nobody logs in with a password that  *)
(* is replaced before the cookie goes out, and no old session comes back   *)
(* when a user is enabled again (routes.py:517, "existing sessions were    *)
(* revoked").                                                              *)
SessionsAreCurrent == \A c \in cookies : Accepted(c) => c.era = era[c.user]

(* While an administrator exists, an enabled one does, although two        *)
(* requests may disable two of them at once (services.py:155).             *)
AdminRemains ==
    (\E a \in Admins : Exists(a)) => \E a \in Admins : Exists(a) /\ user[a].enabled

(* The ways to spread the threads over the Limit + 3 stages in which one   *)
(* may be with a row (see AccountsProofs): p[v] of them are at most at     *)
(* stage v, and not all of them are at stages 0 to 2.  With two threads    *)
(* these are (Limit + 1) * (Limit + 2) \div 2 - 1 + 2 * Limit.             *)
Burst ==
    Cardinality({p \in [0 .. Limit + 1 -> 0 .. Cardinality(Web)] :
                     /\ \A v, x \in 0 .. Limit + 1 : v <= x => p[v] <= p[x]
                     /\ p[2] # Cardinality(Web)})

(* How many wrong passwords the threads compare for one login key in one   *)
(* second, and in any Window seconds.  Limit of them would be the intent;  *)
(* but no two statements of the throttle are atomic, so a thread that      *)
(* counted early stores its count over a later one, and a slow one puts    *)
(* back, or deletes, a row of the window before; and a guess whose count   *)
(* fails to be stored is free.  The guesses stay bounded all the same      *)
(* (routes.py:153).                                                        *)
GuessBound ==
    \A u \in Users :
        guesses[u] <= (IF since = now THEN 1 ELSE Cardinality(Web) + 2) * Burst
                        + lost[u]

=============================================================================
