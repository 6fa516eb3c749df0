--------------------------- MODULE AccountsProofs ---------------------------
(***************************************************************************)
(* What holds of the accounts for any number of users, administrators,     *)
(* threads and commands: the types, that no cookie given out before a      *)
(* password change is accepted after it, and that an enabled administrator *)
(* remains.                                                                *)
(***************************************************************************)
EXTENDS Accounts, FiniteSetTheorems, TLAPS

(* A row's version counts the revocations since its user exists.           *)
VersionsFollow ==
    \A u \in Users : IF Exists(u) THEN user[u].version = era[u] + 1 ELSE era[u] = 0

(* So does the version in a cookie, given out or on its way.               *)
CookieFollows(c) == c.version = c.era + 1

CookiesFollow ==
    /\ \A c \in cookies : CookieFollows(c)
    /\ \A w \in Workers : request[w].at = "clearing" => CookieFollows(request[w].cookie)

Active(a) == Exists(a) /\ user[a].enabled

OtherAdmin(u) == u \in Admins => \E a \in Admins \ {u} : Active(a)

(* What update_user has checked stays true while it holds the write lock.  *)
UpdatesAreSafe ==
    \A w \in Workers :
        request[w].at = "updating" =>
            /\ Exists(request[w].who)
            /\ ~request[w].enabled => OtherAdmin(request[w].who)

AccountsInv ==
    /\ AccountsTypeOK
    /\ VersionsFollow
    /\ CookiesFollow
    /\ UpdatesAreSafe
    /\ AdminRemains

-----------------------------------------------------------------------------
(* What a request in a given state carries.                                *)
LEMMA RequestFields ==
    ASSUME NEW r \in Request
    PROVE  /\ r.at \in {"expiring", "looking", "recording", "confirmed"} =>
                  r.who \in Users
           /\ r.at = "writing" => r.who \in Users /\ r.row \in ThrottleRow
           /\ r.at = "clearing" => r.cookie \in Cookie
           /\ r.at = "acting" => r.who \in Users \cup {None}
           /\ r.at = "updating" => r.who \in Users /\ r.enabled \in BOOLEAN
BY DEF Request, Idle

LEMMA NoneIsNoRow == None \notin UserRow
BY AccountsAssumption DEF UserRow

(* The lock is free only while nobody updates, and has one holder.         *)
LEMMA OneUpdate ==
    ASSUME AccountsTypeOK, NEW w \in Workers, request[w].at = "updating"
    PROVE  writer = w /\ \A v \in Workers \ {w} : request[v].at # "updating"
BY DEF AccountsTypeOK

LEMMA FreeLock ==
    ASSUME AccountsTypeOK, Unlocked
    PROVE  \A v \in Workers : request[v].at # "updating"
BY AccountsAssumption DEF AccountsTypeOK, Unlocked, Workers

(* record_login_failure computes a row.                                    *)
LEMMA NextThrottleType ==
    ASSUME AccountsTypeOK, NEW u \in Users
    PROVE  NextThrottle(u) \in ThrottleRow
<1> DEFINE row == throttle[u]
           new == row = None \/ Expired(row)
           failures == IF new THEN 1 ELSE row.failures + 1
           started == IF new THEN now ELSE row.started
<1>1. row # None => row \in ThrottleRow
  BY DEF AccountsTypeOK
<1>2. failures \in Nat /\ started \in Time
  <2>1. CASE new
    BY <2>1 DEF AccountsTypeOK
  <2>2. CASE ~new
    BY <1>1, <2>2 DEF ThrottleRow
  <2> QED
    BY <2>1, <2>2
<1>3. (IF failures >= Limit THEN started + Window ELSE 0) \in Nat
  BY <1>2, AccountsAssumption DEF Time
<1> HIDE DEF failures, started
<1>4. [failures |-> failures, started |-> started,
       blocked |-> IF failures >= Limit THEN started + Window ELSE 0] \in ThrottleRow
  BY <1>2, <1>3 DEF ThrottleRow
<1> QED
  BY <1>4 DEF NextThrottle, failures, started

(* Whoever is not the last enabled administrator leaves another one.       *)
LEMMA NotTheLast ==
    ASSUME NEW u \in Users, ~LastEnabledAdmin(u)
    PROVE  OtherAdmin(u)
<1> DEFINE S == {a \in Admins : Exists(a) /\ user[a].enabled}
<1> SUFFICES ASSUME u \in Admins, ~ \E a \in Admins \ {u} : Active(a)
             PROVE  Cardinality(S) <= 1
  BY DEF OtherAdmin, LastEnabledAdmin
<1>1. S \subseteq {u}
  BY DEF Active
<1>2. S = {} \/ S = {u}
  BY <1>1
<1> HIDE DEF S
<1>3. CASE S = {}
  BY <1>3, FS_EmptySet
<1>4. CASE S = {u}
  <2>1. Cardinality({u}) = 1
    BY FS_Singleton
  <2> QED
    BY <1>4, <2>1
<1> QED
  BY <1>2, <1>3, <1>4

-----------------------------------------------------------------------------
(* Every step keeps the types; update_user's needs that its row is there.  *)
LEMMA TypeStep ==
    ASSUME AccountsTypeOK, UpdatesAreSafe, AccountsNext
    PROVE  AccountsTypeOK'
<1> USE AccountsAssumption DEF AccountsTypeOK, Workers, Goto
<1>1. ASSUME NEW w \in Web, NEW u \in Users, LoginBegin(w, u)
      PROVE  AccountsTypeOK'
  BY <1>1 DEF LoginBegin, Spend, Request, Idle
<1>2. ASSUME NEW w \in Web, LoginExpire(w)
      PROVE  AccountsTypeOK'
  <2>1. request[w].who \in Users
    BY <1>2, RequestFields DEF LoginExpire
  <2> QED
    BY <1>2, <2>1 DEF LoginExpire, Request, Idle
<1>3. ASSUME NEW w \in Web, LoginCheck(w)
      PROVE  AccountsTypeOK'
  <2>1. request[w].who \in Users
    BY <1>3, RequestFields DEF LoginCheck
  <2>2. Exists(request[w].who) => CookieOf(request[w].who) \in Cookie
    BY <2>1 DEF CookieOf, Cookie, Exists, UserRow
  <2>3. CASE Goto(w, [at |-> "clearing", cookie |-> CookieOf(request[w].who)])
             /\ Exists(request[w].who) /\ UNCHANGED guesses
    BY <1>3, <2>2, <2>3 DEF LoginCheck, Request, Idle
  <2>4. CASE Goto(w, [at |-> "recording", who |-> request[w].who])
             /\ guesses' = [guesses EXCEPT ![request[w].who] = @ + 1]
    BY <1>3, <2>1, <2>4 DEF LoginCheck, Request, Idle
  <2> QED
    BY <1>3, <2>3, <2>4 DEF LoginCheck
<1>4. ASSUME NEW w \in Web, LoginCount(w)
      PROVE  AccountsTypeOK'
  <2>1. request[w].who \in Users
    BY <1>4, RequestFields DEF LoginCount
  <2>2. NextThrottle(request[w].who) \in ThrottleRow
    BY <2>1, NextThrottleType
  <2> QED
    BY <1>4, <2>1, <2>2 DEF LoginCount, Request, Idle
<1>5. ASSUME NEW w \in Web, LoginRecord(w)
      PROVE  AccountsTypeOK'
  <2>1. request[w].who \in Users /\ request[w].row \in ThrottleRow
    BY <1>5, RequestFields DEF LoginRecord
  <2> QED
    BY <1>5, <2>1 DEF LoginRecord, Request, Idle
<1>6. ASSUME NEW w \in Web, LoginSucceed(w)
      PROVE  AccountsTypeOK'
  <2>1. request[w].cookie \in Cookie
    BY <1>6, RequestFields DEF LoginSucceed
  <2> QED
    BY <1>6, <2>1 DEF LoginSucceed, Request, Idle, Cookie
<1>7. ASSUME NEW w \in Web, NEW c \in cookies, WebBegin(w, c)
      PROVE  AccountsTypeOK'
  BY <1>7 DEF WebBegin, Request, Idle, Cookie
<1>8. ASSUME NEW w \in Web, ConfirmPassword(w)
      PROVE  AccountsTypeOK'
  <2>1. request[w].who \in Users
    BY <1>8, RequestFields DEF ConfirmPassword
  <2> QED
    BY <1>8, <2>1 DEF ConfirmPassword, Request, Idle
<1>9. ASSUME NEW w \in Cli, CliBegin(w)
      PROVE  AccountsTypeOK'
  BY <1>9 DEF CliBegin, Request, Idle
<1>10. ASSUME NEW w \in Workers, NEW u \in Users, SetPassword(w, u)
       PROVE  AccountsTypeOK'
  <2>1. user' \in [Users -> UserRow \cup {None}] /\ era' \in [Users -> Nat]
    BY <1>10 DEF SetPassword, NewPassword, Revoke, Exists, UserRow
  <2> QED
    BY <1>10, <2>1 DEF SetPassword, Unlocked, Spend, Request, Idle
<1>11. ASSUME NEW w \in Workers, NEW u \in Users, CreateUser(w, u)
       PROVE  AccountsTypeOK'
  <2>1. user' \in [Users -> UserRow \cup {None}]
    BY <1>11 DEF CreateUser, NewRow, UserRow
  <2> QED
    BY <1>11, <2>1 DEF CreateUser, Unlocked, Spend, Request, Idle
<1>12. ASSUME NEW w \in Workers, NEW u \in Users, NEW e \in BOOLEAN,
              UpdateBegin(w, u, e)
       PROVE  AccountsTypeOK'
  BY <1>12 DEF UpdateBegin, UpdateLock, Unlocked, Spend, Request, Idle
<1>13. ASSUME NEW w \in Workers, UpdateCommit(w)
       PROVE  AccountsTypeOK'
  <2> DEFINE r == request[w]
  <2>1. r.at = "updating" /\ r.who \in Users /\ r.enabled \in BOOLEAN /\ Exists(r.who)
    BY <1>13, RequestFields DEF UpdateCommit, UpdatesAreSafe
  <2>2. user' \in [Users -> UserRow \cup {None}] /\ era' \in [Users -> Nat]
    BY <1>13, <2>1 DEF UpdateCommit, Revoke, Exists, UserRow
  <2> QED
    BY <1>13, <2>1, <2>2, OneUpdate DEF UpdateCommit, Release, Request, Idle
<1>14. ASSUME NEW w \in Workers, UpdateRollback(w)
       PROVE  AccountsTypeOK'
  BY <1>14, OneUpdate DEF UpdateRollback, Release, Request, Idle
<1>15. ASSUME NEW w \in Workers, Turned(w)
       PROVE  AccountsTypeOK'
  BY <1>15 DEF Turned, Request, Idle
<1>16. ASSUME Tick
       PROVE  AccountsTypeOK'
  BY <1>16 DEF Tick, Time
<1>17. ASSUME NEW w \in Web, LoginFails(w)
       PROVE  AccountsTypeOK'
  BY <1>17 DEF LoginFails, Spend, Request, Idle
<1>18. ASSUME NEW w \in Web, CountFails(w)
       PROVE  AccountsTypeOK'
  <2>1. request[w].who \in Users
    BY <1>18, RequestFields DEF CountFails
  <2> QED
    BY <1>18, <2>1 DEF CountFails, Spend, Request, Idle
<1> QED
  BY <1>1, <1>2, <1>3, <1>4, <1>5, <1>6, <1>7, <1>8, <1>9, <1>10, <1>11,
     <1>12, <1>13, <1>14, <1>15, <1>16, <1>17, <1>18 DEF AccountsNext

-----------------------------------------------------------------------------
(* Only three actions write a row; the first two need the lock to be free. *)
LEMMA RowWriters ==
    ASSUME AccountsNext
    PROVE  \/ UNCHANGED <<user, era>>
           \/ \E w \in Workers, u \in Users : SetPassword(w, u) \/ CreateUser(w, u)
           \/ \E w \in Workers : UpdateCommit(w)
BY DEF AccountsNext, LoginBegin, LoginExpire, LoginCheck, LoginCount,
       LoginRecord, LoginSucceed, LoginFails, CountFails, WebBegin,
       ConfirmPassword, CliBegin, UpdateBegin, UpdateRollback, Turned, Tick

LEMMA VersionsStep ==
    ASSUME AccountsTypeOK, VersionsFollow, UpdatesAreSafe, AccountsNext
    PROVE  VersionsFollow'
<1> USE DEF AccountsTypeOK, VersionsFollow, Exists, UserRow
<1>1. CASE UNCHANGED <<user, era>>
  BY <1>1
<1>2. ASSUME NEW w \in Workers, NEW u \in Users, SetPassword(w, u)
      PROVE  VersionsFollow'
  BY <1>2, AccountsAssumption DEF SetPassword, NewPassword, Revoke
<1>3. ASSUME NEW w \in Workers, NEW u \in Users, CreateUser(w, u)
      PROVE  VersionsFollow'
  BY <1>3, AccountsAssumption DEF CreateUser, NewRow
<1>4. ASSUME NEW w \in Workers, UpdateCommit(w)
      PROVE  VersionsFollow'
  <2> DEFINE u == request[w].who
  <2>1. u \in Users /\ Exists(u)
    BY <1>4, RequestFields DEF UpdateCommit, UpdatesAreSafe
  <2>2. request[w].enabled \in BOOLEAN
    BY <1>4, RequestFields DEF UpdateCommit
  <2>3. CASE user[u].enabled # request[w].enabled
    BY <1>4, <2>1, <2>2, <2>3, AccountsAssumption DEF UpdateCommit, Revoke
  <2>4. CASE user[u].enabled = request[w].enabled
    BY <1>4, <2>1, <2>2, <2>4, AccountsAssumption DEF UpdateCommit
  <2> QED
    BY <2>3, <2>4
<1> QED
  BY <1>1, <1>2, <1>3, <1>4, RowWriters

(* Cookies are made from a row by LoginCheck and given out later.          *)
LEMMA CookiesStep ==
    ASSUME AccountsTypeOK, VersionsFollow, CookiesFollow, AccountsNext
    PROVE  CookiesFollow'
<1> USE DEF AccountsTypeOK, CookiesFollow, CookieFollows, Goto, Idle
<1>1. ASSUME NEW w \in Web, LoginCheck(w)
      PROVE  CookiesFollow'
  <2> DEFINE u == request[w].who
  <2>1. u \in Users
    BY <1>1, RequestFields DEF LoginCheck, Workers
  <2>2. Exists(u) => CookieFollows(CookieOf(u))
    BY <2>1 DEF VersionsFollow, CookieOf
  <2> QED
    BY <1>1, <2>2 DEF LoginCheck, Workers
<1>2. ASSUME NEW w \in Web, LoginSucceed(w)
      PROVE  CookiesFollow'
  BY <1>2 DEF LoginSucceed, Workers
<1>3. ASSUME cookies' = cookies, NEW w \in Workers,
             NEW r, r.at # "clearing", Goto(w, r)
      PROVE  CookiesFollow'
  BY <1>3
<1>4. CASE UNCHANGED <<cookies, request>>
  BY <1>4
<1>5. \/ \E w \in Web : LoginCheck(w) \/ LoginSucceed(w)
      \/ /\ cookies' = cookies
         /\ \E w \in Workers : \E r : r.at # "clearing" /\ Goto(w, r)
      \/ UNCHANGED <<cookies, request>>
  <2>1. \A w \in Web : w \in Workers
    BY DEF Workers
  <2>2. \A w \in Cli : w \in Workers
    BY DEF Workers
  <2> HIDE DEF AccountsTypeOK, CookiesFollow, CookieFollows, Goto, Idle
  <2>3. ASSUME NEW w \in Web, NEW u \in Users, LoginBegin(w, u)
        PROVE  cookies' = cookies /\ \E r : r.at # "clearing" /\ Goto(w, r)
    BY <2>3 DEF LoginBegin
  <2>4. ASSUME NEW w \in Web,
               LoginExpire(w) \/ LoginCount(w) \/ LoginRecord(w)
                 \/ LoginFails(w) \/ CountFails(w) \/ ConfirmPassword(w)
        PROVE  cookies' = cookies /\ \E r : r.at # "clearing" /\ Goto(w, r)
    BY <2>4 DEF LoginExpire, LoginCount, LoginRecord, LoginFails, CountFails,
                ConfirmPassword, Idle
  <2>5. ASSUME NEW w \in Web, NEW c \in cookies, WebBegin(w, c)
        PROVE  cookies' = cookies /\ \E r : r.at # "clearing" /\ Goto(w, r)
    BY <2>5 DEF WebBegin
  <2>6. ASSUME NEW w \in Cli, CliBegin(w)
        PROVE  cookies' = cookies /\ \E r : r.at # "clearing" /\ Goto(w, r)
    BY <2>6 DEF CliBegin
  <2>7. ASSUME NEW w \in Workers, NEW u \in Users,
               SetPassword(w, u) \/ CreateUser(w, u)
                 \/ \E e \in BOOLEAN : UpdateBegin(w, u, e)
        PROVE  cookies' = cookies /\ \E r : r.at # "clearing" /\ Goto(w, r)
    BY <2>7 DEF SetPassword, CreateUser, UpdateBegin, Idle
  <2>8. ASSUME NEW w \in Workers, UpdateCommit(w) \/ UpdateRollback(w) \/ Turned(w)
        PROVE  cookies' = cookies /\ \E r : r.at # "clearing" /\ Goto(w, r)
    BY <2>8 DEF UpdateCommit, UpdateRollback, Turned, Idle
  <2>9. CASE Tick
    BY <2>9 DEF Tick
  <2> QED
    BY <2>1, <2>2, <2>3, <2>4, <2>5, <2>6, <2>7, <2>8, <2>9 DEF AccountsNext
<1> QED
  BY <1>1, <1>2, <1>3, <1>4, <1>5

(* Nobody else writes a row while the lock is held, and whoever takes it   *)
(* has just made the check.                                                *)
LEMMA UpdatesStep ==
    ASSUME AccountsTypeOK, UpdatesAreSafe, AccountsNext
    PROVE  UpdatesAreSafe'
<1> USE DEF AccountsTypeOK, Goto, Idle
<1>1. ASSUME NEW w \in Workers, NEW u \in Users, SetPassword(w, u) \/ CreateUser(w, u)
      PROVE  UpdatesAreSafe'
  BY <1>1, FreeLock DEF SetPassword, CreateUser, UpdatesAreSafe
<1>2. ASSUME NEW w \in Workers, UpdateCommit(w)
      PROVE  UpdatesAreSafe'
  BY <1>2, OneUpdate DEF UpdateCommit, UpdatesAreSafe
<1>3. ASSUME NEW w \in Workers, NEW u \in Users, NEW e \in BOOLEAN,
             UpdateBegin(w, u, e)
      PROVE  UpdatesAreSafe'
  <2>1. Exists(u) /\ (~e => OtherAdmin(u))
    BY <1>3, NotTheLast DEF UpdateBegin
  <2>2. (Exists(u) /\ (~e => OtherAdmin(u)))'
    BY <1>3, <2>1 DEF UpdateBegin, Exists, OtherAdmin, Active
  <2>3. \A v \in Workers : request[v].at # "updating"
    BY <1>3, FreeLock DEF UpdateBegin, UpdateLock
  <2> QED
    BY <1>3, <2>2, <2>3 DEF UpdateBegin, UpdatesAreSafe
<1>4. ASSUME user' = user, \A w \in Workers : request'[w].at = "updating" =>
                               request'[w] = request[w]
      PROVE  UpdatesAreSafe'
  BY <1>4 DEF UpdatesAreSafe, Exists, OtherAdmin, Active
<1>5. ASSUME user' = user, NEW w \in Workers, NEW r, r.at # "updating", Goto(w, r)
      PROVE  UpdatesAreSafe'
  BY <1>4, <1>5
<1>6. ASSUME NEW w \in Web, NEW u \in Users, LoginBegin(w, u)
      PROVE  UpdatesAreSafe'
  BY <1>6, <1>4 DEF LoginBegin
<1>7. ASSUME NEW w \in Web,
             LoginExpire(w) \/ LoginCheck(w) \/ LoginCount(w) \/ LoginRecord(w)
               \/ LoginSucceed(w) \/ LoginFails(w) \/ CountFails(w)
               \/ ConfirmPassword(w)
      PROVE  UpdatesAreSafe'
  BY <1>7, <1>4 DEF LoginExpire, LoginCheck, LoginCount, LoginRecord,
                    LoginSucceed, LoginFails, CountFails, ConfirmPassword
<1>8. ASSUME NEW w \in Web, NEW c \in cookies, WebBegin(w, c)
      PROVE  UpdatesAreSafe'
  BY <1>8, <1>4 DEF WebBegin
<1>9. ASSUME NEW w \in Workers, CliBegin(w) \/ UpdateRollback(w) \/ Turned(w)
      PROVE  UpdatesAreSafe'
  BY <1>9, <1>4 DEF CliBegin, UpdateRollback, Turned
<1>10. CASE Tick
  BY <1>10, <1>4 DEF Tick
<1> QED
  BY <1>1, <1>2, <1>3, <1>6, <1>7, <1>8, <1>9, <1>10 DEF AccountsNext, Workers

LEMMA AdminStep ==
    ASSUME AccountsTypeOK, UpdatesAreSafe, AdminRemains, AccountsNext
    PROVE  AdminRemains'
<1> USE AccountsAssumption DEF AccountsTypeOK, AdminRemains, Exists
<1>1. CASE UNCHANGED <<user, era>>
  BY <1>1
<1>2. ASSUME NEW w \in Workers, NEW u \in Users, SetPassword(w, u)
      PROVE  AdminRemains'
  <2>1. /\ user[u] # None
        /\ user' = [user EXCEPT ![u] = [user[u] EXCEPT !.version = @ + 1]]
    BY <1>2 DEF SetPassword, NewPassword
  <2>2. user'[u] # None /\ user'[u].enabled = user[u].enabled
    <3>1. user[u] \in UserRow
      BY <2>1
    <3>2. user'[u] = [user[u] EXCEPT !.version = @ + 1]
      BY <2>1
    <3>3. user'[u] \in UserRow /\ user'[u].enabled = user[u].enabled
      BY <3>1, <3>2 DEF UserRow
    <3> QED
      BY <3>3, NoneIsNoRow
  <2>3. \A a \in Users \ {u} : user'[a] = user[a]
    BY <2>1
  <2>4. \A a \in Admins : user'[a] # None /\ user'[a].enabled <=>
                              user[a] # None /\ user[a].enabled
    BY <2>1, <2>2, <2>3
  <2>5. \A a \in Admins : user'[a] # None <=> user[a] # None
    BY <2>1, <2>2, <2>3
  <2> HIDE DEF AccountsTypeOK
  <2> QED
    BY <2>4, <2>5
<1>3. ASSUME NEW w \in Workers, NEW u \in Users, CreateUser(w, u)
      PROVE  AdminRemains'
  <2>1. user'[u] # None /\ user'[u].enabled
    <3>1. user' = [user EXCEPT ![u] = NewRow]
      BY <1>3 DEF CreateUser
    <3>2. user'[u] = NewRow
      BY <3>1
    <3>3. NewRow # None /\ NewRow.enabled
      <4>1. NewRow \in UserRow /\ NewRow.enabled
        BY DEF NewRow, UserRow
      <4> QED
        BY <4>1, NoneIsNoRow
    <3> QED
      BY <3>2, <3>3
  <2>2. \A a \in Users \ {u} : user'[a] = user[a]
    BY <1>3 DEF CreateUser
  <2> QED
    BY <1>3, <2>1, <2>2 DEF CreateUser
<1>4. ASSUME NEW w \in Workers, UpdateCommit(w)
      PROVE  AdminRemains'
  <2> DEFINE u == request[w].who
  <2>1. /\ u \in Users /\ user[u] # None /\ request[w].enabled \in BOOLEAN
        /\ ~request[w].enabled => OtherAdmin(u)
    BY <1>4, RequestFields DEF UpdateCommit, UpdatesAreSafe
  <2>2. user'[u] # None /\ user'[u].enabled = request[w].enabled
    <3>1. user[u] \in UserRow
      BY <2>1
    <3>2. user'[u] \in UserRow
      <4> DEFINE flips == user[u].enabled # request[w].enabled
                 v == IF flips THEN user[u].version + 1 ELSE user[u].version
      <4>1. v \in Nat
        BY <3>1 DEF UserRow
      <4>2. user'[u] = [user[u] EXCEPT !.enabled = request[w].enabled, !.version = v]
        BY <1>4, <2>1, <3>1 DEF UpdateCommit, UserRow
      <4> HIDE DEF v
      <4> QED
        BY <2>1, <3>1, <4>1, <4>2 DEF UserRow
    <3>3. user'[u].enabled = request[w].enabled
      BY <1>4, <2>1, <3>1 DEF UpdateCommit, UserRow
    <3> QED
      BY <3>2, <3>3, NoneIsNoRow
  <2>3. \A a \in Users \ {u} : user'[a] = user[a]
    BY <1>4, <2>1 DEF UpdateCommit
  <2>4. CASE u \in Admins /\ ~request[w].enabled
    BY <2>1, <2>3, <2>4 DEF OtherAdmin, Active
  <2>5. CASE u \in Admins /\ request[w].enabled
    BY <2>2, <2>5
  <2>6. CASE u \notin Admins
    BY <2>3, <2>6
  <2> QED
    BY <2>1, <2>4, <2>5, <2>6
<1> QED
  BY <1>1, <1>2, <1>3, <1>4, RowWriters

-----------------------------------------------------------------------------
LEMMA InvInit == AccountsInit => AccountsInv
<1> SUFFICES ASSUME AccountsInit PROVE AccountsInv
  OBVIOUS
<1> USE AccountsAssumption DEF AccountsInit
<1>1. PICK U \in SUBSET Users :
          user = [u \in Users |-> IF u \in U THEN NewRow ELSE None]
  OBVIOUS
<1>2. AccountsTypeOK
  BY <1>1 DEF AccountsTypeOK, NewRow, UserRow, Request, Idle, Time, Workers
<1>3. VersionsFollow
  BY <1>1 DEF VersionsFollow, Exists, NewRow
<1>4. CookiesFollow /\ UpdatesAreSafe
  BY DEF CookiesFollow, UpdatesAreSafe, Idle
<1>5. AdminRemains
  BY <1>1 DEF AdminRemains, Exists, NewRow
<1> QED
  BY <1>2, <1>3, <1>4, <1>5 DEF AccountsInv

LEMMA InvStep == AccountsInv /\ [AccountsNext]_avars => AccountsInv'
<1> SUFFICES ASSUME AccountsInv, [AccountsNext]_avars PROVE AccountsInv'
  OBVIOUS
<1> USE DEF AccountsInv
<1>1. CASE AccountsNext
  BY <1>1, TypeStep, VersionsStep, CookiesStep, UpdatesStep, AdminStep
<1>2. CASE UNCHANGED avars
  <2>1. AccountsTypeOK'
    BY <1>2 DEF avars, AccountsTypeOK
  <2>2. VersionsFollow' /\ CookiesFollow'
    BY <1>2 DEF avars, VersionsFollow, CookiesFollow, CookieFollows, Exists
  <2>3. UpdatesAreSafe' /\ AdminRemains'
    BY <1>2 DEF avars, UpdatesAreSafe, AdminRemains, OtherAdmin, Active, Exists
  <2> QED
    BY <2>1, <2>2, <2>3
<1> QED
  BY <1>1, <1>2

LEMMA Invariance == AccountsSpec => []AccountsInv
BY InvInit, InvStep, PTL DEF AccountsSpec

(* The rows, the cookies, the throttle and the requests keep their types,  *)
(* and whoever is updating a user holds the write lock.                    *)
THEOREM AccountsTyped == AccountsSpec => []AccountsTypeOK
<1>1. AccountsInv => AccountsTypeOK
  BY DEF AccountsInv
<1> QED
  BY <1>1, Invariance, PTL

(* No cookie from before a password change, or from before its user was    *)
(* disabled or enabled, is accepted afterwards.                            *)
THEOREM SessionsStayCurrent == AccountsSpec => []SessionsAreCurrent
<1>1. AccountsInv => SessionsAreCurrent
  <2> SUFFICES ASSUME AccountsInv, NEW c \in cookies, Accepted(c)
               PROVE  c.era = era[c.user]
    BY DEF SessionsAreCurrent
  <2>1. c \in Cookie /\ c.version = c.era + 1
    BY DEF AccountsInv, AccountsTypeOK, CookiesFollow, CookieFollows
  <2>2. user[c.user].version = era[c.user] + 1 /\ user[c.user].version = c.version
    BY <2>1 DEF AccountsInv, VersionsFollow, Accepted, Cookie
  <2>3. c.era \in Nat /\ era[c.user] \in Nat
    BY <2>1 DEF AccountsInv, AccountsTypeOK, Cookie
  <2> QED
    BY <2>1, <2>2, <2>3
<1> QED
  BY <1>1, Invariance, PTL

(* However many administrators are disabled at once, an enabled one stays. *)
THEOREM AnAdminRemains == AccountsSpec => []AdminRemains
<1>1. AccountsInv => AdminRemains
  BY DEF AccountsInv
<1> QED
  BY <1>1, Invariance, PTL

-----------------------------------------------------------------------------
(* GuessBound.  Where a thread is with a login key can be read off the row *)
(* of the key: the more failures the row counts, the further.  The threads *)
(* have stages 0 .. Top, which only have to bound from above what each may *)
(* still put back; the row's own stage is Stage(row).  A thread that       *)
(* stores a row takes it forward to the row's stage and takes back to that *)
(* stage all the threads that were ahead of it.  In the order that         *)
(* compares how many threads are at most at stage 0, then at stage 1, and  *)
(* so on, every such step leads later, so each of the Burst distributions  *)
(* is reached at most once while no row's window ends.                     *)
Threads == Cardinality(Web)
Top == Limit + 2
Stages == [Web -> 0 .. Top]
Lower == 0 .. Limit + 1

Profiles ==
    {p \in [Lower -> 0 .. Threads] :
        /\ \A v, x \in Lower : v <= x => p[v] <= p[x]
        /\ p[2] # Threads}

Behind(m, v) == {w \in Web : m[w] <= v}
Profile(m) == [v \in Lower |-> Cardinality(Behind(m, v))]

Later(p, q) == \E v \in Lower : p[v] < q[v] /\ \A x \in 0 .. v - 1 : p[x] = q[x]

After(m) == {p \in Profiles : Later(p, Profile(m))}
Left(m) == Cardinality(After(m))

(* The writer goes to stage n, and whoever was ahead comes back to it.     *)
Moved(m, t, n) ==
    [w \in Web |-> IF w = t \/ m[w] > n THEN n ELSE m[w]]

LEMMA ThreadsType == IsFiniteSet(Web) /\ Threads \in Nat
BY AccountsAssumption, FS_CardinalityType DEF Threads

LEMMA LimitType == Limit \in Nat /\ Limit # 0 /\ Top \in Nat /\ 2 \in Lower
BY AccountsAssumption DEF Top, Lower

LEMMA BehindType ==
    ASSUME NEW m \in Stages, NEW v
    PROVE  /\ IsFiniteSet(Behind(m, v))
           /\ Cardinality(Behind(m, v)) \in 0 .. Threads
           /\ Cardinality(Behind(m, v)) = Threads => Behind(m, v) = Web
<1>1. Behind(m, v) \in SUBSET Web
  BY DEF Behind
<1>2. /\ IsFiniteSet(Behind(m, v))
      /\ Cardinality(Behind(m, v)) <= Threads
      /\ Threads = Cardinality(Behind(m, v)) => Web = Behind(m, v)
  BY <1>1, ThreadsType, FS_Subset DEF Threads
<1>3. Cardinality(Behind(m, v)) \in Nat
  BY <1>2, FS_CardinalityType
<1> QED
  BY <1>2, <1>3, ThreadsType

(* A distribution in which some thread is past stage 2 is a profile.       *)
LEMMA ProfileType ==
    ASSUME NEW m \in Stages
    PROVE  /\ Profile(m) \in [Lower -> 0 .. Threads]
           /\ (\E w \in Web : m[w] > 2) => Profile(m) \in Profiles
<1>1. Profile(m) \in [Lower -> 0 .. Threads]
  BY BehindType DEF Profile
<1>2. ASSUME NEW v \in Lower, NEW x \in Lower, v <= x
      PROVE  Profile(m)[v] <= Profile(m)[x]
  <2>1. Behind(m, v) \in SUBSET Behind(m, x)
    BY <1>2, LimitType DEF Behind, Stages, Lower
  <2>2. Cardinality(Behind(m, v)) <= Cardinality(Behind(m, x))
    BY <2>1, BehindType, FS_Subset
  <2> QED
    BY <2>2 DEF Profile
<1>3. ASSUME NEW w \in Web, m[w] > 2
      PROVE  Profile(m)[2] # Threads
  <2>1. w \notin Behind(m, 2)
    BY <1>3, LimitType DEF Behind, Stages
  <2> QED
    BY <2>1, LimitType, BehindType DEF Profile
<1> QED
  BY <1>1, <1>2, <1>3 DEF Profiles

LEMMA ProfilesFinite == IsFiniteSet(Profiles)
<1> DEFINE Pairs == SUBSET (Lower \X (0 .. Threads))
           g == [p \in Profiles |-> {x \in Lower \X (0 .. Threads) : x[2] = p[x[1]]}]
<1>1. IsFiniteSet(Lower) /\ IsFiniteSet(0 .. Threads)
  BY LimitType, ThreadsType, FS_Interval DEF Lower
<1>2. IsFiniteSet(Pairs)
  BY <1>1, FS_Product, FS_SUBSET
<1>3. ASSUME NEW p \in Profiles, NEW q \in Profiles, g[p] = g[q]
      PROVE  p = q
  <2>1. p \in [Lower -> 0 .. Threads] /\ q \in [Lower -> 0 .. Threads]
    BY DEF Profiles
  <2>2. ASSUME NEW v \in Lower PROVE p[v] = q[v]
    <3>1. <<v, p[v]>> \in g[p]
      BY <2>1
    <3>2. <<v, p[v]>> \in g[q]
      BY <3>1, <1>3
    <3> QED
      BY <3>2
  <2> QED
    BY <2>1, <2>2
<1>4. g \in [Profiles -> Pairs]
  OBVIOUS
<1>5. g \in Injection(Profiles, Pairs)
  BY <1>3, <1>4 DEF Injection, IsInjective
<1> QED
  BY <1>2, <1>5, FS_Injection

LEMMA LaterTransitive ==
    ASSUME NEW p \in [Lower -> 0 .. Threads], NEW q \in [Lower -> 0 .. Threads],
           NEW r \in [Lower -> 0 .. Threads], Later(p, q), Later(q, r)
    PROVE  Later(p, r)
<1>1. PICK v \in Lower : p[v] < q[v] /\ \A x \in 0 .. v - 1 : p[x] = q[x]
  BY DEF Later
<1>2. PICK y \in Lower : q[y] < r[y] /\ \A x \in 0 .. y - 1 : q[x] = r[x]
  BY DEF Later
<1> USE LimitType, ThreadsType DEF Lower
<1>3. CASE v <= y
  <2>1. \A x \in 0 .. v - 1 : p[x] = r[x]
    BY <1>1, <1>2, <1>3
  <2>2. q[v] <= r[v]
    BY <1>2, <1>3
  <2>3. p[v] < r[v]
    BY <1>1, <2>2
  <2> QED
    BY <2>1, <2>3 DEF Later
<1>4. CASE y < v
  <2>1. \A x \in 0 .. y - 1 : p[x] = r[x]
    BY <1>1, <1>2, <1>4
  <2>2. p[y] < r[y]
    BY <1>1, <1>2, <1>4
  <2> QED
    BY <2>1, <2>2 DEF Later
<1> QED
  BY <1>3, <1>4

LEMMA LeftType ==
    ASSUME NEW m \in Stages
    PROVE  IsFiniteSet(After(m)) /\ Left(m) \in Nat /\ Left(m) <= Burst
<1>1. After(m) \in SUBSET Profiles
  BY DEF After
<1>2. Burst = Cardinality(Profiles)
  BY DEF Burst, Profiles, Lower, Threads
<1> QED
  BY <1>1, <1>2, ProfilesFinite, FS_Subset, FS_CardinalityType DEF Left

(* Every non-empty set of numbers has a least one.                         *)
LEMMA LeastNumber ==
    ASSUME NEW S \in SUBSET Nat, S # {}
    PROVE  \E n \in S : \A m \in S : n <= m
<1>1. IsWellFoundedOn(OpToRel(<, Nat), Nat)
  BY NatLessThanWellFounded
<1>2. PICK n \in S : \A m \in S : ~(<<m, n>> \in OpToRel(<, Nat))
  BY <1>1, WFMin
<1>3. ASSUME NEW m \in S, m < n PROVE FALSE
  <2>1. <<m, n>> \in {p \in Nat \X Nat : p[1] < p[2]}
    BY <1>3
  <2> QED
    BY <1>2, <2>1 DEF OpToRel
<1> QED
  BY <1>3

(* A step forward leads later, and is counted once it goes past stage 2.   *)
LEMMA MovedIsLater ==
    ASSUME NEW m \in Stages, NEW t \in Web, NEW n \in 0 .. Top, m[t] < n
    PROVE  /\ Moved(m, t, n) \in Stages
           /\ Later(Profile(Moved(m, t, n)), Profile(m))
           /\ Left(Moved(m, t, n)) <= Left(m)
           /\ n > 2 => Left(Moved(m, t, n)) < Left(m)
<1> DEFINE k == Moved(m, t, n)
<1> USE LimitType
<1>1. k \in Stages /\ k[t] = n
  BY DEF Moved, Stages
<1>2. ASSUME NEW v \in 0 .. m[t] - 1
      PROVE  v \in Lower /\ Profile(k)[v] = Profile(m)[v]
  <2>1. v \in Lower
    BY <1>2 DEF Lower, Stages, Top
  <2>2. Behind(k, v) = Behind(m, v)
    BY <1>2 DEF Behind, Moved, Stages
  <2> QED
    BY <2>1, <2>2 DEF Profile
<1>3. m[t] \in Lower /\ Profile(k)[m[t]] < Profile(m)[m[t]]
  <2>1. m[t] \in Lower
    BY DEF Lower, Stages, Top
  <2>2. Behind(k, m[t]) = Behind(m, m[t]) \ {t} /\ t \in Behind(m, m[t])
    BY DEF Behind, Moved, Stages
  <2>3. Cardinality(Behind(k, m[t])) = Cardinality(Behind(m, m[t])) - 1
    <3>1. IsFiniteSet(Behind(m, m[t]))
      BY BehindType
    <3>2. Cardinality(Behind(m, m[t]) \ {t}) = Cardinality(Behind(m, m[t])) - 1
      BY <2>2, <3>1, FS_RemoveElement
    <3> QED
      BY <2>2, <3>2
  <2>4. Cardinality(Behind(m, m[t])) \in Nat
    BY BehindType, ThreadsType
  <2> QED
    BY <2>1, <2>3, <2>4 DEF Profile
<1>4. Later(Profile(k), Profile(m))
  BY <1>2, <1>3 DEF Later
<1>5. After(k) \in SUBSET After(m)
  <2> SUFFICES ASSUME NEW p \in Profiles, Later(p, Profile(k))
               PROVE  Later(p, Profile(m))
    BY DEF After
  <2>1. p \in [Lower -> 0 .. Threads]
    BY DEF Profiles
  <2> QED
    BY <1>1, <1>4, <2>1, ProfileType, LaterTransitive
<1>6. Left(k) <= Left(m) /\ (Left(k) = Left(m) => After(k) = After(m))
  BY <1>5, LeftType, FS_Subset DEF Left
<1>7. ASSUME n > 2 PROVE After(k) # After(m)
  <2>1. Profile(k) \in After(m)
    BY <1>1, <1>4, <1>7, ProfileType DEF After
  <2>2. ~Later(Profile(k), Profile(k))
    BY <1>1, ProfileType, ThreadsType DEF Later
  <2> QED
    BY <2>1, <2>2 DEF After
<1> HIDE DEF k
<1>8. Left(k) \in Nat /\ Left(m) \in Nat
  BY <1>1, LeftType
<1>9. n > 2 => Left(k) < Left(m)
  BY <1>6, <1>7, <1>8
<1> QED
  BY <1>1, <1>4, <1>6, <1>9 DEF k

Short(m) == {w \in Web : m[w] # Top}

(* While stage Top is out of reach for n threads, n more steps are left:   *)
(* otherwise, of all such distributions, take one with the fewest threads  *)
(* short of Top, and take one of these there.                              *)
LEMMA LeftSuffices ==
    ASSUME NEW m \in Stages, NEW S \in SUBSET Web, \A w \in S : m[w] < Top
    PROVE  IsFiniteSet(S) /\ Cardinality(S) \in Nat /\ Cardinality(S) <= Left(m)
<1> DEFINE Bad == {n \in Nat : \E k \in Stages : Cardinality(Short(k)) = n /\ Left(k) < n}
<1>1. ASSUME NEW k \in Stages
      PROVE  IsFiniteSet(Short(k)) /\ Cardinality(Short(k)) \in Nat
  <2>1. Short(k) \in SUBSET Web
    BY DEF Short
  <2> QED
    BY <2>1, ThreadsType, FS_Subset, FS_CardinalityType
<1>2. Bad = {}
  <2> SUFFICES ASSUME Bad # {} PROVE FALSE
    OBVIOUS
  <2>1. PICK n \in Bad : \A b \in Bad : n <= b
    BY LeastNumber
  <2>2. PICK k \in Stages : Cardinality(Short(k)) = n /\ Left(k) < n
    OBVIOUS
  <2>3. Left(k) \in Nat /\ n \in Nat
    BY LeftType
  <2>4. Short(k) # {}
    BY <2>2, <2>3, FS_EmptySet
  <2>5. PICK t \in Web : k[t] # Top
    BY <2>4 DEF Short
  <2> DEFINE j == Moved(k, t, Top)
  <2>6. k[t] < Top /\ Top \in 0 .. Top /\ Top > 2
    BY <2>5, LimitType DEF Stages, Top
  <2>7. j \in Stages /\ Left(j) < Left(k)
    BY <2>6, MovedIsLater
  <2>8. Short(j) = Short(k) \ {t} /\ t \in Short(k)
    BY <2>5, LimitType DEF Moved, Stages, Short
  <2> HIDE DEF j
  <2>9. Cardinality(Short(j)) = n - 1
    <3>1. IsFiniteSet(Short(k))
      BY <1>1
    <3> QED
      BY <2>2, <2>8, <3>1, FS_RemoveElement
  <2>10. Left(j) \in Nat /\ Cardinality(Short(j)) \in Nat
    BY <1>1, <2>7, LeftType
  <2>11. n - 1 \in Bad
    BY <2>2, <2>3, <2>7, <2>9, <2>10
  <2> QED
    BY <2>1, <2>3, <2>11
<1>3. S \in SUBSET Short(m)
  BY LimitType DEF Stages, Short
<1>4. IsFiniteSet(S) /\ Cardinality(S) <= Cardinality(Short(m))
  BY <1>1, <1>3, FS_Subset
<1>5. Cardinality(S) \in Nat
  BY <1>4, FS_CardinalityType
<1>6. Cardinality(Short(m)) <= Left(m)
  <2>1. Cardinality(Short(m)) \in Nat /\ Left(m) \in Nat
    BY <1>1, LeftType
  <2> QED
    BY <1>2, <2>1
<1>7. Left(m) \in Nat /\ Cardinality(Short(m)) \in Nat
  BY <1>1, LeftType
<1> QED
  BY <1>4, <1>5, <1>6, <1>7

-----------------------------------------------------------------------------
(* The stage of a row at time t: it is over, there is none, or it counts   *)
(* that many failures.                                                     *)
Over(row, t) == t - row.started >= Window
Stage(row, t) ==
    IF row = None THEN 2
    ELSE IF Over(row, t) THEN 1
    ELSE 2 + (IF row.failures < Limit THEN row.failures ELSE Limit)

RowFits(row, t) ==
    /\ row.failures # 0
    /\ row.started <= t
    /\ row.blocked = IF row.failures >= Limit THEN row.started + Window ELSE 0

RowsFit ==
    /\ \A u \in Users : throttle[u] # None => RowFits(throttle[u], now)
    /\ \A w \in Web : request[w].at = "writing" => RowFits(request[w].row, now)

Doing(w, u, at) == request[w].at = at /\ request[w].who = u

(* What stage m[w] says of the thread w and the login key of u.            *)
FitsAt(w, u, m) ==
    /\ Doing(w, u, "expiring") => m[w] <= 1
    /\ Doing(w, u, "looking") \/ Doing(w, u, "recording") => m[w] < Top
    /\ Doing(w, u, "writing") => m[w] < Stage(request[w].row, now)
    /\ m[w] <= Stage(throttle[u], now)

Fits(u, m) == \A w \in Web : FitsAt(w, u, m)

(* The wrong passwords that no stored row counts yet, but one will.        *)
Pending(u) ==
    {w \in Web : \/ Doing(w, u, "recording")
                 \/ Doing(w, u, "writing") /\ ~Over(request[w].row, now)}

(* The windows that began before the guesses were counted and may still    *)
(* end meanwhile: the row's, and those of the rows about to be stored.     *)
OldStarts(u) ==
    {s \in Time : /\ s < since /\ now - s < Window
                  /\ \/ throttle[u] # None /\ throttle[u].started = s
                     \/ \E w \in Web : Doing(w, u, "writing")
                                       /\ request[w].row.started = s}

(* d of them have ended, and each time the threads started anew.           *)
Bounded(u, m, d) ==
    /\ Fits(u, m)
    /\ d + Cardinality(OldStarts(u)) <= Threads + 1
    /\ since = now => d = 0
    /\ guesses[u] + Left(m) <= (d + 1) * Burst + lost[u] + Cardinality(Pending(u))

BoundedSomehow(u) == \E m \in Stages, d \in 0 .. Threads + 1 : Bounded(u, m, d)

GuessInv ==
    /\ since <= now
    /\ RowsFit
    /\ \A u \in Users : BoundedSomehow(u)

LEMMA NoneIsNoThrottle == None \notin ThrottleRow
BY AccountsAssumption DEF ThrottleRow, Time

LEMMA StageType ==
    ASSUME NEW row \in ThrottleRow \cup {None}, NEW t \in Nat
    PROVE  /\ Stage(row, t) \in 1 .. Top
           /\ Stage(row, t) = Top => row # None /\ ~Over(row, t) /\ row.failures >= Limit
           /\ row # None /\ ~Over(row, t) /\ row.failures # 0 => Stage(row, t) > 2
<1> USE LimitType DEF Top
<1>1. CASE row = None
  BY <1>1 DEF Stage
<1>2. CASE row # None
  <2>1. row.failures \in Nat
    BY <1>2 DEF ThrottleRow
  <2> QED
    BY <1>2, <2>1 DEF Stage
<1> QED
  BY <1>1, <1>2

(* Whoever is not refused finds a row short of the last stage.             *)
LEMMA NotRefused ==
    ASSUME AccountsTypeOK, RowsFit, NEW u \in Users, ~Refused(u)
    PROVE  Stage(throttle[u], now) < Top
<1>1. throttle[u] \in ThrottleRow \cup {None} /\ now \in Nat
  BY DEF AccountsTypeOK, Time
<1>2. Stage(throttle[u], now) # Top
  BY <1>1, StageType DEF Refused, Over, Expired
<1>3. Stage(throttle[u], now) \in 1 .. Top
  BY <1>1, StageType
<1> QED
  BY <1>2, <1>3, LimitType

(* The next row is past the stage of every thread that may compute it.     *)
LEMMA NextStage ==
    ASSUME AccountsTypeOK, RowsFit, NEW u \in Users
    PROVE  LET row == throttle[u]
               next == NextThrottle(u)
           IN  /\ RowFits(next, now) /\ ~Over(next, now)
               /\ next.started = now \/ (row # None /\ next.started = row.started)
               /\ \A n \in 0 .. Top :
                      n < Top /\ n <= Stage(row, now) => n < Stage(next, now)
<1> DEFINE row == throttle[u]
           new == row = None \/ Expired(row)
           failures == IF new THEN 1 ELSE row.failures + 1
           started == IF new THEN now ELSE row.started
           next == NextThrottle(u)
<1> USE LimitType, AccountsAssumption DEF Top, Time
<1>1. row # None => row.failures \in Nat /\ row.started \in Time
  BY DEF AccountsTypeOK, ThrottleRow
<1>2. now \in Time
  BY DEF AccountsTypeOK
<1>3. /\ next.failures = failures /\ next.started = started
      /\ next.blocked = IF failures >= Limit THEN started + Window ELSE 0
  BY DEF NextThrottle
<1>4. next # None
  BY NextThrottleType, NoneIsNoThrottle
<1> HIDE DEF next
<1>5. CASE new
  <2>1. failures = 1 /\ started = now
    BY <1>5
  <2>2. RowFits(next, now) /\ ~Over(next, now) /\ next.started = now
    BY <1>2, <1>3, <2>1 DEF RowFits, Over
  <2>3. Stage(next, now) = 3
    BY <1>3, <1>4, <2>1, <2>2 DEF Stage
  <2>4. Stage(row, now) \in {1, 2}
    BY <1>5 DEF Stage, Expired, Over
  <2>5. ASSUME NEW n \in 0 .. Top, n < Top, n <= Stage(row, now)
        PROVE  n < Stage(next, now)
    BY <2>3, <2>4, <2>5
  <2> QED
    BY <2>2, <2>5 DEF next
<1>6. CASE ~new
  <2>1. failures = row.failures + 1 /\ started = row.started /\ row # None
    BY <1>6
  <2>2. started <= now /\ now - started < Window
    BY <1>1, <1>2, <1>6, <2>1 DEF RowsFit, RowFits, Expired
  <2>3. RowFits(next, now) /\ ~Over(next, now)
    BY <1>1, <1>2, <1>3, <2>1, <2>2 DEF RowFits, Over
  <2>4. Stage(next, now) = 2 + (IF failures < Limit THEN failures ELSE Limit)
    BY <1>3, <1>4, <2>3 DEF Stage
  <2>5. Stage(row, now) = 2 + (IF row.failures < Limit THEN row.failures ELSE Limit)
    BY <1>6, <2>1 DEF Stage, Over, Expired
  <2>6. ASSUME NEW n \in 0 .. Top, n < Top, n <= Stage(row, now)
        PROVE  n < Stage(next, now)
    BY <1>1, <2>1, <2>4, <2>5, <2>6
  <2>7. next.started = row.started
    BY <1>3, <2>1
  <2> QED
    BY <2>1, <2>3, <2>6, <2>7 DEF next
<1> QED
  BY <1>5, <1>6

(* At most one value for each thread, and one more.                        *)
LEMMA FewValues ==
    ASSUME NEW f, NEW S, \A s \in S : \E w \in Web \cup {None} : s = f[w]
    PROVE  IsFiniteSet(S) /\ Cardinality(S) <= Threads + 1
<1> DEFINE g == [s \in S |-> CHOOSE w \in Web \cup {None} : s = f[w]]
<1>1. \A s \in S : g[s] \in Web \cup {None} /\ s = f[g[s]]
  OBVIOUS
<1>2. g \in Injection(S, Web \cup {None})
  <2> HIDE DEF g
  <2>1. g \in [S -> Web \cup {None}]
    BY <1>1 DEF g
  <2> QED
    BY <1>1, <2>1 DEF Injection, IsInjective
<1>3. IsFiniteSet(Web \cup {None}) /\ Cardinality(Web \cup {None}) = Threads + 1
  BY ThreadsType, FS_AddElement, AccountsAssumption DEF Threads
<1> QED
  BY <1>2, <1>3, FS_Injection

LEMMA OldStartsFew ==
    ASSUME AccountsTypeOK, NEW u \in Users
    PROVE  IsFiniteSet(OldStarts(u)) /\ Cardinality(OldStarts(u)) \in Nat
<1>1. IsFiniteSet(Time)
  BY AccountsAssumption, FS_Interval DEF Time
<1>2. OldStarts(u) \in SUBSET Time
  BY DEF OldStarts
<1> QED
  BY <1>1, <1>2, FS_Subset, FS_CardinalityType

LEMMA PendingType ==
    ASSUME NEW u
    PROVE  IsFiniteSet(Pending(u)) /\ Cardinality(Pending(u)) \in Nat
<1>1. Pending(u) \in SUBSET Web
  BY DEF Pending
<1> QED
  BY <1>1, ThreadsType, FS_Subset, FS_CardinalityType

LEMMA BurstType == Burst \in Nat
<1>1. Burst = Cardinality(Profiles)
  BY DEF Burst, Profiles, Lower, Threads
<1> QED
  BY <1>1, ProfilesFinite, FS_CardinalityType

(* A step by w that starts no window over, with the stages k after it.     *)
LEMMA StepBounded ==
    ASSUME AccountsTypeOK, AccountsTypeOK', UNCHANGED <<since, now>>,
           NEW u \in Users, NEW m \in Stages, NEW k \in Stages,
           NEW d \in 0 .. Threads + 1, Bounded(u, m, d),
           Fits(u, k)',
           NEW Old, Old = OldStarts(u)', Old \in SUBSET OldStarts(u),
           NEW P, P = Pending(u)', Cardinality(P) \in Nat,
           guesses'[u] + Left(k) + lost[u] + Cardinality(Pending(u))
             <= guesses[u] + Left(m) + lost'[u] + Cardinality(P)
    PROVE  BoundedSomehow(u)'
<1>1. Cardinality(Old) <= Cardinality(OldStarts(u)) /\ Cardinality(Old) \in Nat
  BY OldStartsFew, FS_Subset, FS_CardinalityType
<1>2. d + Cardinality(Old) <= Threads + 1
  BY <1>1, OldStartsFew, ThreadsType DEF Bounded
<1>3. (d + 1) * Burst \in Nat
  BY BurstType, ThreadsType
<1>4. guesses'[u] + Left(k) <= (d + 1) * Burst + lost'[u] + Cardinality(P)
  <2> DEFINE most == (d + 1) * Burst
  <2>1. /\ guesses[u] \in Nat /\ guesses'[u] \in Nat /\ Left(k) \in Nat /\ Left(m) \in Nat
        /\ lost[u] \in Nat /\ lost'[u] \in Nat
        /\ Cardinality(Pending(u)) \in Nat /\ most \in Nat
    BY <1>3, LeftType, PendingType DEF AccountsTypeOK
  <2>2. guesses[u] + Left(m) <= most + lost[u] + Cardinality(Pending(u))
    BY DEF Bounded
  <2> HIDE DEF most
  <2>3. guesses'[u] + Left(k) <= most + lost'[u] + Cardinality(P)
    BY <2>1, <2>2
  <2> QED
    BY <2>3 DEF most
<1>5. Bounded(u, k, d)'
  BY <1>2, <1>4 DEF Bounded
<1> QED
  BY <1>5 DEF BoundedSomehow

(* One in which the row of u stays and w, whose request becomes r, may     *)
(* keep its stage.                                                         *)
LEMMA RequestBounded ==
    ASSUME AccountsTypeOK, AccountsTypeOK', UNCHANGED <<since, now>>, since <= now,
           NEW u \in Users, NEW m \in Stages, NEW d \in 0 .. Threads + 1,
           Bounded(u, m, d),
           throttle'[u] = throttle[u],
           NEW w, \A v \in Web \ {w} : request'[v] = request[v],
           w \in Web => FitsAt(w, u, m)',
           w \in Web /\ Doing(w, u, "writing")' =>
               \/ request'[w].row.started = now
               \/ throttle[u] # None /\ request'[w].row.started = throttle[u].started,
           \/ guesses'[u] = guesses[u] /\ lost'[u] = lost[u]
              /\ (w \in Pending(u) => (w \in Pending(u))')
           \/ guesses'[u] = guesses[u] + 1 /\ lost'[u] = lost[u] /\ w \in Web
              /\ w \notin Pending(u) /\ (w \in Pending(u))'
           \/ guesses'[u] = guesses[u] /\ lost'[u] = lost[u] + 1
              /\ w \notin Pending(u)'
    PROVE  BoundedSomehow(u)'
<1> DEFINE Old == OldStarts(u)'
           P == Pending(u)'
<1>1. Fits(u, m)'
  <2> SUFFICES ASSUME NEW v \in Web PROVE FitsAt(v, u, m)'
    BY DEF Fits
  <2>1. CASE v = w
    BY <2>1
  <2>2. CASE v # w
    BY <2>2 DEF Bounded, Fits, FitsAt, Doing
  <2> QED
    BY <2>1, <2>2
<1>2. Old \in SUBSET OldStarts(u)
  <2> SUFFICES ASSUME NEW s \in Old PROVE s \in OldStarts(u)
    OBVIOUS
  <2>1. s \in Time /\ s < since /\ now - s < Window /\ s # now
    BY DEF OldStarts, AccountsTypeOK, Time
  <2>2. CASE throttle'[u] # None /\ throttle'[u].started = s
    BY <2>1, <2>2 DEF OldStarts
  <2>3. CASE \E v \in Web : Doing(v, u, "writing")' /\ request'[v].row.started = s
    BY <2>1, <2>3 DEF OldStarts, Doing
  <2> QED
    BY <2>2, <2>3 DEF OldStarts
<1>3. P \in SUBSET Web
  BY DEF Pending
<1>4. IsFiniteSet(P) /\ Cardinality(P) \in Nat
  BY <1>3, ThreadsType, FS_Subset, FS_CardinalityType
<1>5. \A v \in Web \ {w} : v \in P <=> v \in Pending(u)
  BY DEF Pending, Doing
<1>6. Pending(u) \in SUBSET Web
  BY DEF Pending
<1>7. CASE guesses'[u] = guesses[u] /\ lost'[u] = lost[u]
           /\ (w \in Pending(u) => w \in P)
  <2>1. Pending(u) \in SUBSET P
    BY <1>5, <1>6, <1>7
  <2>2. Cardinality(Pending(u)) <= Cardinality(P)
    BY <1>4, <2>1, FS_Subset
  <2>3. /\ guesses[u] \in Nat /\ lost[u] \in Nat /\ Left(m) \in Nat
        /\ Cardinality(Pending(u)) \in Nat
    BY LeftType, PendingType DEF AccountsTypeOK
  <2> HIDE DEF P, Old
  <2>4. guesses'[u] + Left(m) + lost[u] + Cardinality(Pending(u))
          <= guesses[u] + Left(m) + lost'[u] + Cardinality(P)
    BY <1>4, <1>7, <2>2, <2>3
  <2> QED
    BY <1>1, <1>2, <1>4, <2>4, StepBounded DEF P, Old
<1>8. CASE guesses'[u] = guesses[u] + 1 /\ lost'[u] = lost[u]
           /\ w \in Web /\ w \notin Pending(u) /\ w \in P
  <2>1. P = Pending(u) \cup {w}
    BY <1>3, <1>5, <1>6, <1>8
  <2>2. Cardinality(P) = Cardinality(Pending(u)) + 1
    BY <1>8, <2>1, PendingType, FS_AddElement
  <2>3. /\ guesses[u] \in Nat /\ lost[u] \in Nat /\ Left(m) \in Nat
        /\ Cardinality(Pending(u)) \in Nat
    BY LeftType, PendingType DEF AccountsTypeOK
  <2> HIDE DEF P, Old
  <2>4. guesses'[u] + Left(m) + lost[u] + Cardinality(Pending(u))
          <= guesses[u] + Left(m) + lost'[u] + Cardinality(P)
    BY <1>8, <2>2, <2>3
  <2> QED
    BY <1>1, <1>2, <1>4, <2>4, StepBounded DEF P, Old
<1>9. CASE guesses'[u] = guesses[u] /\ lost'[u] = lost[u] + 1 /\ w \notin P
  <2>1. P = Pending(u) \ {w}
    BY <1>3, <1>5, <1>6, <1>9
  <2>2. Cardinality(P) = IF w \in Pending(u) THEN Cardinality(Pending(u)) - 1
                                             ELSE Cardinality(Pending(u))
    BY <2>1, PendingType, FS_RemoveElement
  <2>3. /\ guesses[u] \in Nat /\ lost[u] \in Nat /\ Left(m) \in Nat
        /\ Cardinality(Pending(u)) \in Nat
    BY LeftType, PendingType DEF AccountsTypeOK
  <2> HIDE DEF P, Old
  <2>4. guesses'[u] + Left(m) + lost[u] + Cardinality(Pending(u))
          <= guesses[u] + Left(m) + lost'[u] + Cardinality(P)
    BY <1>4, <1>9, <2>2, <2>3
  <2> QED
    BY <1>1, <1>2, <1>4, <2>4, StepBounded DEF P, Old
<1> QED
  BY <1>7, <1>8, <1>9

(* One in which w stores a row of stage n for u, or deletes the row, and   *)
(* is at most looking afterwards.                                          *)
LEMMA StoreBounded ==
    ASSUME AccountsTypeOK, AccountsTypeOK', UNCHANGED <<since, now>>,
           NEW u \in Users, NEW m \in Stages, NEW d \in 0 .. Threads + 1,
           Bounded(u, m, d), guesses'[u] = guesses[u], lost'[u] = lost[u],
           NEW w \in Web, \A v \in Web \ {w} : request'[v] = request[v],
           NEW n \in 0 .. Top, Stage(throttle'[u], now) = n, m[w] < n,
           ~Doing(w, u, "expiring")', ~Doing(w, u, "writing")', ~Doing(w, u, "recording")',
           Doing(w, u, "looking")' => n < Top,
           throttle'[u] # None =>
               Doing(w, u, "writing") /\ throttle'[u] = request[w].row,
           w \in Pending(u) => n > 2
    PROVE  BoundedSomehow(u)'
<1> DEFINE k == Moved(m, w, n)
           Old == OldStarts(u)'
           P == Pending(u)'
<1>1. k \in Stages /\ Left(k) <= Left(m) /\ (n > 2 => Left(k) < Left(m))
  BY MovedIsLater
<1>2. k[w] = n /\ \A v \in Web : k[v] <= n /\ (v # w => k[v] <= m[v])
  BY LimitType DEF Moved, Stages
<1> HIDE DEF k
<1>3. Fits(u, k)'
  <2> SUFFICES ASSUME NEW v \in Web PROVE FitsAt(v, u, k)'
    BY DEF Fits
  <2>1. CASE v = w
    BY <1>2, <2>1 DEF FitsAt, Doing
  <2>2. CASE v # w
    <3>1. k[v] <= n /\ k[v] <= m[v] /\ k[v] \in Nat /\ m[v] \in Nat
      BY <1>1, <1>2, <2>2, LimitType DEF Stages
    <3>2. FitsAt(v, u, m) /\ request'[v] = request[v]
      BY <2>2 DEF Bounded, Fits
    <3>3. Doing(v, u, "writing") => Stage(request[v].row, now) \in Nat
      <4>1. Doing(v, u, "writing") => request[v].row \in ThrottleRow
        BY RequestFields DEF Doing, AccountsTypeOK, Workers
      <4>2. now \in Nat
        BY AccountsAssumption DEF AccountsTypeOK, Time
      <4> QED
        BY <4>1, <4>2, StageType, LimitType
    <3> QED
      BY <3>1, <3>2, <3>3, LimitType DEF FitsAt, Doing
  <2> QED
    BY <2>1, <2>2
<1>4. Old \in SUBSET OldStarts(u)
  BY DEF OldStarts, Doing
<1>5. P = Pending(u) \ {w}
  BY DEF Pending, Doing
<1>6. /\ IsFiniteSet(P) /\ Cardinality(P) \in Nat
      /\ Cardinality(P) = IF w \in Pending(u) THEN Cardinality(Pending(u)) - 1
                                              ELSE Cardinality(Pending(u))
  BY <1>5, PendingType, FS_RemoveElement, FS_CardinalityType
<1> HIDE DEF P, Old
<1>7. /\ guesses[u] \in Nat /\ lost[u] \in Nat /\ Left(m) \in Nat /\ Left(k) \in Nat
      /\ Cardinality(Pending(u)) \in Nat
  BY <1>1, LeftType, PendingType DEF AccountsTypeOK
<1>8. guesses'[u] + Left(k) + lost[u] + Cardinality(Pending(u))
        <= guesses[u] + Left(m) + lost'[u] + Cardinality(P)
  BY <1>1, <1>6, <1>7
<1> QED
  BY <1>1, <1>3, <1>4, <1>6, <1>8, StepBounded DEF P, Old

-----------------------------------------------------------------------------
Trying == {"expiring", "looking", "recording", "writing"}

(* A step of a worker that is not trying a password.                       *)
Aside ==
    /\ UNCHANGED <<throttle, guesses, lost, since, now>>
    /\ \E w \in Workers : \E r : /\ Goto(w, r)
                                 /\ request[w].at \notin Trying /\ r.at \notin Trying

LEMMA Steps ==
    ASSUME AccountsNext
    PROVE  \/ \E w \in Web : \/ \E u \in Users : LoginBegin(w, u)
                             \/ LoginExpire(w) \/ LoginCheck(w) \/ LoginCount(w)
                             \/ LoginRecord(w) \/ LoginSucceed(w)
                             \/ LoginFails(w) \/ CountFails(w)
           \/ Tick
           \/ Aside
<1> USE DEF Aside, Trying, Idle
<1>1. \A w \in Web \cup Cli : w \in Workers
  BY DEF Workers
<1>2. ASSUME NEW w \in Web, NEW c \in cookies, WebBegin(w, c) PROVE Aside
  BY <1>1, <1>2 DEF WebBegin
<1>3. ASSUME NEW w \in Web, ConfirmPassword(w) PROVE Aside
  BY <1>1, <1>3 DEF ConfirmPassword
<1>4. ASSUME NEW w \in Cli, CliBegin(w) PROVE Aside
  BY <1>1, <1>4 DEF CliBegin
<1>5. ASSUME NEW w \in Workers, NEW u \in Users, SetPassword(w, u) PROVE Aside
  BY <1>5 DEF SetPassword, Privileged
<1>6. ASSUME NEW w \in Workers, NEW u \in Users, CreateUser(w, u) PROVE Aside
  BY <1>6 DEF CreateUser, Privileged
<1>7. ASSUME NEW w \in Workers, NEW u \in Users, NEW e \in BOOLEAN, UpdateBegin(w, u, e)
      PROVE  Aside
  BY <1>7 DEF UpdateBegin, Privileged
<1>8. ASSUME NEW w \in Workers, UpdateCommit(w) PROVE Aside
  BY <1>8 DEF UpdateCommit
<1>9. ASSUME NEW w \in Workers, UpdateRollback(w) PROVE Aside
  BY <1>9 DEF UpdateRollback
<1>10. ASSUME NEW w \in Workers, Turned(w) PROVE Aside
  BY <1>10 DEF Turned
<1> HIDE DEF Aside
<1> QED
  BY <1>2, <1>3, <1>4, <1>5, <1>6, <1>7, <1>8, <1>9, <1>10 DEF AccountsNext

LEMMA RowsStep ==
    ASSUME AccountsTypeOK, RowsFit, AccountsNext
    PROVE  RowsFit'
<1> USE DEF AccountsTypeOK, Goto, Idle
<1>1. ASSUME now' = now,
             \A u \in Users : throttle'[u] # None =>
                 throttle'[u] = throttle[u] \/ RowFits(throttle'[u], now),
             \A w \in Web : request'[w].at = "writing" =>
                 request'[w] = request[w] \/ RowFits(request'[w].row, now)
      PROVE  RowsFit'
  BY <1>1 DEF RowsFit
<1>2. \A w \in Web : w \in Workers
  BY DEF Workers
<1>3. ASSUME NEW w \in Web, NEW u \in Users, LoginBegin(w, u)
      PROVE  RowsFit'
  BY <1>1, <1>2, <1>3 DEF LoginBegin
<1>4. ASSUME NEW w \in Web, LoginExpire(w)
      PROVE  RowsFit'
  BY <1>1, <1>2, <1>4 DEF LoginExpire
<1>5. ASSUME NEW w \in Web, LoginCheck(w)
      PROVE  RowsFit'
  BY <1>1, <1>2, <1>5 DEF LoginCheck
<1>6. ASSUME NEW w \in Web, LoginCount(w)
      PROVE  RowsFit'
  <2>1. request[w].who \in Users
    BY <1>2, <1>6, RequestFields DEF LoginCount
  <2>2. RowFits(NextThrottle(request[w].who), now)
    BY <2>1, NextStage
  <2> QED
    BY <1>1, <1>2, <1>6, <2>2 DEF LoginCount
<1>7. ASSUME NEW w \in Web, LoginRecord(w)
      PROVE  RowsFit'
  <2>1. RowFits(request[w].row, now)
    BY <1>7 DEF LoginRecord, RowsFit
  <2> QED
    BY <1>1, <1>2, <1>7, <2>1 DEF LoginRecord
<1>8. ASSUME NEW w \in Web, LoginSucceed(w)
      PROVE  RowsFit'
  BY <1>1, <1>2, <1>8 DEF LoginSucceed
<1>9. CASE Tick
  <2>1. now \in Nat /\ now' = now + 1
    BY <1>9, AccountsAssumption DEF Tick, Time
  <2>2. ASSUME NEW row \in ThrottleRow, RowFits(row, now)
        PROVE  RowFits(row, now')
    BY <2>1, <2>2, AccountsAssumption DEF RowFits, ThrottleRow, Time
  <2>3. \A u \in Users : throttle'[u] # None => RowFits(throttle'[u], now')
    BY <1>9, <2>2 DEF Tick, RowsFit
  <2>4. \A w \in Web : request'[w].at = "writing" => RowFits(request'[w].row, now')
    BY <1>2, <1>9, <2>2, RequestFields DEF Tick, RowsFit
  <2> QED
    BY <2>3, <2>4 DEF RowsFit
<1>10. CASE Aside
  BY <1>1, <1>2, <1>10 DEF Aside, Trying
<1>11. ASSUME NEW w \in Web, LoginFails(w) \/ CountFails(w)
       PROVE  RowsFit'
  BY <1>1, <1>2, <1>11 DEF LoginFails, CountFails
<1> QED
  BY <1>3, <1>4, <1>5, <1>6, <1>7, <1>8, <1>9, <1>10, <1>11, Steps

(* All the threads are taken back: what starts the count anew.             *)
Behindmost == [w \in Web |-> 0]

LEMMA BehindmostFits ==
    ASSUME AccountsTypeOK', NEW u \in Users
    PROVE  Behindmost \in Stages /\ Fits(u, Behindmost)'
<1>1. Behindmost \in Stages
  BY LimitType DEF Behindmost, Stages
<1>2. throttle'[u] \in ThrottleRow \cup {None} /\ now' \in Nat
  BY AccountsAssumption DEF AccountsTypeOK, Time
<1>3. Stage(throttle'[u], now') \in 1 .. Top
  BY <1>2, StageType
<1>4. ASSUME NEW w \in Web, Doing(w, u, "writing")'
      PROVE  Stage(request'[w].row, now') \in 1 .. Top
  <2>1. request'[w] \in Request
    BY DEF AccountsTypeOK, Workers
  <2>2. request'[w].row \in ThrottleRow
    BY <1>4, <2>1, RequestFields DEF Doing
  <2> QED
    BY <1>2, <2>2, StageType
<1>5. \A w \in Web : Behindmost[w] = 0
  BY DEF Behindmost
<1>6. ASSUME NEW w \in Web PROVE FitsAt(w, u, Behindmost)'
  BY <1>3, <1>4, <1>5, LimitType DEF FitsAt, Top
<1> QED
  BY <1>1, <1>6 DEF Fits

(* However far the threads are, what is pending can still be counted.      *)
LEMMA GuessesWithin ==
    ASSUME AccountsTypeOK, NEW u \in Users, NEW m \in Stages,
           NEW d \in 0 .. Threads + 1, Bounded(u, m, d)
    PROVE  guesses[u] <= (d + 1) * Burst + lost[u]
<1> DEFINE most == (d + 1) * Burst
<1>1. most \in Nat
  BY BurstType, ThreadsType
<1>2. ASSUME NEW w \in Pending(u) PROVE m[w] < Top
  <2>1. w \in Web /\ FitsAt(w, u, m) /\ m[w] \in 0 .. Top
    BY DEF Pending, Bounded, Fits, Stages
  <2>2. CASE Doing(w, u, "recording")
    BY <2>1, <2>2 DEF FitsAt
  <2>3. CASE Doing(w, u, "writing")
    <3>1. request[w] \in Request /\ now \in Nat
      BY <2>1, AccountsAssumption DEF AccountsTypeOK, Workers, Time
    <3>2. request[w].row \in ThrottleRow
      BY <2>3, <3>1, RequestFields DEF Doing
    <3>3. Stage(request[w].row, now) \in 1 .. Top
      BY <3>1, <3>2, StageType
    <3>4. m[w] < Stage(request[w].row, now)
      BY <2>1, <2>3 DEF FitsAt
    <3> QED
      BY <2>1, <3>3, <3>4, LimitType
  <2> QED
    BY <2>2, <2>3 DEF Pending
<1>3. Pending(u) \in SUBSET Web
  BY DEF Pending
<1>4. Cardinality(Pending(u)) <= Left(m) /\ Cardinality(Pending(u)) \in Nat
  BY <1>2, <1>3, LeftSuffices
<1>5. guesses[u] + Left(m) <= most + lost[u] + Cardinality(Pending(u))
  BY DEF Bounded
<1>6. guesses[u] \in Nat /\ lost[u] \in Nat /\ Left(m) \in Nat
  BY LeftType DEF AccountsTypeOK
<1> HIDE DEF most
<1>7. guesses[u] <= most + lost[u]
  BY <1>1, <1>4, <1>5, <1>6
<1> QED
  BY <1>7 DEF most

(* The clock starts a new count, or ends an old window, or ends none.      *)
LEMMA TickBounded ==
    ASSUME AccountsTypeOK, AccountsTypeOK', GuessInv, Tick, NEW u \in Users
    PROVE  BoundedSomehow(u)'
<1> DEFINE Old == OldStarts(u)'
           P == Pending(u)'
<1>1. P \in SUBSET Web
  BY DEF Pending
<1>2. Cardinality(P) \in Nat
  BY <1>1, ThreadsType, FS_Subset, FS_CardinalityType
<1>3. IsFiniteSet(Old) /\ Cardinality(Old) <= Threads + 1 /\ Cardinality(Old) \in Nat
  <2> DEFINE f == [w \in Web \cup {None} |-> IF w = None THEN throttle'[u].started
                                                         ELSE request'[w].row.started]
  <2>1. \A s \in Old : \E w \in Web \cup {None} : s = f[w]
    BY AccountsAssumption DEF OldStarts
  <2> HIDE DEF f, Old
  <2> QED
    BY <2>1, FewValues, FS_CardinalityType
<1>4. /\ now \in Nat /\ now' = now + 1 /\ since \in Nat /\ since <= now
      /\ throttle' = throttle /\ request' = request
  BY AccountsAssumption DEF Tick, AccountsTypeOK, Time, GuessInv
<1>5. /\ Burst \in Nat /\ Threads \in Nat
      /\ Left(Behindmost) \in Nat /\ Left(Behindmost) <= Burst
  BY BehindmostFits, LeftType, BurstType, ThreadsType
<1>6. CASE guesses' = [v \in Users |-> 0] /\ lost' = [v \in Users |-> 0]
           /\ since' = now'
  <2>1. guesses'[u] + Left(Behindmost) <= (0 + 1) * Burst + lost'[u] + Cardinality(P)
    BY <1>2, <1>5, <1>6
  <2>2. 0 + Cardinality(Old) <= Threads + 1
    BY <1>3, <1>5
  <2>3. Bounded(u, Behindmost, 0)'
    BY <2>1, <2>2, BehindmostFits DEF Bounded
  <2> QED
    BY <1>5, <2>3, BehindmostFits DEF BoundedSomehow
<1>7. CASE now' < since + Window /\ UNCHANGED <<guesses, lost, since>>
  <2>1. PICK m \in Stages, d \in 0 .. Threads + 1 : Bounded(u, m, d)
    BY DEF GuessInv, BoundedSomehow
  <2>2. Old \in SUBSET OldStarts(u)
    BY <1>4, <1>7, AccountsAssumption DEF OldStarts, Doing, Time
  <2>3. CASE \A s \in OldStarts(u) : now' - s < Window
    <3>1. ASSUME NEW row \in ThrottleRow, RowFits(row, now),
                 \/ row = throttle[u]
                 \/ \E w \in Web : Doing(w, u, "writing") /\ row = request[w].row
          PROVE  Over(row, now') <=> Over(row, now)
      <4>1. row.started \in Time /\ row.started <= now
        BY <3>1 DEF ThrottleRow, RowFits
      <4>2. CASE row.started >= since
        BY <1>4, <1>7, <4>1, <4>2, AccountsAssumption DEF Over, Time
      <4>3. CASE row.started < since /\ Over(row, now)
        BY <1>4, <4>1, <4>3, AccountsAssumption DEF Over, Time
      <4>4. CASE row.started < since /\ ~Over(row, now)
        <5>1. now - row.started < Window
          BY <1>4, <4>1, <4>4, AccountsAssumption DEF Over, Time
        <5>2. row # None
          BY NoneIsNoThrottle
        <5>3. row.started \in OldStarts(u)
          BY <3>1, <4>1, <4>4, <5>1, <5>2 DEF OldStarts
        <5> QED
          BY <1>4, <2>3, <4>1, <4>4, <5>3, AccountsAssumption DEF Over, Time
      <4> QED
        BY <1>4, <4>1, <4>2, <4>3, <4>4 DEF Time
    <3>2. throttle[u] # None => (Over(throttle[u], now') <=> Over(throttle[u], now))
      BY <3>1 DEF AccountsTypeOK, GuessInv, RowsFit
    <3>3. ASSUME NEW w \in Web, Doing(w, u, "writing")
          PROVE  /\ request[w].row \in ThrottleRow
                 /\ Over(request[w].row, now') <=> Over(request[w].row, now)
      <4>1. request[w] \in Request
        BY DEF AccountsTypeOK, Workers
      <4>2. request[w].row \in ThrottleRow /\ RowFits(request[w].row, now)
        BY <3>3, <4>1, RequestFields DEF Doing, GuessInv, RowsFit
      <4> QED
        BY <3>1, <3>3, <4>2
    <3>4. Stage(throttle[u], now') = Stage(throttle[u], now)
      BY <3>2 DEF Stage
    <3>5. ASSUME NEW w \in Web, Doing(w, u, "writing")
          PROVE  Stage(request[w].row, now') = Stage(request[w].row, now)
      BY <3>3, <3>5 DEF Stage
    <3>6. Fits(u, m)'
      BY <1>4, <2>1, <3>4, <3>5 DEF Bounded, Fits, FitsAt, Doing
    <3>7. P = Pending(u)
      BY <1>4, <3>3 DEF Pending, Doing
    <3>8. Cardinality(Old) <= Cardinality(OldStarts(u))
      BY <2>2, OldStartsFew, FS_Subset
    <3>9. d + Cardinality(Old) <= Threads + 1
      BY <1>3, <1>5, <2>1, <3>8, OldStartsFew DEF Bounded
    <3>10. since' = now' => d = 0
      BY <1>4, <1>7
    <3>11. guesses'[u] + Left(m) <= (d + 1) * Burst + lost'[u] + Cardinality(P)
      BY <1>7, <2>1, <3>7 DEF Bounded
    <3>12. Bounded(u, m, d)'
      BY <3>6, <3>9, <3>10, <3>11 DEF Bounded
    <3> QED
      BY <3>12 DEF BoundedSomehow
  <2>4. ASSUME NEW s \in OldStarts(u), now' - s >= Window
        PROVE  BoundedSomehow(u)'
    <3>1. Old \in SUBSET (OldStarts(u) \ {s})
      BY <1>4, <2>2, <2>4, AccountsAssumption DEF OldStarts, Time
    <3>2. /\ IsFiniteSet(OldStarts(u) \ {s})
          /\ Cardinality(OldStarts(u) \ {s}) = Cardinality(OldStarts(u)) - 1
      BY OldStartsFew, FS_RemoveElement
    <3>3. Cardinality(Old) <= Cardinality(OldStarts(u)) - 1
      BY <3>1, <3>2, FS_Subset
    <3>4. d + 1 \in 0 .. Threads + 1 /\ (d + 1) + Cardinality(Old) <= Threads + 1
      BY <1>3, <1>5, <2>1, <3>3, OldStartsFew DEF Bounded
    <3>5. guesses[u] <= (d + 1) * Burst + lost[u]
      BY <2>1, GuessesWithin
    <3>6. guesses'[u] + Left(Behindmost)
            <= ((d + 1) + 1) * Burst + lost'[u] + Cardinality(P)
      <4> DEFINE most == (d + 1) * Burst
      <4>1. most \in Nat /\ ((d + 1) + 1) * Burst = most + Burst
        BY <1>5
      <4>2. guesses'[u] \in Nat /\ lost'[u] \in Nat /\ guesses'[u] <= most + lost'[u]
        BY <1>7, <3>5 DEF AccountsTypeOK
      <4> HIDE DEF most
      <4> QED
        BY <1>2, <1>5, <4>1, <4>2
    <3>7. since' # now'
      BY <1>4, <1>7
    <3>8. Bounded(u, Behindmost, d + 1)'
      BY <3>4, <3>6, <3>7, BehindmostFits DEF Bounded
    <3> QED
      BY <3>4, <3>8, BehindmostFits DEF BoundedSomehow
  <2>5. \A s \in OldStarts(u) : now' - s < Window \/ now' - s >= Window
    BY <1>4, AccountsAssumption DEF OldStarts, Time
  <2> QED
    BY <2>3, <2>4, <2>5
<1> QED
  BY <1>6, <1>7 DEF Tick

(* The steps of a login to the account it is for, and of all the others.   *)
LEMMA LoginBounded ==
    ASSUME AccountsTypeOK, AccountsTypeOK', GuessInv, NEW u \in Users,
           NEW w \in Web, request[w].who = u,
           LoginExpire(w) \/ LoginCheck(w) \/ LoginCount(w) \/ LoginRecord(w)
             \/ LoginFails(w) \/ CountFails(w)
    PROVE  BoundedSomehow(u)'
<1>1. PICK m \in Stages, d \in 0 .. Threads + 1 : Bounded(u, m, d)
  BY DEF GuessInv, BoundedSomehow
<1>2. /\ UNCHANGED <<since, now>> /\ since <= now /\ w \in Workers /\ RowsFit
      /\ \A v \in Web \ {w} : request'[v] = request[v]
  BY DEF LoginExpire, LoginCheck, LoginCount, LoginRecord, LoginFails, CountFails,
         Goto, AccountsTypeOK, Workers, GuessInv
<1>3. FitsAt(w, u, m) /\ m[w] \in 0 .. Top
  BY <1>1 DEF Bounded, Fits, Stages
<1>4. now \in Nat /\ throttle[u] \in ThrottleRow \cup {None}
  BY AccountsAssumption DEF AccountsTypeOK, Time
<1>5. CASE LoginExpire(w)
  <2>1. /\ request[w].at = "expiring" /\ throttle'[u] = None
        /\ guesses' = guesses /\ lost' = lost
        /\ request'[w] = [at |-> "looking", who |-> u]
    BY <1>2, <1>5 DEF LoginExpire, Goto, AccountsTypeOK
  <2>2. m[w] < 2 /\ Stage(throttle'[u], now) = 2 /\ 2 \in 0 .. Top /\ 2 < Top
    BY <1>3, <2>1, LimitType DEF FitsAt, Doing, Stage, Top
  <2>3. /\ ~Doing(w, u, "expiring")' /\ ~Doing(w, u, "writing")'
        /\ ~Doing(w, u, "recording")' /\ w \notin Pending(u)
    BY <2>1 DEF Doing, Pending
  <2> DEFINE n == Stage(throttle'[u], now)
  <2>4. /\ n \in 0 .. Top /\ m[w] < n
        /\ Doing(w, u, "looking")' => n < Top
        /\ w \in Pending(u) => n > 2
    BY <2>2, <2>3
  <2>5. /\ Stage(throttle'[u], now) = n /\ throttle'[u] = None
        /\ guesses'[u] = guesses[u] /\ lost'[u] = lost[u]
    BY <2>1
  <2> HIDE DEF n
  <2> QED
    BY <1>1, <1>2, <2>3, <2>4, <2>5, StoreBounded
<1>6. CASE LoginCheck(w)
  <2>1. /\ request[w].at = "looking" /\ throttle' = throttle /\ lost' = lost
        /\ w \notin Pending(u)
        /\ m[w] < Top /\ m[w] <= Stage(throttle[u], now)
    BY <1>3, <1>6 DEF LoginCheck, Doing, Pending, FitsAt
  <2>2. CASE request'[w] = [at |-> "clearing", cookie |-> CookieOf(u)]
             /\ guesses' = guesses
    <3>1. ~Doing(w, u, "writing")' /\ FitsAt(w, u, m)'
      BY <1>2, <2>1, <2>2 DEF FitsAt, Doing
    <3> QED
      BY <1>1, <1>2, <2>1, <2>2, <3>1, RequestBounded
  <2>3. CASE request'[w] = [at |-> "recording", who |-> u]
             /\ guesses' = [guesses EXCEPT ![u] = @ + 1]
    <3>1. ~Doing(w, u, "writing")' /\ FitsAt(w, u, m)' /\ (w \in Pending(u))'
      BY <1>2, <2>1, <2>3 DEF FitsAt, Doing, Pending
    <3>2. guesses'[u] = guesses[u] + 1
      BY <2>3 DEF AccountsTypeOK
    <3> QED
      BY <1>1, <1>2, <2>1, <3>1, <3>2, RequestBounded
  <2> QED
    BY <1>2, <1>6, <2>2, <2>3 DEF LoginCheck, Goto, AccountsTypeOK
<1>7. CASE LoginCount(w)
  <2> DEFINE next == NextThrottle(u)
  <2>1. /\ request[w].at = "recording" /\ throttle' = throttle
        /\ guesses' = guesses /\ lost' = lost
        /\ request'[w] = [at |-> "writing", who |-> u, row |-> next]
        /\ m[w] < Top /\ m[w] <= Stage(throttle[u], now)
    BY <1>2, <1>3, <1>7 DEF LoginCount, Goto, AccountsTypeOK, FitsAt, Doing
  <2>2. /\ ~Over(next, now) /\ m[w] < Stage(next, now)
        /\ next.started = now \/ (throttle[u] # None /\ next.started = throttle[u].started)
    BY <1>2, <1>3, <2>1, NextStage
  <2> HIDE DEF next
  <2>3. FitsAt(w, u, m)' /\ (w \in Pending(u))'
    BY <1>2, <2>1, <2>2 DEF FitsAt, Doing, Pending
  <2>4. request'[w].row = next
    BY <2>1
  <2> QED
    BY <1>1, <1>2, <2>1, <2>2, <2>3, <2>4, RequestBounded
<1>8. CASE LoginRecord(w)
  <2> DEFINE row == request[w].row
             n == Stage(row, now)
  <2>1. /\ Doing(w, u, "writing") /\ throttle'[u] = row
        /\ guesses' = guesses /\ lost' = lost
        /\ request'[w] = Idle
    BY <1>2, <1>8 DEF LoginRecord, Goto, AccountsTypeOK, Doing
  <2>2. row \in ThrottleRow
    BY <1>2, <2>1, RequestFields DEF Doing, AccountsTypeOK
  <2>3. n \in 1 .. Top /\ m[w] < n
    BY <1>3, <1>4, <2>1, <2>2, StageType DEF FitsAt
  <2>4. RowFits(row, now)
    BY <1>2, <2>1 DEF RowsFit, Doing
  <2>5. w \in Pending(u) => n > 2
    BY <1>4, <2>1, <2>2, <2>4, StageType, NoneIsNoThrottle DEF Pending, RowFits, Doing
  <2>6. /\ ~Doing(w, u, "expiring")' /\ ~Doing(w, u, "writing")'
        /\ ~Doing(w, u, "recording")' /\ ~Doing(w, u, "looking")'
    BY <2>1 DEF Doing, Idle
  <2>7. n \in 0 .. Top /\ Stage(throttle'[u], now) = n
    BY <2>1, <2>3
  <2> HIDE DEF n
  <2> QED
    BY <1>1, <1>2, <2>1, <2>3, <2>5, <2>6, <2>7, StoreBounded
<1>9. CASE LoginFails(w) \/ CountFails(w)
  <2>1. request'[w] = Idle /\ throttle' = throttle /\ guesses' = guesses
    BY <1>2, <1>9 DEF LoginFails, CountFails, Goto, AccountsTypeOK
  <2>2. FitsAt(w, u, m)' /\ ~Doing(w, u, "writing")' /\ w \notin Pending(u)'
    BY <1>2, <1>3, <2>1 DEF FitsAt, Doing, Pending, Idle
  <2>3. CASE LoginFails(w)
    <3>1. w \notin Pending(u) /\ lost' = lost
      BY <2>3 DEF LoginFails, Pending, Doing
    <3> QED
      BY <1>1, <1>2, <2>1, <2>2, <3>1, RequestBounded
  <2>4. CASE CountFails(w)
    <3>1. lost'[u] = lost[u] + 1
      BY <2>4 DEF CountFails, AccountsTypeOK
    <3> QED
      BY <1>1, <1>2, <2>1, <2>2, <3>1, RequestBounded
  <2> QED
    BY <1>9, <2>3, <2>4
<1> QED
  BY <1>5, <1>6, <1>7, <1>8, <1>9

(* A right password ends the count of its user.                            *)
LEMMA SucceedBounded ==
    ASSUME AccountsTypeOK, AccountsTypeOK', GuessInv, NEW u \in Users,
           NEW w \in Web, LoginSucceed(w), request[w].cookie.user = u
    PROVE  BoundedSomehow(u)'
<1> DEFINE Old == OldStarts(u)'
           P == Pending(u)'
<1>1. PICK m \in Stages, d \in 0 .. Threads + 1 : Bounded(u, m, d)
  BY DEF GuessInv, BoundedSomehow
<1>2. /\ throttle'[u] = None /\ guesses'[u] = 0 /\ lost'[u] = 0
      /\ since' = since /\ now' = now
      /\ request' = [request EXCEPT ![w] = Idle]
  BY <1>1 DEF LoginSucceed, Goto, AccountsTypeOK
<1>3. \A v \in Web : Doing(v, u, "writing")' => request'[v] = request[v]
  BY <1>2 DEF Doing, Idle, AccountsTypeOK, Workers
<1>4. Old \in SUBSET OldStarts(u)
  BY <1>2, <1>3 DEF OldStarts, Doing
<1>5. P \in SUBSET Web
  BY DEF Pending
<1>6. Cardinality(P) \in Nat
  BY <1>5, ThreadsType, FS_Subset, FS_CardinalityType
<1> HIDE DEF Old, P
<1>7. Cardinality(Old) <= Cardinality(OldStarts(u)) /\ Cardinality(Old) \in Nat
  BY <1>4, OldStartsFew, FS_Subset, FS_CardinalityType
<1>8. d + Cardinality(Old) <= Threads + 1
  BY <1>1, <1>7, OldStartsFew, ThreadsType DEF Bounded
<1>9. /\ Behindmost \in Stages /\ Fits(u, Behindmost)'
      /\ Left(Behindmost) \in Nat /\ Left(Behindmost) <= Burst
  BY BehindmostFits, LeftType
<1>10. guesses'[u] + Left(Behindmost) <= (d + 1) * Burst + lost'[u] + Cardinality(P)
  <2>1. (d + 1) * Burst = d * Burst + Burst /\ d * Burst \in Nat
    BY BurstType, ThreadsType
  <2> QED
    BY <1>2, <1>6, <1>9, <2>1, BurstType
<1>11. Bounded(u, Behindmost, d)'
  BY <1>1, <1>2, <1>8, <1>9, <1>10 DEF Bounded, Old, P
<1> QED
  BY <1>9, <1>11 DEF BoundedSomehow

(* A step of a worker that tries no password of u.                         *)
LEMMA AsideBounded ==
    ASSUME AccountsTypeOK, AccountsTypeOK', GuessInv, NEW u \in Users,
           UNCHANGED <<since, now>>,
           throttle'[u] = throttle[u], guesses'[u] = guesses[u], lost'[u] = lost[u],
           NEW w \in Workers, NEW r, Goto(w, r),
           request[w].at \in Trying => request[w].who # u,
           r.at \in Trying => r.who # u
    PROVE  BoundedSomehow(u)'
<1>1. PICK m \in Stages, d \in 0 .. Threads + 1 : Bounded(u, m, d)
  BY DEF GuessInv, BoundedSomehow
<1>2. request'[w] = r /\ \A v \in Web \ {w} : request'[v] = request[v]
  BY DEF Goto, AccountsTypeOK, Workers
<1>3. w \in Web => FitsAt(w, u, m)'
  BY <1>1, <1>2 DEF Bounded, Fits, FitsAt, Doing, Trying
<1>4. ~Doing(w, u, "writing")' /\ w \notin Pending(u)
  BY <1>2 DEF Doing, Pending, Trying
<1> QED
  BY <1>1, <1>2, <1>3, <1>4, RequestBounded DEF GuessInv

LEMMA GuessStep ==
    ASSUME AccountsTypeOK, AccountsTypeOK', GuessInv, AccountsNext
    PROVE  GuessInv'
<1>1. RowsFit'
  BY RowsStep DEF GuessInv
<1>2. since' <= now'
  <2>1. since \in Nat /\ now \in Nat /\ since <= now
    BY AccountsAssumption DEF AccountsTypeOK, Time, GuessInv
  <2>2. CASE Tick
    BY <2>1, <2>2 DEF Tick
  <2>3. CASE UNCHANGED <<since, now>>
    BY <2>1, <2>3
  <2> QED
    BY <2>2, <2>3, Steps DEF LoginBegin, LoginExpire, LoginCheck, LoginCount,
                             LoginRecord, LoginSucceed, LoginFails, CountFails, Aside
<1>3. ASSUME NEW u \in Users PROVE BoundedSomehow(u)'
  <2> \A w \in Web : w \in Workers
    BY DEF Workers
  <2>1. ASSUME NEW w \in Web, NEW v \in Users, LoginBegin(w, v)
        PROVE  BoundedSomehow(u)'
    <3> DEFINE r == [at |-> IF throttle[v] # None /\ Expired(throttle[v])
                            THEN "expiring" ELSE "looking", who |-> v]
    <3>1. /\ UNCHANGED <<since, now, throttle, guesses, lost>> /\ request[w].at \notin Trying
          /\ Goto(w, r) /\ ~Refused(v)
      BY <2>1 DEF LoginBegin, Idle, Trying
    <3>2. CASE v # u
      BY <3>1, <3>2, AsideBounded
    <3>3. CASE v = u
      <4>1. PICK m \in Stages, d \in 0 .. Threads + 1 : Bounded(u, m, d)
        BY DEF GuessInv, BoundedSomehow
      <4>2. m[w] <= Stage(throttle[u], now) /\ w \notin Pending(u)
        BY <3>1, <4>1 DEF Bounded, Fits, FitsAt, Doing, Trying, Pending
      <4>3. throttle[u] \in ThrottleRow \cup {None} /\ now \in Nat
        BY AccountsAssumption DEF AccountsTypeOK, Time
      <4>4. Stage(throttle[u], now) \in 1 .. Top /\ Stage(throttle[u], now) < Top
        BY <3>1, <3>3, <4>3, StageType, NotRefused DEF GuessInv
      <4>5. m[w] < Top
        BY <4>2, <4>4, LimitType DEF Stages
      <4>6. /\ request'[w] = r
            /\ \A x \in Web \ {w} : request'[x] = request[x]
        BY <3>1 DEF Goto, AccountsTypeOK
      <4>7. throttle[u] # None /\ Expired(throttle[u]) => m[w] <= 1
        BY <4>2 DEF Stage, Over, Expired
      <4>8. FitsAt(w, u, m)' /\ ~Doing(w, u, "writing")'
        BY <3>1, <3>3, <4>2, <4>5, <4>6, <4>7 DEF FitsAt, Doing
      <4> QED
        BY <3>1, <4>1, <4>2, <4>6, <4>8, RequestBounded DEF GuessInv
    <3> QED
      BY <3>2, <3>3
  <2>2. ASSUME NEW w \in Web,
               LoginExpire(w) \/ LoginCheck(w) \/ LoginCount(w) \/ LoginRecord(w)
                 \/ CountFails(w)
        PROVE  BoundedSomehow(u)'
    <3>1. CASE request[w].who = u
      BY <2>2, <3>1, LoginBounded
    <3>2. CASE request[w].who # u
      <4>1. request[w].who \in Users
        BY <2>2, RequestFields DEF LoginExpire, LoginCheck, LoginCount, LoginRecord,
                                   CountFails, AccountsTypeOK
      <4>2. /\ UNCHANGED <<since, now>>
            /\ throttle'[u] = throttle[u] /\ guesses'[u] = guesses[u] /\ lost'[u] = lost[u]
        BY <2>2, <3>2, <4>1 DEF LoginExpire, LoginCheck, LoginCount, LoginRecord,
                                CountFails, AccountsTypeOK
      <4>3. PICK r : Goto(w, r) /\ (r.at \in Trying => r.who # u)
        BY <2>2, <3>2 DEF LoginExpire, LoginCheck, LoginCount, LoginRecord,
                          CountFails, Idle, Trying
      <4> QED
        BY <3>2, <4>2, <4>3, AsideBounded
    <3> QED
      BY <3>1, <3>2
  <2>3. ASSUME NEW w \in Web, LoginSucceed(w)
        PROVE  BoundedSomehow(u)'
    <3>1. CASE request[w].cookie.user = u
      BY <2>3, <3>1, SucceedBounded
    <3>2. CASE request[w].cookie.user # u
      <4>1. /\ UNCHANGED <<since, now>> /\ request[w].at \notin Trying /\ Idle.at \notin Trying
            /\ throttle'[u] = throttle[u] /\ guesses'[u] = guesses[u] /\ lost'[u] = lost[u]
            /\ Goto(w, Idle)
        BY <2>3, <3>2 DEF LoginSucceed, AccountsTypeOK, Trying, Idle
      <4> QED
        BY <4>1, AsideBounded
    <3> QED
      BY <3>1, <3>2
  <2>4. CASE Tick
    BY <2>4, TickBounded
  <2>5. CASE Aside
    BY <2>5, AsideBounded DEF Aside
  <2>6. ASSUME NEW w \in Web, LoginFails(w)
        PROVE  BoundedSomehow(u)'
    <3>1. CASE request[w].who = u
      BY <2>6, <3>1, LoginBounded
    <3>2. CASE request[w].who # u
      <4>1. /\ UNCHANGED <<since, now, throttle, guesses, lost>> /\ Goto(w, Idle)
            /\ Idle.at \notin Trying
        BY <2>6 DEF LoginFails, Idle, Trying
      <4> QED
        BY <3>2, <4>1, AsideBounded
    <3> QED
      BY <3>1, <3>2
  <2> QED
    BY <2>1, <2>2, <2>3, <2>4, <2>5, <2>6, Steps
<1> QED
  BY <1>1, <1>2, <1>3 DEF GuessInv

LEMMA GuessInit == AccountsInit /\ AccountsTypeOK => GuessInv
<1> SUFFICES ASSUME AccountsInit, AccountsTypeOK PROVE GuessInv
  OBVIOUS
<1>1. since <= now /\ RowsFit
  BY DEF AccountsInit, RowsFit, Idle, Workers
<1>2. ASSUME NEW u \in Users PROVE Bounded(u, Behindmost, 0)
  <2>1. OldStarts(u) = {} /\ Pending(u) = {}
    BY DEF AccountsInit, OldStarts, Pending, Doing, Idle, Workers, Time
  <2>2. Behindmost \in Stages
    BY LimitType DEF Behindmost, Stages
  <2>3. Fits(u, Behindmost)
    BY DEF AccountsInit, Fits, FitsAt, Behindmost, Doing, Idle, Workers, Stage
  <2>4. /\ Left(Behindmost) \in Nat /\ Left(Behindmost) <= Burst
        /\ Burst \in Nat /\ Threads \in Nat /\ Cardinality({}) = 0
    BY <2>2, LeftType, BurstType, ThreadsType, FS_EmptySet
  <2>5. guesses[u] = 0 /\ lost[u] = 0
    BY DEF AccountsInit
  <2> QED
    BY <2>1, <2>3, <2>4, <2>5 DEF Bounded
<1>3. Behindmost \in Stages
  BY LimitType DEF Behindmost, Stages
<1> QED
  BY <1>1, <1>2, <1>3, ThreadsType DEF GuessInv, BoundedSomehow

LEMMA GuessInvariance == AccountsSpec => []GuessInv
<1>1. AccountsTypeOK /\ AccountsTypeOK' /\ GuessInv /\ [AccountsNext]_avars => GuessInv'
  <2>1. CASE AccountsNext
    BY <2>1, GuessStep
  <2>2. CASE UNCHANGED avars
    <3> SUFFICES ASSUME AccountsTypeOK, GuessInv PROVE GuessInv'
      OBVIOUS
    <3>1. (since <= now)' /\ RowsFit'
      BY <2>2 DEF avars, GuessInv, RowsFit
    <3>2. ASSUME NEW u \in Users PROVE BoundedSomehow(u)'
      <4>1. PICK m \in Stages, d \in 0 .. Threads + 1 : Bounded(u, m, d)
        BY DEF GuessInv, BoundedSomehow
      <4>2. OldStarts(u)' = OldStarts(u) /\ Pending(u)' = Pending(u)
        BY <2>2 DEF avars, OldStarts, Pending, Doing
      <4>3. Fits(u, m)'
        BY <2>2, <4>1 DEF avars, Bounded, Fits, FitsAt, Doing
      <4>4. Bounded(u, m, d)'
        BY <2>2, <4>1, <4>2, <4>3 DEF avars, Bounded
      <4> QED
        BY <4>4 DEF BoundedSomehow
    <3> QED
      BY <3>1, <3>2 DEF GuessInv
  <2> QED
    BY <2>1, <2>2
<1> QED
  BY <1>1, GuessInit, AccountsTyped, PTL DEF AccountsSpec

(* However many threads try to log in, in whatever order their statements  *)
(* come, they compare at most Burst wrong passwords for a login key within *)
(* a second, and Cardinality(Web) + 2 times as many within any window, not *)
(* counting those whose count fails to be stored.                          *)
THEOREM GuessesAreBounded == AccountsSpec => []GuessBound
<1>1. AccountsTypeOK /\ GuessInv => GuessBound
  <2> SUFFICES ASSUME AccountsTypeOK, GuessInv, NEW u \in Users
               PROVE  guesses[u] <= (IF since = now THEN 1 ELSE Threads + 2) * Burst
                                     + lost[u]
    BY DEF GuessBound, Threads
  <2>1. PICK m \in Stages, d \in 0 .. Threads + 1 : Bounded(u, m, d)
    BY DEF GuessInv, BoundedSomehow
  <2>2. guesses[u] \in Nat /\ lost[u] \in Nat /\ Burst \in Nat /\ Threads \in Nat
    BY BurstType, ThreadsType DEF AccountsTypeOK
  <2>3. guesses[u] <= (d + 1) * Burst + lost[u]
    BY <2>1, GuessesWithin
  <2>4. CASE since = now
    BY <2>1, <2>2, <2>3, <2>4 DEF Bounded
  <2>5. CASE since # now
    <3>1. PICK e \in Nat : d + 1 + e = Threads + 2
      <4>1. (Threads + 1) - d \in Nat /\ d + 1 + ((Threads + 1) - d) = Threads + 2
        BY <2>2
      <4> QED
        BY <4>1
    <3>2. (Threads + 2) * Burst = (d + 1) * Burst + e * Burst
      BY <2>2, <3>1
    <3>3. e * Burst \in Nat /\ (d + 1) * Burst \in Nat
      BY <2>2
    <3> QED
      BY <2>2, <2>3, <2>5, <3>2, <3>3
  <2> QED
    BY <2>4, <2>5
<1> QED
  BY <1>1, GuessInvariance, AccountsTyped, PTL

=============================================================================
