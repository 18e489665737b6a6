------------------------------- MODULE Sessions -------------------------------
(***************************************************************************)
(* Accounts and sessions: internal/auth and the routes of main.go that use *)
(* it.  A session is a signed token that names an account, its role and the*)
(* version the account had at the login; nothing is stored on the server.  *)
(* Every request compares the token with the users table in one statement, *)
(* and its handler then works with what the token says.                    *)
(*                                                                         *)
(* Failed logins are counted in memory, under a mutex; the PIN is compared *)
(* between two holds of it.  The durations of a lock and of a session are  *)
(* left out: either may end at any time.  Demo sessions are left out.      *)
(***************************************************************************)
EXTENDS Integers, FiniteSets

CONSTANTS
    Handlers,       \* request goroutines
    Emails,         \* email addresses, trimmed and in lower case
    First,          \* the address BootstrapAdmin uses
    Pins,           \* PINs typed, chosen or drawn
    NoPin,          \* what stands for an empty hash: no PIN matches it
    Roles,          \* roles in use: a subset of ValidRoles
    Works,          \* what signed-in people ask for: a subset of AllWorks
    MaxVersion,     \* bound: changes of one account
    MaxLives,       \* bound: times an address is added
    MaxSessions     \* bound: sessions live at once

ValidRoles == {"VIEWER", "ASSISTANT", "EDITOR", "ADMIN"}
\* "view" reads, "order" creates POs and RFQs, "item" changes the fields of an item
\* that an ASSISTANT may edit and "field" its others, "edit" is every other change of
\* the business tables but the "settings" (a supplier's deletion, a new product type
\* and the terms delivered at once), "pin" is POST /api/change-pin and "users"
\* changes accounts.
AllWorks == {"view", "order", "item", "field", "edit", "settings", "pin", "users"}

ASSUME SessionsAssumption ==
    /\ First \in Emails /\ Pins # {} /\ NoPin \notin Pins
    /\ Roles \subseteq ValidRoles /\ "ADMIN" \in Roles
    /\ Works \subseteq AllWorks
    /\ MaxVersion \in Nat /\ MaxLives \in Nat /\ MaxSessions \in Nat

\* A server runs finitely many requests at a time.
ASSUME HandlersFinite == IsFiniteSet(Handlers)

VARIABLES
    users,          \* the table users, by email
    sessions,       \* tokens a client holds and that have not expired
    attempts,       \* the map attempts: failures counted, and locked or not
    req,            \* what each handler is doing
    lives,          \* history: times each address was added
    tries           \* history: failures recorded since the address was last free

vars == <<users, sessions, attempts, req, lives, tries>>

\* life tells two accounts with one address apart; no code reads it.
User == [pin : Pins \cup {NoPin}, role : Roles, version : Nat, life : Nat, mustChange : BOOLEAN]

\* The claims of a token; pin and life are history, the PIN typed at the login
\* and the account it opened.
Claims == [email : Emails, role : Roles, version : Nat, pin : Pins, life : Nat]

Attempt == [count : 0..3, locked : BOOLEAN]
NoAttempt == [count |-> 0, locked |-> FALSE]

\* A login: "lock", "user", then "fail", or "clear" and "issue".  A request
\* with a session: "session", then "work", or "hash" and "write" for a PIN.
\* moved: the session's account changed since Middleware, or the hash, was read.
Request == [pc : {"idle", "lock", "user", "fail", "clear", "issue", "session",
                  "work", "hash", "write"},
            claims : Claims, work : AllWorks, moved : BOOLEAN]

NoClaims == [email |-> First, role |-> "ADMIN", version |-> 0,
             pin |-> CHOOSE p \in Pins : TRUE, life |-> 0]
Idle == [pc |-> "idle", claims |-> NoClaims, work |-> "view", moved |-> FALSE]

-----------------------------------------------------------------------------
(* Permissions: three checks in a row, each by the role in the token *)

\* Middleware's lists: what an ASSISTANT may POST, and a VIEWER.
Blocked(role, work) ==
    \/ role = "ASSISTANT" /\ work \notin {"view", "order", "item", "field"}
    \/ role = "VIEWER" /\ work \notin {"view", "pin"}

\* RequireRole and adminOnly, route by route.
RouteRoles(work) ==
    CASE work \in {"view", "pin"}           -> ValidRoles
      [] work \in {"order", "item", "field"} -> {"ASSISTANT", "EDITOR", "ADMIN"}
      [] work = "edit"                       -> {"EDITOR", "ADMIN"}
      [] work \in {"settings", "users"}      -> {"ADMIN"}

\* POST /api/inventory/ is one route: UpdateAnchorsAs tells the fields apart.
FieldForbidden(role, work) == role = "ASSISTANT" /\ work = "field"

AllowedByRoute(role, work) ==
    role \in RouteRoles(work) /\ (role = "VIEWER" => work \in {"view", "pin"})
Allowed(role, work) ==
    ~Blocked(role, work) /\ role \in RouteRoles(work) /\ ~FieldForbidden(role, work)

\* The session query of Middleware: the account has this role and version now.
Valid(c) ==
    /\ c.email \in DOMAIN users
    /\ users[c.email].role = c.role
    /\ users[c.email].version = c.version

-----------------------------------------------------------------------------
NewAccount(e, pin, role) ==
    [pin |-> pin, role |-> role, version |-> 0, life |-> lives[e] + 1, mustChange |-> TRUE]

Init ==
    /\ \E pin \in Pins :
          users = [e \in {First} |-> [pin |-> pin, role |-> "ADMIN", version |-> 0,
                                      life |-> 1, mustChange |-> TRUE]]
    /\ lives = [e \in Emails |-> IF e = First THEN 1 ELSE 0]
    /\ sessions = {}
    /\ attempts = [e \in Emails |-> NoAttempt]
    /\ req = [h \in Handlers |-> Idle]
    /\ tries = [e \in Emails |-> 0]

Goto(h, pc) == req' = [req EXCEPT ![h].pc = pc]
Answer(h) == req' = [req EXCEPT ![h] = Idle]

\* The account of e becomes (or stops being) what it was: h is answered, and
\* the requests of that account learn that it moved.
Changed(h, e) ==
    req' = [k \in Handlers |->
        IF k = h THEN Idle
        ELSE IF req[k].pc \in {"work", "hash", "write"} /\ req[k].claims.email = e
             THEN [req[k] EXCEPT !.moved = TRUE]
             ELSE req[k]]

-----------------------------------------------------------------------------
(* Login *)

ReceiveLogin(h) ==
    /\ req[h].pc = "idle"
    /\ \E e \in Emails, pin \in Pins :
          req' = [req EXCEPT ![h].pc = "lock",
                             ![h].claims = [NoClaims EXCEPT !.email = e, !.pin = pin]]
    /\ UNCHANGED <<users, sessions, attempts, lives, tries>>

\* Under the mutex: a locked address is refused before anything is compared.
CheckLock(h) ==
    /\ req[h].pc = "lock"
    /\ IF attempts[req[h].claims.email].locked THEN Answer(h) ELSE Goto(h, "user")
    /\ UNCHANGED <<users, sessions, attempts, lives, tries>>

\* One statement reads hash, role and version; the comparison follows.  A failed
\* statement counts as a wrong PIN.
ReadUser(h) ==
    LET c == req[h].claims
        u == users[c.email]
    IN  /\ req[h].pc = "user"
        /\ \/ /\ c.email \in DOMAIN users /\ u.pin = c.pin
              /\ req' = [req EXCEPT ![h].pc = "clear",
                    ![h].claims = [c EXCEPT !.role = u.role, !.version = u.version,
                                            !.life = u.life]]
           \/ Goto(h, "fail")
        /\ UNCHANGED <<users, sessions, attempts, lives, tries>>

\* From the third failure on, every failure locks the address (again).
LockedAfterFourth(count) == count >= 4
LockedAfter(count) == count >= 3
More(count) == IF count < 3 THEN count + 1 ELSE 3    \* the bound: more says no more

RecordFailure(h) ==
    LET e == req[h].claims.email
        n == More(attempts[e].count)
    IN  /\ req[h].pc = "fail"
        /\ attempts' = [attempts EXCEPT ![e] =
               [count |-> n, locked |-> @.locked \/ LockedAfter(n)]]
        /\ tries' = [tries EXCEPT ![e] = @ + 1]
        /\ Answer(h)
        /\ UNCHANGED <<users, sessions, lives>>

\* Success forgets the failures, and a lock that came up meanwhile.
ClearAttempts(h) ==
    LET e == req[h].claims.email
    IN  /\ req[h].pc = "clear"
        /\ attempts' = [attempts EXCEPT ![e] = NoAttempt]
        /\ tries' = [tries EXCEPT ![e] = 0]
        /\ Goto(h, "issue")
        /\ UNCHANGED <<users, sessions, lives>>

\* The token carries what ReadUser found.
IssueTokenAsOfNow(h) ==
    LET e == req[h].claims.email
    IN  /\ req[h].pc = "issue" /\ e \in DOMAIN users
        /\ sessions' = sessions \cup
               {[req[h].claims EXCEPT !.version = users[e].version, !.role = users[e].role]}
        /\ Answer(h)
        /\ UNCHANGED <<users, attempts, lives, tries>>
IssueToken(h) ==
    /\ req[h].pc = "issue"
    /\ Cardinality(sessions \cup {req[h].claims}) <= MaxSessions
    /\ sessions' = sessions \cup {req[h].claims}
    /\ Answer(h)
    /\ UNCHANGED <<users, attempts, lives, tries>>

-----------------------------------------------------------------------------
(* A request with a session *)

ReceiveWork(h) ==
    /\ req[h].pc = "idle"
    /\ \E c \in sessions, work \in Works :
          req' = [req EXCEPT ![h] = [pc |-> "session", claims |-> c, work |-> work,
                                     moved |-> FALSE]]
    /\ UNCHANGED <<users, sessions, attempts, lives, tries>>

\* The account is compared with the claims, the session lives on for another
\* idle timeout, and the role decides what may be asked for.
Refresh(c) == IF Cardinality(sessions \cup {c}) <= MaxSessions
              THEN sessions \cup {c} ELSE sessions
Middleware(h) ==
    LET r == req[h]
    IN  /\ r.pc = "session"
        /\ IF Valid(r.claims)
           THEN /\ sessions' = Refresh(r.claims)
                /\ IF Allowed(r.claims.role, r.work)
                   THEN Goto(h, IF r.work = "pin" THEN "hash" ELSE "work")
                   ELSE Answer(h)
           ELSE Answer(h) /\ UNCHANGED sessions
        /\ UNCHANGED <<users, attempts, lives, tries>>

\* Work on the business tables, which the other modules describe.
Work(h) ==
    /\ req[h].pc = "work" /\ req[h].work # "users"
    /\ Answer(h)
    /\ UNCHANGED <<users, sessions, attempts, lives, tries>>

-----------------------------------------------------------------------------
(* Changes of accounts: one statement each, except a person's own PIN *)

Put(e, user) == users' = [x \in (DOMAIN users) \cup {e} |-> IF x = e THEN user ELSE users[x]]

\* An administrator may ask for any role.
AskedRoles == Roles \cup {"OWNER"}
AnyRole(role) == TRUE
ValidRole(role) == role \in ValidRoles

\* Every UPDATE of an account but that of last_access raises its version.
NewVersion(u) == u.version + 1
CanRaise(e) == users[e].version < MaxVersion

AddUser(h, e) ==
    /\ e \notin DOMAIN users /\ lives[e] < MaxLives
    /\ \E pin \in Pins, role \in AskedRoles :
          ValidRole(role) /\ Put(e, NewAccount(e, pin, role))
    /\ lives' = [lives EXCEPT ![e] = @ + 1]
    /\ Changed(h, e)

UpdateUser(h, e) ==
    /\ e \in DOMAIN users /\ CanRaise(e)
    /\ \E role \in AskedRoles :
          ValidRole(role) /\ Put(e, [users[e] EXCEPT !.role = role, !.version = NewVersion(users[e])])
    /\ Changed(h, e) /\ UNCHANGED lives

ResetUserPIN(h, e) ==
    /\ e \in DOMAIN users /\ CanRaise(e)
    /\ \E pin \in Pins :
          Put(e, [users[e] EXCEPT !.pin = pin, !.version = NewVersion(users[e]),
                                  !.mustChange = TRUE])
    /\ Changed(h, e) /\ UNCHANGED lives

DeleteUser(h, e) ==
    /\ e \in DOMAIN users
    /\ users' = [x \in (DOMAIN users) \ {e} |-> users[x]]
    /\ Changed(h, e) /\ UNCHANGED lives

ChangeAccounts(h) ==
    /\ req[h].pc = "work" /\ req[h].work = "users"
    /\ \E e \in Emails : AddUser(h, e) \/ UpdateUser(h, e) \/ ResetUserPIN(h, e)
                         \/ DeleteUser(h, e)
    /\ UNCHANGED <<sessions, attempts, tries>>

\* ChangePIN: the stored hash is read and compared with the PIN typed, which
\* takes the place of the one in the claims as the PIN this request knows.
ReadHashUnchecked(h) ==
    /\ req[h].pc = "hash"
    /\ \E old \in Pins :
          req' = [req EXCEPT ![h].pc = "write", ![h].moved = FALSE, ![h].claims.pin = old]
    /\ UNCHANGED <<users, sessions, attempts, lives, tries>>
ReadHash(h) ==
    /\ req[h].pc = "hash"
    /\ \E old \in Pins :
          IF req[h].claims.email \in DOMAIN users /\ users[req[h].claims.email].pin = old
          THEN req' = [req EXCEPT ![h].pc = "write", ![h].moved = FALSE,
                                  ![h].claims.pin = old]
          ELSE Answer(h)
    /\ UNCHANGED <<users, sessions, attempts, lives, tries>>

\* The UPDATE names the account alone; on a deleted one it changes nothing.  A new
\* PIN that bcrypt refuses leaves an empty hash.
WritePIN(h) ==
    LET e == req[h].claims.email
    IN  /\ req[h].pc = "write"
        /\ IF e \in DOMAIN users
           THEN /\ CanRaise(e)
                /\ \E pin \in Pins \cup {NoPin} :
                      Put(e, [users[e] EXCEPT !.pin = pin, !.version = NewVersion(users[e]),
                                              !.mustChange = FALSE])
                /\ Changed(h, e)
           ELSE Answer(h) /\ UNCHANGED users
        /\ UNCHANGED <<sessions, attempts, lives, tries>>

-----------------------------------------------------------------------------
(* The rest of the world *)

\* A request is refused for its form, fails, or loses its client.
Abort(h) ==
    /\ req[h].pc # "idle" /\ Answer(h)
    /\ UNCHANGED <<users, sessions, attempts, lives, tries>>

\* lockedUntil passes: the failures stay counted.
LockEnds(e) ==
    /\ attempts[e].locked
    /\ attempts' = [attempts EXCEPT ![e].locked = FALSE]
    /\ tries' = [tries EXCEPT ![e] = 0]
    /\ UNCHANGED <<users, sessions, req, lives>>

\* Fifteen minutes without a request, or POST /api/logout.
SessionEnds(c) ==
    /\ sessions' = sessions \ {c}
    /\ UNCHANGED <<users, attempts, req, lives, tries>>

\* The process stops and starts: failures and requests are forgotten, sessions
\* are not.  BootstrapAdmin adds an administrator to a table it finds empty, or
\* cannot count; it ignores whether the INSERT succeeds.
Restart ==
    /\ attempts' = [e \in Emails |-> NoAttempt]
    /\ tries' = [e \in Emails |-> 0]
    /\ req' = [h \in Handlers |-> Idle]
    /\ \/ /\ First \notin DOMAIN users /\ lives[First] < MaxLives
          /\ \E pin \in Pins : Put(First, NewAccount(First, pin, "ADMIN"))
          /\ lives' = [lives EXCEPT ![First] = @ + 1]
       \/ UNCHANGED <<users, lives>>
    /\ UNCHANGED sessions

Serve(h) ==
    \/ CheckLock(h) \/ ReadUser(h) \/ RecordFailure(h) \/ ClearAttempts(h) \/ IssueToken(h)
    \/ Middleware(h) \/ Work(h) \/ ChangeAccounts(h) \/ ReadHash(h) \/ WritePIN(h)

Next ==
    \/ \E h \in Handlers : ReceiveLogin(h) \/ ReceiveWork(h) \/ Serve(h) \/ Abort(h)
    \/ \E e \in Emails : LockEnds(e)
    \/ \E c \in sessions : SessionEnds(c)
    \/ Restart

Spec == Init /\ [][Next]_vars

-----------------------------------------------------------------------------
(* Properties *)

\* Every variable keeps its shape.
TypeOK ==
    /\ DOMAIN users \subseteq Emails /\ users \in [DOMAIN users -> User]
    /\ sessions \subseteq Claims
    /\ attempts \in [Emails -> Attempt]
    /\ req \in [Handlers -> Request]
    /\ lives \in [Emails -> Nat] /\ tries \in [Emails -> Nat]

\* The sessions that clients hold and those that requests carry.
Held == sessions \cup {req[h].claims : h \in {k \in Handlers :
            req[k].pc \in {"clear", "issue", "session", "work", "hash"}}}

\* Why one comparison of versions is enough: a session that has the version of
\* its account was opened with the PIN and the role the account still has, and no
\* session is ahead of its account.
VersionTells ==
    \A c \in Held :
        /\ c.life <= lives[c.email]
        /\ c.email \in DOMAIN users /\ users[c.email].life = c.life =>
              /\ c.version <= users[c.email].version
              /\ c.version = users[c.email].version =>
                    c.pin = users[c.email].pin /\ c.role = users[c.email].role
LivesCounted == \A e \in DOMAIN users : users[e].life <= lives[e]

\* What the refusals promise: a VIEWER is read-only but for the own PIN, an ASSISTANT
\* "may only create POs/RFQs and edit permitted item fields", accounts and settings
\* are an ADMIN's.
Rights ==
    [VIEWER    |-> {"view", "pin"},
     ASSISTANT |-> {"view", "order", "item"},
     EDITOR    |-> AllWorks \ {"settings", "users"},
     ADMIN     |-> AllWorks]

\* Middleware reads the account once and the handler works later, with the role
\* of the token.  Unless the account changed in between, that is the role it has,
\* the work is among the rights of that role although three places decide it, and
\* the session was opened with the PIN the account has: no session outlives a
\* reset, a change of PIN or a change of role.  (Deleting an address and adding it
\* again starts at version 0 once more.)
WorksForItsAccount ==
    \A h \in Handlers :
        LET c == req[h].claims
        IN  req[h].pc \in {"work", "hash"} /\ ~req[h].moved =>
                /\ c.email \in DOMAIN users
                /\ users[c.email].role = c.role
                /\ req[h].work \in Rights[users[c.email].role]
                /\ users[c.email].life = c.life => users[c.email].pin = c.pin

\* ChangePIN checks the old PIN in one statement and writes the new one in another
\* that names the account alone.  What it replaces is the PIN it checked, unless
\* the account changed in between: only then is an administrator's reset undone.
ReplacesPINItChecked ==
    \A h \in Handlers :
        LET c == req[h].claims
        IN  req[h].pc = "write" /\ ~req[h].moved =>
                c.email \in DOMAIN users /\ users[c.email].pin = c.pin

\* The PIN is compared outside the mutex.  Still, from the moment an address is
\* free (again) no more failures are recorded than the two that are allowed and
\* one for each login that was past the check when the third came in.
FailuresBounded == \A e \in Emails : tries[e] <= 2 + Cardinality(Handlers)

\* The inductive invariant behind the first two.
RequestInv(r) ==
    LET c == r.claims
    IN  /\ r.pc \in {"work", "hash"} /\ ~r.moved =>
              /\ c.email \in DOMAIN users
              /\ users[c.email].role = c.role /\ users[c.email].version = c.version
              /\ Allowed(c.role, r.work)
        /\ r.pc = "write" /\ ~r.moved =>
              c.email \in DOMAIN users /\ users[c.email].pin = c.pin

IInv == TypeOK /\ LivesCounted /\ VersionTells /\ \A h \in Handlers : RequestInv(req[h])

\* The logins of e that passed the check of the lock and may still record a failure.
Comparing(e) == {h \in Handlers : req[h].pc \in {"user", "fail"} /\ req[h].claims.email = e}

\* The one behind FailuresBounded.  A free address has at most two failures since,
\* and none if it was locked before: then the next one locks it again.  A locked
\* address lets nobody else through to the comparison.
FailuresInv ==
    \A e \in Emails :
        /\ ~attempts[e].locked =>
              /\ tries[e] <= attempts[e].count /\ tries[e] <= 2
              /\ LockedAfter(attempts[e].count) => tries[e] = 0
        /\ attempts[e].locked => tries[e] + Cardinality(Comparing(e)) <= 2 + Cardinality(Handlers)
=============================================================================
