---------------------------- MODULE ServerProofs ----------------------------
(***************************************************************************)
(* Proofs about the server apart from the business it serves.  Sessions:   *)
(* for every set of handlers, addresses and PINs, whatever roles are in    *)
(* use, and for every bound.  Startup: for every set of items, however     *)
(* often the program is stopped and whichever migrations fail.             *)
(***************************************************************************)
EXTENDS Sessions, Startup, FiniteSetTheorems, TLAPS

HeldPcs == {"clear", "issue", "session", "work", "hash"}

\* What VersionTells says of one session.
Tells(c) ==
    /\ c.life <= lives[c.email]
    /\ c.email \in DOMAIN users /\ users[c.email].life = c.life =>
          /\ c.version <= users[c.email].version
          /\ c.version = users[c.email].version =>
                c.pin = users[c.email].pin /\ c.role = users[c.email].role

\* The same after a step.
TellsNext(c) ==
    /\ c.life <= lives'[c.email]
    /\ c.email \in DOMAIN users' /\ users'[c.email].life = c.life =>
          /\ c.version <= users'[c.email].version
          /\ c.version = users'[c.email].version =>
                c.pin = users'[c.email].pin /\ c.role = users'[c.email].role

LEMMA TellsAll ==
    VersionTells <=> /\ \A c \in sessions : Tells(c)
                     /\ \A h \in Handlers : req[h].pc \in HeldPcs => Tells(req[h].claims)
BY DEF VersionTells, Held, Tells, HeldPcs

LEMMA IdleType == Idle \in Request /\ NoClaims \in Claims /\ Idle.pc = "idle"
<1>1. (CHOOSE p \in Pins : TRUE) \in Pins
  BY SessionsAssumption DEF SessionsAssumption
<1>2. NoClaims \in Claims
  BY <1>1, SessionsAssumption DEF SessionsAssumption, NoClaims, Claims
<1>3. QED
  BY <1>2 DEF Idle, Request, AllWorks

\* A role that passes ValidRole is one in use.
LEMMA AskedRole == \A role \in AskedRoles : ValidRole(role) => role \in Roles
BY DEF AskedRoles, ValidRole, ValidRoles

\* The account that AddUser or BootstrapAdmin stores.
LEMMA NewAccountType ==
    ASSUME TypeOK, NEW e \in Emails, NEW pin \in Pins, NEW role \in Roles
    PROVE  /\ NewAccount(e, pin, role) \in User
           /\ NewAccount(e, pin, role).life = lives[e] + 1
BY DEF TypeOK, NewAccount, User
-----------------------------------------------------------------------------
(* How the requests change *)

LEMMA AnswerReq ==
    ASSUME TypeOK, NEW h \in Handlers, Answer(h)
    PROVE  /\ req' \in [Handlers -> Request]
           /\ \A k \in Handlers : req'[k] = req[k] \/ req'[k].pc = "idle"
BY IdleType DEF TypeOK, Answer

LEMMA GotoReq ==
    ASSUME TypeOK, NEW h \in Handlers,
           NEW pc \in {"user", "fail", "issue", "work", "hash"}, Goto(h, pc)
    PROVE  /\ req' \in [Handlers -> Request]
           /\ \A k \in Handlers \ {h} : req'[k] = req[k]
           /\ req'[h].pc = pc /\ req'[h].claims = req[h].claims
           /\ req'[h].work = req[h].work
<1>1. req[h] \in Request /\ req' = [req EXCEPT ![h] = [req[h] EXCEPT !.pc = pc]]
  BY Zenon DEF TypeOK, Goto
<1>2. [req[h] EXCEPT !.pc = pc] \in Request
  BY <1>1 DEF Request
<1>3. QED
  BY <1>1, <1>2 DEF TypeOK, Request

\* The requests of account e learn that it moved; h is answered.
LEMMA ChangedReq ==
    ASSUME TypeOK, NEW h \in Handlers, NEW e \in Emails, Changed(h, e)
    PROVE  /\ req' \in [Handlers -> Request]
           /\ \A k \in Handlers :
                 \/ req'[k].pc = "idle"
                 \/ /\ req'[k].pc = req[k].pc /\ req'[k].claims = req[k].claims
                    /\ req'[k].work = req[k].work
                    /\ \/ req'[k].moved /\ req[k].claims.email = e
                       \/ /\ req'[k].moved = req[k].moved
                          /\ req[k].pc \in {"work", "hash", "write"} => req[k].claims.email # e
<1>1. \A k \in Handlers : req[k] \in Request
  BY DEF TypeOK
<1>2. \A k \in Handlers : [req[k] EXCEPT !.moved = TRUE] \in Request
  BY <1>1 DEF Request
<1>3. req' \in [Handlers -> Request]
  BY <1>1, <1>2, IdleType DEF Changed
<1>4. ASSUME NEW k \in Handlers
      PROVE  \/ req'[k].pc = "idle"
             \/ /\ req'[k].pc = req[k].pc /\ req'[k].claims = req[k].claims
                /\ req'[k].work = req[k].work
                /\ \/ req'[k].moved /\ req[k].claims.email = e
                   \/ /\ req'[k].moved = req[k].moved
                      /\ req[k].pc \in {"work", "hash", "write"} => req[k].claims.email # e
  <2>1. CASE k = h
    BY <2>1, IdleType DEF Changed
  <2>2. CASE k # h /\ req[k].pc \in {"work", "hash", "write"} /\ req[k].claims.email = e
    <3>1. req'[k] = [req[k] EXCEPT !.moved = TRUE]
      BY <2>2 DEF Changed
    <3>2. QED
      BY <1>1, <2>2, <3>1 DEF Request
  <2>3. CASE k # h /\ ~(req[k].pc \in {"work", "hash", "write"} /\ req[k].claims.email = e)
    BY <2>3 DEF Changed
  <2>4. QED
    BY <2>1, <2>2, <2>3
<1>5. QED
  BY <1>3, <1>4
-----------------------------------------------------------------------------
(* What a step preserves *)

Sound == LivesCounted /\ VersionTells /\ \A h \in Handlers : RequestInv(req[h])

\* While no account changes, each request must be in order by itself.
LEMMA SameAccounts ==
    ASSUME TypeOK, Sound, users' = users, lives' = lives,
           \A c \in sessions' : Tells(c),
           \A k \in Handlers :
              \/ req'[k] = req[k]
              \/ /\ req'[k].pc \in HeldPcs => Tells(req'[k].claims)
                 /\ RequestInv(req'[k])
    PROVE  Sound'
<1>1. LivesCounted'
  BY DEF Sound, LivesCounted
<1>2. \A k \in Handlers : req[k].pc \in HeldPcs => Tells(req[k].claims)
  BY TellsAll DEF Sound
<1>3. \A k \in Handlers : req'[k].pc \in HeldPcs => Tells(req'[k].claims)
  BY <1>2
<1>4. /\ \A c \in sessions' : Tells(c)'
      /\ \A k \in Handlers : req'[k].pc \in HeldPcs => Tells(req[k].claims)'
  BY <1>3 DEF Tells
<1>5. VersionTells'
  BY <1>4 DEF VersionTells, Held, HeldPcs, Tells
<1>6. \A k \in Handlers : RequestInv(req'[k])
  BY DEF Sound
<1>7. \A k \in Handlers : RequestInv(req[k])'
  BY <1>6 DEF RequestInv
<1>8. QED
  BY <1>1, <1>5, <1>7 DEF Sound

\* Where account e changes, its version or its life rises, so that no session of
\* it is up to date any more; and its requests know.
LEMMA AccountChanged ==
    ASSUME TypeOK, Sound, NEW e \in Emails,
           sessions' = sessions,
           DOMAIN users' \subseteq Emails, users' \in [DOMAIN users' -> User],
           lives' \in [Emails -> Nat], lives[e] <= lives'[e],
           \A x \in Emails \ {e} :
              /\ lives'[x] = lives[x]
              /\ x \in DOMAIN users' <=> x \in DOMAIN users
              /\ x \in DOMAIN users => users'[x] = users[x],
           e \in DOMAIN users' =>
              /\ users'[e].life <= lives'[e]
              /\ \/ users'[e].life > lives[e]
                 \/ /\ e \in DOMAIN users /\ users'[e].life = users[e].life
                    /\ users'[e].version > users[e].version,
           \A k \in Handlers :
              \/ req'[k].pc = "idle"
              \/ /\ req'[k].pc = req[k].pc /\ req'[k].claims = req[k].claims
                 /\ req'[k].work = req[k].work
                 /\ \/ req'[k].moved /\ req[k].claims.email = e
                    \/ /\ req'[k].moved = req[k].moved
                       /\ req[k].pc \in {"work", "hash", "write"} => req[k].claims.email # e
    PROVE  Sound'
<1> USE DEF HeldPcs
<1>1. LivesCounted'
  BY DEF Sound, LivesCounted, TypeOK
<1>2. /\ \A c \in sessions : c \in Claims /\ Tells(c)
      /\ \A k \in Handlers : /\ req[k].claims \in Claims
                             /\ req[k].pc \in HeldPcs => Tells(req[k].claims)
  BY TellsAll DEF Sound, TypeOK, Request
<1>3. ASSUME NEW c \in Claims, Tells(c)
      PROVE  TellsNext(c)
  <2>1. c.email \in Emails /\ c.life \in Nat /\ c.version \in Nat
    BY DEF Claims
  <2>2. CASE c.email # e
    BY <1>3, <2>1, <2>2 DEF Tells, TellsNext
  <2>3. CASE c.email = e
    <3>1. c.life <= lives[e] /\ lives[e] \in Nat /\ lives'[e] \in Nat
      BY <1>3, <2>3 DEF Tells, TypeOK
    <3>2. c.life <= lives'[e]
      BY <2>1, <3>1
    <3>3. ASSUME e \in DOMAIN users', users'[e].life = c.life
          PROVE  c.version < users'[e].version
      <4>1. users'[e].life \in Nat /\ users'[e].version \in Nat
        BY <3>3 DEF User
      <4>2. e \in DOMAIN users /\ users[e].life = c.life /\ users'[e].version > users[e].version
        BY <2>1, <3>1, <3>3, <4>1
      <4>3. users[e].version \in Nat /\ c.version <= users[e].version
        BY <1>3, <2>3, <4>2 DEF Tells, TypeOK, User
      <4>4. QED
        BY <2>1, <4>1, <4>2, <4>3
    <3>4. e \in DOMAIN users' => users'[e].version \in Nat
      BY DEF User
    <3>5. QED
      BY <2>1, <2>3, <3>2, <3>3, <3>4 DEF TellsNext
  <2>4. QED
    BY <2>2, <2>3
<1>4. /\ \A c \in sessions' : TellsNext(c)
      /\ \A k \in Handlers : req'[k].pc \in HeldPcs => TellsNext(req'[k].claims)
  <2>1. \A c \in sessions' : TellsNext(c)
    BY <1>2, <1>3
  <2>2. ASSUME NEW k \in Handlers, req'[k].pc \in HeldPcs
        PROVE  TellsNext(req'[k].claims)
    <3>1. req'[k].claims = req[k].claims /\ req[k].pc \in HeldPcs
      BY <2>2
    <3>2. req[k].claims \in Claims /\ Tells(req[k].claims)
      BY <1>2, <3>1, Zenon
    <3>3. TellsNext(req[k].claims)
      BY <1>3, <3>2 DEF Tells, TellsNext
    <3>4. QED
      BY <3>1, <3>3 DEF TellsNext
  <2>3. QED
    BY <2>1, <2>2
<1>5. VersionTells'
  BY <1>4 DEF VersionTells, Held, TellsNext
<1>6. ASSUME NEW k \in Handlers
      PROVE  RequestInv(req[k])'
  <2>1. CASE req'[k].pc = "idle" \/ req'[k].moved
    BY <2>1 DEF RequestInv
  <2>2. CASE req'[k].pc \notin {"work", "hash", "write"}
    BY <2>2 DEF RequestInv
  <2>3. CASE /\ req'[k].pc \in {"work", "hash", "write"}
             /\ ~req'[k].moved
    <3>1. /\ req'[k].pc = req[k].pc /\ req'[k].claims = req[k].claims
          /\ req'[k].work = req[k].work /\ ~req[k].moved
          /\ req[k].claims.email # e
      BY <2>3, Zenon
    <3>2. req[k].claims.email \in Emails
      BY <1>2 DEF Claims
    <3>3. RequestInv(req[k])
      BY DEF Sound
    <3>4. QED
      BY <3>1, <3>2, <3>3 DEF RequestInv
  <2>4. QED
    BY <2>1, <2>2, <2>3
<1>7. QED
  BY <1>1, <1>5, <1>6 DEF Sound
-----------------------------------------------------------------------------
LEMMA InitIInv == Init => IInv
<1> SUFFICES ASSUME Init PROVE IInv
  OBVIOUS
<1>1. PICK pin \in Pins : users = [e \in {First} |-> [pin |-> pin, role |-> "ADMIN",
                                       version |-> 0, life |-> 1, mustChange |-> TRUE]]
  BY DEF Init
<1>2. First \in Emails /\ "ADMIN" \in Roles
  BY SessionsAssumption DEF SessionsAssumption
<1>3. DOMAIN users = {First} /\ users[First].life = 1
  BY <1>1
<1>4. TypeOK
  BY <1>1, <1>2, IdleType DEF Init, TypeOK, User, Attempt, NoAttempt
<1>5. LivesCounted
  BY <1>2, <1>3 DEF Init, LivesCounted
<1>6. sessions = {} /\ \A h \in Handlers : req[h].pc = "idle"
  BY IdleType DEF Init
<1>7. VersionTells
  BY <1>6, TellsAll DEF HeldPcs
<1>8. \A h \in Handlers : RequestInv(req[h])
  BY <1>6 DEF RequestInv
<1>9. QED
  BY <1>4, <1>5, <1>7, <1>8 DEF IInv

\* What the invariant says of the sessions that exist.
LEMMA TellsHeld ==
    ASSUME IInv
    PROVE  /\ \A c \in sessions : Tells(c)
           /\ \A h \in Handlers : req[h].pc \in HeldPcs => Tells(req[h].claims)
           /\ TypeOK /\ Sound
BY TellsAll DEF IInv, Sound

\* The account a login finds is one its claims tell of.
LEMMA TellsFound ==
    ASSUME IInv, NEW e \in DOMAIN users, NEW c \in Claims, c.email = e,
           c.role = users[e].role, c.version = users[e].version,
           c.life = users[e].life, c.pin = users[e].pin
    PROVE  Tells(c)
<1>1. users[e].version \in Nat
  BY DEF IInv, TypeOK, User
<1>2. QED
  BY <1>1 DEF IInv, LivesCounted, Tells

\* The invariant after a step that changes no account.
LEMMA QuietIInv ==
    ASSUME IInv, users' = users, lives' = lives,
           attempts' \in [Emails -> Attempt], tries' \in [Emails -> Nat],
           sessions' \subseteq Claims, \A c \in sessions' : Tells(c),
           req' \in [Handlers -> Request],
           \A k \in Handlers :
              \/ req'[k] = req[k]
              \/ /\ req'[k].pc \in HeldPcs => Tells(req'[k].claims)
                 /\ RequestInv(req'[k])
    PROVE  IInv'
<1>1. Sound'
  BY SameAccounts DEF IInv, Sound
<1>2. TypeOK'
  BY DEF IInv, TypeOK
<1>3. QED
  BY <1>1, <1>2 DEF IInv, Sound

\* A request that is answered has nothing to keep.
LEMMA DoneReq ==
    ASSUME NEW r \in Request, r.pc \in {"idle", "lock", "user", "fail"}
    PROVE  r.pc \notin HeldPcs /\ RequestInv(r)
BY DEF HeldPcs, RequestInv
-----------------------------------------------------------------------------
(* Logins *)

LEMMA LoginIInv ==
    ASSUME IInv, NEW h \in Handlers,
           ReceiveLogin(h) \/ CheckLock(h) \/ ReadUser(h) \/ RecordFailure(h)
              \/ ClearAttempts(h) \/ IssueToken(h)
    PROVE  IInv'
<1>1. TypeOK /\ req[h] \in Request /\ req[h].claims \in Claims
  BY DEF IInv, TypeOK, Request
<1>2. users' = users /\ lives' = lives
  BY DEF ReceiveLogin, CheckLock, ReadUser, RecordFailure, ClearAttempts, IssueToken
<1>3. sessions \subseteq Claims /\ \A c \in sessions : Tells(c)
  BY TellsHeld DEF TypeOK
<1>4. req[h].pc \in HeldPcs => Tells(req[h].claims)
  BY TellsHeld
<1>5. attempts \in [Emails -> Attempt] /\ tries \in [Emails -> Nat]
  BY <1>1 DEF TypeOK
<1>6. ASSUME Answer(h)
      PROVE  /\ req' \in [Handlers -> Request]
             /\ \A k \in Handlers : \/ req'[k] = req[k]
                                    \/ /\ req'[k].pc \in HeldPcs => Tells(req'[k].claims)
                                       /\ RequestInv(req'[k])
  BY <1>1, <1>6, AnswerReq, DoneReq
<1>7. CASE ReceiveLogin(h)
  <2>1. PICK e \in Emails, pin \in Pins :
           req' = [req EXCEPT ![h].pc = "lock",
                              ![h].claims = [NoClaims EXCEPT !.email = e, !.pin = pin]]
    BY <1>7 DEF ReceiveLogin
  <2>2. [NoClaims EXCEPT !.email = e, !.pin = pin] \in Claims
    BY IdleType DEF Claims
  <2> DEFINE r == [req[h] EXCEPT !.pc = "lock",
                                 !.claims = [NoClaims EXCEPT !.email = e, !.pin = pin]]
  <2>3. r \in Request /\ r.pc = "lock"
    BY <1>1, <2>2 DEF Request
  <2>4. req' = [req EXCEPT ![h] = r]
    BY <1>1, <2>1, Zenon DEF TypeOK
  <2> HIDE DEF r
  <2>5. /\ req' \in [Handlers -> Request]
        /\ \A k \in Handlers : req'[k] = req[k] \/ req'[k].pc = "lock"
    BY <1>1, <2>3, <2>4 DEF TypeOK
  <2>6. QED
    BY <1>2, <1>3, <1>5, <1>7, <2>5, DoneReq, QuietIInv DEF ReceiveLogin
<1>8. CASE CheckLock(h)
  <2>1. CASE Answer(h)
    BY <1>2, <1>3, <1>5, <1>6, <1>8, <2>1, QuietIInv DEF CheckLock
  <2>2. CASE Goto(h, "user")
    <3>1. /\ req' \in [Handlers -> Request]
          /\ \A k \in Handlers : req'[k] = req[k] \/ req'[k].pc = "user"
      BY <1>1, <2>2, GotoReq
    <3>2. QED
      BY <1>2, <1>3, <1>5, <1>8, <3>1, DoneReq, QuietIInv DEF CheckLock
  <2>3. QED
    BY <1>8, <2>1, <2>2 DEF CheckLock
<1>9. CASE ReadUser(h)
  <2> DEFINE c == req[h].claims
             u == users[c.email]
             found == [c EXCEPT !.role = u.role, !.version = u.version, !.life = u.life]
             r == [req[h] EXCEPT !.pc = "clear", !.claims = found]
  <2>1. CASE /\ c.email \in DOMAIN users /\ u.pin = c.pin
             /\ req' = [req EXCEPT ![h].pc = "clear", ![h].claims = found]
    <3>1. u \in User
      BY <1>1, <2>1 DEF TypeOK
    <3>2. /\ found \in Claims /\ found.email = c.email /\ found.pin = c.pin
          /\ found.role = u.role /\ found.version = u.version /\ found.life = u.life
      BY <1>1, <3>1 DEF Claims, User
    <3>3. Tells(found)
      BY <2>1, <3>2, TellsFound
    <3> HIDE DEF found
    <3>4. r \in Request /\ r.pc = "clear" /\ r.claims = found
      BY <1>1, <3>2 DEF Request
    <3>5. req' = [req EXCEPT ![h].pc = "clear", ![h].claims = found]
      BY <2>1 DEF found
    <3>6. req' = [req EXCEPT ![h] = r]
      BY <1>1, <3>5, Zenon DEF TypeOK
    <3> HIDE DEF r
    <3>7. /\ req' \in [Handlers -> Request]
          /\ \A k \in Handlers :
                req'[k] = req[k] \/ (req'[k].pc = "clear" /\ req'[k].claims = found)
      BY <1>1, <3>4, <3>6 DEF TypeOK
    <3>8. \A k \in Handlers : \/ req'[k] = req[k]
                              \/ /\ req'[k].pc \in HeldPcs => Tells(req'[k].claims)
                                 /\ RequestInv(req'[k])
      BY <3>3, <3>7 DEF RequestInv, Tells
    <3>9. QED
      BY <1>2, <1>3, <1>5, <1>9, <3>7, <3>8, QuietIInv DEF ReadUser
  <2>2. CASE Goto(h, "fail")
    <3>2. /\ req' \in [Handlers -> Request]
          /\ \A k \in Handlers : req'[k] = req[k] \/ req'[k].pc = "fail"
      BY <1>1, <2>2, GotoReq
    <3>3. QED
      BY <1>2, <1>3, <1>5, <1>9, <3>2, DoneReq, QuietIInv DEF ReadUser
  <2>3. QED
    BY <1>9, <2>1, <2>2 DEF ReadUser
<1>10. CASE RecordFailure(h)
  <2>1. req[h].claims.email \in Emails
    BY <1>1 DEF Claims
  <2>2. attempts' \in [Emails -> Attempt] /\ tries' \in [Emails -> Nat]
    BY <1>5, <1>10, <2>1 DEF RecordFailure, Attempt, More, LockedAfter
  <2>3. QED
    BY <1>2, <1>3, <1>6, <1>10, <2>2, QuietIInv DEF RecordFailure
<1>11. CASE ClearAttempts(h)
  <2>1. req[h].claims.email \in Emails /\ Tells(req[h].claims)
    BY <1>1, <1>4, <1>11 DEF Claims, ClearAttempts, HeldPcs
  <2>2. attempts' \in [Emails -> Attempt] /\ tries' \in [Emails -> Nat]
    BY <1>5, <1>11, <2>1 DEF ClearAttempts, Attempt, NoAttempt
  <2>3. /\ req' \in [Handlers -> Request]
        /\ \A k \in Handlers :
              \/ req'[k] = req[k]
              \/ req'[k].pc = "issue" /\ req'[k].claims = req[h].claims
    BY <1>1, <1>11, GotoReq DEF ClearAttempts
  <2>4. \A k \in Handlers : \/ req'[k] = req[k]
                            \/ /\ req'[k].pc \in HeldPcs => Tells(req'[k].claims)
                               /\ RequestInv(req'[k])
    BY <2>1, <2>3 DEF RequestInv, Tells
  <2>5. QED
    BY <1>2, <1>3, <1>11, <2>2, <2>3, <2>4, QuietIInv DEF ClearAttempts
<1>12. CASE IssueToken(h)
  <2>1. Tells(req[h].claims)
    BY <1>4, <1>12 DEF IssueToken, HeldPcs
  <2>2. sessions' \subseteq Claims /\ \A c \in sessions' : Tells(c)
    BY <1>1, <1>3, <1>12, <2>1 DEF IssueToken, Tells
  <2>3. QED
    BY <1>2, <1>5, <1>6, <1>12, <2>2, QuietIInv DEF IssueToken
<1>13. QED
  BY <1>7, <1>8, <1>9, <1>10, <1>11, <1>12
-----------------------------------------------------------------------------
(* Requests with a session *)

LEMMA WorkIInv ==
    ASSUME IInv, NEW h \in Handlers,
           ReceiveWork(h) \/ Middleware(h) \/ Work(h) \/ ReadHash(h) \/ Abort(h)
    PROVE  IInv'
<1>1. TypeOK /\ req[h] \in Request /\ req[h].claims \in Claims
  BY DEF IInv, TypeOK, Request
<1>2. users' = users /\ lives' = lives
  BY DEF ReceiveWork, Middleware, Work, ReadHash, Abort
<1>3. sessions \subseteq Claims /\ \A c \in sessions : Tells(c)
  BY TellsHeld DEF TypeOK
<1>4. req[h].pc \in HeldPcs => Tells(req[h].claims)
  BY TellsHeld
<1>5. attempts' \in [Emails -> Attempt] /\ tries' \in [Emails -> Nat]
  BY <1>1 DEF TypeOK, ReceiveWork, Middleware, Work, ReadHash, Abort
<1>6. ASSUME Answer(h)
      PROVE  /\ req' \in [Handlers -> Request]
             /\ \A k \in Handlers : \/ req'[k] = req[k]
                                    \/ /\ req'[k].pc \in HeldPcs => Tells(req'[k].claims)
                                       /\ RequestInv(req'[k])
  BY <1>1, <1>6, AnswerReq, DoneReq
<1>7. CASE ReceiveWork(h)
  <2>1. PICK c \in sessions, work \in Works :
           req' = [req EXCEPT ![h] = [pc |-> "session", claims |-> c, work |-> work,
                                      moved |-> FALSE]]
    BY <1>7 DEF ReceiveWork
  <2>2. c \in Claims /\ work \in AllWorks /\ Tells(c)
    BY <1>3, SessionsAssumption DEF SessionsAssumption
  <2> DEFINE r == [pc |-> "session", claims |-> c, work |-> work, moved |-> FALSE]
  <2>3. r \in Request /\ r.pc = "session" /\ r.claims = c
    BY <2>2 DEF Request
  <2> HIDE DEF r
  <2>4. /\ req' \in [Handlers -> Request]
        /\ \A k \in Handlers :
              req'[k] = req[k] \/ (req'[k].pc = "session" /\ req'[k].claims = c)
    BY <1>1, <2>1, <2>3 DEF TypeOK, r
  <2>5. \A k \in Handlers : \/ req'[k] = req[k]
                            \/ /\ req'[k].pc \in HeldPcs => Tells(req'[k].claims)
                               /\ RequestInv(req'[k])
    BY <2>2, <2>4 DEF RequestInv, Tells
  <2>6. QED
    BY <1>2, <1>3, <1>5, <1>7, <2>4, <2>5, QuietIInv DEF ReceiveWork
<1>8. CASE Middleware(h)
  <2> DEFINE c == req[h].claims
  <2>1. Tells(c)
    BY <1>4, <1>8 DEF Middleware, HeldPcs
  <2>2. sessions' \subseteq Claims /\ \A x \in sessions' : Tells(x)
    BY <1>1, <1>3, <1>8, <2>1 DEF Middleware, Refresh, Tells
  <2>3. CASE Answer(h)
    BY <1>2, <1>5, <1>6, <2>2, <2>3, QuietIInv
  <2>4. CASE /\ Valid(c) /\ Allowed(c.role, req[h].work)
             /\ Goto(h, IF req[h].work = "pin" THEN "hash" ELSE "work")
    <3>1. PICK pc \in {"hash", "work"} : Goto(h, pc)
      BY <2>4
    <3>2. /\ req' \in [Handlers -> Request]
          /\ \A k \in Handlers \ {h} : req'[k] = req[k]
          /\ req'[h].pc \in {"hash", "work"} /\ req'[h].claims = c
          /\ req'[h].work = req[h].work
      BY <1>1, <3>1, GotoReq
    <3>3. RequestInv(req'[h])
      BY <2>4, <3>2 DEF RequestInv, Valid
    <3>4. Tells(req'[h].claims)
      BY <2>1, <3>2 DEF Tells
    <3>5. QED
      BY <1>2, <1>5, <2>2, <3>2, <3>3, <3>4, QuietIInv
  <2>5. QED
    BY <1>8, <2>3, <2>4 DEF Middleware
<1>9. CASE Work(h)
  BY <1>2, <1>3, <1>5, <1>6, <1>9, QuietIInv DEF Work
<1>10. CASE ReadHash(h)
  <2>1. PICK old \in Pins :
           IF req[h].claims.email \in DOMAIN users /\ users[req[h].claims.email].pin = old
           THEN req' = [req EXCEPT ![h].pc = "write", ![h].moved = FALSE,
                                   ![h].claims.pin = old]
           ELSE Answer(h)
    BY <1>10 DEF ReadHash
  <2>2. CASE Answer(h)
    BY <1>2, <1>3, <1>5, <1>6, <1>10, <2>2, QuietIInv DEF ReadHash
  <2>3. CASE /\ req[h].claims.email \in DOMAIN users
             /\ users[req[h].claims.email].pin = old
             /\ req' = [req EXCEPT ![h].pc = "write", ![h].moved = FALSE,
                                   ![h].claims.pin = old]
    <3> DEFINE c == [req[h].claims EXCEPT !.pin = old]
               r == [req[h] EXCEPT !.pc = "write", !.moved = FALSE, !.claims = c]
    <3>1. c \in Claims /\ c.email = req[h].claims.email /\ c.pin = old
      BY <1>1 DEF Claims
    <3> HIDE DEF c
    <3>2. r \in Request /\ r.pc = "write" /\ r.claims = c
      BY <1>1, <3>1 DEF Request
    <3>3. req' = [req EXCEPT ![h] = r]
      BY <1>1, <2>3, Zenon DEF TypeOK, c
    <3> HIDE DEF r
    <3>4. RequestInv(r) /\ r.pc \notin HeldPcs
      BY <2>3, <3>1, <3>2 DEF RequestInv, HeldPcs
    <3>5. /\ req' \in [Handlers -> Request]
          /\ \A k \in Handlers : req'[k] = req[k] \/ req'[k] = r
      BY <1>1, <3>2, <3>3 DEF TypeOK
    <3>6. \A k \in Handlers : \/ req'[k] = req[k]
                              \/ /\ req'[k].pc \in HeldPcs => Tells(req'[k].claims)
                                 /\ RequestInv(req'[k])
      BY <3>4, <3>5
    <3>7. QED
      BY <1>2, <1>3, <1>5, <1>10, <3>5, <3>6, QuietIInv DEF ReadHash
  <2>4. QED
    BY <2>1, <2>2, <2>3
<1>11. CASE Abort(h)
  BY <1>2, <1>3, <1>5, <1>6, <1>11, QuietIInv DEF Abort
<1>12. QED
  BY <1>7, <1>8, <1>9, <1>10, <1>11
-----------------------------------------------------------------------------
(* Changes of accounts *)

\* Put stores one account and leaves the others alone.
LEMMA PutUsers ==
    ASSUME TypeOK, NEW e \in Emails, NEW u \in User, Put(e, u)
    PROVE  /\ DOMAIN users' = (DOMAIN users) \cup {e}
           /\ DOMAIN users' \subseteq Emails /\ users' \in [DOMAIN users' -> User]
           /\ users'[e] = u /\ \A x \in DOMAIN users \ {e} : users'[x] = users[x]
BY DEF TypeOK, Put

\* A stored change raises the version of its account, or opens a new one.
LEMMA PutIInv ==
    ASSUME IInv, NEW h \in Handlers, NEW e \in Emails, NEW u \in User,
           Put(e, u), Changed(h, e),
           UNCHANGED <<sessions, attempts, tries>>,
           \/ /\ e \in DOMAIN users /\ lives' = lives
              /\ u.life = users[e].life /\ u.version = users[e].version + 1
           \/ /\ u.life = lives[e] + 1 /\ lives' = [lives EXCEPT ![e] = @ + 1]
    PROVE  IInv'
<1>1. TypeOK /\ Sound
  BY TellsHeld
<1>2. /\ DOMAIN users' = (DOMAIN users) \cup {e}
      /\ DOMAIN users' \subseteq Emails /\ users' \in [DOMAIN users' -> User]
      /\ users'[e] = u /\ \A x \in DOMAIN users \ {e} : users'[x] = users[x]
  BY <1>1, PutUsers
<1>3. lives[e] \in Nat /\ (e \in DOMAIN users => users[e].version \in Nat /\ users[e].life <= lives[e])
  BY <1>1 DEF TypeOK, User, Sound, LivesCounted
<1>4. /\ lives' \in [Emails -> Nat] /\ lives[e] <= lives'[e]
      /\ \A x \in Emails \ {e} : lives'[x] = lives[x]
      /\ u.life <= lives'[e]
      /\ \/ u.life > lives[e]
         \/ /\ e \in DOMAIN users /\ u.life = users[e].life
            /\ u.version > users[e].version
  BY <1>1, <1>3 DEF TypeOK
<1>5. \A x \in Emails \ {e} :
         /\ lives'[x] = lives[x]
         /\ x \in DOMAIN users' <=> x \in DOMAIN users
         /\ x \in DOMAIN users => users'[x] = users[x]
  BY <1>2, <1>4
<1>6. /\ req' \in [Handlers -> Request]
      /\ \A k \in Handlers :
            \/ req'[k].pc = "idle"
            \/ /\ req'[k].pc = req[k].pc /\ req'[k].claims = req[k].claims
               /\ req'[k].work = req[k].work
               /\ \/ req'[k].moved /\ req[k].claims.email = e
                  \/ /\ req'[k].moved = req[k].moved
                     /\ req[k].pc \in {"work", "hash", "write"} => req[k].claims.email # e
  BY <1>1, ChangedReq
<1>7. Sound'
  BY <1>1, <1>2, <1>4, <1>5, <1>6, AccountChanged
<1>8. TypeOK'
  BY <1>1, <1>2, <1>4, <1>6 DEF TypeOK
<1>9. QED
  BY <1>7, <1>8 DEF IInv, Sound

LEMMA AccountsIInv ==
    ASSUME IInv, NEW h \in Handlers, ChangeAccounts(h) \/ WritePIN(h)
    PROVE  IInv'
<1>1. TypeOK /\ Sound /\ req[h].claims.email \in Emails
  BY TellsHeld DEF TypeOK, Request, Claims
<1>2. \A e \in DOMAIN users : e \in Emails /\ users[e] \in User
  BY <1>1 DEF TypeOK
<1>3. ASSUME NEW e \in Emails, AddUser(h, e), UNCHANGED <<sessions, attempts, tries>>
      PROVE  IInv'
  <2>1. PICK pin \in Pins, role \in Roles : Put(e, NewAccount(e, pin, role))
    BY <1>3, AskedRole DEF AddUser
  <2> DEFINE u == NewAccount(e, pin, role)
  <2>2. u \in User /\ u.life = lives[e] + 1
    BY <1>1, NewAccountType
  <2> HIDE DEF u
  <2>3. QED
    BY <1>3, <2>1, <2>2, PutIInv DEF AddUser, u
<1>4. ASSUME NEW e \in Emails, UpdateUser(h, e), UNCHANGED <<sessions, attempts, tries>>
      PROVE  IInv'
  <2>1. PICK role \in Roles :
           Put(e, [users[e] EXCEPT !.role = role, !.version = NewVersion(users[e])])
    BY <1>4, AskedRole DEF UpdateUser
  <2> DEFINE u == [users[e] EXCEPT !.role = role, !.version = NewVersion(users[e])]
  <2>2. PICK old \in User, version \in Nat : old = users[e] /\ version = old.version + 1
    BY <1>2, <1>4 DEF UpdateUser, User
  <2>3. u = [old EXCEPT !.role = role, !.version = version]
    BY <2>2 DEF NewVersion
  <2> HIDE DEF u
  <2>4. u \in User /\ u.life = old.life /\ u.version = version
    BY <2>3 DEF User
  <2>5. QED
    BY <1>4, <2>1, <2>2, <2>4, PutIInv DEF UpdateUser, u
<1>5. ASSUME NEW e \in Emails, ResetUserPIN(h, e), UNCHANGED <<sessions, attempts, tries>>
      PROVE  IInv'
  <2>1. PICK pin \in Pins :
           Put(e, [users[e] EXCEPT !.pin = pin, !.version = NewVersion(users[e]),
                                   !.mustChange = TRUE])
    BY <1>5 DEF ResetUserPIN
  <2> DEFINE u == [users[e] EXCEPT !.pin = pin, !.version = NewVersion(users[e]),
                                   !.mustChange = TRUE]
  <2>2. PICK old \in User, version \in Nat : old = users[e] /\ version = old.version + 1
    BY <1>2, <1>5 DEF ResetUserPIN, User
  <2>3. u = [old EXCEPT !.pin = pin, !.version = version, !.mustChange = TRUE]
    BY <2>2 DEF NewVersion
  <2> HIDE DEF u
  <2>4. u \in User /\ u.life = old.life /\ u.version = version
    BY <2>3 DEF User
  <2>5. QED
    BY <1>5, <2>1, <2>2, <2>4, PutIInv DEF ResetUserPIN, u
<1>6. ASSUME NEW e \in Emails, DeleteUser(h, e), UNCHANGED <<sessions, attempts, tries>>
      PROVE  IInv'
  <2>1. /\ DOMAIN users' = DOMAIN users \ {e} /\ users' \in [DOMAIN users' -> User]
        /\ \A x \in DOMAIN users' : users'[x] = users[x]
        /\ lives' = lives
    BY <1>1, <1>6 DEF DeleteUser, TypeOK
  <2>2. /\ req' \in [Handlers -> Request]
        /\ \A k \in Handlers :
              \/ req'[k].pc = "idle"
              \/ /\ req'[k].pc = req[k].pc /\ req'[k].claims = req[k].claims
                 /\ req'[k].work = req[k].work
                 /\ \/ req'[k].moved /\ req[k].claims.email = e
                    \/ /\ req'[k].moved = req[k].moved
                       /\ req[k].pc \in {"work", "hash", "write"} => req[k].claims.email # e
    BY <1>1, <1>6, ChangedReq DEF DeleteUser
  <2>3. lives \in [Emails -> Nat] /\ lives[e] <= lives'[e] /\ DOMAIN users' \subseteq Emails
    BY <1>1, <2>1 DEF TypeOK
  <2>4. \A x \in Emails \ {e} :
           /\ lives'[x] = lives[x]
           /\ x \in DOMAIN users' <=> x \in DOMAIN users
           /\ x \in DOMAIN users => users'[x] = users[x]
    BY <2>1
  <2>5. Sound'
    BY <1>1, <1>6, <2>1, <2>2, <2>3, <2>4, AccountChanged
  <2>6. TypeOK'
    BY <1>1, <1>6, <2>1, <2>2, <2>3 DEF TypeOK
  <2>7. QED
    BY <2>5, <2>6 DEF IInv, Sound
<1>7. CASE ChangeAccounts(h)
  BY <1>3, <1>4, <1>5, <1>6, <1>7 DEF ChangeAccounts
<1>8. CASE WritePIN(h)
  <2> DEFINE e == req[h].claims.email
  <2>1. CASE e \in DOMAIN users
    <3>1. PICK pin \in Pins \cup {NoPin} :
             Put(e, [users[e] EXCEPT !.pin = pin, !.version = NewVersion(users[e]),
                                     !.mustChange = FALSE])
      BY <1>8, <2>1 DEF WritePIN
    <3> DEFINE u == [users[e] EXCEPT !.pin = pin, !.version = NewVersion(users[e]),
                                     !.mustChange = FALSE]
    <3>2. PICK old \in User, version \in Nat : old = users[e] /\ version = old.version + 1
      BY <1>2, <2>1 DEF User
    <3>3. u = [old EXCEPT !.pin = pin, !.version = version, !.mustChange = FALSE]
      BY <3>2 DEF NewVersion
    <3> HIDE DEF u
    <3>4. u \in User /\ u.life = old.life /\ u.version = version
      BY <3>3 DEF User
    <3>5. QED
      BY <1>1, <1>8, <2>1, <3>1, <3>2, <3>4, PutIInv DEF WritePIN, u
  <2>2. CASE e \notin DOMAIN users
    <3>1. Answer(h) /\ UNCHANGED <<users, sessions, attempts, lives, tries>>
      BY <1>8, <2>2 DEF WritePIN
    <3>2. /\ req' \in [Handlers -> Request]
          /\ \A k \in Handlers : req'[k] = req[k] \/ req'[k].pc = "idle"
      BY <1>1, <3>1, AnswerReq
    <3>3. \A c \in sessions : Tells(c)
      BY TellsHeld
    <3>4. QED
      BY <1>1, <3>1, <3>2, <3>3, DoneReq, QuietIInv DEF TypeOK
  <2>3. QED
    BY <2>1, <2>2
<1>9. QED
  BY <1>7, <1>8
-----------------------------------------------------------------------------
(* Clocks, clients and restarts *)

LEMMA QuietEnvIInv ==
    ASSUME IInv, \/ \E e \in Emails : LockEnds(e)
                 \/ \E c \in sessions : SessionEnds(c)
    PROVE  IInv'
<1>1. /\ users' = users /\ lives' = lives /\ req' = req
      /\ sessions' \subseteq sessions
  BY DEF LockEnds, SessionEnds
<1>2. attempts' \in [Emails -> Attempt] /\ tries' \in [Emails -> Nat]
  <2>1. attempts \in [Emails -> Attempt] /\ tries \in [Emails -> Nat]
    BY DEF IInv, TypeOK
  <2>2. ASSUME NEW e \in Emails, LockEnds(e)
        PROVE  attempts' \in [Emails -> Attempt] /\ tries' \in [Emails -> Nat]
    <3>1. attempts' = [attempts EXCEPT ![e] = [attempts[e] EXCEPT !.locked = FALSE]]
      BY <2>1, <2>2, Zenon DEF LockEnds
    <3>2. [attempts[e] EXCEPT !.locked = FALSE] \in Attempt
      BY <2>1 DEF Attempt
    <3>3. QED
      BY <2>1, <2>2, <3>1, <3>2 DEF LockEnds
  <2>3. QED
    BY <2>1, <2>2 DEF SessionEnds
<1>3. sessions' \subseteq Claims /\ req' \in [Handlers -> Request]
  BY <1>1 DEF IInv, TypeOK
<1>4. \A c \in sessions' : Tells(c)
  BY <1>1, TellsHeld
<1>5. QED
  BY <1>1, <1>2, <1>3, <1>4, QuietIInv

LEMMA RestartIInv ==
    ASSUME IInv, Restart
    PROVE  IInv'
<1>1. TypeOK /\ Sound
  BY TellsHeld
<1>2. /\ attempts' \in [Emails -> Attempt] /\ tries' \in [Emails -> Nat]
      /\ req' \in [Handlers -> Request] /\ sessions' = sessions
      /\ \A k \in Handlers : req'[k].pc = "idle"
  BY IdleType DEF Restart, NoAttempt, Attempt
<1>3. CASE users' = users /\ lives' = lives
  <2>1. sessions' \subseteq Claims /\ \A c \in sessions' : Tells(c)
    BY <1>2, TellsHeld DEF TypeOK
  <2>2. QED
    BY <1>2, <1>3, <2>1, DoneReq, QuietIInv
<1>4. CASE /\ First \notin DOMAIN users /\ lives' = [lives EXCEPT ![First] = @ + 1]
           /\ \E pin \in Pins : Put(First, NewAccount(First, pin, "ADMIN"))
  <2>1. PICK pin \in Pins : Put(First, NewAccount(First, pin, "ADMIN"))
    BY <1>4
  <2> DEFINE u == NewAccount(First, pin, "ADMIN")
  <2>2. First \in Emails /\ u \in User /\ u.life = lives[First] + 1
    BY <1>1, NewAccountType, SessionsAssumption DEF SessionsAssumption
  <2> HIDE DEF u
  <2>3. Put(First, u)
    BY <2>1 DEF u
  <2>4. /\ DOMAIN users' = (DOMAIN users) \cup {First} /\ DOMAIN users' \subseteq Emails
        /\ users' \in [DOMAIN users' -> User] /\ users'[First] = u
        /\ \A x \in DOMAIN users \ {First} : users'[x] = users[x]
    BY <1>1, <1>4, <2>2, <2>3, PutUsers
  <2>5. /\ lives' \in [Emails -> Nat] /\ lives[First] <= lives'[First]
        /\ \A x \in Emails \ {First} : lives'[x] = lives[x]
        /\ users'[First].life <= lives'[First] /\ users'[First].life > lives[First]
    BY <1>1, <1>4, <2>2, <2>4 DEF TypeOK
  <2>6. \A x \in Emails \ {First} :
           /\ lives'[x] = lives[x]
           /\ x \in DOMAIN users' <=> x \in DOMAIN users
           /\ x \in DOMAIN users => users'[x] = users[x]
    BY <1>4, <2>4, <2>5
  <2>7. Sound'
    BY <1>1, <1>2, <2>2, <2>4, <2>5, <2>6, AccountChanged
  <2>8. TypeOK'
    BY <1>1, <1>2, <2>2, <2>4, <2>5 DEF TypeOK
  <2>9. QED
    BY <2>7, <2>8 DEF IInv, Sound
<1>5. QED
  BY <1>3, <1>4 DEF Restart
-----------------------------------------------------------------------------
LEMMA NextIInv == IInv /\ [Next]_vars => IInv'
<1> SUFFICES ASSUME IInv, [Next]_vars PROVE IInv'
  OBVIOUS
<1>1. CASE \E h \in Handlers : ReceiveLogin(h) \/ ReceiveWork(h) \/ Serve(h) \/ Abort(h)
  BY <1>1, LoginIInv, WorkIInv, AccountsIInv DEF Serve
<1>2. CASE (\E e \in Emails : LockEnds(e)) \/ (\E c \in sessions : SessionEnds(c))
  BY <1>2, QuietEnvIInv
<1>3. CASE Restart
  BY <1>3, RestartIInv
<1>4. CASE UNCHANGED vars
  <2>1. users' = users /\ sessions' = sessions /\ attempts' = attempts /\ req' = req
        /\ lives' = lives /\ tries' = tries
    BY <1>4 DEF vars
  <2>2. attempts \in [Emails -> Attempt] /\ tries \in [Emails -> Nat]
        /\ sessions \subseteq Claims /\ req \in [Handlers -> Request]
    BY DEF IInv, TypeOK
  <2>3. \A c \in sessions : Tells(c)
    BY TellsHeld
  <2>4. QED
    BY <2>1, <2>2, <2>3, QuietIInv
<1>5. QED
  BY <1>1, <1>2, <1>3, <1>4 DEF Next

\* The inductive invariant: no session is ahead of its account, one that is level
\* with it knows its PIN and role, and a request that has passed Middleware or the
\* check of a PIN is right about its account until the account changes.
THEOREM Invariant == Spec => []IInv
<1>1. Init => IInv
  BY InitIInv
<1>2. IInv /\ [Next]_vars => IInv'
  BY NextIInv
<1>3. QED
  BY <1>1, <1>2, PTL DEF Spec

\* Every variable keeps its shape.
THEOREM TypeCorrect == Spec => []TypeOK
<1>1. IInv => TypeOK
  BY DEF IInv
<1>2. QED
  BY <1>1, Invariant, PTL

\* Middleware's one comparison of versions is enough to know PIN and role.
THEOREM VersionsTell == Spec => []VersionTells
<1>1. IInv => VersionTells
  BY DEF IInv
<1>2. QED
  BY <1>1, Invariant, PTL

\* What the three checks let through is exactly what the role has a right to.
LEMMA AllowedIsRight ==
    \A role \in Roles, work \in AllWorks : Allowed(role, work) <=> work \in Rights[role]
<1> SUFFICES ASSUME NEW role \in Roles, NEW work \in AllWorks
             PROVE  Allowed(role, work) <=> work \in Rights[role]
  OBVIOUS
<1>1. role \in ValidRoles
  BY SessionsAssumption DEF SessionsAssumption
<1>2. CASE role = "VIEWER"
  BY <1>2 DEF Allowed, Blocked, RouteRoles, FieldForbidden, Rights, AllWorks, ValidRoles
<1>3. CASE role = "ASSISTANT"
  BY <1>3 DEF Allowed, Blocked, RouteRoles, FieldForbidden, Rights, AllWorks, ValidRoles
<1>4. CASE role = "EDITOR"
  BY <1>4 DEF Allowed, Blocked, RouteRoles, FieldForbidden, Rights, AllWorks, ValidRoles
<1>5. CASE role = "ADMIN"
  BY <1>5 DEF Allowed, Blocked, RouteRoles, FieldForbidden, Rights, AllWorks, ValidRoles
<1>6. QED
  BY <1>1, <1>2, <1>3, <1>4, <1>5 DEF ValidRoles

\* A handler works with the role and for the PIN its account has, unless the
\* account changed after Middleware read it.
THEOREM WorksRightly == Spec => []WorksForItsAccount
<1>1. ASSUME IInv, NEW h \in Handlers, req[h].pc \in {"work", "hash"}, ~req[h].moved
      PROVE  LET c == req[h].claims
             IN  /\ c.email \in DOMAIN users
                 /\ users[c.email].role = c.role
                 /\ req[h].work \in Rights[users[c.email].role]
                 /\ users[c.email].life = c.life => users[c.email].pin = c.pin
  <2>1. RequestInv(req[h])
    BY <1>1 DEF IInv
  <2>2. Tells(req[h].claims)
    BY <1>1, TellsHeld DEF HeldPcs
  <2>3. req[h].work \in AllWorks /\ req[h].claims.role \in Roles
    BY <1>1 DEF IInv, TypeOK, Request, Claims
  <2>4. Allowed(req[h].claims.role, req[h].work)
    BY <1>1, <2>1 DEF RequestInv
  <2>5. req[h].work \in Rights[req[h].claims.role]
    BY <2>3, <2>4, AllowedIsRight
  <2>6. QED
    BY <1>1, <2>1, <2>2, <2>5 DEF RequestInv, Tells
<1>2. IInv => WorksForItsAccount
  BY <1>1 DEF WorksForItsAccount
<1>3. QED
  BY <1>2, Invariant, PTL

\* ChangePIN replaces the PIN it checked, unless the account changed in between.
THEOREM ReplacesRightly == Spec => []ReplacesPINItChecked
<1>1. IInv => ReplacesPINItChecked
  BY DEF IInv, RequestInv, ReplacesPINItChecked
<1>2. QED
  BY <1>1, Invariant, PTL
-----------------------------------------------------------------------------
(* Failed logins *)

AskingPcs == {"user", "fail"}

\* The logins in flight are counted, and fewer are fewer.
LEMMA Fewer ==
    ASSUME NEW S \in SUBSET Handlers, NEW T \in SUBSET S
    PROVE  /\ Cardinality(S) \in Nat /\ Cardinality(T) \in Nat
           /\ Cardinality(T) <= Cardinality(S)
           /\ \A h \in S \ T : Cardinality(T) <= Cardinality(S) - 1
<1>1. IsFiniteSet(S) /\ IsFiniteSet(T)
  BY HandlersFinite, FS_Subset
<1>2. Cardinality(S) \in Nat /\ Cardinality(T) \in Nat /\ Cardinality(T) <= Cardinality(S)
  BY <1>1, FS_CardinalityType, FS_Subset
<1>3. S # T => Cardinality(S) # Cardinality(T)
  BY <1>1, FS_Subset
<1>4. QED
  BY <1>2, <1>3

\* A step that records nothing and lets only logins to free addresses through.
LEMMA QuietFailures ==
    ASSUME FailuresInv, attempts' = attempts, tries' = tries, TypeOK,
           \A k \in Handlers : req'[k].pc \in AskingPcs =>
              \/ req[k].pc \in AskingPcs /\ req'[k].claims.email = req[k].claims.email
              \/ ~attempts[req'[k].claims.email].locked
    PROVE  FailuresInv'
<1>1. ASSUME NEW e \in Emails, attempts[e].locked
      PROVE  tries[e] + Cardinality(Comparing(e)') <= 2 + Cardinality(Handlers)
  <2>1. Comparing(e) \in SUBSET Handlers /\ Comparing(e)' \in SUBSET Comparing(e)
    BY <1>1 DEF Comparing, AskingPcs
  <2>2. /\ Cardinality(Comparing(e)) \in Nat /\ Cardinality(Comparing(e)') \in Nat
        /\ Cardinality(Comparing(e)') <= Cardinality(Comparing(e))
        /\ Cardinality(Handlers) \in Nat
    BY <2>1, Fewer
  <2>3. tries[e] \in Nat /\ tries[e] + Cardinality(Comparing(e)) <= 2 + Cardinality(Handlers)
    BY <1>1 DEF FailuresInv, TypeOK
  <2>4. QED
    BY <2>2, <2>3
<1>2. QED
  BY <1>1 DEF FailuresInv

\* A step after which an address is free, and its failures are counted from none,
\* while nothing changes for the others.
LEMMA FreedFailures ==
    ASSUME FailuresInv, TypeOK, NEW e \in Emails,
           attempts' \in [Emails -> Attempt], tries'[e] = 0, ~attempts'[e].locked,
           \A x \in Emails \ {e} : attempts'[x] = attempts[x] /\ tries'[x] = tries[x],
           \A k \in Handlers : req'[k].pc \in AskingPcs => req'[k] = req[k]
    PROVE  FailuresInv'
<1>1. attempts'[e].count \in Nat
  BY DEF Attempt
<1>2. ASSUME NEW x \in Emails \ {e}
      PROVE  /\ ~attempts'[x].locked =>
                   /\ tries'[x] <= attempts'[x].count /\ tries'[x] <= 2
                   /\ LockedAfter(attempts'[x].count) => tries'[x] = 0
             /\ attempts'[x].locked =>
                   tries'[x] + Cardinality(Comparing(x)') <= 2 + Cardinality(Handlers)
  <2>1. Comparing(x) \in SUBSET Handlers /\ Comparing(x)' \in SUBSET Comparing(x)
    BY DEF Comparing, AskingPcs
  <2>2. /\ Cardinality(Comparing(x)) \in Nat /\ Cardinality(Comparing(x)') \in Nat
        /\ Cardinality(Comparing(x)') <= Cardinality(Comparing(x))
        /\ Cardinality(Handlers) \in Nat
    BY <2>1, Fewer
  <2>3. tries[x] \in Nat
    BY DEF TypeOK
  <2>4. QED
    BY <2>2, <2>3 DEF FailuresInv
<1>3. QED
  BY <1>1, <1>2 DEF FailuresInv

\* A recorded failure: the third since the address was free locks it, and a locked
\* address pays for each failure with a login that was past the check.
LEMMA RecordFailures ==
    ASSUME FailuresInv, TypeOK, NEW h \in Handlers, RecordFailure(h)
    PROVE  FailuresInv'
<1>e. PICK e \in Emails : e = req[h].claims.email
  BY DEF TypeOK, Request, Claims
<1>1. tries[e] \in Nat /\ attempts[e].count \in 0..3
  BY DEF TypeOK, Attempt
<1>n. PICK n \in Nat : n = More(attempts[e].count)
  BY <1>1 DEF More
<1>2. n >= attempts[e].count /\ (~LockedAfter(n) => n = attempts[e].count + 1)
  BY <1>1, <1>n DEF More, LockedAfter
<1>3. /\ attempts'[e].count = n
      /\ attempts'[e].locked = (attempts[e].locked \/ LockedAfter(n))
      /\ tries'[e] = tries[e] + 1
      /\ \A x \in Emails \ {e} : attempts'[x] = attempts[x] /\ tries'[x] = tries[x]
  BY <1>e, <1>n DEF RecordFailure, TypeOK
<1>4. \A k \in Handlers : req'[k].pc \in AskingPcs => k # h /\ req'[k] = req[k]
  BY IdleType DEF RecordFailure, Answer, TypeOK, AskingPcs
<1>5. h \in Comparing(e) /\ h \notin Comparing(e)'
  BY <1>e, <1>4 DEF RecordFailure, Comparing, AskingPcs
<1>6. ASSUME NEW x \in Emails
      PROVE  /\ Cardinality(Comparing(x)) \in Nat /\ Cardinality(Comparing(x)') \in Nat
             /\ Cardinality(Comparing(x)') <= Cardinality(Comparing(x))
             /\ Cardinality(Comparing(x)) <= Cardinality(Handlers)
             /\ Cardinality(Handlers) \in Nat
             /\ x = e => Cardinality(Comparing(x)') <= Cardinality(Comparing(x)) - 1
  <2>1. Comparing(x) \in SUBSET Handlers /\ Comparing(x)' \in SUBSET Comparing(x)
    BY <1>4 DEF Comparing, AskingPcs
  <2>2. x = e => h \in Comparing(x) \ Comparing(x)'
    BY <1>5
  <2>3. QED
    BY <2>1, <2>2, Fewer
<1>7. ASSUME NEW x \in Emails \ {e}
      PROVE  /\ ~attempts'[x].locked =>
                   /\ tries'[x] <= attempts'[x].count /\ tries'[x] <= 2
                   /\ LockedAfter(attempts'[x].count) => tries'[x] = 0
             /\ attempts'[x].locked =>
                   tries'[x] + Cardinality(Comparing(x)') <= 2 + Cardinality(Handlers)
  <2>1. tries[x] \in Nat
    BY DEF TypeOK
  <2>2. QED
    BY <1>3, <1>6, <2>1 DEF FailuresInv
<1>8. ~attempts'[e].locked =>
         /\ tries'[e] <= attempts'[e].count /\ tries'[e] <= 2
         /\ LockedAfter(attempts'[e].count) => tries'[e] = 0
  <2>1. ASSUME ~attempts[e].locked, ~LockedAfter(n)
        PROVE  tries[e] + 1 <= n /\ n <= 2
    BY <1>1, <1>2, <2>1 DEF FailuresInv, LockedAfter
  <2>2. ~attempts'[e].locked => ~attempts[e].locked /\ ~LockedAfter(n)
    BY <1>3, Zenon
  <2>3. ~attempts'[e].locked => tries'[e] <= n /\ tries'[e] <= 2
    BY <1>1, <1>3, <2>1, <2>2
  <2>4. QED
    BY <1>3, <2>2, <2>3
<1>9. attempts'[e].locked => tries'[e] + Cardinality(Comparing(e)') <= 2 + Cardinality(Handlers)
  <2>1. CASE attempts[e].locked
    BY <1>1, <1>3, <1>6, <2>1 DEF FailuresInv
  <2>2. CASE ~attempts[e].locked
    <3>1. tries[e] <= 2
      BY <1>1, <2>2 DEF FailuresInv
    <3>2. QED
      BY <1>1, <1>3, <1>6, <3>1
  <2>3. QED
    BY <2>1, <2>2
<1>10. QED
  BY <1>7, <1>8, <1>9 DEF FailuresInv

LEMMA ServeFailures ==
    ASSUME FailuresInv, TypeOK, NEW h \in Handlers,
           ReceiveLogin(h) \/ ReceiveWork(h) \/ Serve(h) \/ Abort(h)
    PROVE  FailuresInv'
<1>1. req[h] \in Request /\ req[h].claims.email \in Emails
  BY DEF TypeOK, Request, Claims
<1>2. ASSUME Answer(h)
      PROVE  \A k \in Handlers : req'[k].pc \in AskingPcs => req'[k] = req[k]
  BY <1>2, IdleType DEF Answer, TypeOK, AskingPcs
<1>3. ASSUME NEW pc \in {"issue", "work", "hash"}, Goto(h, pc)
      PROVE  \A k \in Handlers : req'[k].pc \in AskingPcs => req'[k] = req[k]
  BY <1>3, GotoReq DEF AskingPcs
<1>4. CASE ReceiveLogin(h)
  <2>0. PICK claims : req' = [req EXCEPT ![h].pc = "lock", ![h].claims = claims]
    BY <1>4, Zenon DEF ReceiveLogin
  <2>1. \A k \in Handlers \ {h} : req'[k] = req[k]
    BY <2>0 DEF TypeOK
  <2>2. req'[h].pc = "lock"
    BY <1>1, <2>0 DEF TypeOK, Request
  <2>3. QED
    BY <1>4, <2>1, <2>2, QuietFailures DEF ReceiveLogin, AskingPcs
<1>5. CASE CheckLock(h)
  <2>1. CASE Answer(h)
    BY <1>2, <1>5, <2>1, QuietFailures DEF CheckLock
  <2>2. CASE ~attempts[req[h].claims.email].locked /\ Goto(h, "user")
    <3>1. /\ \A k \in Handlers \ {h} : req'[k] = req[k]
          /\ req'[h].claims = req[h].claims
      BY <2>2, GotoReq
    <3>2. QED
      BY <1>5, <2>2, <3>1, QuietFailures DEF CheckLock
  <2>3. QED
    BY <1>5, <2>1, <2>2 DEF CheckLock
<1>6. CASE ReadUser(h)
  <2>1. CASE Goto(h, "fail")
    <3>1. /\ \A k \in Handlers \ {h} : req'[k] = req[k]
          /\ req'[h].claims = req[h].claims /\ req[h].pc \in AskingPcs
      BY <1>6, <2>1, GotoReq DEF ReadUser, AskingPcs
    <3>2. QED
      BY <1>6, <3>1, QuietFailures DEF ReadUser
  <2>2. CASE ~Goto(h, "fail")
    <3>1. PICK claims : req' = [req EXCEPT ![h].pc = "clear", ![h].claims = claims]
      BY <1>6, <2>2, Zenon DEF ReadUser
    <3>2. \A k \in Handlers \ {h} : req'[k] = req[k]
      BY <3>1 DEF TypeOK
    <3>3. req'[h].pc = "clear"
      BY <1>1, <3>1 DEF TypeOK, Request
    <3>4. QED
      BY <1>6, <3>2, <3>3, QuietFailures DEF ReadUser, AskingPcs
  <2>3. QED
    BY <2>1, <2>2
<1>7. CASE RecordFailure(h)
  BY <1>7, RecordFailures
<1>8. CASE ClearAttempts(h)
  <2> DEFINE e == req[h].claims.email
  <2>1. /\ attempts' \in [Emails -> Attempt] /\ tries'[e] = 0 /\ ~attempts'[e].locked
        /\ \A x \in Emails \ {e} : attempts'[x] = attempts[x] /\ tries'[x] = tries[x]
    BY <1>1, <1>8 DEF ClearAttempts, TypeOK, Attempt, NoAttempt
  <2>2. \A k \in Handlers : req'[k].pc \in AskingPcs => req'[k] = req[k]
    BY <1>3, <1>8 DEF ClearAttempts
  <2>3. QED
    BY <1>1, <2>1, <2>2, FreedFailures
<1>9. CASE IssueToken(h) \/ Work(h) \/ Abort(h)
  BY <1>2, <1>9, QuietFailures DEF IssueToken, Work, Abort
<1>10. CASE ReceiveWork(h)
  <2>1. PICK c \in sessions, work \in Works :
           req' = [req EXCEPT ![h] = [pc |-> "session", claims |-> c, work |-> work,
                                      moved |-> FALSE]]
    BY <1>10 DEF ReceiveWork
  <2>2. QED
    BY <1>10, <2>1, QuietFailures DEF ReceiveWork, TypeOK, AskingPcs
<1>11. CASE Middleware(h)
  <2>1. Answer(h) \/ Goto(h, "work") \/ Goto(h, "hash")
    BY <1>11 DEF Middleware
  <2>2. QED
    BY <1>2, <1>3, <1>11, <2>1, QuietFailures DEF Middleware
<1>12. CASE ReadHash(h)
  <2>1. CASE Answer(h)
    BY <1>2, <1>12, <2>1, QuietFailures DEF ReadHash
  <2>2. CASE ~Answer(h)
    <3>1. PICK old \in Pins : req' = [req EXCEPT ![h].pc = "write", ![h].moved = FALSE,
                                                 ![h].claims.pin = old]
      BY <1>12, <2>2, Zenon DEF ReadHash
    <3>2. \A k \in Handlers \ {h} : req'[k] = req[k]
      BY <3>1 DEF TypeOK
    <3>3. req'[h].pc = "write"
      BY <1>1, <3>1 DEF TypeOK, Request
    <3>4. QED
      BY <1>12, <3>2, <3>3, QuietFailures DEF ReadHash, AskingPcs
  <2>3. QED
    BY <2>1, <2>2
<1>13. ASSUME NEW e \in Emails, Changed(h, e), attempts' = attempts, tries' = tries
       PROVE  FailuresInv'
  BY <1>13, ChangedReq, QuietFailures DEF AskingPcs
<1>14. CASE ChangeAccounts(h)
  BY <1>13, <1>14 DEF ChangeAccounts, AddUser, UpdateUser, ResetUserPIN, DeleteUser
<1>15. CASE WritePIN(h)
  <2>1. Answer(h) \/ Changed(h, req[h].claims.email)
    BY <1>15 DEF WritePIN
  <2>2. QED
    BY <1>1, <1>2, <1>13, <1>15, <2>1, QuietFailures DEF WritePIN
<1>16. QED
  BY <1>4, <1>5, <1>6, <1>7, <1>8, <1>9, <1>10, <1>11, <1>12, <1>14, <1>15 DEF Serve

LEMMA NextFailures == FailuresInv /\ IInv /\ [Next]_vars => FailuresInv'
<1> SUFFICES ASSUME FailuresInv, TypeOK, [Next]_vars PROVE FailuresInv'
  BY DEF IInv
<1>1. CASE \E h \in Handlers : ReceiveLogin(h) \/ ReceiveWork(h) \/ Serve(h) \/ Abort(h)
  BY <1>1, ServeFailures
<1>2. CASE \E e \in Emails : LockEnds(e)
  <2>1. PICK e \in Emails : LockEnds(e)
    BY <1>2
  <2>2. /\ attempts[e] \in Attempt
        /\ attempts' = [attempts EXCEPT ![e] = [attempts[e] EXCEPT !.locked = FALSE]]
    BY <2>1, Zenon DEF LockEnds, TypeOK
  <2>3. [attempts[e] EXCEPT !.locked = FALSE] \in Attempt
        /\ [attempts[e] EXCEPT !.locked = FALSE].locked = FALSE
    BY <2>2 DEF Attempt
  <2>4. /\ attempts' \in [Emails -> Attempt] /\ tries'[e] = 0 /\ ~attempts'[e].locked
        /\ \A x \in Emails \ {e} : attempts'[x] = attempts[x] /\ tries'[x] = tries[x]
    BY <2>1, <2>2, <2>3 DEF LockEnds, TypeOK
  <2>5. QED
    BY <2>1, <2>4, FreedFailures DEF LockEnds
<1>3. CASE \E c \in sessions : SessionEnds(c)
  BY <1>3, QuietFailures DEF SessionEnds, AskingPcs
<1>4. CASE Restart
  BY <1>4 DEF Restart, FailuresInv, NoAttempt
<1>5. CASE UNCHANGED vars
  BY <1>5, QuietFailures DEF vars, AskingPcs
<1>6. QED
  BY <1>1, <1>2, <1>3, <1>4, <1>5 DEF Next

\* The PIN is compared outside the mutex, and yet from the moment an address is free
\* no more failures are recorded than two and one for each login in flight.
THEOREM FailuresAreBounded == Spec => []FailuresBounded
<1>1. Init => FailuresInv
  BY DEF Init, FailuresInv, NoAttempt
<1>2. FailuresInv /\ IInv /\ [Next]_vars => FailuresInv'
  BY NextFailures
<1>3. FailuresInv /\ IInv => FailuresBounded
  <2> SUFFICES ASSUME FailuresInv, IInv, NEW e \in Emails
               PROVE  tries[e] <= 2 + Cardinality(Handlers)
    BY DEF FailuresBounded
  <2>1. Comparing(e) \in SUBSET Handlers /\ tries[e] \in Nat
    BY DEF Comparing, IInv, TypeOK
  <2>2. Cardinality(Comparing(e)) \in Nat /\ Cardinality(Handlers) \in Nat
    BY <2>1, Fewer
  <2>3. QED
    BY <2>1, <2>2 DEF FailuresInv
<1>4. QED
  BY <1>1, <1>2, <1>3, Invariant, PTL DEF Spec
-----------------------------------------------------------------------------
(* Startup: what the invariant of an opening database says *)

\* The column, its marker and the first policies come together or not at all; and
\* nobody chooses a policy before.
PolicyTogether ==
    IF "purchase_policy" \in columns THEN "policy" \in done
    ELSE "policy" \notin done /\ \A i \in Items : chosen[i] = NoPolicy

\* Past the check, the columns are there; the program is up with the rebuilt table.
ColumnsChecked ==
    /\ stage \in {"rebuild", "up"} => {"purchase_policy", "pack_qty"} \subseteq columns
    /\ stage = "up" => direct = "by id"

\* A pack size is derived exactly where there is a pack; a typed one is left only
\* until the migration is marked.
TextsTell ==
    \A i \in Items :
        /\ item[i].packed <=> item[i].text = "derived"
        /\ "pack" \in done => item[i].text # "typed"
        /\ i \in hadText =>
              IF "pack" \in done THEN item[i].text = "" /\ audited[i] = 1
              ELSE item[i].text = "typed" /\ audited[i] = 0

OpenInv == OpenTypeOK /\ PolicyTogether /\ PolicyStands /\ ColumnsChecked /\ TextsTell
-----------------------------------------------------------------------------
LEMMA AfterStage ==
    ASSUME NEW s \in Stages \ {"down", "rebuild", "up"}
    PROVE  After(s) \in Stages /\ (After(s) \in {"rebuild", "up"} => s = "check")
BY DEF After, Stages

LEMMA OpenInitInv == OpenInit => OpenInv
<1> SUFFICES ASSUME OpenInit PROVE OpenInv
  OBVIOUS
<1>1. \A i \in Items : /\ item[i] \in Item /\ item[i].policy = NoPolicy
                       /\ ~item[i].packed /\ item[i].text # "derived"
  BY DEF OpenInit
<1>2. OpenTypeOK
  BY <1>1 DEF OpenInit, OpenTypeOK, Stages
<1>3. PolicyTogether /\ PolicyStands /\ ColumnsChecked
  BY DEF OpenInit, PolicyTogether, PolicyStands, ColumnsChecked
<1>4. TextsTell
  BY <1>1 DEF OpenInit, TextsTell
<1>5. QED
  BY <1>2, <1>3, <1>4 DEF OpenInv
-----------------------------------------------------------------------------
(* Starting: the steps of Open *)

\* A step that changes no item keeps what the invariant says of them.
LEMMA ItemsAlone ==
    ASSUME OpenInv, UNCHANGED <<item, audited, done, chosen, excludedThen, hadText>>,
           columns \subseteq columns', columns' \subseteq columns \cup {"superseded_by_po", "pack_qty"}
    PROVE  PolicyTogether' /\ PolicyStands' /\ TextsTell'
<1>1. PolicyTogether'
  BY DEF OpenInv, PolicyTogether
<1>2. PolicyStands'
  BY DEF OpenInv, PolicyStands
<1>3. TextsTell'
  BY DEF OpenInv, TextsTell
<1>4. QED
  BY <1>1, <1>2, <1>3

LEMMA OpeningInv ==
    ASSUME OpenInv,
           \/ Start \/ Stop \/ AddSuperseded \/ AddPack \/ PassOver
           \/ CheckColumns \/ RebuildDirectOrdersPK
    PROVE  OpenInv'
<1>1. /\ UNCHANGED <<item, audited, done, chosen, excludedThen, hadText>>
      /\ columns \subseteq columns' /\ columns' \subseteq columns \cup {"superseded_by_po", "pack_qty"}
  BY DEF Start, Stop, AddSuperseded, AddPack, AddColumn, PassOver, CheckColumns,
         RebuildDirectOrdersPK
<1>2. stage \in Stages
  BY DEF OpenInv, OpenTypeOK
<1>3. stage' \in Stages /\ direct' \in {"by order", "by id"}
  BY <1>2, AfterStage DEF OpenInv, OpenTypeOK, Start, Stop, AddSuperseded, AddPack, AddColumn,
     PassOver, CheckColumns, RebuildDirectOrdersPK, Stages
<1>4. OpenTypeOK'
  BY <1>1, <1>3 DEF OpenInv, OpenTypeOK
<1>5. ColumnsChecked'
  <2>1. CASE Start \/ Stop
    BY <2>1 DEF Start, Stop, ColumnsChecked
  <2>2. CASE AddSuperseded \/ AddPack \/ PassOver
    BY <1>2, <2>2, AfterStage DEF AddSuperseded, AddPack, AddColumn, PassOver, ColumnsChecked, Stages
  <2>3. CASE CheckColumns
    BY <2>3 DEF CheckColumns, Needed, After, ColumnsChecked
  <2>4. CASE RebuildDirectOrdersPK
    BY <2>4 DEF RebuildDirectOrdersPK, OpenInv, ColumnsChecked
  <2>5. QED
    BY <2>1, <2>2, <2>3, <2>4
<1>6. QED
  BY <1>1, <1>4, <1>5, ItemsAlone DEF OpenInv

LEMMA PolicyInv ==
    ASSUME OpenInv, MigratePurchasePolicy
    PROVE  OpenInv'
<1>1. /\ stage = "policy" /\ stage' = "pack"
      /\ UNCHANGED <<audited, direct, chosen, hadText>>
  BY DEF MigratePurchasePolicy, After
<1>2. CASE "policy" \in done
  <2>1. UNCHANGED <<columns, done, item, excludedThen>>
    BY <1>2 DEF MigratePurchasePolicy
  <2>2. PolicyTogether' /\ PolicyStands' /\ TextsTell'
    BY <1>1, <2>1, ItemsAlone
  <2>3. OpenTypeOK' /\ ColumnsChecked'
    BY <1>1, <2>1 DEF OpenInv, OpenTypeOK, Stages, ColumnsChecked
  <2>4. QED
    BY <2>2, <2>3 DEF OpenInv
<1>3. CASE "policy" \notin done
  <2>1. /\ item' = [i \in Items |-> [item[i] EXCEPT
                        !.policy = IF item[i].exclude THEN "unclassified" ELSE "routine"]]
        /\ columns' = columns \cup {"purchase_policy"} /\ done' = done \cup {"policy"}
        /\ excludedThen' = {i \in Items : item[i].exclude}
    BY <1>3 DEF MigratePurchasePolicy, BackfillPolicy, Backfilled, BackfilledAs
  <2>2. \A i \in Items : chosen[i] = NoPolicy
    BY <1>3 DEF OpenInv, PolicyTogether
  <2>3. \A i \in Items :
           /\ item'[i] \in Item
           /\ item'[i].policy = IF i \in excludedThen' THEN "unclassified" ELSE "routine"
           /\ item'[i].text = item[i].text /\ item'[i].packed = item[i].packed
    <3>1. SUFFICES ASSUME NEW i \in Items
          PROVE  /\ item'[i] \in Item
                 /\ item'[i].policy = IF i \in excludedThen' THEN "unclassified" ELSE "routine"
                 /\ item'[i].text = item[i].text /\ item'[i].packed = item[i].packed
      OBVIOUS
    <3>2. item[i] \in Item /\ item[i].exclude \in BOOLEAN
      BY DEF OpenInv, OpenTypeOK, Item
    <3>3. PICK p \in {"unclassified", "routine"} :
             p = IF item[i].exclude THEN "unclassified" ELSE "routine"
      OBVIOUS
    <3>4. item'[i] = [item[i] EXCEPT !.policy = p]
      BY <2>1, <3>3
    <3>5. /\ item'[i] \in Item /\ item'[i].policy = p
          /\ item'[i].text = item[i].text /\ item'[i].packed = item[i].packed
      BY <3>2, <3>4 DEF Item, Policies
    <3>6. QED
      BY <2>1, <3>3, <3>5
  <2>4. OpenTypeOK'
    BY <1>1, <2>1, <2>3 DEF OpenInv, OpenTypeOK, Stages
  <2>5. PolicyTogether' /\ PolicyStands' /\ ColumnsChecked'
    BY <1>1, <2>1, <2>2, <2>3 DEF PolicyTogether, PolicyStands, ColumnsChecked
  <2>6. TextsTell'
    BY <1>1, <2>1, <2>3 DEF OpenInv, TextsTell
  <2>7. QED
    BY <2>4, <2>5, <2>6 DEF OpenInv
<1>4. QED
  BY <1>2, <1>3

LEMMA PackInv ==
    ASSUME OpenInv, ClearLegacyPackSize
    PROVE  OpenInv'
<1>1. /\ stage = "clear" /\ stage' = "check"
      /\ UNCHANGED <<columns, direct, chosen, excludedThen, hadText>>
  BY DEF ClearLegacyPackSize, After
<1>2. CASE "pack" \in done
  <2>1. UNCHANGED <<done, item, audited>>
    BY <1>2 DEF ClearLegacyPackSize
  <2>2. PolicyTogether' /\ PolicyStands' /\ TextsTell'
    BY <1>1, <2>1, ItemsAlone
  <2>3. OpenTypeOK' /\ ColumnsChecked'
    BY <1>1, <2>1 DEF OpenInv, OpenTypeOK, Stages, ColumnsChecked
  <2>4. QED
    BY <2>2, <2>3 DEF OpenInv
<1>3. CASE "pack" \notin done
  <2>1. /\ audited' = [i \in Items |-> IF Legacy(i) THEN audited[i] + 1 ELSE audited[i]]
        /\ item' = [i \in Items |-> IF Legacy(i) THEN [item[i] EXCEPT !.text = ""] ELSE item[i]]
        /\ done' = done \cup {"pack"}
    BY <1>3 DEF ClearLegacyPackSize, Audit, Cleared
  <2>2. \A i \in Items :
           /\ item[i] \in Item /\ audited[i] \in Nat
           /\ item[i].packed <=> item[i].text = "derived"
    BY DEF OpenInv, OpenTypeOK, TextsTell
  <2>3. \A i \in Items :
           /\ item'[i] \in Item /\ audited'[i] \in Nat
           /\ item'[i].policy = item[i].policy /\ item'[i].packed = item[i].packed
           /\ item'[i].text = IF item[i].text = "typed" THEN "" ELSE item[i].text
           /\ audited'[i] = IF item[i].text = "typed" THEN audited[i] + 1 ELSE audited[i]
    <3>1. SUFFICES ASSUME NEW i \in Items
          PROVE  /\ item'[i] \in Item /\ audited'[i] \in Nat
                 /\ item'[i].policy = item[i].policy /\ item'[i].packed = item[i].packed
                 /\ item'[i].text = IF item[i].text = "typed" THEN "" ELSE item[i].text
                 /\ audited'[i] = IF item[i].text = "typed" THEN audited[i] + 1 ELSE audited[i]
      OBVIOUS
    <3>2. /\ item[i] \in Item /\ audited[i] \in Nat
          /\ item[i].text \in {"", "typed", "derived"}
          /\ item[i].packed <=> item[i].text = "derived"
      BY <2>2 DEF Item
    <3>3. Legacy(i) <=> item[i].text = "typed"
      BY <3>2 DEF Legacy
    <3>4. CASE Legacy(i)
      <4>1. item'[i] = [item[i] EXCEPT !.text = ""]
        BY <2>1, <3>4
      <4>2. /\ item'[i] \in Item /\ item'[i].text = ""
            /\ item'[i].policy = item[i].policy /\ item'[i].packed = item[i].packed
        BY <3>2, <4>1 DEF Item
      <4>3. item[i].text = "typed"
        BY <3>3, <3>4, Zenon
      <4>4. audited[i] \in Nat
        BY <3>2, Zenon
      <4>5. audited'[i] = audited[i] + 1
        BY <2>1, <3>4
      <4>6. audited'[i] \in Nat
        BY <4>4, <4>5
      <4>7. QED
        BY <4>2, <4>3, <4>5, <4>6, Zenon
    <3>5. CASE ~Legacy(i)
      BY <2>1, <3>2, <3>3, <3>5
    <3>6. QED
      BY <3>4, <3>5
  <2>4. OpenTypeOK'
    BY <1>1, <2>1, <2>3 DEF OpenInv, OpenTypeOK, Stages
  <2>5. PolicyTogether' /\ PolicyStands' /\ ColumnsChecked'
    BY <1>1, <2>1, <2>3 DEF OpenInv, PolicyTogether, PolicyStands, ColumnsChecked
  <2>6. TextsTell'
    <3>1. SUFFICES ASSUME NEW i \in Items
          PROVE  /\ item'[i].packed <=> item'[i].text = "derived"
                 /\ item'[i].text # "typed"
                 /\ i \in hadText => item'[i].text = "" /\ audited'[i] = 1
      BY <1>1, <2>1 DEF TextsTell
    <3>2. i \in hadText => item[i].text = "typed" /\ audited[i] = 0
      BY <1>3 DEF OpenInv, TextsTell
    <3>3. item'[i].packed <=> item'[i].text = "derived"
      <4>1. CASE item[i].text = "typed"
        BY <2>2, <2>3, <4>1
      <4>2. CASE item[i].text # "typed"
        BY <2>2, <2>3, <4>2
      <4>3. QED
        BY <4>1, <4>2
    <3>4. item'[i].text # "typed" /\ (i \in hadText => item'[i].text = "" /\ audited'[i] = 1)
      <4>1. /\ item'[i].text = IF item[i].text = "typed" THEN "" ELSE item[i].text
            /\ audited'[i] = IF item[i].text = "typed" THEN audited[i] + 1 ELSE audited[i]
        BY <2>3, Zenon
      <4>2. item'[i].text # "typed"
        BY <4>1
      <4>3. ASSUME i \in hadText
            PROVE  item'[i].text = "" /\ audited'[i] = 1
        <5>1. item'[i].text = "" /\ audited'[i] = 0 + 1
          BY <3>2, <4>1, <4>3, Zenon
        <5>2. 0 + 1 = 1
          OBVIOUS
        <5>3. QED
          BY <5>1, <5>2, Zenon
      <4>4. QED
        BY <4>2, <4>3
    <3>5. QED
      BY <3>3, <3>4
  <2>7. QED
    BY <2>4, <2>5, <2>6 DEF OpenInv
<1>4. QED
  BY <1>2, <1>3
-----------------------------------------------------------------------------
(* What people edit *)

LEMMA EditInv ==
    ASSUME OpenInv, NEW i \in Items,
           EditExclude(i) \/ EditPack(i) \/ \E p \in Policies : EditPolicy(i, p)
    PROVE  OpenInv'
<1>1. /\ stage = "up" /\ stage' = stage
      /\ UNCHANGED <<columns, done, audited, direct, excludedThen>>
      /\ "purchase_policy" \in columns
  BY DEF OpenInv, ColumnsChecked, EditExclude, EditPack, EditPolicy
<1>2. item \in [Items -> Item]
  BY DEF OpenInv, OpenTypeOK
<1>3. ColumnsChecked' /\ PolicyTogether'
  BY <1>1 DEF OpenInv, ColumnsChecked, PolicyTogether
<1>4. CASE EditExclude(i)
  <2>1. item' = [item EXCEPT ![i] = [item[i] EXCEPT !.exclude = ~item[i].exclude]]
    BY <1>2, <1>4, Zenon DEF EditExclude
  <2>2. \A k \in Items : /\ item'[k] \in Item /\ item'[k].policy = item[k].policy
                         /\ item'[k].text = item[k].text /\ item'[k].packed = item[k].packed
    BY <1>2, <2>1 DEF Item
  <2>3. OpenTypeOK' /\ PolicyStands' /\ TextsTell'
    BY <1>1, <1>4, <2>1, <2>2 DEF OpenInv, OpenTypeOK, PolicyStands, TextsTell, EditExclude
  <2>4. QED
    BY <1>3, <2>3 DEF OpenInv
<1>5. CASE EditPack(i)
  <2> DEFINE new == [item[i] EXCEPT !.packed = ~item[i].packed,
                                    !.text = IF item[i].packed THEN "" ELSE "derived"]
  <2>1. item' = [item EXCEPT ![i] = new]
    BY <1>2, <1>5, Zenon DEF EditPack
  <2>2. /\ new \in Item /\ new.policy = item[i].policy
        /\ new.packed <=> new.text = "derived"
        /\ new.text # "typed"
    BY <1>2 DEF Item
  <2> HIDE DEF new
  <2>3. /\ item' \in [Items -> Item] /\ item'[i] = new
        /\ \A k \in Items \ {i} : item'[k] = item[k]
    BY <1>2, <2>1, <2>2
  <2>4. hadText' = hadText \ {i} /\ chosen' = chosen
    BY <1>5 DEF EditPack
  <2>5. OpenTypeOK' /\ PolicyStands'
    BY <1>1, <2>2, <2>3, <2>4 DEF OpenInv, OpenTypeOK, PolicyStands
  <2>6. TextsTell'
    BY <1>1, <2>2, <2>3, <2>4 DEF OpenInv, TextsTell
  <2>7. QED
    BY <1>3, <2>5, <2>6 DEF OpenInv
<1>6. ASSUME NEW p \in Policies, EditPolicy(i, p)
      PROVE  OpenInv'
  <2> DEFINE new == [item[i] EXCEPT !.policy = p]
  <2>1. item' = [item EXCEPT ![i] = new]
    BY <1>2, <1>6, Zenon DEF EditPolicy
  <2>2. /\ new \in Item /\ new.policy = p
        /\ new.text = item[i].text /\ new.packed = item[i].packed
    BY <1>2 DEF Item
  <2> HIDE DEF new
  <2>3. /\ item' \in [Items -> Item] /\ item'[i] = new
        /\ \A k \in Items \ {i} : item'[k] = item[k]
    BY <1>2, <2>1, <2>2
  <2>4. hadText' = hadText /\ chosen' = [chosen EXCEPT ![i] = p] /\ p # NoPolicy
    BY <1>6 DEF EditPolicy, Policies, NoPolicy
  <2>5. OpenTypeOK' /\ PolicyStands'
    BY <1>1, <2>2, <2>3, <2>4 DEF OpenInv, OpenTypeOK, PolicyStands
  <2>6. TextsTell'
    BY <1>1, <2>2, <2>3, <2>4 DEF OpenInv, TextsTell
  <2>7. QED
    BY <1>3, <2>5, <2>6 DEF OpenInv
<1>7. QED
  BY <1>4, <1>5, <1>6
-----------------------------------------------------------------------------
LEMMA OpenNextInv == OpenInv /\ [OpenNext]_openVars => OpenInv'
<1> SUFFICES ASSUME OpenInv, [OpenNext]_openVars PROVE OpenInv'
  OBVIOUS
<1>1. CASE \/ Start \/ Stop \/ AddSuperseded \/ AddPack \/ PassOver
           \/ CheckColumns \/ RebuildDirectOrdersPK
  BY <1>1, OpeningInv
<1>2. CASE MigratePurchasePolicy
  BY <1>2, PolicyInv
<1>3. CASE ClearLegacyPackSize
  BY <1>3, PackInv
<1>4. CASE \E i \in Items : EditExclude(i) \/ EditPack(i) \/ \E p \in Policies : EditPolicy(i, p)
  BY <1>4, EditInv
<1>5. CASE UNCHANGED openVars
  <2>1. /\ UNCHANGED <<item, audited, done, chosen, excludedThen, hadText>>
        /\ columns' = columns /\ direct' = direct /\ stage' = stage
    BY <1>5 DEF openVars
  <2>2. PolicyTogether' /\ PolicyStands' /\ TextsTell'
    BY <2>1, ItemsAlone
  <2>3. OpenTypeOK' /\ ColumnsChecked'
    BY <2>1 DEF OpenInv, OpenTypeOK, ColumnsChecked
  <2>4. QED
    BY <2>2, <2>3 DEF OpenInv
<1>6. QED
  BY <1>1, <1>2, <1>3, <1>4, <1>5 DEF OpenNext

\* The inductive invariant: column, marker and first policies come together; past
\* the check the columns are there; and every pack size is accounted for.
THEOREM OpenInvariant == OpenSpec => []OpenInv
<1>1. OpenInit => OpenInv
  BY OpenInitInv
<1>2. OpenInv /\ [OpenNext]_openVars => OpenInv'
  BY OpenNextInv
<1>3. QED
  BY <1>1, <1>2, PTL DEF OpenSpec

\* Every variable keeps its shape.
THEOREM OpenTypeCorrect == OpenSpec => []OpenTypeOK
<1>1. OpenInv => OpenTypeOK
  BY DEF OpenInv
<1>2. QED
  BY <1>1, OpenInvariant, PTL

\* An item has the policy a person gave it, or the one the migration owed it.
THEOREM PoliciesStand == OpenSpec => []PolicyStands
<1>1. OpenInv => PolicyStands
  BY DEF OpenInv
<1>2. QED
  BY <1>1, OpenInvariant, PTL

\* A pack size that somebody typed is still there or was audited, once.
THEOREM TypedPacksKept == OpenSpec => []TypedPackKept
<1>1. OpenInv => TypedPackKept
  BY DEF OpenInv, OpenTypeOK, TextsTell, TypedPackKept
<1>2. QED
  BY <1>1, OpenInvariant, PTL

\* pack_size is derived where there is a pack, and otherwise only what is not
\* cleared yet.
THEOREM PackSizesDerived == OpenSpec => []PackSizeDerived
<1>1. ASSUME OpenInv, NEW i \in Items
      PROVE  /\ item[i].packed => item[i].text = "derived"
             /\ "pack" \in done /\ ~item[i].packed => item[i].text = ""
  <2>1. item[i].text \in {"", "typed", "derived"}
    BY <1>1 DEF OpenInv, OpenTypeOK, Item
  <2>2. QED
    BY <1>1, <2>1 DEF OpenInv, TextsTell
<1>2. OpenInv => PackSizeDerived
  BY <1>1 DEF PackSizeDerived
<1>3. QED
  BY <1>2, OpenInvariant, PTL

\* Nobody is served from a database that lacks what the code depends on.
THEOREM OnlyMigratedServes == OpenSpec => []ServesMigrated
<1>1. OpenInv => ServesMigrated
  BY DEF OpenInv, ColumnsChecked, ServesMigrated
<1>2. QED
  BY <1>1, OpenInvariant, PTL
=============================================================================
