----------------------------- MODULE BrowserProofs -----------------------------
(***************************************************************************)
(* Sessions rotate, end for good and limit failed logins; the calls of a   *)
(* tab share one refresh, and a logout signs the tab out: for any number   *)
(* of calls, users, sessions and addresses.                                *)
(***************************************************************************)
EXTENDS Browser, TLAPS

-----------------------------------------------------------------------------
(* Sessions: types.                                                         *)

LEMMA OlderType == \A t \in Time : Older(t) \in Time /\ Older(t) <= t
  BY DEF Older, Time, Past

LEMMA NoAttemptType == NoAttempt \in Attempt
  BY DEF NoAttempt, Attempt, Time, Past

LEMMA FailureType ==
  ASSUME SessionTypeOK, NEW a \in Address
  PROVE  Failure(a) \in Attempt
  <1>1. attempts[a] \in [count : Nat, reset : Time]
    BY DEF SessionTypeOK, Attempt
  <1>2. WindowTicks \in Time
    BY SessionAssumption DEF Time
  <1> QED
    BY <1>1, <1>2 DEF Failure, Attempt

\* Opening and revoking sessions keeps their types.
LEMMA OpenedType ==
  ASSUME NEW map, DOMAIN map \subseteq SessionId,
         map \in [DOMAIN map -> SessionRecord],
         NEW s \in SessionId, NEW user \in User, NEW login \in SessionId,
         NEW from \in SessionId \cup {None}
  PROVE  LET new == Opened(map, s, user, login, from) IN
         /\ DOMAIN new \subseteq SessionId
         /\ new \in [DOMAIN new -> SessionRecord]
  <1> DEFINE new == Opened(map, s, user, login, from)
  <1>1. AccessTicks \in Time /\ RefreshTicks \in Time
    BY SessionAssumption DEF Time
  <1>2. [user |-> user, login |-> login, from |-> from,
         access |-> AccessTicks, expires |-> RefreshTicks,
         revoked |-> FALSE] \in SessionRecord
    BY <1>1 DEF SessionRecord
  <1> QED
    BY <1>2 DEF Opened

LEMMA RevokedType ==
  ASSUME NEW map, DOMAIN map \subseteq SessionId,
         map \in [DOMAIN map -> SessionRecord], NEW s \in DOMAIN map
  PROVE  /\ DOMAIN Revoked(map, s) = DOMAIN map
         /\ Revoked(map, s) \in [DOMAIN map -> SessionRecord]
         /\ \A k \in DOMAIN map \ {s} : Revoked(map, s)[k] = map[k]
         /\ Revoked(map, s)[s] = [map[s] EXCEPT !.revoked = TRUE]
  BY DEF Revoked, SessionRecord

\* Records stay of their kinds in every step.
LEMMA TypeStep == SessionTypeOK /\ [SessionNext]_authVars => SessionTypeOK'
  <1> SUFFICES ASSUME SessionTypeOK, [SessionNext]_authVars
               PROVE  SessionTypeOK'
    OBVIOUS
  <1>1. ASSUME NEW a \in Address, LoginFails(a)
        PROVE  SessionTypeOK'
    BY <1>1, FailureType DEF LoginFails, SessionTypeOK
  <1>2. ASSUME NEW a \in Address, NEW user \in User, NEW s \in SessionId,
               Login(user, a, s)
        PROVE  SessionTypeOK'
    <2>1. sessions' = Opened(sessions, s, user, s, None)
      BY <1>2 DEF Login
    <2>2. DOMAIN sessions' \subseteq SessionId
          /\ sessions' \in [DOMAIN sessions' -> SessionRecord]
      BY <2>1, OpenedType DEF SessionTypeOK
    <2> QED
      BY <1>2, <2>2, NoAttemptType DEF Login, SessionTypeOK
  <1>3. ASSUME NEW old \in DOMAIN sessions, NEW new \in SessionId,
               Refresh(old, new)
        PROVE  SessionTypeOK'
    <2> DEFINE map == Revoked(sessions, old)
    <2>1. sessions' = Opened(map, new, sessions[old].user,
                             sessions[old].login, old)
      BY <1>3 DEF Refresh
    <2>2. old \in SessionId /\ sessions[old] \in SessionRecord
      BY DEF SessionTypeOK
    <2>3. sessions[old].user \in User /\ sessions[old].login \in SessionId
      BY <2>2 DEF SessionRecord
    <2>4. DOMAIN map \subseteq SessionId /\ map \in [DOMAIN map -> SessionRecord]
      BY RevokedType DEF SessionTypeOK
    <2>5. DOMAIN sessions' \subseteq SessionId
          /\ sessions' \in [DOMAIN sessions' -> SessionRecord]
      <3> HIDE DEF map
      <3> QED BY <2>1, <2>2, <2>3, <2>4, OpenedType
    <2> QED
      BY <1>3, <2>5 DEF Refresh, SessionTypeOK
  <1>4. ASSUME NEW t \in DOMAIN sessions, NEW s \in DOMAIN sessions,
               Logout(t, s)
        PROVE  SessionTypeOK'
    BY <1>4, RevokedType DEF Logout, SessionTypeOK
  <1>5. CASE ClockStep
    <2>1. \A s \in DOMAIN sessions : sessions'[s] \in SessionRecord
      <3> SUFFICES ASSUME NEW s \in DOMAIN sessions
                   PROVE  sessions'[s] \in SessionRecord
        OBVIOUS
      <3>1. sessions[s] \in SessionRecord
        BY DEF SessionTypeOK
      <3>2. Older(sessions[s].access) \in Time /\ Older(sessions[s].expires) \in Time
        BY <3>1, OlderType DEF SessionRecord
      <3>3. sessions'[s] = [sessions[s] EXCEPT
              !.access = Older(sessions[s].access),
              !.expires = Older(sessions[s].expires)]
        BY <1>5 DEF ClockStep
      <3> QED
        BY <3>1, <3>2, <3>3 DEF SessionRecord
    <2>2. \A a \in Address : attempts'[a] \in Attempt
      <3> SUFFICES ASSUME NEW a \in Address
                   PROVE  attempts'[a] \in Attempt
        OBVIOUS
      <3>1. attempts[a] \in Attempt
        BY DEF SessionTypeOK
      <3>2. Older(attempts[a].reset) \in Time
        BY <3>1, OlderType DEF Attempt
      <3>3. attempts'[a] = [attempts[a] EXCEPT !.reset = Older(attempts[a].reset)]
        BY <1>5 DEF ClockStep
      <3> QED
        BY <3>1, <3>2, <3>3 DEF Attempt
    <2> QED
      BY <1>5, <2>1, <2>2 DEF ClockStep, SessionTypeOK
  <1>6. CASE UNCHANGED authVars
    BY <1>6 DEF authVars, SessionTypeOK
  <1> QED
    BY <1>1, <1>2, <1>3, <1>4, <1>5, <1>6 DEF SessionNext

\* Type correctness, for any users, sessions, addresses and durations.
THEOREM SessionTypeCorrect == SessionSpec => []SessionTypeOK
  <1>1. SessionInit => SessionTypeOK
    BY NoAttemptType DEF SessionInit, SessionTypeOK
  <1> QED
    BY <1>1, TypeStep, PTL DEF SessionSpec

-----------------------------------------------------------------------------
(* What each operation does to the sessions.                                *)

LEMMA LoginFacts ==
  ASSUME NEW a \in Address, NEW user \in User, NEW n \in SessionId,
         Login(user, a, n)
  PROVE  /\ n \notin DOMAIN sessions /\ DOMAIN sessions' = DOMAIN sessions \cup {n}
         /\ sessions'[n].login = n /\ sessions'[n].from = None
         /\ \A k \in DOMAIN sessions : sessions'[k] = sessions[k]
  BY DEF Login, Opened

LEMMA RefreshFacts ==
  ASSUME SessionTypeOK,
         NEW old \in DOMAIN sessions, NEW n \in SessionId, Refresh(old, n)
  PROVE  /\ n \notin DOMAIN sessions /\ DOMAIN sessions' = DOMAIN sessions \cup {n}
         /\ sessions'[n].user = sessions[old].user
         /\ sessions'[n].login = sessions[old].login
         /\ sessions'[n].from = old /\ ~sessions'[n].revoked
         /\ sessions'[old].user = sessions[old].user
         /\ sessions'[old].login = sessions[old].login
         /\ sessions'[old].from = sessions[old].from
         /\ sessions'[old].revoked
         /\ \A k \in DOMAIN sessions \ {old} : sessions'[k] = sessions[k]
  <1> DEFINE map == Revoked(sessions, old)
  <1>1. /\ DOMAIN map = DOMAIN sessions
        /\ \A k \in DOMAIN sessions \ {old} : map[k] = sessions[k]
        /\ map[old] = [sessions[old] EXCEPT !.revoked = TRUE]
    BY RevokedType DEF SessionTypeOK
  <1>2. /\ n \notin DOMAIN sessions
        /\ sessions' = Opened(map, n, sessions[old].user,
                              sessions[old].login, old)
    BY DEF Refresh
  <1> HIDE DEF map
  <1>3. /\ DOMAIN sessions' = DOMAIN map \cup {n}
        /\ sessions'[n].user = sessions[old].user
        /\ sessions'[n].login = sessions[old].login
        /\ sessions'[n].from = old /\ ~sessions'[n].revoked
        /\ \A k \in DOMAIN map \ {n} : sessions'[k] = map[k]
    BY <1>2 DEF Opened
  <1>4. sessions'[old] = [sessions[old] EXCEPT !.revoked = TRUE]
    BY <1>1, <1>2, <1>3
  <1>5. /\ sessions'[old].user = sessions[old].user
        /\ sessions'[old].login = sessions[old].login
        /\ sessions'[old].from = sessions[old].from /\ sessions'[old].revoked
    <2>1. sessions[old] \in SessionRecord
      BY DEF SessionTypeOK
    <2> QED
      BY <1>4, <2>1 DEF SessionRecord
  <1> QED
    BY <1>1, <1>2, <1>3, <1>5

LEMMA LogoutFacts ==
  ASSUME SessionTypeOK, NEW t \in DOMAIN sessions, NEW n \in DOMAIN sessions,
         Logout(t, n)
  PROVE  /\ DOMAIN sessions' = DOMAIN sessions
         /\ sessions'[n] = [sessions[n] EXCEPT !.revoked = TRUE]
         /\ \A k \in DOMAIN sessions \ {n} : sessions'[k] = sessions[k]
  BY RevokedType DEF Logout, SessionTypeOK

\* The sessions are the ones there were, each with the user, the login and the
\* predecessor it had, and revoked if it was.
Quiet ==
  /\ DOMAIN sessions' = DOMAIN sessions
  /\ \A s \in DOMAIN sessions :
       /\ sessions'[s].user = sessions[s].user
       /\ sessions'[s].login = sessions[s].login
       /\ sessions'[s].from = sessions[s].from
       /\ sessions[s].revoked => sessions'[s].revoked

\* Every step that opens no session is quiet.
LEMMA QuietSteps ==
  ASSUME SessionTypeOK
  PROVE  /\ \A a \in Address : LoginFails(a) => Quiet
         /\ \A t, s \in DOMAIN sessions : Logout(t, s) => Quiet
         /\ ClockStep => Quiet
         /\ UNCHANGED authVars => Quiet
  <1>0. \A s \in DOMAIN sessions : sessions[s] \in SessionRecord
    BY DEF SessionTypeOK
  <1>1. ASSUME NEW a \in Address, LoginFails(a) PROVE Quiet
    BY <1>1 DEF LoginFails, Quiet
  <1>2. ASSUME NEW t \in DOMAIN sessions, NEW n \in DOMAIN sessions, Logout(t, n)
        PROVE  Quiet
    <2>1. /\ DOMAIN sessions' = DOMAIN sessions
          /\ sessions'[n] = [sessions[n] EXCEPT !.revoked = TRUE]
          /\ \A k \in DOMAIN sessions \ {n} : sessions'[k] = sessions[k]
      BY <1>2, LogoutFacts
    <2>2. sessions'[n].user = sessions[n].user /\ sessions'[n].login = sessions[n].login
          /\ sessions'[n].from = sessions[n].from /\ sessions'[n].revoked
      BY <1>0, <2>1 DEF SessionRecord
    <2> QED
      BY <2>1, <2>2 DEF Quiet
  <1>3. ASSUME ClockStep PROVE Quiet
    BY <1>0, <1>3 DEF ClockStep, SessionRecord, Quiet
  <1>4. ASSUME UNCHANGED authVars PROVE Quiet
    BY <1>4 DEF authVars, Quiet
  <1> QED
    BY <1>1, <1>2, <1>3, <1>4

-----------------------------------------------------------------------------
(* Rotation.  That a token works once needs that a session somebody replaced *)
(* is revoked; that a login has one live session needs that logins are       *)
(* sessions, so that a new one is nobody's login yet.                        *)

LoginsAreSessions ==
  \A s \in DOMAIN sessions : sessions[s].login \in DOMAIN sessions

RotationInv == LoginsAreSessions /\ OneLiveSession /\ TokenUsedOnce

LEMMA QuietKeeps == RotationInv /\ Quiet => RotationInv'
  BY DEF RotationInv, LoginsAreSessions, OneLiveSession, TokenUsedOnce, Quiet

LEMMA LoginKeeps ==
  ASSUME SessionTypeOK, RotationInv,
         NEW a \in Address, NEW user \in User, NEW n \in SessionId,
         Login(user, a, n)
  PROVE  RotationInv'
  <1>0. /\ n \notin DOMAIN sessions /\ DOMAIN sessions' = DOMAIN sessions \cup {n}
        /\ sessions'[n].login = n /\ sessions'[n].from = None
        /\ \A k \in DOMAIN sessions : sessions'[k] = sessions[k]
    BY LoginFacts, Zenon
  <1>1. LoginsAreSessions'
    BY <1>0 DEF RotationInv, LoginsAreSessions
  <1>2. OneLiveSession'
    <2>1. \A s \in DOMAIN sessions : sessions'[s].login # n
      BY <1>0 DEF RotationInv, LoginsAreSessions
    <2> QED
      BY <1>0, <2>1 DEF RotationInv, OneLiveSession
  <1>3. TokenUsedOnce'
    <2> SUFFICES ASSUME NEW s \in DOMAIN sessions', sessions'[s].from # None
                 PROVE  LET o == sessions'[s].from IN
                        /\ o \in DOMAIN sessions' /\ sessions'[o].revoked
                        /\ sessions'[o].user = sessions'[s].user
                        /\ sessions'[o].login = sessions'[s].login
                        /\ \A q \in DOMAIN sessions' \ {s} : sessions'[q].from # o
      BY DEF TokenUsedOnce
    <2>1. s \in DOMAIN sessions /\ sessions'[s] = sessions[s]
      BY <1>0
    <2> QED
      BY <1>0, <2>1 DEF RotationInv, TokenUsedOnce
  <1> QED
    BY <1>1, <1>2, <1>3 DEF RotationInv

LEMMA RefreshKeeps ==
  ASSUME SessionTypeOK, RotationInv,
         NEW old \in DOMAIN sessions, NEW n \in SessionId, Refresh(old, n)
  PROVE  RotationInv'
  <1>0. /\ n \notin DOMAIN sessions /\ DOMAIN sessions' = DOMAIN sessions \cup {n}
        /\ sessions'[n].user = sessions[old].user
        /\ sessions'[n].login = sessions[old].login
        /\ sessions'[n].from = old /\ ~sessions'[n].revoked
        /\ sessions'[old].user = sessions[old].user
        /\ sessions'[old].login = sessions[old].login
        /\ sessions'[old].from = sessions[old].from
        /\ sessions'[old].revoked
        /\ \A k \in DOMAIN sessions \ {old} : sessions'[k] = sessions[k]
    BY RefreshFacts, Zenon
  <1>1. ~sessions[old].revoked
    BY DEF Refresh, Usable
  <1>2. LoginsAreSessions'
    BY <1>0 DEF RotationInv, LoginsAreSessions
  <1>3. OneLiveSession'
    <2> SUFFICES ASSUME NEW s \in DOMAIN sessions', NEW q \in DOMAIN sessions',
                        sessions'[s].login = sessions'[q].login,
                        ~sessions'[s].revoked, ~sessions'[q].revoked, s # q
                 PROVE  FALSE
      BY DEF OneLiveSession
    <2>1. s # old /\ q # old
      BY <1>0
    <2>2. CASE s # n /\ q # n
      BY <1>0, <2>1, <2>2 DEF RotationInv, OneLiveSession
    <2>3. CASE s = n
      BY <1>0, <1>1, <2>1, <2>3 DEF RotationInv, OneLiveSession
    <2>4. CASE q = n
      BY <1>0, <1>1, <2>1, <2>4 DEF RotationInv, OneLiveSession
    <2> QED
      BY <2>2, <2>3, <2>4
  <1>4. TokenUsedOnce'
    <2>0. \A s \in DOMAIN sessions : sessions[s].from # old
      <3>1. old # None
        BY SessionAssumption DEF SessionTypeOK
      <3> QED
        BY <1>1, <3>1 DEF RotationInv, TokenUsedOnce
    <2> SUFFICES ASSUME NEW s \in DOMAIN sessions', sessions'[s].from # None
                 PROVE  LET o == sessions'[s].from IN
                        /\ o \in DOMAIN sessions' /\ sessions'[o].revoked
                        /\ sessions'[o].user = sessions'[s].user
                        /\ sessions'[o].login = sessions'[s].login
                        /\ \A q \in DOMAIN sessions' \ {s} : sessions'[q].from # o
      BY DEF TokenUsedOnce
    <2>1. CASE s = n
      BY <1>0, <2>0, <2>1
    <2>2. CASE s # n
      <3> DEFINE o == sessions[s].from
      <3>1. s \in DOMAIN sessions /\ sessions'[s].from = o /\ o # None
            /\ sessions'[s].user = sessions[s].user
            /\ sessions'[s].login = sessions[s].login
        BY <1>0, <2>2
      <3>2. /\ o \in DOMAIN sessions /\ sessions[o].revoked
            /\ sessions[o].user = sessions[s].user
            /\ sessions[o].login = sessions[s].login
            /\ \A q \in DOMAIN sessions \ {s} : sessions[q].from # o
        BY <3>1 DEF RotationInv, TokenUsedOnce
      <3>3. o # old
        BY <2>0, <3>1
      <3> HIDE DEF o
      <3> QED
        BY <1>0, <3>1, <3>2, <3>3
    <2> QED
      BY <2>1, <2>2
  <1> QED
    BY <1>2, <1>3, <1>4 DEF RotationInv

LEMMA RotationStep ==
  SessionTypeOK /\ RotationInv /\ [SessionNext]_authVars => RotationInv'
  BY QuietSteps, QuietKeeps, LoginKeeps, RefreshKeeps DEF SessionNext

LEMMA RotationCorrect == SessionSpec => [](SessionTypeOK /\ RotationInv)
  <1>1. SessionInit => RotationInv
    BY DEF SessionInit, RotationInv, LoginsAreSessions, OneLiveSession,
           TokenUsedOnce
  <1> QED
    BY <1>1, SessionTypeCorrect, RotationStep, PTL DEF SessionSpec

\* A login has at most one live session, however often and by however many
\* callers its tokens are presented.
THEOREM OneLive == SessionSpec => []OneLiveSession
  <1>1. RotationInv => OneLiveSession
    BY DEF RotationInv
  <1> QED
    BY <1>1, RotationCorrect, PTL

\* A refresh token works once.
THEOREM UsedOnce == SessionSpec => []TokenUsedOnce
  <1>1. RotationInv => TokenUsedOnce
    BY DEF RotationInv
  <1> QED
    BY <1>1, RotationCorrect, PTL

-----------------------------------------------------------------------------
(* The end of a login.                                                      *)

\* A step that opens no session and lengthens no time keeps a login over.
Ages ==
  /\ DOMAIN sessions' = DOMAIN sessions
  /\ \A s \in DOMAIN sessions :
       /\ sessions'[s].login = sessions[s].login
       /\ sessions[s].revoked => sessions'[s].revoked
       /\ sessions[s].expires = Past => sessions'[s].expires = Past
       /\ sessions'[s].access <= sessions[s].access

LEMMA AgingSteps ==
  ASSUME SessionTypeOK
  PROVE  /\ \A a \in Address : LoginFails(a) => Ages
         /\ \A t, n \in DOMAIN sessions : Logout(t, n) => Ages
         /\ ClockStep => Ages
  <1>0. \A s \in DOMAIN sessions :
          sessions[s] \in SessionRecord /\ sessions[s].access <= sessions[s].access
    BY DEF SessionTypeOK, SessionRecord, Time, Past
  <1>1. ASSUME NEW a \in Address, LoginFails(a) PROVE Ages
    BY <1>0, <1>1 DEF LoginFails, Ages
  <1>2. ASSUME NEW t \in DOMAIN sessions, NEW n \in DOMAIN sessions, Logout(t, n)
        PROVE  Ages
    <2>1. /\ DOMAIN sessions' = DOMAIN sessions
          /\ sessions'[n] = [sessions[n] EXCEPT !.revoked = TRUE]
          /\ \A k \in DOMAIN sessions \ {n} : sessions'[k] = sessions[k]
      BY <1>2, LogoutFacts
    <2>2. /\ sessions'[n].login = sessions[n].login /\ sessions'[n].revoked
          /\ sessions'[n].expires = sessions[n].expires
          /\ sessions'[n].access = sessions[n].access
      BY <1>0, <2>1 DEF SessionRecord
    <2> QED
      BY <1>0, <2>1, <2>2 DEF Ages
  <1>3. ASSUME ClockStep PROVE Ages
    <2>1. ASSUME NEW s \in DOMAIN sessions
          PROVE  /\ sessions'[s].login = sessions[s].login
                 /\ sessions'[s].revoked = sessions[s].revoked
                 /\ sessions'[s].expires = Older(sessions[s].expires)
                 /\ sessions'[s].access = Older(sessions[s].access)
      BY <1>0, <1>3, <2>1 DEF ClockStep, SessionRecord
    <2>2. Older(Past) = Past
      BY DEF Older, Past
    <2>3. \A s \in DOMAIN sessions :
            Older(sessions[s].access) <= sessions[s].access
      BY <1>0, OlderType DEF SessionRecord
    <2>4. DOMAIN sessions' = DOMAIN sessions
      BY <1>3 DEF ClockStep
    <2> QED
      BY <2>1, <2>2, <2>3, <2>4 DEF Ages
  <1> QED
    BY <1>1, <1>2, <1>3

\* What OverForGood says of one login and one step.
Over(l) ==
  LoginOver(l) =>
    /\ LoginOver(l)'
    /\ \A s \in DOMAIN sessions' :
         sessions'[s].login = l =>
           s \in DOMAIN sessions /\ sessions'[s].access <= sessions[s].access

LEMMA AgingKeepsOver == ASSUME NEW l, Ages PROVE Over(l)
  BY DEF Ages, Over, LoginOver

LEMMA OverStep ==
  ASSUME SessionTypeOK, SessionNext, NEW l \in DOMAIN sessions
  PROVE  Over(l)
  <1>0. \A s \in DOMAIN sessions : sessions[s].access <= sessions[s].access
    BY DEF SessionTypeOK, SessionRecord, Time, Past
  <1>1. ASSUME NEW a \in Address, NEW user \in User, NEW n \in SessionId,
               Login(user, a, n)
        PROVE  Over(l)
    <2>1. /\ n \notin DOMAIN sessions /\ DOMAIN sessions' = DOMAIN sessions \cup {n}
          /\ sessions'[n].login = n /\ sessions'[n].from = None
          /\ \A k \in DOMAIN sessions : sessions'[k] = sessions[k]
      BY <1>1, LoginFacts, Zenon
    <2> QED
      BY <1>0, <2>1 DEF Over, LoginOver
  <1>2. ASSUME NEW old \in DOMAIN sessions, NEW n \in SessionId, Refresh(old, n),
               LoginOver(l)
        PROVE  Over(l)
    <2>1. sessions[old].login # l
      BY <1>2 DEF Refresh, Usable, LoginOver
    <2>2. /\ DOMAIN sessions' = DOMAIN sessions \cup {n}
          /\ sessions'[n].login = sessions[old].login
          /\ sessions'[old].login = sessions[old].login
          /\ \A k \in DOMAIN sessions \ {old} : sessions'[k] = sessions[k]
      BY <1>2, RefreshFacts, Zenon
    <2>3. ASSUME NEW s \in DOMAIN sessions', sessions'[s].login = l
          PROVE  s \in DOMAIN sessions /\ sessions'[s] = sessions[s]
      BY <2>1, <2>2, <2>3
    <2>4. LoginOver(l)'
      BY <1>2, <2>3 DEF LoginOver
    <2> QED
      BY <1>0, <2>3, <2>4 DEF Over
  <1>3. ASSUME ~LoginOver(l) PROVE Over(l)
    BY <1>3 DEF Over
  <1> QED
    BY <1>1, <1>2, <1>3, AgingSteps, AgingKeepsOver DEF SessionNext

\* A login that is over stays over, and the access tokens signed for it only
\* get older.
THEOREM EndIsFinal == SessionSpec => OverForGood
  <1>1. SessionTypeOK /\ [SessionNext]_authVars =>
          [\A l \in DOMAIN sessions :
             LoginOver(l) =>
               /\ LoginOver(l)'
               /\ \A s \in DOMAIN sessions' :
                    sessions'[s].login = l =>
                      s \in DOMAIN sessions
                      /\ sessions'[s].access <= sessions[s].access]_authVars
    BY OverStep DEF Over
  <1> QED
    BY <1>1, SessionTypeCorrect, PTL DEF SessionSpec, OverForGood

-----------------------------------------------------------------------------
(* The limit on failures.                                                   *)

LEMMA FailuresStep ==
  SessionTypeOK /\ FailuresBounded /\ [SessionNext]_authVars => FailuresBounded'
  <1> SUFFICES ASSUME SessionTypeOK, FailuresBounded, [SessionNext]_authVars,
                      NEW b \in Address, attempts'[b].reset > 0
               PROVE  attempts'[b].count <= MaxFailures
    BY DEF FailuresBounded
  <1>0. /\ attempts \in [Address -> Attempt] /\ attempts[b] \in Attempt
        /\ attempts[b].reset > 0 => attempts[b].count <= MaxFailures
    BY DEF SessionTypeOK, FailuresBounded
  <1>1. ASSUME NEW a \in Address, LoginFails(a)
        PROVE  attempts'[b].count <= MaxFailures
    <2>1. CASE a = b
      <3>1. attempts'[b] = Failure(b)
        BY <1>0, <1>1, <2>1 DEF LoginFails
      <3>2. CASE attempts[b].reset = Past
        BY <3>1, <3>2, SessionAssumption DEF Failure
      <3>3. CASE attempts[b].reset # Past
        <4>1. /\ attempts'[b].count = attempts[b].count + 1
              /\ attempts'[b].reset = attempts[b].reset
          BY <1>0, <3>1, <3>3 DEF Failure, Attempt
        <4>2. attempts[b].count < MaxFailures
          BY <1>0, <1>1, <2>1, <4>1, SessionAssumption
             DEF LoginFails, Limited, Attempt
        <4> QED
          BY <1>0, <4>1, <4>2, SessionAssumption DEF Attempt
      <3> QED
        BY <3>2, <3>3
    <2>2. CASE a # b
      BY <1>0, <1>1, <2>2 DEF LoginFails
    <2> QED
      BY <2>1, <2>2
  <1>2. ASSUME NEW a \in Address, NEW user \in User, NEW n \in SessionId,
               Login(user, a, n)
        PROVE  attempts'[b].count <= MaxFailures
    BY <1>0, <1>2, SessionAssumption DEF Login, NoAttempt
  <1>3. CASE ClockStep
    <2>1. attempts'[b].count = attempts[b].count
          /\ attempts'[b].reset = Older(attempts[b].reset)
      BY <1>0, <1>3 DEF ClockStep, Attempt
    <2>2. attempts[b].reset > 0
      BY <1>0, <2>1 DEF Older, Past, Attempt, Time
    <2> QED
      BY <1>0, <2>1, <2>2
  <1>4. CASE UNCHANGED attempts
    BY <1>0, <1>4
  <1> QED
    BY <1>1, <1>2, <1>3, <1>4 DEF SessionNext, Refresh, Logout, authVars

\* While a window lasts an address fails at most MaxFailures times.
THEOREM FailuresLimited == SessionSpec => []FailuresBounded
  <1>1. SessionInit => FailuresBounded
    BY DEF SessionInit, FailuresBounded, NoAttempt, Past
  <1> QED
    BY <1>1, SessionTypeCorrect, FailuresStep, PTL DEF SessionSpec

-----------------------------------------------------------------------------
(* The invariant.                                                           *)

Known == DOMAIN sessions \cup {None}

\* The tab and its calls hold tokens of sessions that exist, an answer that
\* names somebody bears one, and a refresh is in flight exactly while the tab
\* remembers its promise.
TabInv ==
  /\ SessionTypeOK /\ TabTypeOK
  /\ tab.access \in Known /\ tab.kept \in Known
  /\ tab.access # None => tab.kept # None
  /\ \A c \in Call : calls[c] # NoCall =>
       /\ calls[c].token \in Known /\ calls[c].names \in Known
       /\ calls[c].kind = "logout" /\ calls[c].token # None => calls[c].names # None
       /\ calls[c].at = "accepted" /\ calls[c].kind \in {"login", "me"}
            => calls[c].token # None
  /\ refreshes = IF tab.refreshing THEN 1 ELSE 0
  /\ \A c \in Call : calls[c].at = "waiting" => tab.refreshing

\* The shape of a call.
LEMMA CallShape ==
  ASSUME TabTypeOK, NEW c \in Call
  PROVE  /\ calls[c].at = "idle" <=> calls[c] = NoCall
         /\ calls[c] # NoCall => calls[c] \in ApiCall
  BY DEF TabTypeOK, ApiCall, NoCall

\* No step at the server forgets a session.
LEMMA SessionsStay ==
  ASSUME SessionTypeOK, SessionNext
  PROVE  /\ SessionTypeOK' /\ Known \subseteq Known'
  <1>1. SessionTypeOK'
    BY TypeStep
  <1>2. ASSUME NEW a \in Address, LoginFails(a) PROVE Known \subseteq Known'
    BY <1>2 DEF LoginFails, Known
  <1>3. ASSUME NEW a \in Address, NEW user \in User, NEW s \in SessionId, Login(user, a, s)
        PROVE  Known \subseteq Known'
    BY <1>3, LoginFacts DEF Known
  <1>4. ASSUME NEW old \in DOMAIN sessions, NEW new \in SessionId, Refresh(old, new)
        PROVE  Known \subseteq Known'
    BY <1>4, RefreshFacts DEF Known
  <1>5. ASSUME NEW t \in DOMAIN sessions, NEW s \in DOMAIN sessions, Logout(t, s)
        PROVE  Known \subseteq Known'
    BY <1>5, RevokedType DEF Logout, SessionTypeOK, Known
  <1>6. ASSUME ClockStep PROVE Known \subseteq Known'
    BY <1>6 DEF ClockStep, Known
  <1> QED
    BY <1>1, <1>2, <1>3, <1>4, <1>5, <1>6 DEF SessionNext

\* What a step must show: one call becomes another that holds to the invariant,
\* while the tab keeps its promise of a refresh and the sessions stay.
LEMMA OneCall ==
  ASSUME TabInv, NEW c \in Call, NEW call \in ApiCall \cup {NoCall},
         calls' = [calls EXCEPT ![c] = call],
         call # NoCall => /\ call.token \in Known' /\ call.names \in Known'
                          /\ call.kind = "logout" /\ call.token # None
                               => call.names # None
                          /\ call.at = "accepted" /\ call.kind \in {"login", "me"}
                               => call.token # None
                          /\ call.at = "waiting" => tab'.refreshing,
         SessionTypeOK', Known \subseteq Known',
         tab' \in Tab, tab'.access \in Known', tab'.kept \in Known',
         tab'.access # None => tab'.kept # None,
         refreshes' = IF tab'.refreshing THEN 1 ELSE 0,
         tab.refreshing => tab'.refreshing
  PROVE  TabInv'
  <1>1. calls \in [Call -> ApiCall \cup {NoCall}]
    BY DEF TabInv, TabTypeOK
  <1>2. calls' \in [Call -> ApiCall \cup {NoCall}] /\ calls'[c] = call
        /\ \A d \in Call \ {c} : calls'[d] = calls[d]
    BY <1>1
  <1>3. TabTypeOK'
    BY <1>2 DEF TabTypeOK
  <1>4. ASSUME NEW d \in Call, calls'[d] # NoCall
        PROVE  /\ calls'[d].token \in Known' /\ calls'[d].names \in Known'
               /\ calls'[d].kind = "logout" /\ calls'[d].token # None
                    => calls'[d].names # None
               /\ calls'[d].at = "accepted" /\ calls'[d].kind \in {"login", "me"}
                    => calls'[d].token # None
    BY <1>2, <1>4 DEF TabInv
  <1>5. ASSUME NEW d \in Call, calls'[d].at = "waiting"
        PROVE  tab'.refreshing
    <2>1. CASE d = c
      BY <1>2, <1>5, <2>1 DEF NoCall
    <2>2. CASE d # c
      BY <1>2, <1>5, <2>2 DEF TabInv
    <2> QED
      BY <2>1, <2>2
  <1> QED
    BY <1>3, <1>4, <1>5 DEF TabInv

\* An answer, or the news of it, changes only where a call stands.
LEMMA Moves ==
  ASSUME TabInv, NEW c \in Call, calls[c] # NoCall, NEW at,
         at \in {"sent", "accepted", "unauthorized", "failed", "waiting",
                 "refused", "unreached"}
  PROVE  LET call == [calls[c] EXCEPT !.at = at] IN
         /\ Answer(c, at) <=> calls' = [calls EXCEPT ![c] = call]
         /\ call \in ApiCall /\ call.at = at /\ call.kind = calls[c].kind
         /\ call.token = calls[c].token /\ call.names = calls[c].names
  <1>1. calls[c] \in ApiCall
    BY CallShape DEF TabInv
  <1> QED
    BY <1>1 DEF ApiCall, Answer

\* A call that goes its way without a refresh leaves the rest as it is.
LEMMA Answered ==
  ASSUME TabInv, NEW c \in Call, calls[c] # NoCall,
         NEW at \in {"accepted", "unauthorized", "failed"},
         Answer(c, at), at = "accepted" => calls[c].token # None,
         SessionTypeOK', Known \subseteq Known', UNCHANGED <<tab, refreshes>>
  PROVE  TabInv'
  <1> DEFINE call == [calls[c] EXCEPT !.at = at]
  <1>1. /\ calls' = [calls EXCEPT ![c] = call]
        /\ call \in ApiCall /\ call.at = at
        /\ call.token = calls[c].token /\ call.names = calls[c].names
        /\ call.kind = calls[c].kind
    BY Moves
  <1>2. /\ calls[c].token \in Known /\ calls[c].names \in Known
        /\ calls[c].kind = "logout" /\ calls[c].token # None => calls[c].names # None
    BY DEF TabInv
  <1>3. /\ tab' \in Tab /\ tab'.access \in Known' /\ tab'.kept \in Known'
        /\ tab'.access # None => tab'.kept # None
        /\ refreshes' = IF tab'.refreshing THEN 1 ELSE 0
    BY DEF TabInv, TabTypeOK
  <1> HIDE DEF call
  <1> QED
    BY <1>1, <1>2, <1>3, OneCall

-----------------------------------------------------------------------------
(* Every step keeps it.                                                     *)

LEMMA SendKeeps ==
  ASSUME TabInv, NEW c \in Call, NEW kind \in {"login", "logout", "other"}, Send(c, kind)
  PROVE  TabInv'
  <1>1. CallOf(kind) \in ApiCall
    BY DEF TabInv, TabTypeOK, Tab, CallOf, ApiCall
  <1>2. /\ calls' = [calls EXCEPT ![c] = CallOf(kind)]
        /\ UNCHANGED <<authVars, tab, refreshes>>
    BY DEF Send
  <1>3. /\ CallOf(kind).token = tab.access /\ CallOf(kind).names = tab.kept
        /\ CallOf(kind).at = "sent"
    BY DEF CallOf
  <1>4. SessionTypeOK' /\ Known' = Known
    BY <1>2 DEF TabInv, SessionTypeOK, authVars, Known
  <1>5. /\ tab' \in Tab /\ tab'.access \in Known' /\ tab'.kept \in Known'
        /\ tab'.access # None => tab'.kept # None
        /\ refreshes' = IF tab'.refreshing THEN 1 ELSE 0
    BY <1>2, <1>4 DEF TabInv, TabTypeOK
  <1>6. tab.access \in Known /\ tab.kept \in Known /\ (tab.access # None => tab.kept # None)
    BY DEF TabInv
  <1> QED
    BY <1>1, <1>2, <1>3, <1>4, <1>5, <1>6, OneCall

LEMMA ServedKeeps ==
  ASSUME TabInv, NEW c \in Call, ServeCall(c) \/ ServeLogout(c) \/ ServeLogin(c) \/ Lose(c)
  PROVE  TabInv'
  <1>0. calls[c] # NoCall
    BY CallShape DEF TabInv, ServeCall, ServeLogout, ServeLogin, Lose
  <1>1. UNCHANGED authVars => SessionTypeOK' /\ Known' = Known
    BY DEF TabInv, SessionTypeOK, authVars, Known
  <1>2. CASE ServeCall(c)
    BY <1>0, <1>1, <1>2, Answered DEF ServeCall, Bears
  <1>3. CASE ServeLogout(c)
    <2>1. CASE Bears(c) /\ Logout(calls[c].token, calls[c].names) /\ Answer(c, "accepted")
      <3>1. calls[c].token \in DOMAIN sessions /\ calls[c].names \in DOMAIN sessions
        BY <1>0, <1>3, <2>1 DEF TabInv, Bears, Known, ServeLogout
      <3>2. SessionTypeOK' /\ Known \subseteq Known'
        BY <2>1, <3>1, SessionsStay DEF TabInv, SessionNext
      <3> QED
        BY <1>0, <1>3, <2>1, <3>2, Answered DEF ServeLogout, Bears
    <2> QED
      BY <1>0, <1>1, <1>3, <2>1, Answered DEF ServeLogout
  <1>4. CASE ServeLogin(c)
    <2>1. ASSUME NEW user \in User, NEW s \in SessionId, Login(user, Here, s),
                 calls' = [calls EXCEPT ![c].at = "accepted", ![c].token = s]
          PROVE  TabInv'
      <3> DEFINE call == [calls[c] EXCEPT !.at = "accepted", !.token = s]
      <3>0. SessionNext /\ s \in Known'
        <4>1. Here \in Address
          BY BrowserAssumption
        <4>2. SessionNext
          BY <2>1, <4>1, Zenon DEF SessionNext
        <4>3. DOMAIN sessions' = DOMAIN sessions \cup {s}
          BY <2>1, <4>1, LoginFacts, Zenon
        <4> QED
          BY <4>2, <4>3 DEF Known
      <3>1. SessionTypeOK' /\ Known \subseteq Known' /\ s \in Known'
        BY <3>0, SessionsStay DEF TabInv
      <3>2. calls \in [Call -> ApiCall \cup {NoCall}] /\ calls[c] \in ApiCall
        BY <1>0, CallShape DEF TabInv, TabTypeOK
      <3>3. calls' = [calls EXCEPT ![c] = call]
        BY <2>1, <3>2
      <3>4. /\ call \in ApiCall /\ call.at = "accepted" /\ call.token = s
            /\ call.names = calls[c].names /\ call.kind = "login"
        BY <1>4, <3>2 DEF ApiCall, ServeLogin
      <3>5. calls[c].names \in Known' /\ s # None
        BY <1>0, <3>1, SessionAssumption DEF TabInv
      <3>6. /\ tab' \in Tab /\ tab'.access \in Known' /\ tab'.kept \in Known'
            /\ tab'.access # None => tab'.kept # None
            /\ refreshes' = IF tab'.refreshing THEN 1 ELSE 0
            /\ tab.refreshing => tab'.refreshing
        BY <1>4, <3>1 DEF TabInv, TabTypeOK, ServeLogin
      <3> HIDE DEF call
      <3> QED
        BY <3>1, <3>3, <3>4, <3>5, <3>6, OneCall
    <2>2. ASSUME LoginFails(Here) PROVE SessionTypeOK' /\ Known \subseteq Known'
      BY <2>2, SessionsStay, BrowserAssumption DEF TabInv, SessionNext
    <2>3. CASE Answer(c, "unauthorized") /\ (LoginFails(Here) \/ UNCHANGED authVars)
      BY <1>0, <1>1, <1>4, <2>2, <2>3, Answered DEF ServeLogin
    <2> QED
      BY <1>4, <2>1, <2>3 DEF ServeLogin
  <1>5. CASE Lose(c)
    BY <1>0, <1>1, <1>5, Answered DEF Lose
  <1> QED
    BY <1>2, <1>3, <1>4, <1>5

\* The call has returned: the tab is what the caller made of the answer.
LEMMA ReturnedKeeps ==
  ASSUME TabInv, NEW c \in Call, Returned(c), UNCHANGED <<authVars, refreshes>>,
         tab' \in Tab, tab'.access \in Known, tab'.kept \in Known,
         tab'.access # None => tab'.kept # None,
         tab'.refreshing = tab.refreshing
  PROVE  TabInv'
  <1>1. SessionTypeOK' /\ Known' = Known
    BY DEF TabInv, SessionTypeOK, authVars, Known
  <1>2. refreshes' = IF tab'.refreshing THEN 1 ELSE 0
    BY DEF TabInv
  <1> QED
    BY <1>1, <1>2, OneCall DEF Returned

LEMMA HeardKeeps ==
  ASSUME TabInv, NEW c \in Call, HearUnrenewed(c) \/ HearAccepted(c) \/ HearFailed(c)
  PROVE  TabInv'
  <1>0. /\ tab \in Tab /\ tab.access \in Known /\ tab.kept \in Known
        /\ tab.access # None => tab.kept # None
    BY DEF TabInv, TabTypeOK
  <1>1. /\ SignedOut(tab) \in Tab /\ SignedOut(tab).access = None
        /\ SignedOut(tab).kept = tab.kept /\ SignedOut(tab).refreshing = tab.refreshing
    BY <1>0 DEF SignedOut, Tab
  <1>2. \A t \in Tab, b \in BOOLEAN :
          LET u == [t EXCEPT !.loading = b] IN
          /\ u \in Tab /\ u.access = t.access /\ u.kept = t.kept
          /\ u.refreshing = t.refreshing
    BY DEF Tab
  <1>3. tab.loading \in BOOLEAN
    BY <1>0 DEF Tab
  <1>4. CASE HearUnrenewed(c)
    <2>1. Returned(c) /\ UNCHANGED <<authVars, refreshes>>
      BY <1>4 DEF HearUnrenewed
    <2> DEFINE t == SignedOut(tab)
    <2>2. tab' = [t EXCEPT !.loading = tab.loading /\ calls[c].kind # "me"]
      BY <1>4 DEF HearUnrenewed
    <2>3. /\ t \in Tab /\ t.access \in Known /\ t.kept \in Known
          /\ t.access # None => t.kept # None
          /\ t.refreshing = tab.refreshing
      BY <1>0, <1>1 DEF Known
    <2> HIDE DEF t
    <2> QED
      BY <1>2, <2>1, <2>2, <2>3, ReturnedKeeps
  <1>5. CASE HearFailed(c)
    <2>1. Returned(c) /\ UNCHANGED <<authVars, refreshes>>
      BY <1>5 DEF HearFailed
    <2> DEFINE t == IF Ending(calls[c].kind) THEN SignedOut(tab) ELSE tab
    <2>2. tab' = [t EXCEPT !.loading = tab.loading /\ calls[c].kind # "me"]
      BY <1>5 DEF HearFailed
    <2>3. /\ t \in Tab /\ t.access \in Known /\ t.kept \in Known
          /\ t.access # None => t.kept # None
          /\ t.refreshing = tab.refreshing
      BY <1>0, <1>1 DEF Known
    <2> HIDE DEF t
    <2> QED
      BY <1>2, <2>1, <2>2, <2>3, ReturnedKeeps
  <1>6. CASE HearAccepted(c)
    <2>1. Returned(c) /\ UNCHANGED <<authVars, refreshes>> /\ calls[c].at = "accepted"
      BY <1>6 DEF HearAccepted
    <2>2. /\ calls[c] \in ApiCall
          /\ calls[c].kind \in {"login", "me"} => calls[c].token \in DOMAIN sessions
      BY <2>1, CallShape DEF TabInv, Known, NoCall
    <2>3. calls[c].kind \in {"login", "logout", "me", "other"}
      BY <2>2 DEF ApiCall
    <2>4. \A s \in DOMAIN sessions : s \in SessionId /\ sessions[s].user \in User
      BY DEF TabInv, SessionTypeOK, SessionRecord
    <2>5. CASE calls[c].kind = "login"
      <3>1. tab' = SignedIn(tab, calls[c].token)
        BY <1>6, <2>5 DEF HearAccepted
      <3>2. /\ tab' \in Tab /\ tab'.access = calls[c].token
            /\ tab'.kept = calls[c].token /\ tab'.refreshing = tab.refreshing
        BY <1>0, <2>2, <2>4, <2>5, <3>1 DEF SignedIn, Tab
      <3> QED
        BY <2>1, <2>2, <2>5, <3>2, ReturnedKeeps DEF Known
    <2>6. CASE calls[c].kind = "logout"
      BY <1>0, <1>1, <1>6, <2>1, <2>6, ReturnedKeeps DEF HearAccepted, Known
    <2>7. CASE calls[c].kind = "me"
      <3>1. tab' = [tab EXCEPT !.user = sessions[calls[c].token].user, !.loading = FALSE]
        BY <1>6, <2>7 DEF HearAccepted
      <3>2. /\ tab' \in Tab /\ tab'.access = tab.access
            /\ tab'.kept = tab.kept /\ tab'.refreshing = tab.refreshing
        BY <1>0, <2>2, <2>4, <2>7, <3>1 DEF Tab
      <3> QED
        BY <1>0, <2>1, <3>2, ReturnedKeeps
    <2>8. CASE calls[c].kind = "other"
      BY <1>0, <1>6, <2>1, <2>8, ReturnedKeeps DEF HearAccepted
    <2> QED
      BY <2>3, <2>5, <2>6, <2>7, <2>8
  <1> QED
    BY <1>4, <1>5, <1>6

LEMMA UnauthorizedKeeps ==
  ASSUME TabInv, NEW c \in Call, HearUnauthorized(c)
  PROVE  TabInv'
  <1> DEFINE call == [calls[c] EXCEPT !.at = "waiting"]
  <1>1. calls[c] # NoCall
    BY CallShape DEF TabInv, HearUnauthorized
  <1>2. /\ calls' = [calls EXCEPT ![c] = call]
        /\ call \in ApiCall /\ call.at = "waiting" /\ call.kind = calls[c].kind
        /\ call.token = calls[c].token /\ call.names = calls[c].names
    BY <1>1, Moves DEF HearUnauthorized
  <1>3. SessionTypeOK' /\ Known' = Known
    BY DEF HearUnauthorized, TabInv, SessionTypeOK, authVars, Known
  <1>4. tab' = [tab EXCEPT !.refreshing = TRUE]
    BY DEF HearUnauthorized
  <1>5. /\ tab' \in Tab /\ tab'.access = tab.access /\ tab'.kept = tab.kept
        /\ tab'.refreshing
    BY <1>4 DEF TabInv, TabTypeOK, Tab
  <1>6. refreshes' = 1
    BY DEF HearUnauthorized, Joins, TabInv
  <1>7. /\ calls[c].token \in Known /\ calls[c].names \in Known
        /\ calls[c].kind = "logout" /\ calls[c].token # None => calls[c].names # None
        /\ tab.access \in Known /\ tab.kept \in Known
        /\ tab.access # None => tab.kept # None
    BY <1>1 DEF TabInv
  <1> HIDE DEF call
  <1> QED
    BY <1>2, <1>3, <1>5, <1>6, <1>7, OneCall

LEMMA SettleKeeps ==
  ASSUME TabInv, NEW outcome \in {"refused", "unreached"}, Settle(outcome)
  PROVE  TabInv'
  <1>1. SessionTypeOK' /\ Known' = Known
    BY DEF Settle, TabInv, SessionTypeOK, authVars, Known
  <1>2. /\ tab \in Tab /\ tab' = [tab EXCEPT !.refreshing = FALSE]
        /\ tab.refreshing /\ refreshes = 1 /\ refreshes' = 0
    BY DEF Settle, TabInv, TabTypeOK
  <1>3. /\ tab' \in Tab /\ tab'.access = tab.access /\ tab'.kept = tab.kept
        /\ ~tab'.refreshing
    BY <1>2 DEF Tab
  <1>4. ASSUME NEW c \in Call
        PROVE  /\ calls'[c] \in ApiCall \cup {NoCall}
               /\ calls'[c].at # "waiting"
               /\ calls'[c] # NoCall =>
                    /\ calls'[c].token \in Known /\ calls'[c].names \in Known
                    /\ calls'[c].kind = "logout" /\ calls'[c].token # None
                         => calls'[c].names # None
                    /\ calls'[c].at = "accepted" /\ calls'[c].kind \in {"login", "me"}
                         => calls'[c].token # None
    <2>1. CASE calls[c].at = "waiting"
      <3>1. calls[c] # NoCall /\ calls[c] \in ApiCall
        BY <2>1, CallShape DEF TabInv
      <3>2. calls'[c] = [calls[c] EXCEPT !.at = outcome]
        BY <2>1 DEF Settle
      <3>3. /\ calls'[c] \in ApiCall /\ calls'[c].at = outcome
            /\ calls'[c].token = calls[c].token /\ calls'[c].names = calls[c].names
            /\ calls'[c].kind = calls[c].kind
        BY <3>1, <3>2 DEF ApiCall
      <3> QED
        BY <3>1, <3>3 DEF TabInv
    <2>2. CASE calls[c].at # "waiting"
      <3>1. calls'[c] = calls[c]
        BY <2>2 DEF Settle
      <3> QED
        BY <2>2, <3>1, CallShape DEF TabInv
    <2> QED
      BY <2>1, <2>2
  <1>5. calls' \in [Call -> ApiCall \cup {NoCall}]
    BY <1>4 DEF Settle
  <1>6. TabTypeOK'
    BY <1>2, <1>3, <1>5 DEF TabTypeOK
  <1> QED
    BY <1>1, <1>2, <1>3, <1>4, <1>6 DEF TabInv

LEMMA ReloadKeeps ==
  ASSUME TabInv, NEW c \in Call, Reload(c)
  PROVE  TabInv'
  <1> DEFINE asks == tab.access # None
  <1>1. SessionTypeOK' /\ Known' = Known
    BY DEF Reload, TabInv, SessionTypeOK, authVars, Known
  <1>2. /\ tab \in Tab /\ tab.access \in Known /\ tab.kept \in Known
        /\ tab.access # None => tab.kept # None
    BY DEF TabInv, TabTypeOK
  <1>3. tab' = [tab EXCEPT !.user = None, !.refreshing = FALSE, !.loading = asks]
    BY DEF Reload
  <1>4. /\ tab' \in Tab /\ tab'.access = tab.access /\ tab'.kept = tab.kept
        /\ ~tab'.refreshing
    BY <1>2, <1>3 DEF Tab
  <1>5. /\ CallOf("me") \in ApiCall /\ CallOf("me").at = "sent"
        /\ CallOf("me").token = tab.access /\ CallOf("me").names = tab.kept
    BY <1>2 DEF CallOf, ApiCall, Tab
  <1>6. \A d \in Call : calls'[d] = NoCall \/ calls'[d] = CallOf("me")
    BY DEF Reload
  <1>7. calls' \in [Call -> ApiCall \cup {NoCall}]
    BY <1>5, <1>6 DEF Reload
  <1>8. refreshes' = 0
    BY DEF Reload
  <1>9. TabTypeOK'
    BY <1>4, <1>7, <1>8 DEF TabTypeOK
  <1>10. \A d \in Call : calls'[d].at # "waiting"
    BY <1>5, <1>6 DEF NoCall
  <1>11. \A d \in Call : calls'[d] # NoCall =>
           /\ calls'[d].token \in Known /\ calls'[d].names \in Known
           /\ calls'[d].token # None => calls'[d].names # None
           /\ calls'[d].at # "accepted"
    BY <1>2, <1>5, <1>6
  <1> QED
    BY <1>1, <1>2, <1>4, <1>8, <1>9, <1>10, <1>11 DEF TabInv

LEMMA ElsewhereKeeps ==
  ASSUME TabInv, SessionNext \/ UNCHANGED authVars, UNCHANGED tabVars
  PROVE  TabInv'
  <1>1. SessionTypeOK' /\ Known \subseteq Known'
    BY SessionsStay DEF TabInv, SessionTypeOK, authVars, Known
  <1> QED
    BY <1>1 DEF TabInv, TabTypeOK, tabVars

LEMMA TabStep == TabInv /\ [Next]_vars => TabInv'
  <1> SUFFICES ASSUME TabInv, [Next]_vars
               PROVE  TabInv'
    OBVIOUS
  <1>1. CASE UNCHANGED vars
    BY <1>1, ElsewhereKeeps DEF vars, authVars, tabVars
  <1>2. CASE Elsewhere
    BY <1>2, ElsewhereKeeps DEF Elsewhere
  <1>3. CASE ServeRefresh \/ LoseRefresh
    BY <1>3, SettleKeeps DEF ServeRefresh, LoseRefresh
  <1>4. ASSUME NEW c \in Call,
               \/ \E kind \in {"login", "logout", "other"} : Send(c, kind)
               \/ Reload(c) \/ HearUnauthorized(c)
        PROVE  TabInv'
    BY <1>4, SendKeeps, ReloadKeeps, UnauthorizedKeeps
  <1>5. ASSUME NEW c \in Call,
               \/ ServeCall(c) \/ ServeLogout(c) \/ ServeLogin(c) \/ Lose(c)
               \/ HearUnrenewed(c) \/ HearAccepted(c) \/ HearFailed(c)
        PROVE  TabInv'
    BY <1>5, ServedKeeps, HeardKeeps
  <1> QED
    BY <1>1, <1>2, <1>3, <1>4, <1>5 DEF Next

LEMMA TabCorrect == Spec => []TabInv
  <1>1. Init => TabInv
    <2> SUFFICES ASSUME Init PROVE TabInv
      OBVIOUS
    <2>1. SessionTypeOK
      BY NoAttemptType DEF Init, SessionInit, SessionTypeOK
    <2>2. \A c \in Call : calls[c] = NoCall /\ calls[c].at = "idle"
      BY DEF Init, NoCall
    <2>3. /\ tab \in Tab /\ tab.access = None /\ tab.kept = None /\ ~tab.refreshing
          /\ refreshes = 0 /\ calls \in [Call -> ApiCall \cup {NoCall}]
      BY DEF Init, Tab
    <2> QED
      BY <2>1, <2>2, <2>3 DEF TabInv, TabTypeOK, Known
  <1> QED
    BY <1>1, TabStep, PTL DEF Spec

-----------------------------------------------------------------------------
(* The theorems.                                                            *)

\* The tab and its calls stay of their kinds.
THEOREM TabTypeCorrect == Spec => []TabTypeOK
  <1>1. TabInv => TabTypeOK
    BY DEF TabInv
  <1> QED
    BY <1>1, TabCorrect, PTL

\* However many calls are refused together, one refresh is under way for them.
THEOREM RefreshIsShared == Spec => []RefreshShared
  <1>1. TabInv => RefreshShared
    BY DEF TabInv, RefreshShared
  <1> QED
    BY <1>1, TabCorrect, PTL

-----------------------------------------------------------------------------
(* Logout.  That the token a logout named is of no use when its answer is   *)
(* heard needs that what was revoked when the server answered still is.     *)

\* No session is forgotten, and one that was revoked stays so.
LEMMA RevokedStay ==
  ASSUME SessionTypeOK, SessionNext \/ UNCHANGED authVars, NEW s \in DOMAIN sessions
  PROVE  s \in DOMAIN sessions' /\ (sessions[s].revoked => sessions'[s].revoked)
  <1>1. Quiet => s \in DOMAIN sessions' /\ (sessions[s].revoked => sessions'[s].revoked)
    BY DEF Quiet
  <1>2. ASSUME NEW a \in Address, NEW user \in User, NEW n \in SessionId, Login(user, a, n)
        PROVE  s \in DOMAIN sessions' /\ (sessions[s].revoked => sessions'[s].revoked)
    BY <1>2, LoginFacts
  <1>3. ASSUME NEW old \in DOMAIN sessions, NEW n \in SessionId, Refresh(old, n)
        PROVE  s \in DOMAIN sessions' /\ (sessions[s].revoked => sessions'[s].revoked)
    BY <1>3, RefreshFacts
  <1> QED
    BY <1>1, <1>2, <1>3, QuietSteps DEF SessionNext

\* A logout the server accepted has revoked the session it named.
Revokes(call) ==
  call.at = "accepted" /\ call.kind = "logout" =>
    call.names \in DOMAIN sessions /\ sessions[call.names].revoked

LogoutInv == \A c \in Call : calls[c] # NoCall => Revokes(calls[c])

\* A call that is where it was keeps what it revoked.
LEMMA RevokesStays ==
  ASSUME TabInv, SessionNext \/ UNCHANGED authVars, NEW call, Revokes(call)
  PROVE  (\A s \in DOMAIN sessions : s \in DOMAIN sessions' /\
            (sessions[s].revoked => sessions'[s].revoked))
         /\ (call.at = "accepted" /\ call.kind = "logout" =>
               call.names \in DOMAIN sessions' /\ sessions'[call.names].revoked)
  BY RevokedStay DEF TabInv, Revokes

\* Each step at the server is one of Sessions, or none.
LEMMA ServerSteps ==
  ASSUME TabInv, [Next]_vars
  PROVE  SessionNext \/ UNCHANGED authVars
  <1>1. ASSUME NEW c \in Call, ServeLogout(c)
        PROVE  SessionNext \/ UNCHANGED authVars
    <2>1. CASE Bears(c) /\ Logout(calls[c].token, calls[c].names)
      <3>1. calls[c] # NoCall
        BY <1>1, CallShape DEF TabInv, ServeLogout
      <3>2. calls[c].token \in DOMAIN sessions /\ calls[c].names \in DOMAIN sessions
        BY <1>1, <2>1, <3>1 DEF TabInv, Bears, Known, ServeLogout
      <3> QED
        BY <2>1, <3>2 DEF SessionNext
    <2> QED
      BY <1>1, <2>1 DEF ServeLogout
  <1>2. ASSUME NEW c \in Call, ServeLogin(c)
        PROVE  SessionNext \/ UNCHANGED authVars
    BY <1>2, BrowserAssumption DEF ServeLogin, SessionNext
  <1>3. ASSUME NEW c \in Call,
               \/ \E kind \in {"login", "logout", "other"} : Send(c, kind)
               \/ Reload(c) \/ ServeCall(c) \/ Lose(c)
               \/ HearUnauthorized(c) \/ Hears(c)
        PROVE  UNCHANGED authVars
    BY <1>3 DEF Send, Reload, ServeCall, Lose, HearUnauthorized, Hears,
                HearUnrenewed, HearAccepted, HearFailed
  <1>4. ServeRefresh \/ LoseRefresh => UNCHANGED authVars
    BY DEF ServeRefresh, LoseRefresh, Settle
  <1> QED
    BY <1>1, <1>2, <1>3, <1>4 DEF Next, Hears, Elsewhere, vars, authVars

\* A call becomes an accepted logout only in the step in which the server
\* accepts it.
LEMMA BecomesAccepted ==
  ASSUME TabInv, [Next]_vars, NEW c \in Call, calls'[c] # calls[c],
         calls'[c] # NoCall, calls'[c].at = "accepted", calls'[c].kind = "logout"
  PROVE  /\ calls[c] # NoCall /\ ServeLogout(c) /\ Bears(c)
         /\ Logout(calls[c].token, calls[c].names)
         /\ calls'[c].names = calls[c].names
  <1>0. calls \in [Call -> ApiCall \cup {NoCall}]
    BY DEF TabInv, TabTypeOK
  <1>1. ~UNCHANGED vars /\ ~Elsewhere
    BY DEF vars, Elsewhere, tabVars
  <1>2. ~ServeRefresh /\ ~LoseRefresh
    <2> SUFFICES ASSUME NEW outcome \in {"refused", "unreached"}, Settle(outcome)
                 PROVE  FALSE
      BY DEF ServeRefresh, LoseRefresh
    <2>1. CASE calls[c].at = "waiting"
      <3>1. calls'[c] = [calls[c] EXCEPT !.at = outcome] /\ calls[c] \in ApiCall
        BY <1>0, <2>1, CallShape DEF Settle, TabInv, NoCall
      <3> QED
        BY <3>1 DEF ApiCall
    <2> QED
      BY <2>1 DEF Settle
  <1>3. ASSUME NEW d \in Call, NEW kind \in {"login", "logout", "other"}, Send(d, kind)
        PROVE  FALSE
    BY <1>0, <1>3 DEF Send, CallOf
  <1>4. ASSUME NEW d \in Call, Reload(d)
        PROVE  FALSE
    BY <1>4 DEF Reload, CallOf
  <1>5. ASSUME NEW d \in Call, Hears(d)
        PROVE  FALSE
    BY <1>0, <1>5 DEF Hears, HearUnrenewed, HearAccepted, HearFailed, Returned
  <1>6. ASSUME NEW d \in Call, NEW at, calls[d] # NoCall, Answer(d, at)
        PROVE  d = c /\ at = "accepted" /\ calls[c].kind = "logout"
               /\ calls'[c].names = calls[c].names
    <2>1. d = c
      BY <1>0, <1>6 DEF Answer
    <2>2. calls[c] \in ApiCall /\ calls'[c] = [calls[c] EXCEPT !.at = at]
      BY <1>0, <1>6, <2>1 DEF Answer
    <2> QED
      BY <2>1, <2>2 DEF ApiCall
  <1>7. ASSUME NEW d \in Call, ServeCall(d) \/ Lose(d) \/ HearUnauthorized(d)
        PROVE  FALSE
    <2>1. calls[d] # NoCall
      BY <1>7, CallShape DEF TabInv, ServeCall, Lose, HearUnauthorized
    <2> QED
      BY <1>6, <1>7, <2>1 DEF ServeCall, Lose, HearUnauthorized
  <1>8. ASSUME NEW d \in Call, ServeLogin(d)
        PROVE  FALSE
    <2>1. calls[d] # NoCall /\ calls[d].kind = "login" /\ calls[d] \in ApiCall
      BY <1>8, CallShape DEF TabInv, ServeLogin
    <2>2. CASE \E s \in SessionId : calls' = [calls EXCEPT ![d].at = "accepted", ![d].token = s]
      <3>1. PICK s \in SessionId : calls' = [calls EXCEPT ![d].at = "accepted", ![d].token = s]
        BY <2>2
      <3>2. d = c
        BY <1>0, <3>1
      <3>3. calls'[c] = [calls[c] EXCEPT !.at = "accepted", !.token = s]
        BY <1>0, <3>1, <3>2
      <3> QED
        BY <2>1, <3>2, <3>3 DEF ApiCall
    <2> QED
      BY <1>6, <1>8, <2>1, <2>2 DEF ServeLogin
  <1>9. ASSUME NEW d \in Call, ServeLogout(d)
        PROVE  /\ calls[c] # NoCall /\ ServeLogout(c) /\ Bears(c)
               /\ Logout(calls[c].token, calls[c].names)
               /\ calls'[c].names = calls[c].names
    <2>1. calls[d] # NoCall
      BY <1>9, CallShape DEF TabInv, ServeLogout
    <2> QED
      BY <1>6, <1>9, <2>1 DEF ServeLogout
  <1> QED
    BY <1>1, <1>2, <1>3, <1>4, <1>5, <1>7, <1>8, <1>9 DEF Next, Hears

LEMMA LogoutInvStep == TabInv /\ LogoutInv /\ [Next]_vars => LogoutInv'
  <1> SUFFICES ASSUME TabInv, LogoutInv, [Next]_vars,
                      NEW c \in Call, calls'[c] # NoCall,
                      calls'[c].at = "accepted", calls'[c].kind = "logout"
               PROVE  calls'[c].names \in DOMAIN sessions'
                      /\ sessions'[calls'[c].names].revoked
    BY DEF LogoutInv, Revokes
  <1>1. CASE calls'[c] = calls[c]
    <2>1. Revokes(calls[c]) /\ (SessionNext \/ UNCHANGED authVars)
      BY <1>1, ServerSteps DEF LogoutInv
    <2> QED
      BY <1>1, <2>1, RevokesStays
  <1>2. CASE calls'[c] # calls[c]
    <2>1. /\ calls[c] # NoCall /\ ServeLogout(c) /\ Bears(c)
          /\ Logout(calls[c].token, calls[c].names)
          /\ calls'[c].names = calls[c].names
      BY <1>2, BecomesAccepted
    <2>2. calls[c].token \in DOMAIN sessions /\ calls[c].names \in DOMAIN sessions
      BY <2>1 DEF TabInv, Bears, Known, ServeLogout
    <2>3. /\ DOMAIN sessions' = DOMAIN sessions
          /\ sessions'[calls[c].names] =
               [sessions[calls[c].names] EXCEPT !.revoked = TRUE]
      BY <2>1, <2>2, LogoutFacts DEF TabInv
    <2>4. sessions[calls[c].names] \in SessionRecord
      BY <2>2 DEF TabInv, SessionTypeOK
    <2> QED
      BY <2>1, <2>2, <2>3, <2>4 DEF SessionRecord
  <1> QED
    BY <1>1, <1>2

LEMMA LogoutInvCorrect == Spec => []LogoutInv
  <1>1. Init => LogoutInv
    BY DEF Init, LogoutInv
  <1> QED
    BY <1>1, LogoutInvStep, TabCorrect, PTL DEF Spec

\* What the tab makes of the answer to a logout.
LEMMA LogoutHeard ==
  ASSUME TabInv, LogoutInv, NEW c \in Call, Hears(c), calls[c].kind = "logout"
  PROVE  /\ tab'.user = None /\ tab'.access = None
         /\ calls[c].at = "accepted" => ~Usable(calls[c].names)
  <1>0. tab \in Tab
    BY DEF TabInv, TabTypeOK
  <1> DEFINE out == SignedOut(tab)
  <1>1. out \in Tab /\ out.user = None /\ out.access = None
    BY <1>0 DEF SignedOut, Tab
  <1>2. calls[c].at = "accepted" => ~Usable(calls[c].names)
    <2>1. calls[c] # NoCall
      BY CallShape DEF TabInv, Hears, HearUnrenewed, HearAccepted, HearFailed
    <2> QED
      BY <2>1 DEF LogoutInv, Revokes, Usable
  <1>3. \A b : LET u == [out EXCEPT !.loading = b] IN
          u.user = None /\ u.access = None
    BY <1>1 DEF Tab
  <1>4. CASE HearAccepted(c)
    BY <1>1, <1>2, <1>4 DEF HearAccepted
  <1>5. CASE HearUnrenewed(c)
    <2>1. tab' = [out EXCEPT !.loading = tab.loading /\ calls[c].kind # "me"]
      BY <1>5 DEF HearUnrenewed
    <2> HIDE DEF out
    <2> QED
      BY <1>2, <1>3, <2>1
  <1>6. CASE HearFailed(c)
    <2>1. tab' = [out EXCEPT !.loading = tab.loading /\ calls[c].kind # "me"]
      BY <1>6 DEF HearFailed, Ending
    <2> HIDE DEF out
    <2> QED
      BY <1>2, <1>3, <2>1
  <1> QED
    BY <1>4, <1>5, <1>6 DEF Hears

\* A tab that hears of its logout, be it accepted, refused or lost, shows nobody
\* and has no access token; the session that an accepted one named is over.
THEOREM LogoutEnds == Spec => LogoutSignsOut
  <1>1. TabInv /\ LogoutInv /\ [Next]_vars =>
          [\A c \in Call :
             Hears(c) /\ calls[c].kind = "logout" =>
               /\ tab'.user = None /\ tab'.access = None
               /\ calls[c].at = "accepted" => ~Usable(calls[c].names)]_vars
    BY LogoutHeard
  <1> QED
    BY <1>1, TabCorrect, LogoutInvCorrect, PTL DEF Spec, LogoutSignsOut
===============================================================================
