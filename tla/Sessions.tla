------------------------------- MODULE Sessions -------------------------------
(***************************************************************************)
(* auth.Service: refresh sessions that are rotated and revoked, the access *)
(* tokens signed with them, and the limit on failed logins of an address.  *)
(*                                                                         *)
(* As in JobQueue, a time is the ticks left until it, Past when it is      *)
(* over.  A refresh token is the name of its session: only who was given   *)
(* the answer knows it, but may present it any number of times, and so may *)
(* several callers at once.  The service signs one access token with every *)
(* session it creates; the record of the session keeps what is left of it. *)
(***************************************************************************)
EXTENDS Integers

CONSTANTS
  User, SessionId, Address,
  None,            \* no session
  AccessTicks,     \* accessTTL
  RefreshTicks,    \* refreshTTL
  WindowTicks,     \* five minutes
  MaxFailures,     \* five
  MaxCount         \* bound on the count of failures

ASSUME SessionAssumption ==
  /\ None \notin SessionId
  /\ AccessTicks \in Nat \ {0} /\ RefreshTicks \in Nat \ {0}
  /\ WindowTicks \in Nat \ {0}
  /\ MaxFailures \in Nat \ {0} /\ MaxCount \in Nat

VARIABLES
  sessions,      \* Service.sessions
  attempts       \* Service.attempts, an absent entry being NoAttempt

authVars == <<sessions, attempts>>

Past == -1
Time == Nat \cup {Past}

\* login and from say how the session came about: the session of the login it
\* goes back to, and the session it replaced.
SessionRecord ==
  [user : User, login : SessionId, from : SessionId \cup {None},
   access : Time, expires : Time, revoked : BOOLEAN]

NoAttempt == [count |-> 0, reset |-> Past]
Attempt   == [count : Nat, reset : Time]

SessionTypeOK ==
  /\ DOMAIN sessions \subseteq SessionId
  /\ sessions \in [DOMAIN sessions -> SessionRecord]
  /\ attempts \in [Address -> Attempt]

SessionInit ==
  /\ sessions = [s \in {} |-> None]
  /\ attempts = [a \in Address |-> NoAttempt]

-----------------------------------------------------------------------------
(* Passwords.                                                               *)

\* Too many failures, and the window is not over.
Limited_OneMore(a) ==
  attempts[a].reset > 0 /\ attempts[a].count > MaxFailures
Limited_ForGood(a) ==
  attempts[a].count >= MaxFailures
Limited(a) ==
  attempts[a].reset > 0 /\ attempts[a].count >= MaxFailures

\* A failure after the window begins a new one.  At the instant the window ends
\* an address is neither limited nor given a new window.
Failure(a) ==
  IF attempts[a].reset = Past
  THEN [count |-> 1, reset |-> WindowTicks]
  ELSE [attempts[a] EXCEPT !.count = @ + 1]

LoginFails(a) ==
  /\ ~Limited(a)
  /\ attempts[a].count < MaxCount
  /\ attempts' = [attempts EXCEPT ![a] = Failure(a)]
  /\ UNCHANGED sessions

\* The sessions with a new one among them.
Opened(map, s, user, login, from) ==
  [k \in DOMAIN map \cup {s} |->
     IF k = s
     THEN [user |-> user, login |-> login, from |-> from,
           access |-> AccessTicks, expires |-> RefreshTicks, revoked |-> FALSE]
     ELSE map[k]]

\* The right password, from an address that is not limited.
Login(user, a, s) ==
  /\ ~Limited(a)
  /\ s \notin DOMAIN sessions
  /\ attempts' = [attempts EXCEPT ![a] = NoAttempt]
  /\ sessions' = Opened(sessions, s, user, s, None)

-----------------------------------------------------------------------------
(* Tokens.                                                                  *)

\* Refresh takes the token at the instant it expires, and not after it.
Usable_IfRevoked(s) == sessions[s].expires # Past
Usable_Forever(s)   == ~sessions[s].revoked
Usable(s)           == ~sessions[s].revoked /\ sessions[s].expires # Past

Revoked_Not(map, s) == map
Revoked(map, s)     == [map EXCEPT ![s].revoked = TRUE]

\* The old session is revoked and its successor opened under one lock.
Refresh(old, new) ==
  /\ Usable(old)
  /\ new \notin DOMAIN sessions
  /\ sessions' = Opened(Revoked(sessions, old), new,
                        sessions[old].user, sessions[old].login, old)
  /\ UNCHANGED attempts

\* Parse accepts an access token until it expires, whatever became of the
\* session it was signed with.
Accepted(s) == sessions[s].access > 0

\* The bearer of the access token of t revokes a session of the same user, also
\* one that is over already.
Logout(t, s) ==
  /\ Accepted(t)
  /\ sessions[s].user = sessions[t].user
  /\ sessions' = Revoked(sessions, s)
  /\ UNCHANGED attempts

\* Time passes.
Older(ticks) == IF ticks > 0 THEN ticks - 1 ELSE Past

ClockStep ==
  /\ sessions' = [s \in DOMAIN sessions |->
       [sessions[s] EXCEPT !.access = Older(@), !.expires = Older(@)]]
  /\ attempts' = [a \in Address |-> [attempts[a] EXCEPT !.reset = Older(@)]]

SessionNext ==
  \/ \E a \in Address :
       \/ LoginFails(a)
       \/ \E user \in User, s \in SessionId : Login(user, a, s)
  \/ \E old \in DOMAIN sessions, new \in SessionId : Refresh(old, new)
  \/ \E t \in DOMAIN sessions, s \in DOMAIN sessions : Logout(t, s)
  \/ ClockStep

SessionSpec == SessionInit /\ [][SessionNext]_authVars

\* Time passes.
FairSessionSpec == SessionSpec /\ WF_authVars(ClockStep)

-----------------------------------------------------------------------------
(* Correctness.                                                             *)

\* However often tokens are presented, and by whomever, a login has at most one
\* session that is not revoked.
OneLiveSession ==
  \A s, q \in DOMAIN sessions :
    /\ sessions[s].login = sessions[q].login
    /\ ~sessions[s].revoked /\ ~sessions[q].revoked
    => s = q

\* A refresh token works once: no two sessions replaced the same one.  The
\* session that was replaced is revoked, and its user and login are inherited.
TokenUsedOnce ==
  \A s \in DOMAIN sessions :
    LET old == sessions[s].from IN
    old # None =>
      /\ old \in DOMAIN sessions /\ sessions[old].revoked
      /\ sessions[old].user = sessions[s].user
      /\ sessions[old].login = sessions[s].login
      /\ \A q \in DOMAIN sessions \ {s} : sessions[q].from # old

\* The sessions of login l have all been revoked or have expired.
LoginOver(l) ==
  \A s \in DOMAIN sessions :
    sessions[s].login = l => sessions[s].revoked \/ sessions[s].expires = Past

\* A login that is over stays over: no token extends it, no new access token is
\* signed for it, and those that were signed only get older.
OverForGood ==
  [][\A l \in DOMAIN sessions :
       LoginOver(l) =>
         /\ LoginOver(l)'
         /\ \A s \in DOMAIN sessions' :
              sessions'[s].login = l =>
                s \in DOMAIN sessions /\ sessions'[s].access <= sessions[s].access
    ]_authVars

\* While a window lasts an address fails at most MaxFailures times.
FailuresBounded ==
  \A a \in Address : attempts[a].reset > 0 => attempts[a].count <= MaxFailures

\* A limited address is let in again, however many attempts it makes meanwhile.
LetInAgain ==
  \A a \in Address : attempts[a].count >= MaxFailures ~> ~Limited(a)
=============================================================================
