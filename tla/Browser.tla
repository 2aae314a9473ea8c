------------------------------- MODULE Browser --------------------------------
(***************************************************************************)
(* A browser tab signed in at the server: the calls of api/client.ts, the  *)
(* refresh they share, and the account that AuthContext shows.  Everything *)
(* that happens elsewhere is a step of Sessions.                           *)
(*                                                                         *)
(* A token in the tab is known by the session it came with.                *)
(***************************************************************************)
EXTENDS Sessions

CONSTANTS
  Call,     \* calls that may be in flight together
  Here      \* the address of the tab

ASSUME BrowserAssumption == Here \in Address

VARIABLES
  tab,        \* what the tab shows and stores
  calls,      \* the calls of api() that have not returned
  refreshes   \* how many requests for a refresh are in flight

tabVars == <<tab, calls, refreshes>>
vars == <<sessions, attempts, tab, calls, refreshes>>

\* access and kept stand for lab_access_token and lab_refresh_token in the
\* sessionStorage, refreshing for the promise the calls share.
Tab == [user : User \cup {None}, loading : BOOLEAN, refreshing : BOOLEAN,
        access : SessionId \cup {None}, kept : SessionId \cup {None}]

NoCall == [at |-> "idle"]
ApiCall == [at : {"sent", "accepted", "unauthorized", "failed", "waiting",
                  "refused", "unreached"},
            kind : {"login", "logout", "me", "other"},
            token : SessionId \cup {None},
            names : SessionId \cup {None}]   \* the session to be revoked

TabTypeOK ==
  /\ tab \in Tab /\ refreshes \in Nat
  /\ calls \in [Call -> ApiCall \cup {NoCall}]

Init ==
  /\ SessionInit
  /\ tab = [user |-> None, loading |-> FALSE, refreshing |-> FALSE,
            access |-> None, kept |-> None]
  /\ calls = [c \in Call |-> NoCall] /\ refreshes = 0

-----------------------------------------------------------------------------
(* The tab calls.  The login form shows while nobody is signed in; it waits *)
(* for its answer, which the buttons of a page do not.                      *)

CallOf(kind) ==
  [at |-> "sent", kind |-> kind, token |-> tab.access, names |-> tab.kept]

Send(c, kind) ==
  /\ calls[c] = NoCall
  /\ \/ kind = "login" /\ tab.user = None
        /\ \A d \in Call : calls[d] # NoCall => calls[d].kind # "login"
     \/ kind \in {"logout", "other"} /\ tab.user # None
  /\ calls' = [calls EXCEPT ![c] = CallOf(kind)]
  /\ UNCHANGED <<authVars, tab, refreshes>>

\* A reload forgets everything but the sessionStorage, and asks who it is.
Reload(c) ==
  /\ tab' = [tab EXCEPT !.user = None, !.refreshing = FALSE,
                        !.loading = tab.access # None]
  /\ calls' = [d \in Call |->
       IF d = c /\ tab.access # None THEN CallOf("me") ELSE NoCall]
  /\ refreshes' = 0
  /\ UNCHANGED authVars

-----------------------------------------------------------------------------
(* The server answers: 200, 401, or anything else.                          *)

Answer(c, at) == calls' = [calls EXCEPT ![c].at = at]

Bears(c) == calls[c].token # None /\ Accepted(calls[c].token)

ServeCall(c) ==
  /\ calls[c].at = "sent" /\ calls[c].kind \in {"me", "other"}
  /\ Answer(c, IF Bears(c) THEN "accepted" ELSE "unauthorized")
  /\ UNCHANGED <<authVars, tab, refreshes>>

ServeLogout(c) ==
  /\ calls[c].at = "sent" /\ calls[c].kind = "logout"
  /\ \/ Bears(c) /\ Logout(calls[c].token, calls[c].names)
        /\ Answer(c, "accepted")
     \/ ~Bears(c) /\ UNCHANGED authVars /\ Answer(c, "unauthorized")
  /\ UNCHANGED <<tab, refreshes>>

ServeLogin(c) ==
  /\ calls[c].at = "sent" /\ calls[c].kind = "login"
  /\ \/ \E user \in User, s \in SessionId :
          /\ Login(user, Here, s)
          /\ calls' = [calls EXCEPT ![c].at = "accepted", ![c].token = s]
     \/ LoginFails(Here) /\ Answer(c, "unauthorized")
     \/ Limited(Here) /\ UNCHANGED authVars /\ Answer(c, "unauthorized")
  /\ UNCHANGED <<tab, refreshes>>

\* No answer comes, or none that was sent arrives.
Lose(c) ==
  /\ calls[c].at \in {"sent", "accepted", "unauthorized"}
  /\ Answer(c, "failed")
  /\ UNCHANGED <<authVars, tab, refreshes>>

-----------------------------------------------------------------------------
(* The tab hears.                                                           *)

Returned(c) == calls' = [calls EXCEPT ![c] = NoCall]

SignedIn(t, s) == [t EXCEPT !.user = sessions[s].user, !.access = s, !.kept = s]

\* What session-expired and the end of logout do; the refresh token stays.
SignedOut(t) == [t EXCEPT !.user = None, !.access = None]

\* A call that waits for a refresh joins the one that is under way.
Joins_Never == FALSE
Joins == tab.refreshing

\* Any 401, also that of the login form, asks for a refresh first.
HearUnauthorized(c) ==
  /\ calls[c].at = "unauthorized"
  /\ Answer(c, "waiting")
  /\ tab' = [tab EXCEPT !.refreshing = TRUE]
  /\ refreshes' = IF Joins THEN refreshes ELSE refreshes + 1
  /\ UNCHANGED authVars

\* The refresh they share settles, and everybody who waits learns its outcome.
Settle(outcome) ==
  /\ refreshes > 0
  /\ refreshes' = refreshes - 1
  /\ tab' = [tab EXCEPT !.refreshing = FALSE]
  /\ calls' = [c \in Call |-> IF calls[c].at = "waiting"
                              THEN [calls[c] EXCEPT !.at = outcome]
                              ELSE calls[c]]
  /\ UNCHANGED authVars

\* The request has no body; the server looks for the token there and nowhere
\* else, and refuses to decode it, whatever sessions there are.
ServeRefresh == Settle("refused")

LoseRefresh == Settle("unreached")

\* The 401 is final: the event session-expired, and then the caller's own catch.
HearUnrenewed(c) ==
  /\ calls[c].at \in {"refused", "unreached"}
  /\ Returned(c)
  /\ tab' = [SignedOut(tab) EXCEPT
               !.loading = tab.loading /\ calls[c].kind # "me"]
  /\ UNCHANGED <<authVars, refreshes>>

HearAccepted(c) ==
  /\ calls[c].at = "accepted"
  /\ Returned(c)
  /\ tab' = CASE calls[c].kind = "login"  -> SignedIn(tab, calls[c].token)
               [] calls[c].kind = "logout" -> SignedOut(tab)
               [] calls[c].kind = "me"     ->
                    [tab EXCEPT !.user = sessions[calls[c].token].user,
                                !.loading = FALSE]
               [] calls[c].kind = "other"  -> tab
  /\ UNCHANGED <<authVars, refreshes>>

\* The callers that sign the tab out when their call fails in another way.
Ending_MeOnly(kind) == kind = "me"
Ending(kind) == kind \in {"logout", "me"}

HearFailed(c) ==
  /\ calls[c].at = "failed"
  /\ Returned(c)
  /\ tab' = [IF Ending(calls[c].kind) THEN SignedOut(tab) ELSE tab EXCEPT
               !.loading = tab.loading /\ calls[c].kind # "me"]
  /\ UNCHANGED <<authVars, refreshes>>

Elsewhere == SessionNext /\ UNCHANGED tabVars

Next ==
  \/ \E c \in Call :
       \/ \E kind \in {"login", "logout", "other"} : Send(c, kind)
       \/ Reload(c)
       \/ ServeCall(c) \/ ServeLogout(c) \/ ServeLogin(c) \/ Lose(c)
       \/ HearUnauthorized(c) \/ HearUnrenewed(c)
       \/ HearAccepted(c) \/ HearFailed(c)
  \/ ServeRefresh \/ LoseRefresh
  \/ Elsewhere

Spec == Init /\ [][Next]_vars

-----------------------------------------------------------------------------
(* Correctness.                                                             *)

\* However many calls are refused together, they share one refresh, and none
\* waits for a refresh that is not under way.
RefreshShared ==
  /\ refreshes <= 1
  /\ \A c \in Call : calls[c].at = "waiting" => refreshes = 1

\* The tab hears of its call, for the last time.
Hears(c) == HearUnrenewed(c) \/ HearAccepted(c) \/ HearFailed(c)

\* Whatever becomes of the call of a logout, and whatever the tab did meanwhile,
\* the tab then shows nobody and has no access token; and if the server accepted
\* it, the refresh token it named is good for nothing any more.  (That token
\* itself stays in the sessionStorage, and stays good if the call was lost
\* before the server had it or was refused.)
LogoutSignsOut ==
  [][\A c \in Call :
       Hears(c) /\ calls[c].kind = "logout" =>
         /\ tab'.user = None /\ tab'.access = None
         /\ calls[c].at = "accepted" => ~Usable(calls[c].names)]_vars

\* frontend/README.md: a 401 triggers one refresh, and the tab goes back to the
\* login form if that fails.  So the answer to a refresh does not sign a tab out
\* whose session can be refreshed.
UsableSessionRenewed ==
  [][\A c \in Call :
       /\ calls[c].at = "refused" /\ calls[c].kind = "other"
       /\ calls[c].token = tab.access
       /\ tab.access # None /\ tab'.access = None
       => ~Usable(tab.kept)]_vars
=============================================================================
