------------------------------ MODULE AuthFlow ------------------------------
(***************************************************************************)
(* Access control: the OAuth login (internal/auth: auth.go, auth_code.go). *)
(*                                                                         *)
(* The server keeps nothing between requests: the whole session is a       *)
(* cookie of each host.  A browser with several tabs sends the cookie of   *)
(* the host with a request and stores the one that comes back with the     *)
(* answer, so that tabs overwrite each other's sessions.  Every login goes *)
(* through the host of the redirect URI, whose cookie remembers the domain *)
(* it was begun for.                                                       *)
(***************************************************************************)
EXTENDS Integers, FiniteSets

CONSTANTS
  Tab,         \* tabs of the browser
  Host,        \* hosts with access control
  PagesHost,   \* the host of auth-redirect-uri
  Site,        \* pages a tab may be opened on: records [host, page]
  Member,      \* Member[h]: whether the user may see the project of h
  MaxOpens,    \* bound on the pages opened
  MaxLogins,   \* bound on the logins begun
  MaxFaults,   \* bound on the faults
  Undecodable, \* a cookie that cannot be decoded
  None         \* no value

ASSUME AuthAssumption ==
  /\ PagesHost \in Host
  /\ \A s \in Site : s.host \in Host
  /\ \A h \in Host : Member[h] \in BOOLEAN
  /\ {MaxOpens, MaxLogins, MaxFaults} \subseteq Nat

VARIABLES
  cookie,     \* cookie[h]: the session of host h, or Undecodable
  tab,        \* the tabs
  logins,     \* logins begun so far: the random states
  used,       \* codes that GitLab has exchanged for a token
  revoked,    \* tokens that are no longer valid
  opens,      \* pages opened so far
  faults,     \* the faults so far, each once
  overlap     \* whether two tabs were ever loading at once (history)

vars == <<cookie, tab, logins, used, revoked, opens, faults, overlap>>

(***************************************************************************)
(* A state is a random number; begun remembers the page whose request made *)
(* it (history).  A code or token of GitLab is named by the state of the   *)
(* login it was issued for.                                                *)
(***************************************************************************)
State   == [n : 1..MaxLogins, begun : Site]
Session == [state : State \cup {None}, uri : Site \cup {None},
            token : State \cup {None}, proxy : Host \cup {None}]
Empty   == [state |-> None, uri |-> None, token |-> None, proxy |-> None]

\* Addresses: a page, /auth?domain=&state=, GitLab, /auth?code=&state=.
Page(s)              == [to |-> "page", host |-> s.host, page |-> s]
ProxyAddress(h, st)  == [to |-> "proxy", host |-> PagesHost, domain |-> h, state |-> st]
Authorize(st)        == [to |-> "authorize", state |-> st]
Callback(h, st, c)   == [to |-> "callback", host |-> h, state |-> st, code |-> c]

\* What is in the code parameter: nothing, the code, or what was in it sealed for
\* a host; twice if that was sealed already, and is no code of GitLab then.
NoCode       == [kind |-> "none"]
RawCode(st)  == [kind |-> "raw", of |-> st]
\* Mutant: sealed for the host that seals it.
SealedForPages(h, c) == [kind |-> "sealed", domain |-> PagesHost, of |-> c.of,
                         twice |-> c.kind = "sealed", expired |-> FALSE]

Sealed(h, c) == [kind |-> "sealed", domain |-> h, of |-> c.of,
                 twice |-> c.kind = "sealed", expired |-> FALSE]

Code ==
  [kind : {"none"}] \cup [kind : {"raw"}, of : State]
  \cup [kind : {"sealed"}, domain : Host, of : State, twice : BOOLEAN, expired : BOOLEAN]
Address ==
  [to : {"page"}, host : Host, page : Site]
  \cup [to : {"proxy"}, host : Host, domain : Host, state : State]
  \cup [to : {"authorize"}, state : State]
  \cup [to : {"callback"}, host : Host, state : State, code : Code]
Progress == {"new", "send", "wait", "done"}
Status   == {0, 200, 401, 404, 500, 503}
BrowserTab ==
  [pc : Progress, url : Address \cup {None}, snap : Session \cup {Undecodable, None},
   asked : Site \cup {None}, denied : BOOLEAN, status : Status]

ASSUME NamesAssumption ==
  /\ None \notin State /\ None \notin Host
  /\ Undecodable \notin Session

NewTab == [pc |-> "new", url |-> None, snap |-> None, asked |-> None, denied |-> FALSE,
           status |-> 0]

Init ==
  /\ cookie = [h \in Host |-> Empty]
  /\ tab = [t \in Tab |-> NewTab]
  /\ logins = 0
  /\ used = {}
  /\ revoked = {}
  /\ opens = 0
  /\ faults = {}
  /\ overlap = FALSE

-----------------------------------------------------------------------------
(* The browser (external)                                                  *)

Loading(t) == tab[t].pc \in {"send", "wait"}

Open(t, s) ==
  /\ ~ Loading(t)
  /\ opens < MaxOpens
  /\ opens' = opens + 1
  /\ tab' = [tab EXCEPT ![t] = [NewTab EXCEPT !.pc = "send", !.url = Page(s), !.asked = s]]
  /\ overlap' = (overlap \/ \E u \in Tab \ {t} : Loading(u))
  /\ UNCHANGED <<cookie, logins, used, revoked, faults>>

Send(t) ==
  /\ tab[t].pc = "send"
  /\ tab[t].url.to # "authorize"
  /\ tab' = [tab EXCEPT ![t] = [@ EXCEPT !.pc = "wait", !.snap = cookie[tab[t].url.host]]]
  /\ UNCHANGED <<cookie, logins, used, revoked, opens, faults, overlap>>

Redirect(t, url)   == tab' = [tab EXCEPT ![t] = [@ EXCEPT !.pc = "send", !.url = url, !.snap = None]]
Answer(t, status)  == tab' = [tab EXCEPT ![t] = [@ EXCEPT !.pc = "done", !.status = status, !.snap = None]]
SetCookie(t, c)    == cookie' = [cookie EXCEPT ![tab[t].url.host] = c]

\* The user decides at GitLab, or closes the tab.
Grant(t) ==
  /\ tab[t].pc = "send" /\ tab[t].url.to = "authorize"
  /\ LET st == tab[t].url.state IN
     tab' = [tab EXCEPT ![t] = [@ EXCEPT !.url = Callback(PagesHost, st, RawCode(st))]]
  /\ UNCHANGED <<cookie, logins, used, revoked, opens, faults, overlap>>

Deny(t) ==
  /\ tab[t].pc = "send" /\ tab[t].url.to = "authorize"
  /\ tab' = [tab EXCEPT ![t] = [@ EXCEPT !.url = Callback(PagesHost, tab[t].url.state, NoCode), !.denied = TRUE]]
  /\ UNCHANGED <<cookie, logins, used, revoked, opens, faults, overlap>>

CloseTab(t) ==
  /\ tab[t].pc = "send" /\ tab[t].url.to = "authorize"
  /\ tab' = [tab EXCEPT ![t] = NewTab]
  /\ UNCHANGED <<cookie, logins, used, revoked, opens, faults, overlap>>

Fault(f) == f \notin faults /\ Cardinality(faults) < MaxFaults /\ faults' = faults \cup {f}

\* A token is revoked, or expires.
Revoke(h) ==
  /\ Fault("revoked")
  /\ cookie[h] # Undecodable
  /\ cookie[h].token \notin revoked \cup {None}
  /\ revoked' = revoked \cup {cookie[h].token}
  /\ UNCHANGED <<cookie, tab, logins, used, opens, overlap>>

\* A cookie expires after authSessionMaxAge, or the auth secret has changed.
LoseCookie(h) ==
  /\ Fault("cookie")
  /\ cookie[h] # Empty
  /\ cookie' \in {[cookie EXCEPT ![h] = c] : c \in {Empty, Undecodable}}
  /\ UNCHANGED <<tab, logins, used, revoked, opens, overlap>>

-----------------------------------------------------------------------------
(* checkSession: the first thing every request meets                       *)

CheckSession(t) ==
  /\ tab[t].pc = "wait" /\ tab[t].snap = Undecodable
  /\ SetCookie(t, Empty)
  /\ Redirect(t, tab[t].url)
  /\ UNCHANGED <<logins, used, revoked, opens, faults, overlap>>

At(t, to) == tab[t].pc = "wait" /\ tab[t].snap # Undecodable /\ tab[t].url.to = to

-----------------------------------------------------------------------------
(* A page: checkAuthentication                                             *)

\* Mutant: keeps the address of an unfinished login.
SessionOfOldLogin(c, st, s) ==
  [c EXCEPT !.state = st, !.uri = IF c.uri = None THEN s ELSE c.uri, !.proxy = None]

SessionOfLogin(c, st, s) == [c EXCEPT !.state = st, !.uri = s, !.proxy = None]

\* checkTokenExists: there is no token, a login begins.
BeginLogin(t) ==
  LET s  == tab[t].url.page
      st == [n |-> logins + 1, begun |-> s]
  IN
  /\ At(t, "page") /\ tab[t].snap.token = None
  /\ logins < MaxLogins
  /\ logins' = logins + 1
  /\ SetCookie(t, SessionOfLogin(tab[t].snap, st, s))
  /\ Redirect(t, ProxyAddress(s.host, st))
  /\ UNCHANGED <<used, revoked, opens, faults, overlap>>

\* The API answers 200, or not: ServeNotFoundAuthFailed.
CheckAccess(t) ==
  /\ At(t, "page") /\ tab[t].snap.token \notin revoked \cup {None}
  /\ \/ Answer(t, IF Member[tab[t].url.host] THEN 200 ELSE 404) /\ UNCHANGED faults
     \/ Fault("api") /\ Answer(t, 404)
  /\ UNCHANGED <<cookie, logins, used, revoked, opens, overlap>>

\* Mutant: the token stays in the session.
SessionKept(c) == c

SessionDestroyed(c) == [c EXCEPT !.token = None]

\* The API answers invalid_token: destroySession.
DestroySession(t) ==
  /\ At(t, "page") /\ tab[t].snap.token \in revoked
  /\ SetCookie(t, SessionDestroyed(tab[t].snap))
  /\ Redirect(t, tab[t].url)
  /\ UNCHANGED <<logins, used, revoked, opens, faults, overlap>>

-----------------------------------------------------------------------------
(* /auth: TryAuthenticate                                                  *)

\* handleProxyingAuth of /auth?domain=&state=; domainAllowed asks the source
\* for a domain that is not a pages domain.
ProxyToGitlab(t) ==
  LET u == tab[t].url IN
  /\ At(t, "proxy")
  /\ \/ /\ SetCookie(t, [tab[t].snap EXCEPT !.proxy = u.domain])
        /\ Redirect(t, Authorize(u.state))
        /\ UNCHANGED faults
     \/ /\ u.domain # PagesHost
        /\ Fault("source")
        /\ Answer(t, 401)
        /\ UNCHANGED cookie
  /\ UNCHANGED <<logins, used, revoked, opens, overlap>>

SessionUnproxied(c) == [c EXCEPT !.proxy = None]

\* handleProxyingAuth of the callback: to the domain that began the login, with
\* the code sealed for it; there is nothing to seal when access was denied.
ProxyToDomain(t) ==
  LET u == tab[t].url
      h == tab[t].snap.proxy
  IN
  /\ At(t, "callback") /\ h # None
  /\ SetCookie(t, SessionUnproxied(tab[t].snap))
  /\ IF u.code = NoCode THEN Answer(t, 503)
     ELSE Redirect(t, Callback(h, u.state, Sealed(h, u.code)))
  /\ UNCHANGED <<logins, used, revoked, opens, faults, overlap>>

\* The callback of a login that no domain waits for.
CallbackError(t) ==
  /\ At(t, "callback") /\ tab[t].snap.proxy = None
  /\ tab[t].url.code = NoCode
  /\ Answer(t, 401)
  /\ UNCHANGED <<cookie, logins, used, revoked, opens, faults, overlap>>

validateState(u, c) == c.state = u.state

DecryptCodeOK(u) == u.code.kind = "sealed" /\ u.code.domain = u.host /\ ~ u.code.expired

\* fetchAccessToken: GitLab takes a code once.
ExchangeOK(u) == u.code.of \notin used /\ ~ u.code.twice

\* checkAuthenticationResponse, up to the answer of fetchAccessToken.
RejectCallback(t) ==
  LET u == tab[t].url
      c == tab[t].snap
  IN
  /\ At(t, "callback") /\ c.proxy = None /\ u.code # NoCode
  /\ \/ ~ validateState(u, c) /\ Answer(t, 401) /\ UNCHANGED faults
     \/ validateState(u, c) /\ ~ DecryptCodeOK(u) /\ Answer(t, 500) /\ UNCHANGED faults
     \/ validateState(u, c) /\ DecryptCodeOK(u) /\ ~ ExchangeOK(u) /\ Answer(t, 503) /\ UNCHANGED faults
     \/ validateState(u, c) /\ DecryptCodeOK(u) /\ Fault("token") /\ Answer(t, 503)
  /\ UNCHANGED <<cookie, logins, used, revoked, opens, overlap>>

\* Mutant: the address comes with the state, which is not compared.
StoreTokenOfState(t) ==
  LET u == tab[t].url
      c == tab[t].snap
  IN
  /\ At(t, "callback") /\ c.proxy = None /\ u.code # NoCode
  /\ DecryptCodeOK(u) /\ ExchangeOK(u)
  /\ used' = used \cup {u.code.of}
  /\ SetCookie(t, [c EXCEPT !.token = u.code.of])
  /\ Redirect(t, Page(u.state.begun))
  /\ UNCHANGED <<logins, revoked, opens, faults, overlap>>

\* The token is stored and the tab goes back to the page that was asked for.
StoreToken(t) ==
  LET u == tab[t].url
      c == tab[t].snap
  IN
  /\ At(t, "callback") /\ c.proxy = None /\ u.code # NoCode
  /\ validateState(u, c) /\ DecryptCodeOK(u) /\ ExchangeOK(u)
  /\ used' = used \cup {u.code.of}
  /\ \/ SetCookie(t, [c EXCEPT !.token = u.code.of]) /\ Redirect(t, Page(c.uri)) /\ UNCHANGED faults
     \/ Fault("save") /\ Answer(t, 500) /\ UNCHANGED cookie
  /\ UNCHANGED <<logins, revoked, opens, overlap>>

\* session.Save fails elsewhere: nothing is stored.
SaveFails(t) ==
  /\ \/ tab[t].pc = "wait" /\ tab[t].snap = Undecodable
     \/ At(t, "page") /\ tab[t].snap.token \in revoked \cup {None}
     \/ At(t, "proxy")
     \/ At(t, "callback") /\ tab[t].snap.proxy # None
  /\ Fault("save")
  /\ Answer(t, 500)
  /\ UNCHANGED <<cookie, logins, used, revoked, opens, overlap>>

\* jwtExpiry passes before the sealed code arrives.
ExpireCode(t) ==
  LET u == tab[t].url IN
  /\ Fault("expired")
  /\ tab[t].pc = "send" /\ u.to = "callback" /\ u.code.kind = "sealed"
  /\ tab' = [tab EXCEPT ![t] = [@ EXCEPT !.url = [u EXCEPT !.code = [u.code EXCEPT !.expired = TRUE]]]]
  /\ UNCHANGED <<cookie, logins, used, revoked, opens, overlap>>

-----------------------------------------------------------------------------
Decide(t) == Grant(t) \/ Deny(t) \/ CloseTab(t)
Handle(t) ==
  \/ CheckSession(t) \/ BeginLogin(t) \/ CheckAccess(t) \/ DestroySession(t)
  \/ ProxyToGitlab(t) \/ ProxyToDomain(t) \/ CallbackError(t) \/ RejectCallback(t) \/ StoreToken(t)

Next ==
  \/ \E h \in Host : Revoke(h) \/ LoseCookie(h)
  \/ \E t \in Tab :
       \/ \E s \in Site : Open(t, s)
       \/ Send(t) \/ Decide(t) \/ Handle(t) \/ SaveFails(t) \/ ExpireCode(t)

\* Requests are sent and answered; the user decides.
Fairness == \A t \in Tab : WF_vars(Send(t)) /\ WF_vars(Decide(t)) /\ WF_vars(Handle(t))

Spec == Init /\ [][Next]_vars /\ Fairness

-----------------------------------------------------------------------------
(* Properties                                                              *)

TypeOK ==
  /\ cookie \in [Host -> Session \cup {Undecodable}]
  /\ tab \in [Tab -> BrowserTab]
  /\ logins \in 0..MaxLogins
  /\ used \subseteq State /\ revoked \subseteq State
  /\ opens \in 0..MaxOpens /\ faults \subseteq {"revoked", "cookie", "save", "api", "source", "token", "expired"}
  /\ overlap \in BOOLEAN

\* The token in the session of a host comes from a login that a page of that
\* host began, whatever other tabs do to the cookies meanwhile.
TokenOfOwnLogin ==
  \A h \in Host : cookie[h] # Undecodable /\ cookie[h].token # None => cookie[h].token.begun.host = h

\* A tab that is sent to a page is sent to the page the user opened in it.
ReturnsToItsPage == \A t \in Tab : Loading(t) /\ tab[t].url.to = "page" => tab[t].url.page = tab[t].asked

\* A login that nothing disturbs works: without faults and without another tab
\* loading, the user sees the page, or a 404 when they may not, also when a
\* token has been revoked; only a denied login ends in an error.
UndisturbedLoginWorks ==
  \A t \in Tab :
    tab[t].pc = "done" /\ ~ overlap /\ faults \subseteq {"revoked"} /\ ~ tab[t].denied =>
      tab[t].status = IF Member[tab[t].asked.host] THEN 200 ELSE 404

\* No chain of redirects goes on for ever: a page that is opened while no other
\* is loading ends in an answer, however cookies are lost and tokens revoked.
\* (Two tabs can go on overwriting each other's sessions.)
NavigationSettles == \A t \in Tab : Loading(t) /\ ~ overlap ~> ~ Loading(t) \/ overlap
=============================================================================
