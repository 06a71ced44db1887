---------------------------- MODULE AuthFlowProofs ----------------------------
(***************************************************************************)
(* Proofs about AuthFlow, for any number of tabs, hosts, pages, logins and *)
(* faults.                                                                 *)
(***************************************************************************)
EXTENDS AuthFlow, TLAPS

\* The prover of a leaf that names none.
USE ZenonT(60)

(***************************************************************************)
(* The inductive invariant.  The state in the session of a host was made   *)
(* by a page of that host, and the address to return to was stored with    *)
(* it.  A tab on its way through a login carries a state that was made for *)
(* the page asked for in it, and no code but that of this state; so where  *)
(* validateState compares the two, they belong to the same page.  This     *)
(* holds of the cookies and of what was read of them, which may be older.  *)
(***************************************************************************)
SessionOK(h, c) ==
  c # Undecodable =>
    /\ c.state # None => c.state.begun.host = h /\ c.uri = c.state.begun
    /\ c.token # None => c.token.begun.host = h

CookiesOK == \A h \in Host : SessionOK(h, cookie[h])

LoadingTab == {"send", "wait"}

AddressOK(r) ==
  LET u == r.url IN
  /\ u \in Address /\ r.asked \in Site
  /\ u.to = "page" => u.page = r.asked /\ u.host = r.asked.host
  /\ u.to # "page" => u.state.begun = r.asked /\ u.state.n <= logins
  /\ u.to = "proxy" => u.host = PagesHost
  /\ u.to = "callback" /\ u.code # NoCode => u.code.of = u.state

SnapOK(r) ==
  /\ r.url.to # "authorize"
  /\ r.snap \in Session \cup {Undecodable}
  /\ SessionOK(r.url.host, r.snap)

TabOK(r) ==
  /\ r.pc \in LoadingTab => AddressOK(r)
  /\ r.pc = "wait" => SnapOK(r)

TabsOK == \A t \in Tab : TabOK(tab[t])
UsedOK == \A st \in used : st.n <= logins

(***************************************************************************)
(* While nothing disturbs it, the one tab that is loading reads what it    *)
(* wrote: the session of the host it asked holds the state it carries, and *)
(* the session of the pages host sends its callback to that host.  Its     *)
(* state is not exchanged before.                                          *)
(***************************************************************************)
Alone == ~ overlap => \A t, u \in Tab : Loading(t) /\ Loading(u) => t = u
Calm  == ~ overlap /\ faults \subseteq {"revoked"}

InTime(r) ==
  LET u == r.url
      h == r.asked.host
  IN
  /\ u.to # "page" => /\ u.state \notin used /\ cookie[h].state = u.state
                      /\ h # PagesHost => cookie[h].proxy = None
  /\ u.to = "proxy" => u.domain = h
  /\ u.to = "authorize" => cookie[PagesHost].proxy = h
  /\ u.to = "callback" =>
       \/ u.code.kind = "raw" /\ u.host = PagesHost /\ cookie[PagesHost].proxy = h
       \/ /\ u.code.kind = "sealed" /\ u.host = h /\ cookie[h].proxy = None
          /\ u.code.domain = h /\ ~ u.code.twice /\ ~ u.code.expired

CalmTab(r) ==
  /\ r.pc = "wait" => r.snap = cookie[r.url.host]
  /\ r.pc \in LoadingTab /\ ~ r.denied => InTime(r)
  /\ r.pc = "done" /\ ~ r.denied => r.status = IF Member[r.asked.host] THEN 200 ELSE 404

CalmOK ==
  Calm => /\ \A h \in Host : cookie[h] # Undecodable
          /\ \A t \in Tab : CalmTab(tab[t])

Inv == TypeOK /\ CookiesOK /\ TabsOK /\ UsedOK /\ Alone /\ CalmOK

-----------------------------------------------------------------------------
(* A step of one tab                                                       *)

\* The types of the variables, and what is known of one tab.
LEMMA TabFacts ==
  ASSUME Inv, NEW t \in Tab
  PROVE  /\ tab \in [Tab -> BrowserTab] /\ tab[t] \in BrowserTab /\ TabOK(tab[t])
         /\ cookie \in [Host -> Session \cup {Undecodable}]
         /\ Calm => CalmTab(tab[t])
  BY DEF Inv, TypeOK, TabsOK, CalmOK

\* What counters and sets a step leaves in their types.
Counted ==
  /\ logins \in 0..MaxLogins /\ used \subseteq State /\ revoked \subseteq State
  /\ opens \in 0..MaxOpens
  /\ faults \subseteq {"revoked", "cookie", "save", "api", "source", "token", "expired"}
  /\ overlap \in BOOLEAN

\* The tab changes and perhaps the cookies; the other tabs are not loading,
\* unless tabs have overlapped.
LEMMA TabStep ==
  ASSUME Inv, NEW t \in Tab, NEW r \in BrowserTab, tab' = [tab EXCEPT ![t] = r],
         cookie' \in [Host -> Session \cup {Undecodable}], CookiesOK', UsedOK', Counted',
         logins' >= logins, overlap => overlap', faults \subseteq faults',
         ~ overlap' => \A u \in Tab \ {t} : ~ Loading(u),
         TabOK(r)',
         Calm' => CalmTab(r)' /\ \A h \in Host : cookie'[h] # Undecodable
  PROVE  Inv'
  <1>1. /\ tab \in [Tab -> BrowserTab] /\ tab' \in [Tab -> BrowserTab] /\ tab'[t] = r
        /\ \A u \in Tab : u # t => tab'[u] = tab[u]
    BY DEF Inv, TypeOK
  <1>2. TypeOK'
    BY <1>1 DEF TypeOK, Counted
  <1>3. logins \in Nat /\ logins' \in Nat
    BY AuthAssumption, SMTT(60) DEF Inv, TypeOK, Counted
  <1>4. TabsOK'
    <2>1. SUFFICES ASSUME NEW u \in Tab PROVE TabOK(tab[u])'
      BY DEF TabsOK
    <2>2. CASE u = t
      BY <1>1, <2>2 DEF TabOK, AddressOK, SnapOK
    <2>3. CASE u # t
      <3> DEFINE q == tab[u]
      <3>1. q \in BrowserTab /\ TabOK(q) /\ tab'[u] = q
        BY <1>1, <2>3, TabFacts
      <3> HIDE DEF q
      <3>2. q.pc \in LoadingTab /\ q.url.to # "page" => q.url.state.n \in Nat
        <4>1. q.pc \in LoadingTab /\ q.url.to # "page" => q.url \in Address /\ q.url.to # "page"
          BY <3>1 DEF TabOK, AddressOK
        <4>2. q.url \in Address /\ q.url.to # "page" => q.url.state \in State
          BY DEF Address
        <4> QED
          BY <4>1, <4>2, AuthAssumption, SMTT(60) DEF State
      <3> QED
        BY <1>3, <3>1, <3>2, SMTT(60) DEF TabOK, AddressOK, SnapOK
    <2> QED
      BY <2>2, <2>3
  <1>5. Alone'
    BY <1>1 DEF Alone, Loading
  <1>6. CalmOK'
    <2>1. SUFFICES ASSUME Calm', NEW u \in Tab PROVE CalmTab(tab[u])'
      BY DEF CalmOK
    <2>2. CASE u = t
      BY <1>1, <2>1, <2>2, SMTT(60) DEF CalmTab, InTime
    <2>3. CASE u # t
      <3>1. Calm /\ tab'[u] = tab[u] /\ CalmTab(tab[u]) /\ ~ Loading(u)
        BY <1>1, <2>1, <2>3, TabFacts DEF Calm
      <3> QED
        BY <3>1, SMTT(60) DEF CalmTab, Loading, LoadingTab
    <2> QED
      BY <2>2, <2>3
  <1> QED
    BY <1>2, <1>4, <1>5, <1>6 DEF Inv

\* A tab that is loading is the only one.
LEMMA OthersRest ==
  ASSUME Inv, NEW t \in Tab, Loading(t), ~ overlap, NEW u \in Tab \ {t}
  PROVE  ~ Loading(u)
  BY DEF Inv, Alone

\* The cookie of one host is set.
LEMMA CookieSet ==
  ASSUME Inv, NEW h \in Host, NEW c \in Session, SessionOK(h, c), cookie' = [cookie EXCEPT ![h] = c]
  PROVE  /\ cookie' \in [Host -> Session \cup {Undecodable}] /\ CookiesOK'
         /\ cookie'[h] = c /\ \A g \in Host : g # h => cookie'[g] = cookie[g]
         /\ Calm => \A g \in Host : cookie'[g] # Undecodable
  <1>1. cookie \in [Host -> Session \cup {Undecodable}] /\ CookiesOK
    BY DEF Inv, TypeOK
  <1>2. /\ cookie' \in [Host -> Session \cup {Undecodable}]
        /\ cookie'[h] = c /\ \A g \in Host : g # h => cookie'[g] = cookie[g]
    BY <1>1
  <1>3. CookiesOK'
    BY <1>1, <1>2 DEF CookiesOK, SessionOK
  <1>4. c # Undecodable
    BY NamesAssumption
  <1> QED
    BY <1>2, <1>3, <1>4 DEF Inv, CalmOK

\* A redirect leaves the page that was asked for.
LEMMA RedirectTab ==
  ASSUME Inv, NEW t \in Tab, NEW url \in Address, Redirect(t, url)
  PROVE  \E r \in BrowserTab :
           /\ tab' = [tab EXCEPT ![t] = r]
           /\ r.pc = "send" /\ r.url = url /\ r.asked = tab[t].asked /\ r.denied = tab[t].denied
  <1> DEFINE r == [tab[t] EXCEPT !.pc = "send", !.url = url, !.snap = None]
  <1>1. tab' = [tab EXCEPT ![t] = r]
    BY TabFacts DEF Redirect
  <1>2. tab[t] \in BrowserTab /\ {"send", "done"} \subseteq Progress
    BY TabFacts DEF Progress
  <1>3. r \in BrowserTab
    BY <1>2 DEF BrowserTab
  <1>4. r.pc = "send" /\ r.url = url /\ r.asked = tab[t].asked /\ r.denied = tab[t].denied
    BY <1>2 DEF BrowserTab
  <1> QED
    BY <1>1, <1>3, <1>4

\* An answer leaves it too.
LEMMA AnswerTab ==
  ASSUME Inv, NEW t \in Tab, NEW status \in Status, Answer(t, status)
  PROVE  \E r \in BrowserTab :
           /\ tab' = [tab EXCEPT ![t] = r]
           /\ r.pc = "done" /\ r.status = status /\ r.asked = tab[t].asked /\ r.denied = tab[t].denied
  <1> DEFINE r == [tab[t] EXCEPT !.pc = "done", !.status = status, !.snap = None]
  <1>1. tab' = [tab EXCEPT ![t] = r]
    BY TabFacts DEF Answer
  <1>2. tab[t] \in BrowserTab /\ {"send", "done"} \subseteq Progress
    BY TabFacts DEF Progress
  <1>3. r \in BrowserTab
    BY <1>2 DEF BrowserTab
  <1>4. r.pc = "done" /\ r.status = status /\ r.asked = tab[t].asked /\ r.denied = tab[t].denied
    BY <1>2 DEF BrowserTab
  <1> QED
    BY <1>1, <1>3, <1>4

\* A loading tab is redirected.
LEMMA RedirectStep ==
  ASSUME Inv, NEW t \in Tab, Loading(t), NEW url \in Address, Redirect(t, url),
         cookie' \in [Host -> Session \cup {Undecodable}], CookiesOK', UsedOK', Counted',
         logins' >= logins, overlap' = overlap, faults \subseteq faults',
         \A r \in BrowserTab :
           r.url = url /\ r.asked = tab[t].asked /\ r.denied = tab[t].denied =>
             AddressOK(r)' /\ (Calm' /\ ~ r.denied => InTime(r)'),
         Calm' => \A h \in Host : cookie'[h] # Undecodable
  PROVE  Inv'
  <1>1. PICK r \in BrowserTab :
          /\ tab' = [tab EXCEPT ![t] = r]
          /\ r.pc = "send" /\ r.url = url /\ r.asked = tab[t].asked /\ r.denied = tab[t].denied
    BY RedirectTab
  <1>2. TabOK(r)' /\ (Calm' => CalmTab(r)')
    BY <1>1 DEF TabOK, CalmTab
  <1>3. ~ overlap' => \A u \in Tab \ {t} : ~ Loading(u)
    BY OthersRest
  <1> QED
    BY <1>1, <1>2, <1>3, TabStep

\* A loading tab is answered.
LEMMA AnswerStep ==
  ASSUME Inv, NEW t \in Tab, Loading(t), NEW status \in Status, Answer(t, status),
         cookie' \in [Host -> Session \cup {Undecodable}], CookiesOK', UsedOK', Counted',
         logins' >= logins, overlap' = overlap, faults \subseteq faults',
         Calm' /\ ~ tab[t].denied => status = IF Member[tab[t].asked.host] THEN 200 ELSE 404,
         Calm' => \A h \in Host : cookie'[h] # Undecodable
  PROVE  Inv'
  <1>1. PICK r \in BrowserTab :
          /\ tab' = [tab EXCEPT ![t] = r]
          /\ r.pc = "done" /\ r.status = status /\ r.asked = tab[t].asked /\ r.denied = tab[t].denied
    BY AnswerTab, SMTT(60)
  <1>2. TabOK(r)' /\ (Calm' => CalmTab(r)')
    BY <1>1, SMTT(60) DEF TabOK, CalmTab, LoadingTab
  <1>3. ~ overlap' => \A u \in Tab \ {t} : ~ Loading(u)
    BY OthersRest, SMTT(60)
  <1> QED
    BY <1>1, <1>2, <1>3, TabStep

\* The counters are in their types.
LEMMA CountedNow ==
  ASSUME Inv
  PROVE  Counted /\ UsedOK /\ logins \in Nat /\ CookiesOK
         /\ cookie \in [Host -> Session \cup {Undecodable}]
         /\ (Calm => \A h \in Host : cookie[h] # Undecodable)
  BY AuthAssumption, SMTT(60) DEF Inv, TypeOK, Counted, CalmOK

\* They stay there when they do not change.
LEMMA CountedKept ==
  ASSUME Inv, UNCHANGED <<logins, used, revoked, opens, overlap>>,
         faults' \subseteq {"revoked", "cookie", "save", "api", "source", "token", "expired"}
  PROVE  Counted' /\ UsedOK' /\ logins' >= logins
  BY CountedNow, SMTT(60) DEF Counted, UsedOK

\* Nothing but the faults changes with the tab: what was true of the cookies still is.
LEMMA CookiesKept ==
  ASSUME Inv, cookie' = cookie, overlap' = overlap, faults \subseteq faults'
  PROVE  /\ cookie' \in [Host -> Session \cup {Undecodable}] /\ CookiesOK'
         /\ Calm' => Calm /\ \A h \in Host : cookie'[h] # Undecodable
  BY CountedNow DEF CookiesOK, Calm

\* What a handler knows of the request it has to answer.
LEMMA AtFacts ==
  ASSUME Inv, NEW t \in Tab, NEW to \in {"page", "proxy", "callback"}, At(t, to)
  PROVE  /\ Loading(t) /\ AddressOK(tab[t]) /\ tab[t].url \in Address /\ tab[t].url.to = to
         /\ tab[t].url.host \in Host /\ tab[t].snap \in Session /\ SessionOK(tab[t].url.host, tab[t].snap)
         /\ tab[t].snap # Undecodable
         /\ Calm => tab[t].snap = cookie[tab[t].url.host] /\ (~ tab[t].denied => InTime(tab[t]))
  <1> DEFINE r == tab[t]
  <1>1. TabOK(r) /\ (Calm => CalmTab(r)) /\ r.pc = "wait" /\ r.snap # Undecodable /\ r.url.to = to
    BY TabFacts DEF At
  <1>2. Loading(t)
    BY <1>1 DEF Loading
  <1> HIDE DEF r
  <1>3. AddressOK(r) /\ SnapOK(r)
    BY <1>1 DEF TabOK, LoadingTab
  <1>4. r.url \in Address
    BY <1>3 DEF AddressOK
  <1>5. r.url.host \in Host
    BY <1>1, <1>4 DEF Address
  <1>6. r.snap \in Session /\ SessionOK(r.url.host, r.snap)
    BY <1>1, <1>3 DEF SnapOK
  <1>7. Calm => r.snap = cookie[r.url.host] /\ (~ r.denied => InTime(r))
    BY <1>1 DEF CalmTab, LoadingTab
  <1> QED
    BY <1>1, <1>2, <1>3, <1>4, <1>5, <1>6, <1>7 DEF r

-----------------------------------------------------------------------------
(* The handlers                                                            *)

\* A session that cannot be read is replaced by an empty one.
LEMMA CheckSessionStep ==
  ASSUME Inv, NEW t \in Tab, CheckSession(t)
  PROVE  Inv'
  <1> DEFINE r == tab[t]
  <1>1. /\ r.pc = "wait" /\ r.snap = Undecodable /\ Redirect(t, r.url)
        /\ cookie' = [cookie EXCEPT ![r.url.host] = Empty]
        /\ UNCHANGED <<logins, used, revoked, opens, faults, overlap>>
    BY DEF CheckSession, SetCookie
  <1>2. AddressOK(r) /\ SnapOK(r) /\ Loading(t) /\ (Calm => r.snap = cookie[r.url.host])
    BY <1>1, TabFacts, SMTT(60) DEF TabOK, LoadingTab, Loading, CalmTab
  <1>3. r.url \in Address /\ r.url.to # "authorize"
    BY <1>2 DEF AddressOK, SnapOK
  <1>4. r.url.host \in Host
    BY <1>3 DEF Address
  <1>5. ~ Calm' /\ Calm' = Calm
    BY <1>1, <1>2, <1>4, CountedNow DEF Calm
  <1>6. Empty \in Session /\ SessionOK(r.url.host, Empty)
    BY DEF Empty, Session, SessionOK
  <1>7. cookie' \in [Host -> Session \cup {Undecodable}] /\ CookiesOK'
    BY <1>1, <1>4, <1>6, CookieSet
  <1>8. Counted' /\ UsedOK' /\ logins' >= logins
    BY <1>1, CountedNow, CountedKept DEF Counted
  <1>9. \A q \in BrowserTab : q.url = r.url /\ q.asked = r.asked => AddressOK(q)'
    BY <1>1, <1>2 DEF AddressOK
  <1> QED
    BY <1>1, <1>2, <1>3, <1>5, <1>7, <1>8, <1>9, RedirectStep

\* A session that begins a login.
LEMMA SessionOfLoginOK ==
  ASSUME NEW c \in Session, NEW st \in State, NEW s \in Site, st.begun = s, SessionOK(s.host, c),
         c # Undecodable
  PROVE  /\ SessionOfLogin(c, st, s) \in Session /\ SessionOK(s.host, SessionOfLogin(c, st, s))
         /\ SessionOfLogin(c, st, s).state = st /\ SessionOfLogin(c, st, s).proxy = None
  <1> DEFINE d == SessionOfLogin(c, st, s)
  <1>1. d \in Session
    BY DEF Session, SessionOfLogin
  <1>2. d.state = st /\ d.uri = s /\ d.proxy = None /\ d.token = c.token
    BY DEF Session, SessionOfLogin
  <1>3. SessionOK(s.host, d)
    BY <1>2 DEF SessionOK
  <1> QED
    BY <1>1, <1>2, <1>3

\* A fault has happened.
LEMMA FaultFacts ==
  ASSUME Inv, Fault("cookie") \/ Fault("save") \/ Fault("api") \/ Fault("source") \/ Fault("token")
              \/ Fault("expired")
  PROVE  /\ faults' \subseteq {"revoked", "cookie", "save", "api", "source", "token", "expired"}
         /\ faults \subseteq faults' /\ ~ Calm'
  <1>1. faults \subseteq {"revoked", "cookie", "save", "api", "source", "token", "expired"}
    BY DEF Inv, TypeOK
  <1>2. \E f \in {"cookie", "save", "api", "source", "token", "expired"} : faults' = faults \cup {f}
    BY DEF Fault
  <1>3. ~ Calm'
    BY <1>2 DEF Calm
  <1> QED
    BY <1>1, <1>2, <1>3

\* A handler fails: the tab ends with an error and the cookies stay.
LEMMA FailStep ==
  ASSUME Inv, NEW t \in Tab, Loading(t), NEW status \in Status, Answer(t, status),
         Fault("save") \/ Fault("api") \/ Fault("source") \/ Fault("token"),
         UNCHANGED <<cookie, logins, used, revoked, opens, overlap>>
  PROVE  Inv'
  <1>1. /\ faults' \subseteq {"revoked", "cookie", "save", "api", "source", "token", "expired"}
        /\ faults \subseteq faults' /\ ~ Calm'
    BY FaultFacts
  <1>2. Counted' /\ UsedOK' /\ logins' >= logins
    BY <1>1, CountedKept
  <1>3. cookie' \in [Host -> Session \cup {Undecodable}] /\ CookiesOK'
    BY <1>1, CookiesKept
  <1> QED
    BY <1>1, <1>2, <1>3, AnswerStep

\* It ends without a fault, and the cookies stay.
LEMMA QuietAnswerStep ==
  ASSUME Inv, NEW t \in Tab, Loading(t), NEW status \in Status, Answer(t, status),
         UNCHANGED <<cookie, logins, used, revoked, opens, faults, overlap>>,
         Calm /\ ~ tab[t].denied => status = IF Member[tab[t].asked.host] THEN 200 ELSE 404
  PROVE  Inv'
  <1>1. faults' \subseteq {"revoked", "cookie", "save", "api", "source", "token", "expired"}
    BY CountedNow DEF Counted
  <1>2. Counted' /\ UsedOK' /\ logins' >= logins /\ faults \subseteq faults'
    BY <1>1, CountedKept
  <1>3. /\ cookie' \in [Host -> Session \cup {Undecodable}] /\ CookiesOK'
        /\ Calm' => Calm /\ \A h \in Host : cookie'[h] # Undecodable
    BY <1>2, CookiesKept
  <1> QED
    BY <1>2, <1>3, AnswerStep, SMTT(60)

\* checkTokenExists makes a new state for the page that was asked for.
LEMMA BeginLoginStep ==
  ASSUME Inv, NEW t \in Tab, BeginLogin(t)
  PROVE  Inv'
  <1> DEFINE r == tab[t]
             p == r.url.page
             st == [n |-> logins + 1, begun |-> p]
             c == SessionOfLogin(r.snap, st, p)
  <1>1. /\ At(t, "page") /\ logins < MaxLogins /\ logins' = logins + 1
        /\ cookie' = [cookie EXCEPT ![r.url.host] = c] /\ Redirect(t, ProxyAddress(p.host, st))
        /\ UNCHANGED <<used, revoked, opens, faults, overlap>>
    BY DEF BeginLogin, SetCookie
  <1>2. /\ Loading(t) /\ AddressOK(r) /\ r.url.to = "page" /\ r.url.host \in Host
        /\ r.snap \in Session /\ SessionOK(r.url.host, r.snap) /\ r.snap # Undecodable
    BY <1>1, AtFacts
  <1>3. p = r.asked /\ p \in Site /\ p.host \in Host /\ r.url.host = p.host
    BY <1>2, AuthAssumption DEF AddressOK
  <1>4. /\ st \in State /\ st.begun = p /\ st.n = logins + 1
        /\ logins \in Nat /\ logins' \in 0..MaxLogins
    BY <1>1, <1>3, CountedNow, AuthAssumption, SMTT(60) DEF State, Counted
  <1>5. st \notin used
    BY <1>4, CountedNow, SMTT(60) DEF UsedOK
  <1> HIDE DEF st
  <1>6. c \in Session /\ SessionOK(p.host, c) /\ c.state = st /\ c.proxy = None
    BY <1>2, <1>3, <1>4, SessionOfLoginOK
  <1> HIDE DEF c
  <1>7. /\ cookie' \in [Host -> Session \cup {Undecodable}] /\ CookiesOK' /\ cookie'[p.host] = c
        /\ Calm => \A g \in Host : cookie'[g] # Undecodable
    BY <1>1, <1>3, <1>6, CookieSet
  <1>8. Counted' /\ UsedOK' /\ logins' >= logins
    <2>1. UsedOK'
      BY <1>1, <1>4, CountedNow, SMTT(60) DEF UsedOK, Counted, State
    <2> QED
      BY <1>1, <1>4, <2>1, CountedNow, SMTT(60) DEF Counted
  <1>9. ProxyAddress(p.host, st) \in Address
    BY <1>3, <1>4, AuthAssumption DEF ProxyAddress, Address
  <1>10. ASSUME NEW q \in BrowserTab, q.url = ProxyAddress(p.host, st), q.asked = r.asked
         PROVE  AddressOK(q)' /\ InTime(q)'
    <2>1. /\ q.url.to = "proxy" /\ q.url.state = st /\ q.url.host = PagesHost
          /\ q.url.domain = p.host /\ q.asked = p
      BY <1>3, <1>10, SMTT(60) DEF ProxyAddress
    <2>2. AddressOK(q)'
      BY <1>1, <1>3, <1>4, <1>9, <1>10, <2>1, SMTT(60) DEF AddressOK
    <2>3. InTime(q)'
      BY <1>1, <1>5, <1>6, <1>7, <2>1 DEF InTime
    <2> QED
      BY <2>2, <2>3
  <1>11. Calm' = Calm /\ overlap' = overlap /\ faults \subseteq faults'
    BY <1>1 DEF Calm
  <1> QED
    BY <1>1, <1>2, <1>7, <1>8, <1>9, <1>10, <1>11, RedirectStep, SMTT(60)

\* The API says whether the user may see the project.
LEMMA CheckAccessStep ==
  ASSUME Inv, NEW t \in Tab, CheckAccess(t)
  PROVE  Inv'
  <1> DEFINE status == IF Member[tab[t].url.host] THEN 200 ELSE 404
  <1>1. At(t, "page") /\ UNCHANGED <<cookie, logins, used, revoked, opens, overlap>>
    BY DEF CheckAccess
  <1>2. Loading(t) /\ tab[t].url.host = tab[t].asked.host
    BY <1>1, AtFacts DEF AddressOK
  <1>3. status \in Status /\ 404 \in Status
    BY SMTT(60) DEF Status
  <1>4. CASE Answer(t, status) /\ UNCHANGED faults
    BY <1>1, <1>2, <1>3, <1>4, QuietAnswerStep, SMTT(60)
  <1>5. CASE Fault("api") /\ Answer(t, 404)
    BY <1>1, <1>2, <1>3, <1>5, FailStep, SMTT(60)
  <1> QED
    BY <1>4, <1>5 DEF CheckAccess

\* A session whose token is taken away.
LEMMA DestroySessionStep ==
  ASSUME Inv, NEW t \in Tab, DestroySession(t)
  PROVE  Inv'
  <1> DEFINE r == tab[t]
             c == SessionDestroyed(r.snap)
  <1>1. /\ At(t, "page") /\ cookie' = [cookie EXCEPT ![r.url.host] = c] /\ Redirect(t, r.url)
        /\ UNCHANGED <<logins, used, revoked, opens, faults, overlap>>
    BY DEF DestroySession, SetCookie
  <1>2. /\ Loading(t) /\ AddressOK(r) /\ r.url \in Address /\ r.url.to = "page" /\ r.url.host \in Host
        /\ r.snap \in Session /\ SessionOK(r.url.host, r.snap) /\ r.snap # Undecodable
    BY <1>1, AtFacts
  <1>3. c \in Session /\ c.state = r.snap.state /\ c.uri = r.snap.uri /\ c.token = None
    BY <1>2 DEF SessionDestroyed, Session
  <1> HIDE DEF c
  <1>4. SessionOK(r.url.host, c)
    BY <1>2, <1>3 DEF SessionOK
  <1>5. /\ cookie' \in [Host -> Session \cup {Undecodable}] /\ CookiesOK'
        /\ Calm => \A g \in Host : cookie'[g] # Undecodable
    BY <1>1, <1>2, <1>3, <1>4, CookieSet
  <1>6. Counted' /\ UsedOK' /\ logins' >= logins
    BY <1>1, CountedNow, CountedKept DEF Counted
  <1>7. \A q \in BrowserTab : q.url = r.url /\ q.asked = r.asked => AddressOK(q)' /\ InTime(q)'
    <2>1. logins' = logins
      BY <1>1
    <2> QED
      BY <1>2, <2>1 DEF AddressOK, InTime
  <1>8. Calm' = Calm /\ overlap' = overlap /\ faults \subseteq faults'
    BY <1>1 DEF Calm
  <1> QED
    BY <1>1, <1>2, <1>5, <1>6, <1>7, <1>8, RedirectStep

\* The pages host remembers the domain and sends the tab to GitLab.
LEMMA ProxyToGitlabStep ==
  ASSUME Inv, NEW t \in Tab, ProxyToGitlab(t)
  PROVE  Inv'
  <1> DEFINE r == tab[t]
             u == r.url
             h == r.asked.host
             c == [r.snap EXCEPT !.proxy = u.domain]
  <1>1. At(t, "proxy") /\ UNCHANGED <<logins, used, revoked, opens, overlap>>
    BY DEF ProxyToGitlab
  <1>2. /\ Loading(t) /\ AddressOK(r) /\ u \in Address /\ u.to = "proxy" /\ u.host \in Host
        /\ r.snap \in Session /\ SessionOK(u.host, r.snap) /\ r.snap # Undecodable
        /\ Calm => r.snap = cookie[u.host] /\ (~ r.denied => InTime(r))
    BY <1>1, AtFacts
  <1>3. u.host = PagesHost /\ u.domain \in Host /\ u.state \in State
    BY <1>2 DEF AddressOK, Address
  <1>4. CASE u.domain # PagesHost /\ Fault("source") /\ Answer(t, 401) /\ UNCHANGED cookie
    <2>1. 401 \in Status
      BY SMTT(60) DEF Status
    <2> QED
      BY <1>1, <1>2, <1>4, <2>1, FailStep, SMTT(60)
  <1>5. CASE SetCookie(t, c) /\ Redirect(t, Authorize(u.state)) /\ UNCHANGED faults
    <2>1. cookie' = [cookie EXCEPT ![u.host] = c] /\ Redirect(t, Authorize(u.state)) /\ faults' = faults
      BY <1>5 DEF SetCookie
    <2>2. c \in Session /\ c.state = r.snap.state /\ c.uri = r.snap.uri /\ c.token = r.snap.token
          /\ c.proxy = u.domain
      BY <1>2, <1>3 DEF Session
    <2> HIDE DEF c
    <2>3. SessionOK(u.host, c)
      BY <1>2, <2>2 DEF SessionOK
    <2>4. /\ cookie' \in [Host -> Session \cup {Undecodable}] /\ CookiesOK'
          /\ cookie'[u.host] = c /\ \A g \in Host : g # u.host => cookie'[g] = cookie[g]
          /\ Calm => \A g \in Host : cookie'[g] # Undecodable
      BY <1>2, <2>1, <2>2, <2>3, CookieSet
    <2>5. Counted' /\ UsedOK' /\ logins' >= logins
      BY <1>1, <2>1, CountedNow, CountedKept DEF Counted
    <2>6. Authorize(u.state) \in Address
      BY <1>3 DEF Authorize, Address
    <2>7. Calm' = Calm /\ overlap' = overlap /\ faults \subseteq faults'
      BY <1>1, <2>1 DEF Calm
    <2>8. ASSUME NEW q \in BrowserTab, q.url = Authorize(u.state), q.asked = r.asked, q.denied = r.denied
          PROVE  AddressOK(q)' /\ (Calm' /\ ~ q.denied => InTime(q)')
      <3>1. q.url.to = "authorize" /\ q.url.state = u.state /\ q.asked.host = h
        BY <2>8, SMTT(60) DEF Authorize
      <3>2. AddressOK(q)'
        <4>1. r.asked \in Site /\ u.state.begun = r.asked /\ u.state.n <= logins
          BY <1>2 DEF AddressOK
        <4> QED
          BY <1>1, <2>6, <2>8, <3>1, <4>1 DEF AddressOK
      <3>3. ASSUME Calm', ~ q.denied PROVE InTime(q)'
        <4>1. /\ u.state \notin used /\ cookie[h].state = u.state /\ (h # PagesHost => cookie[h].proxy = None)
              /\ u.domain = h /\ r.snap = cookie[u.host]
          BY <1>2, <2>7, <2>8, <3>3 DEF InTime
        <4>2. h \in Host
          BY <1>3, <4>1
        <4>3. cookie'[h].state = u.state /\ (h # PagesHost => cookie'[h].proxy = None)
          BY <1>3, <2>2, <2>4, <4>1, <4>2
        <4>4. cookie'[PagesHost].proxy = h
          BY <1>3, <2>2, <2>4, <4>1
        <4> QED
          BY <1>1, <3>1, <4>1, <4>3, <4>4 DEF InTime
      <3> QED
        BY <3>2, <3>3
    <2>9. /\ \A q \in BrowserTab :
               q.url = Authorize(u.state) /\ q.asked = tab[t].asked /\ q.denied = tab[t].denied =>
                 AddressOK(q)' /\ (Calm' /\ ~ q.denied => InTime(q)')
          /\ Calm' => \A g \in Host : cookie'[g] # Undecodable
      BY <2>4, <2>7, <2>8
    <2>10. Loading(t) /\ logins' >= logins
      BY <1>2, <2>5
    <2> QED
      BY <2>1, <2>4, <2>5, <2>6, <2>7, <2>9, <2>10, RedirectStep
  <1> QED
    BY <1>4, <1>5 DEF ProxyToGitlab

\* What the code parameter can hold.
LEMMA CodeFacts ==
  ASSUME NEW k \in Code
  PROVE  /\ k.kind = "none" => k = NoCode
         /\ k # NoCode => k.kind \in {"raw", "sealed"} /\ k.of \in State
         /\ NoCode.kind = "none"
  BY DEF Code, NoCode

\* What a callback carries, and what is known of one that nothing disturbed.
LEMMA CallbackFacts ==
  ASSUME Inv, NEW t \in Tab, At(t, "callback")
  PROVE  LET r == tab[t]
             u == r.url
             h == r.asked.host
         IN
         /\ u.code \in Code /\ u.state \in State /\ u.state.begun = r.asked /\ u.state.n <= logins
         /\ r.asked \in Site /\ h \in Host
         /\ u.code # NoCode => u.code.of = u.state
         /\ Calm /\ ~ r.denied =>
              /\ u.code # NoCode /\ u.state \notin used /\ cookie[h].state = u.state
              /\ h # PagesHost => cookie[h].proxy = None
              /\ r.snap.proxy # None => u.code.kind = "raw" /\ u.host = PagesHost /\ r.snap.proxy = h
              /\ r.snap.proxy = None => /\ u.code.kind = "sealed" /\ u.host = h /\ u.code.domain = h
                                        /\ ~ u.code.twice /\ ~ u.code.expired /\ r.snap.state = u.state
  <1> DEFINE r == tab[t]
             u == r.url
             h == r.asked.host
  <1>1. /\ AddressOK(r) /\ u \in Address /\ u.to = "callback"
        /\ Calm => r.snap = cookie[u.host] /\ (~ r.denied => InTime(r))
    BY AtFacts
  <1>2. u.code \in Code /\ u.state \in State
    BY <1>1 DEF Address
  <1>3. /\ u.state.begun = r.asked /\ u.state.n <= logins /\ r.asked \in Site /\ h \in Host
        /\ u.code # NoCode => u.code.of = u.state
    BY <1>1, AuthAssumption DEF AddressOK
  <1>4. ASSUME Calm, ~ r.denied
        PROVE  /\ u.code # NoCode /\ u.state \notin used /\ cookie[h].state = u.state
               /\ h # PagesHost => cookie[h].proxy = None
               /\ r.snap.proxy # None => u.code.kind = "raw" /\ u.host = PagesHost /\ r.snap.proxy = h
               /\ r.snap.proxy = None => /\ u.code.kind = "sealed" /\ u.host = h /\ u.code.domain = h
                                         /\ ~ u.code.twice /\ ~ u.code.expired /\ r.snap.state = u.state
    <2>1. r.snap = cookie[u.host] /\ InTime(r)
      BY <1>1, <1>4
    <2>2. /\ u.state \notin used /\ cookie[h].state = u.state /\ (h # PagesHost => cookie[h].proxy = None)
          /\ \/ u.code.kind = "raw" /\ u.host = PagesHost /\ cookie[PagesHost].proxy = h
             \/ /\ u.code.kind = "sealed" /\ u.host = h /\ cookie[h].proxy = None
                /\ u.code.domain = h /\ ~ u.code.twice /\ ~ u.code.expired
      BY <1>1, <2>1 DEF InTime
    <2>3. h # None
      BY <1>3, NamesAssumption
    <2>4. u.code # NoCode
      BY <2>2, <1>2, CodeFacts
    <2> QED
      BY <2>1, <2>2, <2>3, <2>4
  <1> QED
    BY <1>2, <1>3, <1>4

\* The pages host sends the callback on to the domain, with the code sealed for it.
LEMMA ProxyToDomainStep ==
  ASSUME Inv, NEW t \in Tab, ProxyToDomain(t)
  PROVE  Inv'
  <1> DEFINE r == tab[t]
             u == r.url
             h == r.asked.host
             d == r.snap.proxy
             c == SessionUnproxied(r.snap)
             k == Sealed(d, u.code)
  <1>1. /\ At(t, "callback") /\ d # None /\ cookie' = [cookie EXCEPT ![u.host] = c]
        /\ UNCHANGED <<logins, used, revoked, opens, faults, overlap>>
        /\ IF u.code = NoCode THEN Answer(t, 503) ELSE Redirect(t, Callback(d, u.state, k))
    BY DEF ProxyToDomain, SetCookie
  <1>2. /\ Loading(t) /\ u.host \in Host /\ r.snap \in Session
        /\ SessionOK(u.host, r.snap) /\ r.snap # Undecodable
        /\ Calm => r.snap = cookie[u.host]
    BY <1>1, AtFacts
  <1>3. /\ u.code \in Code /\ u.state \in State /\ u.state.begun = r.asked /\ u.state.n <= logins
        /\ r.asked \in Site /\ h \in Host
        /\ u.code # NoCode => u.code.of = u.state
        /\ Calm /\ ~ r.denied =>
              /\ u.code # NoCode /\ u.state \notin used /\ cookie[h].state = u.state
              /\ h # PagesHost => cookie[h].proxy = None
              /\ u.code.kind = "raw" /\ u.host = PagesHost /\ d = h
    BY <1>1, CallbackFacts
  <1>4. /\ c \in Session /\ c.state = r.snap.state /\ c.uri = r.snap.uri /\ c.token = r.snap.token
        /\ c.proxy = None
    BY <1>2 DEF SessionUnproxied, Session
  <1>5. d \in Host
    BY <1>1, <1>2 DEF Session
  <1> HIDE DEF c
  <1>6. SessionOK(u.host, c)
    BY <1>2, <1>4 DEF SessionOK
  <1>7. /\ cookie' \in [Host -> Session \cup {Undecodable}] /\ CookiesOK'
        /\ cookie'[u.host] = c /\ \A g \in Host : g # u.host => cookie'[g] = cookie[g]
        /\ Calm => \A g \in Host : cookie'[g] # Undecodable
    BY <1>1, <1>2, <1>4, <1>6, CookieSet
  <1>8. Counted' /\ UsedOK' /\ logins' >= logins
    BY <1>1, CountedNow, CountedKept DEF Counted
  <1>9. Calm' = Calm /\ overlap' = overlap /\ faults \subseteq faults'
    BY <1>1 DEF Calm
  <1>10. CASE u.code = NoCode
    <2>1. Answer(t, 503) /\ 503 \in Status
      BY <1>1, <1>10, SMTT(60) DEF Status
    <2>2. ~ (Calm' /\ ~ r.denied)
      BY <1>3, <1>9, <1>10
    <2> QED
      BY <1>2, <1>7, <1>8, <1>9, <2>1, <2>2, AnswerStep, SMTT(60)
  <1>11. CASE u.code # NoCode
    <2>1. Redirect(t, Callback(d, u.state, k))
      BY <1>1, <1>11
    <2>2. u.code.of = u.state /\ u.code.kind \in {"raw", "sealed"}
      BY <1>3, <1>11, CodeFacts
    <2>3. /\ k.kind = "sealed" /\ k.domain = d /\ k.of = u.state /\ k.expired = FALSE
          /\ k.twice = (u.code.kind = "sealed") /\ k \in Code
      BY <1>3, <1>5, <2>2 DEF Sealed, Code
    <2> HIDE DEF k
    <2>4. Callback(d, u.state, k) \in Address
      BY <1>3, <1>5, <2>3 DEF Callback, Address
    <2>5. ASSUME NEW q \in BrowserTab, q.url = Callback(d, u.state, k), q.asked = r.asked, q.denied = r.denied
          PROVE  AddressOK(q)' /\ (Calm' /\ ~ q.denied => InTime(q)')
      <3>1. q.url.to = "callback" /\ q.url.state = u.state /\ q.url.host = d /\ q.url.code = k
        BY <2>5, SMTT(60) DEF Callback
      <3>2. AddressOK(q)'
        BY <1>1, <1>3, <2>3, <2>4, <2>5, <3>1 DEF AddressOK
      <3>3. ASSUME Calm', ~ q.denied PROVE InTime(q)'
        <4>1. /\ u.state \notin used /\ cookie[h].state = u.state /\ (h # PagesHost => cookie[h].proxy = None)
              /\ u.code.kind = "raw" /\ u.host = PagesHost /\ d = h /\ r.snap = cookie[u.host]
          BY <1>2, <1>3, <1>9, <2>5, <3>3
        <4>2. cookie'[h].state = u.state /\ cookie'[h].proxy = None
          BY <1>3, <1>4, <1>7, <4>1, SMTT(60)
        <4>3. k.kind = "sealed" /\ k.domain = h /\ ~ k.twice /\ ~ k.expired
          BY <2>3, <4>1
        <4> QED
          BY <1>1, <2>5, <3>1, <4>1, <4>2, <4>3 DEF InTime
      <3> QED
        BY <3>2, <3>3
    <2> QED
      BY <1>2, <1>7, <1>8, <1>9, <2>1, <2>4, <2>5, RedirectStep
  <1> QED
    BY <1>10, <1>11

\* A denied login that no domain waits for.
LEMMA CallbackErrorStep ==
  ASSUME Inv, NEW t \in Tab, CallbackError(t)
  PROVE  Inv'
  <1>1. /\ At(t, "callback") /\ tab[t].url.code = NoCode /\ Answer(t, 401)
        /\ UNCHANGED <<cookie, logins, used, revoked, opens, faults, overlap>>
    BY DEF CallbackError
  <1>2. Loading(t) /\ 401 \in Status
    BY <1>1, AtFacts, SMTT(60) DEF Status
  <1>3. ~ (Calm /\ ~ tab[t].denied)
    BY <1>1, CallbackFacts
  <1> QED
    BY <1>1, <1>2, <1>3, QuietAnswerStep, SMTT(60)

\* A callback that nothing disturbed is not rejected.
LEMMA RejectCallbackStep ==
  ASSUME Inv, NEW t \in Tab, RejectCallback(t)
  PROVE  Inv'
  <1> DEFINE r == tab[t]
             u == r.url
  <1>1. /\ At(t, "callback") /\ r.snap.proxy = None /\ u.code # NoCode
        /\ UNCHANGED <<cookie, logins, used, revoked, opens, overlap>>
    BY DEF RejectCallback
  <1>2. Loading(t) /\ {401, 500, 503} \subseteq Status
    BY <1>1, AtFacts, SMTT(60) DEF Status
  <1>3. Calm /\ ~ r.denied => validateState(u, r.snap) /\ DecryptCodeOK(u) /\ ExchangeOK(u)
    BY <1>1, CallbackFacts DEF validateState, DecryptCodeOK, ExchangeOK
  <1>4. CASE /\ ~ validateState(u, r.snap) \/ ~ DecryptCodeOK(u) \/ ~ ExchangeOK(u)
             /\ UNCHANGED faults /\ \E s \in {401, 500, 503} : Answer(t, s)
    BY <1>1, <1>2, <1>3, <1>4, QuietAnswerStep, SMTT(60)
  <1>5. CASE Fault("token") /\ Answer(t, 503)
    BY <1>1, <1>2, <1>5, FailStep, SMTT(60)
  <1> QED
    BY <1>4, <1>5, SMTT(60) DEF RejectCallback

\* The token of the login is stored, and the tab returns to its page.
LEMMA StoreTokenStep ==
  ASSUME Inv, NEW t \in Tab, StoreToken(t)
  PROVE  Inv'
  <1> DEFINE r == tab[t]
             u == r.url
             c == [r.snap EXCEPT !.token = u.code.of]
  <1>1. /\ At(t, "callback") /\ u.code # NoCode /\ r.snap.state = u.state
        /\ used' = used \cup {u.code.of} /\ UNCHANGED <<logins, revoked, opens, overlap>>
    BY DEF StoreToken, validateState
  <1>2. /\ Loading(t) /\ u.host \in Host /\ r.snap \in Session
        /\ SessionOK(u.host, r.snap) /\ r.snap # Undecodable
    BY <1>1, AtFacts
  <1>3. /\ u.state \in State /\ u.state.begun = r.asked /\ u.state.n <= logins
        /\ r.asked \in Site /\ u.code.of = u.state
    BY <1>1, CallbackFacts
  <1>4. r.snap.state # None /\ r.snap.uri = r.asked /\ u.state.begun.host = u.host
    BY <1>1, <1>2, <1>3, NamesAssumption DEF SessionOK
  <1>5. UsedOK' /\ logins' >= logins
    BY <1>1, <1>3, CountedNow, SMTT(60) DEF UsedOK
  <1>6. used' \subseteq State
    BY <1>1, <1>3, CountedNow DEF Counted
  <1>7. CASE SetCookie(t, c) /\ Redirect(t, Page(r.snap.uri)) /\ UNCHANGED faults
    <2>1. cookie' = [cookie EXCEPT ![u.host] = c] /\ Redirect(t, Page(r.asked)) /\ faults' = faults
      BY <1>4, <1>7 DEF SetCookie
    <2>2. c \in Session /\ c.state = r.snap.state /\ c.uri = r.snap.uri /\ c.token = u.state
      BY <1>2, <1>3 DEF Session
    <2> HIDE DEF c
    <2>3. SessionOK(u.host, c)
      BY <1>2, <1>4, <2>2 DEF SessionOK
    <2>4. /\ cookie' \in [Host -> Session \cup {Undecodable}] /\ CookiesOK'
          /\ Calm => \A g \in Host : cookie'[g] # Undecodable
      BY <1>2, <2>1, <2>2, <2>3, CookieSet
    <2>5. Counted' /\ Calm' = Calm /\ faults \subseteq faults'
      BY <1>1, <1>6, <2>1, CountedNow DEF Counted, Calm
    <2>6. Page(r.asked) \in Address
      BY <1>3, AuthAssumption DEF Page, Address
    <2>7. ASSUME NEW q \in BrowserTab, q.url = Page(r.asked), q.asked = r.asked
          PROVE  AddressOK(q)' /\ InTime(q)'
      <3>1. q.url.to = "page" /\ q.url.page = r.asked /\ q.url.host = r.asked.host
        BY <2>7, SMTT(60) DEF Page
      <3> QED
        BY <1>3, <2>6, <2>7, <3>1 DEF AddressOK, InTime
    <2> QED
      BY <1>1, <1>2, <1>5, <2>1, <2>4, <2>5, <2>6, <2>7, RedirectStep
  <1>8. CASE Fault("save") /\ Answer(t, 500) /\ UNCHANGED cookie
    <2>1. /\ faults' \subseteq {"revoked", "cookie", "save", "api", "source", "token", "expired"}
          /\ faults \subseteq faults' /\ ~ Calm' /\ 500 \in Status
      BY <1>8, FaultFacts, SMTT(60) DEF Status
    <2>2. Counted'
      BY <1>1, <1>6, <2>1, CountedNow DEF Counted
    <2>3. cookie' \in [Host -> Session \cup {Undecodable}] /\ CookiesOK'
      BY <1>1, <1>8, <2>1, CookiesKept
    <2> QED
      BY <1>1, <1>2, <1>5, <1>8, <2>1, <2>2, <2>3, AnswerStep, SMTT(60)
  <1> QED
    BY <1>7, <1>8 DEF StoreToken

\* session.Save fails.
LEMMA SaveFailsStep ==
  ASSUME Inv, NEW t \in Tab, SaveFails(t)
  PROVE  Inv'
  <1>1. /\ Loading(t) /\ Fault("save") /\ Answer(t, 500) /\ 500 \in Status
        /\ UNCHANGED <<cookie, logins, used, revoked, opens, overlap>>
    BY SMTT(60) DEF SaveFails, At, Loading, Status
  <1> QED
    BY <1>1, FailStep, SMTT(60)

-----------------------------------------------------------------------------
(* The browser and the user                                                *)

\* The tab of a page that is opened.
LEMMA NewTabOK ==
  /\ NewTab \in BrowserTab /\ NewTab.pc = "new"
  /\ \A s \in Site : \E r \in BrowserTab :
       /\ [NewTab EXCEPT !.pc = "send", !.url = Page(s), !.asked = s] = r
       /\ r.pc = "send" /\ r.url = Page(s) /\ r.asked = s
  <1>1. "new" \in Progress /\ "send" \in Progress /\ 0 \in Status
    BY SMTT(60) DEF Progress, Status
  <1>2. NewTab \in BrowserTab /\ NewTab.pc = "new"
    BY <1>1 DEF NewTab, BrowserTab
  <1>3. ASSUME NEW s \in Site
        PROVE  \E r \in BrowserTab :
                 /\ [NewTab EXCEPT !.pc = "send", !.url = Page(s), !.asked = s] = r
                 /\ r.pc = "send" /\ r.url = Page(s) /\ r.asked = s
    <2> DEFINE r == [NewTab EXCEPT !.pc = "send", !.url = Page(s), !.asked = s]
    <2>1. Page(s) \in Address
      BY AuthAssumption DEF Page, Address
    <2>2. r \in BrowserTab
      BY <1>1, <1>2, <2>1 DEF BrowserTab
    <2>3. r.pc = "send" /\ r.url = Page(s) /\ r.asked = s
      BY DEF NewTab
    <2> QED
      BY <2>2, <2>3
  <1> QED
    BY <1>2, <1>3

\* A page is opened, in a tab that is not loading.
LEMMA OpenStep ==
  ASSUME Inv, NEW t \in Tab, NEW s \in Site, Open(t, s)
  PROVE  Inv'
  <1>1. PICK r \in BrowserTab :
          /\ [NewTab EXCEPT !.pc = "send", !.url = Page(s), !.asked = s] = r
          /\ r.pc = "send" /\ r.url = Page(s) /\ r.asked = s
    BY NewTabOK
  <1>2. /\ tab' = [tab EXCEPT ![t] = r] /\ opens < MaxOpens /\ opens' = opens + 1
        /\ overlap' = (overlap \/ \E u \in Tab \ {t} : Loading(u))
        /\ UNCHANGED <<cookie, logins, used, revoked, faults>>
    BY <1>1 DEF Open
  <1>3. overlap \in BOOLEAN
    BY CountedNow DEF Counted
  <1>4. overlap' \in BOOLEAN /\ (overlap => overlap') /\ (~ overlap' => \A u \in Tab \ {t} : ~ Loading(u))
    BY <1>2, <1>3, Zenon
  <1>5. opens' \in 0..MaxOpens
    BY <1>2, CountedNow, AuthAssumption, SMTT(60) DEF Counted
  <1>6. Counted' /\ UsedOK' /\ logins' >= logins
    BY <1>2, <1>4, <1>5, CountedNow, SMTT(60) DEF Counted, UsedOK
  <1>7. cookie' \in [Host -> Session \cup {Undecodable}] /\ CookiesOK'
    BY <1>2, CountedNow DEF CookiesOK
  <1>8. Calm' => Calm
    BY <1>2, <1>4 DEF Calm
  <1>9. r.url \in Address /\ r.url.to = "page" /\ r.url.page = r.asked /\ r.url.host = r.asked.host
    BY <1>1, AuthAssumption, SMTT(60) DEF Page, Address
  <1>10. TabOK(r)' /\ CalmTab(r)'
    BY <1>1, <1>9 DEF TabOK, AddressOK, CalmTab, InTime
  <1>11. Calm' => \A h \in Host : cookie'[h] # Undecodable
    BY <1>2, <1>8, CountedNow
  <1> QED
    BY <1>2, <1>4, <1>6, <1>7, <1>10, <1>11, TabStep

\* A step of the browser or the user that changes one loading tab only.
LEMMA BrowserStep ==
  ASSUME Inv, NEW t \in Tab, Loading(t), NEW r \in BrowserTab, tab' = [tab EXCEPT ![t] = r],
         UNCHANGED <<cookie, logins, used, revoked, opens, overlap>>,
         faults \subseteq faults',
         faults' \subseteq {"revoked", "cookie", "save", "api", "source", "token", "expired"},
         TabOK(r)', Calm' => CalmTab(r)'
  PROVE  Inv'
  <1>1. Counted' /\ UsedOK' /\ logins' >= logins
    BY CountedKept
  <1>2. /\ cookie' \in [Host -> Session \cup {Undecodable}] /\ CookiesOK'
        /\ Calm' => \A h \in Host : cookie'[h] # Undecodable
    BY CookiesKept
  <1>3. ~ overlap' => \A u \in Tab \ {t} : ~ Loading(u)
    BY OthersRest
  <1> QED
    BY <1>1, <1>2, <1>3, TabStep

\* The cookie of the host goes with the request.
LEMMA SendStep ==
  ASSUME Inv, NEW t \in Tab, Send(t)
  PROVE  Inv'
  <1>1. /\ tab[t].pc = "send" /\ tab[t].url.to # "authorize"
        /\ tab' = [tab EXCEPT ![t] = [tab[t] EXCEPT !.pc = "wait", !.snap = cookie[tab[t].url.host]]]
        /\ UNCHANGED <<cookie, logins, used, revoked, opens, faults, overlap>>
    BY TabFacts DEF Send
  <1>2. PICK q \in BrowserTab : q = tab[t]
    BY TabFacts
  <1>3. q.pc = "send" /\ q.url.to # "authorize" /\ TabOK(q) /\ (Calm => CalmTab(q)) /\ Loading(t)
    BY <1>1, <1>2, TabFacts DEF Loading
  <1>4. AddressOK(q) /\ q.url \in Address
    BY <1>3 DEF TabOK, AddressOK, LoadingTab
  <1>5. q.url.host \in Host
    BY <1>3, <1>4 DEF Address
  <1>6. PICK c \in Session \cup {Undecodable} : c = cookie[q.url.host] /\ SessionOK(q.url.host, c)
    BY <1>5, CountedNow DEF CookiesOK
  <1>7. "wait" \in Progress
    BY DEF Progress
  <1>8. PICK r \in BrowserTab : r = [q EXCEPT !.pc = "wait", !.snap = c]
    BY <1>6, <1>7 DEF BrowserTab
  <1>9. /\ r.pc = "wait" /\ r.snap = c /\ r.url = q.url /\ r.asked = q.asked /\ r.denied = q.denied
        /\ tab' = [tab EXCEPT ![t] = r]
    BY <1>1, <1>2, <1>6, <1>8 DEF BrowserTab
  <1>10. AddressOK(r)' /\ SnapOK(r)'
    BY <1>1, <1>3, <1>4, <1>6, <1>9 DEF AddressOK, SnapOK
  <1>11. ASSUME Calm' PROVE CalmTab(r)'
    <2>1. Calm /\ cookie'[r.url.host] = c
      BY <1>1, <1>6, <1>9, <1>11 DEF Calm
    <2>2. ~ q.denied => InTime(q)
      BY <1>3, <2>1 DEF CalmTab, LoadingTab
    <2>3. ~ r.denied => InTime(r)'
      BY <1>1, <1>9, <2>2 DEF InTime
    <2> QED
      BY <1>9, <2>1, <2>3 DEF CalmTab
  <1>12. faults \subseteq faults' /\ faults' \subseteq {"revoked", "cookie", "save", "api", "source", "token", "expired"}
    BY <1>1, CountedNow DEF Counted
  <1>13. TabOK(r)'
    BY <1>10 DEF TabOK
  <1> QED
    BY <1>1, <1>3, <1>9, <1>11, <1>12, <1>13, BrowserStep

\* What is known of a tab at GitLab.
LEMMA AuthorizeFacts ==
  ASSUME Inv, NEW t \in Tab, tab[t].pc = "send", tab[t].url.to = "authorize"
  PROVE  /\ Loading(t) /\ tab[t] \in BrowserTab /\ tab[t].asked \in Site
         /\ tab[t].url.state \in State /\ tab[t].url.state.begun = tab[t].asked
         /\ tab[t].url.state.n <= logins
         /\ Calm /\ ~ tab[t].denied =>
              /\ tab[t].url.state \notin used
              /\ cookie[tab[t].asked.host].state = tab[t].url.state
              /\ tab[t].asked.host # PagesHost => cookie[tab[t].asked.host].proxy = None
              /\ cookie[PagesHost].proxy = tab[t].asked.host
  <1> DEFINE q == tab[t]
  <1>1. q \in BrowserTab /\ TabOK(q) /\ (Calm => CalmTab(q)) /\ Loading(t)
    BY TabFacts DEF Loading
  <1>2. q.pc = "send" /\ q.url.to = "authorize"
    OBVIOUS
  <1> HIDE DEF q
  <1>3. AddressOK(q)
    BY <1>1, <1>2 DEF TabOK, LoadingTab
  <1>4. q.url \in Address /\ q.asked \in Site /\ q.url.state.begun = q.asked /\ q.url.state.n <= logins
    BY <1>2, <1>3 DEF AddressOK
  <1>5. q.url.state \in State
    BY <1>2, <1>4 DEF Address
  <1>6. Calm /\ ~ q.denied => InTime(q)
    BY <1>1, <1>2 DEF CalmTab, LoadingTab
  <1>7. Calm /\ ~ q.denied =>
          /\ q.url.state \notin used /\ cookie[q.asked.host].state = q.url.state
          /\ q.asked.host # PagesHost => cookie[q.asked.host].proxy = None
          /\ cookie[PagesHost].proxy = q.asked.host
    BY <1>2, <1>6 DEF InTime
  <1> QED
    BY <1>1, <1>4, <1>5, <1>7 DEF q

\* GitLab sends the tab back with an answer.
LEMMA DecideStep ==
  ASSUME Inv, NEW t \in Tab, tab[t].pc = "send", tab[t].url.to = "authorize",
         NEW k \in Code, NEW r \in BrowserTab, tab' = [tab EXCEPT ![t] = r],
         r.pc = "send", r.url = Callback(PagesHost, tab[t].url.state, k), r.asked = tab[t].asked,
         tab[t].denied => r.denied,
         (k = NoCode /\ r.denied) \/ (k.kind = "raw" /\ k.of = tab[t].url.state),
         UNCHANGED <<cookie, logins, used, revoked, opens, faults, overlap>>
  PROVE  Inv'
  <1>1. PICK st \in State : st = tab[t].url.state
    BY AuthorizeFacts
  <1>2. /\ Loading(t) /\ r.asked \in Site /\ st.begun = r.asked /\ st.n <= logins
        /\ Calm /\ ~ r.denied =>
              /\ st \notin used /\ cookie[r.asked.host].state = st
              /\ r.asked.host # PagesHost => cookie[r.asked.host].proxy = None
              /\ cookie[PagesHost].proxy = r.asked.host
    BY <1>1, AuthorizeFacts
  <1>3. (k = NoCode /\ r.denied) \/ (k.kind = "raw" /\ k.of = st)
    BY <1>1
  <1>4. /\ r.url \in Address /\ r.url.to = "callback" /\ r.url.host = PagesHost
        /\ r.url.state = st /\ r.url.code = k
    BY <1>1, AuthAssumption, SMTT(60) DEF Callback, Address
  <1>5. AddressOK(r)'
    BY <1>2, <1>3, <1>4 DEF AddressOK
  <1>6. TabOK(r)'
    BY <1>5 DEF TabOK
  <1>7. ASSUME Calm', ~ r.denied PROVE InTime(r)'
    <2>1. Calm /\ k.kind = "raw"
      BY <1>3, <1>7 DEF Calm
    <2> QED
      BY <1>2, <1>4, <1>7, <2>1 DEF InTime
  <1>8. Calm' => CalmTab(r)'
    BY <1>7 DEF CalmTab
  <1>9. faults \subseteq faults' /\ faults' \subseteq {"revoked", "cookie", "save", "api", "source", "token", "expired"}
    BY CountedNow DEF Counted
  <1> QED
    BY <1>2, <1>6, <1>8, <1>9, BrowserStep

\* The user agrees.
LEMMA GrantStep ==
  ASSUME Inv, NEW t \in Tab, Grant(t)
  PROVE  Inv'
  <1> DEFINE st == tab[t].url.state
  <1>1. /\ tab[t].pc = "send" /\ tab[t].url.to = "authorize"
        /\ tab' = [tab EXCEPT ![t] = [tab[t] EXCEPT !.url = Callback(PagesHost, st, RawCode(st))]]
        /\ UNCHANGED <<cookie, logins, used, revoked, opens, faults, overlap>>
    BY TabFacts DEF Grant
  <1>2. tab[t] \in BrowserTab /\ st \in State
    BY <1>1, AuthorizeFacts
  <1>3. PICK k \in Code : k = RawCode(st)
    BY <1>2 DEF RawCode, Code
  <1>4. PICK u \in Address : u = Callback(PagesHost, st, k)
    BY <1>2, AuthAssumption DEF Callback, Address
  <1>5. PICK r \in BrowserTab : r = [tab[t] EXCEPT !.url = u]
    BY <1>2 DEF BrowserTab
  <1>6. r.pc = "send" /\ r.url = u /\ r.asked = tab[t].asked /\ r.denied = tab[t].denied
    BY <1>1, <1>2, <1>5 DEF BrowserTab
  <1>7. tab' = [tab EXCEPT ![t] = r]
    BY <1>1, <1>3, <1>4, <1>5
  <1>8. k.kind = "raw" /\ k.of = tab[t].url.state
    BY <1>3 DEF RawCode
  <1>9. tab[t].denied => r.denied
    BY <1>6
  <1>10. r.url = Callback(PagesHost, tab[t].url.state, k)
    BY <1>4, <1>6
  <1>11. cookie' = cookie /\ logins' = logins /\ used' = used /\ revoked' = revoked
    BY <1>1
  <1>12. opens' = opens /\ faults' = faults /\ overlap' = overlap
    BY <1>1
  <1> HIDE DEF st
  <1> QED
    BY <1>1, <1>6, <1>7, <1>8, <1>9, <1>10, <1>11, <1>12, DecideStep

\* The user refuses.
LEMMA DenyStep ==
  ASSUME Inv, NEW t \in Tab, Deny(t)
  PROVE  Inv'
  <1> DEFINE st == tab[t].url.state
  <1>1. /\ tab[t].pc = "send" /\ tab[t].url.to = "authorize"
        /\ tab' = [tab EXCEPT ![t] = [tab[t] EXCEPT !.url = Callback(PagesHost, st, NoCode), !.denied = TRUE]]
        /\ UNCHANGED <<cookie, logins, used, revoked, opens, faults, overlap>>
    BY TabFacts DEF Deny
  <1>2. tab[t] \in BrowserTab /\ st \in State
    BY <1>1, AuthorizeFacts
  <1>3. NoCode \in Code
    BY DEF NoCode, Code
  <1>4. PICK u \in Address : u = Callback(PagesHost, st, NoCode)
    BY <1>2, <1>3, AuthAssumption DEF Callback, Address
  <1>5. PICK r \in BrowserTab : r = [tab[t] EXCEPT !.url = u, !.denied = TRUE]
    BY <1>2 DEF BrowserTab
  <1>6. r.pc = "send" /\ r.url = u /\ r.asked = tab[t].asked /\ r.denied
    BY <1>1, <1>2, <1>5 DEF BrowserTab
  <1>7. tab' = [tab EXCEPT ![t] = r]
    BY <1>1, <1>4, <1>5
  <1>8. r.url = Callback(PagesHost, tab[t].url.state, NoCode)
    BY <1>4, <1>6
  <1> HIDE DEF st
  <1> QED
    BY <1>1, <1>3, <1>6, <1>7, <1>8, DecideStep

\* The user closes the tab.
LEMMA CloseTabStep ==
  ASSUME Inv, NEW t \in Tab, CloseTab(t)
  PROVE  Inv'
  <1>1. /\ tab[t].pc = "send" /\ tab[t].url.to = "authorize" /\ tab' = [tab EXCEPT ![t] = NewTab]
        /\ UNCHANGED <<cookie, logins, used, revoked, opens, faults, overlap>>
    BY DEF CloseTab
  <1>2. Loading(t)
    BY <1>1, AuthorizeFacts
  <1>3. NewTab \in BrowserTab /\ NewTab.pc = "new"
    BY NewTabOK
  <1>4. TabOK(NewTab)' /\ CalmTab(NewTab)'
    BY <1>3 DEF TabOK, CalmTab, LoadingTab, NewTab
  <1>5. faults \subseteq faults' /\ faults' \subseteq {"revoked", "cookie", "save", "api", "source", "token", "expired"}
    BY <1>1, CountedNow DEF Counted
  <1> QED
    BY <1>1, <1>2, <1>3, <1>4, <1>5, BrowserStep

\* The sealed code expires on its way: a fault.
LEMMA ExpireCodeStep ==
  ASSUME Inv, NEW t \in Tab, ExpireCode(t)
  PROVE  Inv'
  <1> DEFINE k0 == [tab[t].url.code EXCEPT !.expired = TRUE]
             u0 == [tab[t].url EXCEPT !.code = k0]
  <1>1. /\ tab[t].pc = "send" /\ tab[t].url.to = "callback" /\ tab[t].url.code.kind = "sealed"
        /\ Fault("expired") /\ UNCHANGED <<cookie, logins, used, revoked, opens, overlap>>
    BY DEF ExpireCode
  <1>0. tab' = [tab EXCEPT ![t] = [tab[t] EXCEPT !.url = u0]]
    BY DEF ExpireCode
  <1>2. PICK q \in BrowserTab : q = tab[t]
    BY TabFacts
  <1>3. q.pc = "send" /\ q.url.to = "callback" /\ q.url.code.kind = "sealed" /\ TabOK(q) /\ Loading(t)
    BY <1>1, <1>2, TabFacts DEF Loading
  <1>4. AddressOK(q) /\ q.url \in Address
    BY <1>3 DEF TabOK, AddressOK, LoadingTab
  <1>5. q.url \in [to : {"callback"}, host : Host, state : State, code : Code]
    BY <1>3, <1>4 DEF Address
  <1>6. q.url.code \in [kind : {"sealed"}, domain : Host, of : State, twice : BOOLEAN, expired : BOOLEAN]
    BY <1>3, <1>5 DEF Code
  <1>7. PICK k \in Code : k = [q.url.code EXCEPT !.expired = TRUE]
    BY <1>6 DEF Code
  <1>8. k.of = q.url.code.of /\ k # NoCode /\ q.url.code # NoCode
    BY <1>3, <1>6, <1>7, SMTT(60) DEF NoCode
  <1>9. PICK u \in Address : u = [q.url EXCEPT !.code = k]
    BY <1>5 DEF Address
  <1>10. u.to = "callback" /\ u.state = q.url.state /\ u.code = k
    BY <1>5, <1>9
  <1>11. PICK r \in BrowserTab : r = [q EXCEPT !.url = u]
    BY DEF BrowserTab
  <1>12. r.pc = "send" /\ r.url = u /\ r.asked = q.asked
    BY <1>3, <1>11 DEF BrowserTab
  <1>13. tab' = [tab EXCEPT ![t] = r]
    BY <1>0, <1>2, <1>7, <1>9, <1>11
  <1>14. AddressOK(r)'
    BY <1>1, <1>3, <1>4, <1>8, <1>10, <1>12 DEF AddressOK
  <1>15. TabOK(r)'
    BY <1>12, <1>14 DEF TabOK
  <1>16. /\ faults' \subseteq {"revoked", "cookie", "save", "api", "source", "token", "expired"}
         /\ faults \subseteq faults' /\ ~ Calm'
    BY <1>1, FaultFacts
  <1> QED
    BY <1>1, <1>3, <1>13, <1>15, <1>16, BrowserStep

\* The tabs do not change, nor does what is true of them.
LEMMA TabsKept ==
  ASSUME Inv, UNCHANGED <<tab, logins, overlap>>
  PROVE  TabsOK' /\ Alone' /\ tab' \in [Tab -> BrowserTab]
  BY DEF Inv, TypeOK, TabsOK, TabOK, AddressOK, SnapOK, Alone, Loading

\* Nor does what is true of them while nothing disturbs them.
LEMMA CalmKept ==
  ASSUME Inv, UNCHANGED <<cookie, tab, used, overlap>>, Calm' => Calm
  PROVE  CalmOK'
  <1>1. SUFFICES ASSUME Calm'
                 PROVE  /\ \A g \in Host : cookie'[g] # Undecodable
                        /\ \A t \in Tab : CalmTab(tab[t])'
    BY DEF CalmOK
  <1>2. \A g \in Host : cookie'[g] # Undecodable
    BY <1>1, CountedNow
  <1>3. ASSUME NEW t \in Tab PROVE CalmTab(tab[t])'
    <2>1. CalmTab(tab[t]) /\ tab'[t] = tab[t]
      BY <1>1, TabFacts
    <2>2. PICK r : r = tab[t]
      OBVIOUS
    <2>3. CalmTab(r) => CalmTab(r)'
      BY DEF CalmTab, InTime
    <2> QED
      BY <2>1, <2>2, <2>3 DEF CalmTab, InTime
  <1> QED
    BY <1>2, <1>3

\* A token is revoked: nothing that the invariant says is about tokens revoked.
LEMMA RevokeStep ==
  ASSUME Inv, NEW h \in Host, Revoke(h)
  PROVE  Inv'
  <1>1. /\ faults' = faults \cup {"revoked"} /\ revoked' = revoked \cup {cookie[h].token}
        /\ cookie[h] # Undecodable /\ cookie[h].token # None
        /\ UNCHANGED <<cookie, tab, logins, used, opens, overlap>>
    BY DEF Revoke, Fault
  <1>2. cookie[h] \in Session
    BY <1>1, CountedNow
  <1>3. cookie[h].token \in State
    BY <1>1, <1>2 DEF Session
  <1>4. TypeOK'
    BY <1>1, <1>3 DEF Inv, TypeOK
  <1>5. CookiesOK' /\ UsedOK'
    BY <1>1, CountedNow DEF CookiesOK, UsedOK
  <1>6. TabsOK' /\ Alone'
    BY <1>1, TabsKept
  <1>7. Calm' => Calm
    BY <1>1 DEF Calm
  <1>8. CalmOK'
    BY <1>1, <1>7, CalmKept
  <1> QED
    BY <1>4, <1>5, <1>6, <1>8 DEF Inv

\* A cookie is lost: a fault.
LEMMA LoseCookieStep ==
  ASSUME Inv, NEW h \in Host, LoseCookie(h)
  PROVE  Inv'
  <1>1. /\ Fault("cookie") /\ UNCHANGED <<tab, logins, used, revoked, opens, overlap>>
    BY DEF LoseCookie
  <1>2. PICK c \in {Empty, Undecodable} : cookie' = [cookie EXCEPT ![h] = c]
    BY DEF LoseCookie
  <1>3. c \in Session \cup {Undecodable} /\ SessionOK(h, c)
    BY <1>2, SMTT(60) DEF Empty, Session, SessionOK
  <1>4. cookie' \in [Host -> Session \cup {Undecodable}]
    BY <1>2, <1>3, CountedNow
  <1>5. CookiesOK'
    <2>1. SUFFICES ASSUME NEW g \in Host PROVE SessionOK(g, cookie'[g])
      BY DEF CookiesOK, SessionOK
    <2>2. CASE g = h
      BY <1>2, <1>3, <2>2, CountedNow
    <2>3. CASE g # h
      BY <1>2, <2>3, CountedNow DEF CookiesOK
    <2> QED
      BY <2>2, <2>3
  <1>6. /\ faults' \subseteq {"revoked", "cookie", "save", "api", "source", "token", "expired"}
        /\ ~ Calm'
    BY <1>1, FaultFacts
  <1>7. Counted' /\ UsedOK'
    BY <1>1, <1>6, CountedKept
  <1>8. TabsOK' /\ Alone' /\ tab' \in [Tab -> BrowserTab]
    BY <1>1, TabsKept
  <1>9. TypeOK'
    BY <1>4, <1>7, <1>8 DEF TypeOK, Counted
  <1> QED
    BY <1>5, <1>6, <1>7, <1>8, <1>9 DEF Inv, CalmOK

-----------------------------------------------------------------------------
(* The theorems                                                            *)

\* No tab is open and no session begun.
LEMMA InitInv ==
  ASSUME Init
  PROVE  Inv
  <1>1. TypeOK
    <2>1. Empty \in Session
      BY DEF Empty, Session
    <2>2. cookie \in [Host -> Session \cup {Undecodable}] /\ tab \in [Tab -> BrowserTab]
      BY <2>1, NewTabOK DEF Init
    <2>3. 0 \in 0..MaxLogins /\ 0 \in 0..MaxOpens
      BY AuthAssumption, SMTT(60)
    <2> QED
      BY <2>1, <2>2, <2>3 DEF Init, TypeOK
  <1>2. CookiesOK /\ UsedOK
    BY DEF Init, CookiesOK, SessionOK, UsedOK, Empty
  <1>3. ASSUME NEW t \in Tab PROVE tab[t].pc = "new"
    BY NewTabOK DEF Init
  <1>4. TabsOK /\ Alone
    BY <1>3 DEF TabsOK, TabOK, LoadingTab, Alone, Loading
  <1>5. CalmOK
    <2>1. \A h \in Host : cookie[h] \in Session
      BY DEF Init, Empty, Session
    <2>2. \A h \in Host : cookie[h] # Undecodable
      BY <2>1, NamesAssumption
    <2> QED
      BY <1>3, <2>2, SMTT(60) DEF CalmOK, CalmTab, LoadingTab
  <1> QED
    BY <1>1, <1>2, <1>4, <1>5 DEF Inv

\* The invariant is inductive.
LEMMA NextInv ==
  ASSUME Inv, [Next]_vars
  PROVE  Inv'
  <1>1. CASE UNCHANGED vars
    <2>1. UNCHANGED <<cookie, tab, logins, used, revoked, opens, faults, overlap>>
      BY <1>1 DEF vars
    <2>2. TabsOK' /\ Alone'
      BY <2>1, TabsKept
    <2>3. TypeOK'
      BY <2>1 DEF Inv, TypeOK
    <2>4. CookiesOK' /\ UsedOK'
      BY <2>1, CountedNow DEF CookiesOK, UsedOK
    <2>5. Calm' => Calm
      BY <2>1 DEF Calm
    <2>6. CalmOK'
      BY <2>1, <2>5, CalmKept
    <2> QED
      BY <2>2, <2>3, <2>4, <2>6 DEF Inv
  <1>2. ASSUME NEW h \in Host, Revoke(h) \/ LoseCookie(h) PROVE Inv'
    BY <1>2, RevokeStep, LoseCookieStep
  <1>3. ASSUME NEW t \in Tab, NEW s \in Site, Open(t, s) PROVE Inv'
    BY <1>3, OpenStep
  <1>4. ASSUME NEW t \in Tab, Send(t) \/ Decide(t) \/ SaveFails(t) \/ ExpireCode(t) PROVE Inv'
    BY <1>4, SendStep, GrantStep, DenyStep, CloseTabStep, SaveFailsStep, ExpireCodeStep DEF Decide
  <1>5. ASSUME NEW t \in Tab, Handle(t) PROVE Inv'
    BY <1>5, CheckSessionStep, BeginLoginStep, CheckAccessStep, DestroySessionStep, ProxyToGitlabStep,
       ProxyToDomainStep, CallbackErrorStep, RejectCallbackStep, StoreTokenStep DEF Handle
  <1> QED
    BY <1>1, <1>2, <1>3, <1>4, <1>5 DEF Next

\* The inductive invariant holds in every state the login flow reaches.
THEOREM InvHolds == Spec => []Inv
  BY InitInv, NextInv, PTL DEF Spec

\* However tabs overwrite each other's cookies, and whatever is lost, revoked or
\* fails, the token that checkAuthenticationResponse stores in the session of a
\* host comes from a login that a page of that host began.
THEOREM TokensStayAtHome == Spec => []TokenOfOwnLogin
  <1>1. Inv => TokenOfOwnLogin
    BY DEF Inv, CookiesOK, SessionOK, TokenOfOwnLogin
  <1> QED
    BY <1>1, InvHolds, PTL

\* No interleaving of logins sends a tab to a page other than the one opened in
\* it: the address that checkAuthenticationResponse reads from the session is
\* the one stored with the state it has compared.
THEOREM ReturnsWhereItBegan == Spec => []ReturnsToItsPage
  <1>1. Inv => ReturnsToItsPage
    BY DEF Inv, TabsOK, TabOK, AddressOK, ReturnsToItsPage, Loading, LoadingTab
  <1> QED
    BY <1>1, InvHolds, PTL

\* Every login that no fault and no other tab disturbs ends on the page, or in
\* the 404 of a page the user may not see: none of the checks on the way
\* (validateState, the decryption of the code, its exchange) rejects it.
THEOREM UndisturbedWorks == Spec => []UndisturbedLoginWorks
  <1>1. Inv => UndisturbedLoginWorks
    BY SMTT(60) DEF Inv, CalmOK, Calm, CalmTab, UndisturbedLoginWorks
  <1> QED
    BY <1>1, InvHolds, PTL
=============================================================================
