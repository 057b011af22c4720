------------------------------ MODULE AdminPages ------------------------------
(***************************************************************************)
(* A tab of the administration pages: the store of                         *)
(* frontend/src/stores/admin.ts, the guard of frontend/src/router/index.ts,*)
(* the login form and the logout button, against the sessions of           *)
(* app/admin/routes.py.  The other tabs of the browser share its cookie    *)
(* and nothing else: they are an environment that logs in and out.         *)
(*                                                                         *)
(* A call is handled by the server some time after it was sent, and its    *)
(* answer reaches the tab some time later, or never; fetch has no timeout. *)
(* A session is a number, and a session once made keeps its owner.         *)
(*                                                                         *)
(* Bounds: MaxSessions logins succeed, the page is loaded MaxLoads times,  *)
(* and it has at most MaxCalls calls on their way, of which one login.     *)
(***************************************************************************)
EXTENDS Naturals

CONSTANTS
    Account,
    None,            \* no account, no session, no call, no navigation
    MaxSessions, MaxLoads, MaxCalls

ASSUME BoundsAssumption == MaxSessions \in Nat /\ MaxLoads \in Nat /\ MaxCalls \in Nat \ {0}

VARIABLES
    cookie,     \* the session cookie of the browser
    owner,      \* the account of each session made so far
    valid,      \* the sessions the server accepts
    me,         \* of the store
    checked,    \* of the store: /me has been answered once
    view,       \* what is on display
    nav,        \* the navigation whose guard awaits /me, and its call
    call,       \* the calls on their way
    loads,
    stale       \* history: others changed the cookie under what is on display,
                \* or the answer for a navigation called off has come

serverState == <<owner, valid>>
tabState == <<me, checked, view, nav, call, loads, stale>>
vars == <<cookie, serverState, tabState>>

Session == 1 .. MaxSessions
Page == {"chat", "login", "admin"}
Slot == 1 .. MaxCalls

\* "me": fetchMe of the guard; "login"; "confirm": fetchMe of login; "logout".
Kind == {"me", "login", "confirm", "logout"}
Answer == Account \cup Session \cup {None}
Call == [kind : Kind, token : Session \cup {None}, handled : BOOLEAN, answer : Answer]

ASSUME NoneAssumption == None \notin Account \cup Nat /\ None \notin Call

Sent(kind) == [kind |-> kind, token |-> cookie, handled |-> FALSE, answer |-> None]
Under(kinds) == \E i \in Slot : call[i] # None /\ call[i].kind \in kinds

\* beforeEach, once me is known; it sends on to the other page at most once.
Landing(to, who) ==
    CASE to = "admin" /\ who = None -> "login"
      [] to = "login" /\ who # None -> "admin"
      [] OTHER -> to

\* A login that passes makes the next session.
NewSession(s, a) ==
    /\ owner[s] = None
    /\ \A r \in Session : r < s => owner[r] # None
    /\ owner' = [owner EXCEPT ![s] = a]
    /\ valid' = valid \cup {s}

-------------------------------------------------------------------------------
\* The address is typed, or the page reloaded; what it had sent is aborted.
Load(to) ==
    /\ loads < MaxLoads
    /\ loads' = loads + 1
    /\ me' = None
    /\ checked' = FALSE
    /\ stale' = FALSE
    /\ view' = IF to = "chat" THEN "chat" ELSE "blank"
    /\ nav' = IF to = "chat" THEN None ELSE [to |-> to, by |-> 1]
    /\ call' = [i \in Slot |-> IF to # "chat" /\ i = 1 THEN Sent("me") ELSE None]
    /\ UNCHANGED <<cookie, serverState>>

\* Mutation of Go: the guard asks /me for every page.
GoAsksAlways(to) ==
    /\ view # "blank" \/ nav # None
    /\ IF checked
       THEN /\ view' = Landing(to, me)
            /\ nav' = None
            /\ UNCHANGED call
       ELSE \E i \in Slot :
               /\ call[i] = None
               /\ call' = [call EXCEPT ![i] = Sent("me")]
               /\ nav' = [to |-> to, by |-> i]
               /\ UNCHANGED view
    /\ UNCHANGED <<cookie, serverState, me, checked, loads, stale>>

\* A link, the menu, the buttons back and forward.  A navigation that awaits
\* its guard is called off by a newer one.
Go(to) ==
    /\ view # "blank" \/ nav # None
    /\ IF checked \/ to = "chat"
       THEN /\ view' = Landing(to, me)
            /\ nav' = None
            /\ UNCHANGED call
       ELSE \E i \in Slot :
               /\ call[i] = None
               /\ call' = [call EXCEPT ![i] = Sent("me")]
               /\ nav' = [to |-> to, by |-> i]
               /\ UNCHANGED view
    /\ UNCHANGED <<cookie, serverState, me, checked, loads, stale>>

\* submit() of the form; loading holds a second one back.
SignIn ==
    /\ view = "login"
    /\ ~Under({"login", "confirm"})
    /\ \E i \in Slot : call[i] = None /\ call' = [call EXCEPT ![i] = Sent("login")]
    /\ UNCHANGED <<cookie, serverState, me, checked, view, nav, loads, stale>>

\* onLogout(); the button stays enabled.
LogOut ==
    /\ view = "admin"
    /\ \E i \in Slot : call[i] = None /\ call' = [call EXCEPT ![i] = Sent("logout")]
    /\ UNCHANGED <<cookie, serverState, me, checked, view, nav, loads, stale>>

-------------------------------------------------------------------------------
Handled(i, answer) ==
    call' = [call EXCEPT ![i].handled = TRUE, ![i].answer = answer]

\* GET /me, behind require_session.
HandleMe(i) ==
    LET token == call[i].token IN
    /\ call[i].kind \in {"me", "confirm"}
    /\ Handled(i, IF token \in valid THEN owner[token] ELSE None)
    /\ UNCHANGED serverState

\* POST /login: a new session, or 401 or 423.
HandleLogin(i) ==
    /\ call[i].kind = "login"
    /\ \/ \E s \in Session, a \in Account :
             NewSession(s, a) /\ Handled(i, s)
       \/ Handled(i, None) /\ UNCHANGED serverState

\* POST /logout, behind require_session: the session it names, or 401.
HandleLogout(i) ==
    LET token == call[i].token IN
    /\ call[i].kind = "logout"
    /\ Handled(i, IF token \in valid THEN token ELSE None)
    /\ valid' = valid \ {token}
    /\ UNCHANGED owner

Handle(i) ==
    /\ call[i] # None
    /\ ~call[i].handled
    /\ HandleMe(i) \/ HandleLogin(i) \/ HandleLogout(i)
    /\ UNCHANGED <<cookie, me, checked, view, nav, loads, stale>>

\* The session expires, or an administrator ends it.
End(s) ==
    /\ s \in valid
    /\ valid' = valid \ {s}
    /\ UNCHANGED <<cookie, owner, tabState>>

\* A login in another tab.
SignInElsewhere ==
    /\ \E s \in Session, a \in Account : NewSession(s, a) /\ cookie' = s
    /\ stale' = (stale \/ me # None)
    /\ UNCHANGED <<me, checked, view, nav, call, loads>>

\* The cookie goes: a logout in another tab, or max_age, counted from the login.
CookieGone ==
    /\ cookie # None
    /\ cookie' = None
    /\ stale' = (stale \/ me # None)
    /\ UNCHANGED <<serverState, me, checked, view, nav, call, loads>>

-------------------------------------------------------------------------------
Done(i) == call' = [call EXCEPT ![i] = None]

\* Mutation of MeAnswered: a failure does not resolve the await.
MeAnsweredOnly(i, who) ==
    LET current == who # None /\ nav # None /\ nav.by = i IN
    /\ Done(i)
    /\ me' = who
    /\ checked' = TRUE
    /\ nav' = IF current THEN None ELSE nav
    /\ view' = IF current THEN Landing(nav.to, who) ELSE view
    /\ stale' = (~current \/ call[i].token # cookie)
    /\ UNCHANGED <<cookie, loads>>

\* fetchMe of the guard: whatever comes is stored, also for a navigation that
\* was called off; the one that still waits goes on.
MeAnswered(i, who) ==
    LET current == nav # None /\ nav.by = i IN
    /\ Done(i)
    /\ me' = who
    /\ checked' = TRUE
    /\ nav' = IF current THEN None ELSE nav
    /\ view' = IF current THEN Landing(nav.to, who) ELSE view
    /\ stale' = (~current \/ call[i].token # cookie)
    /\ UNCHANGED <<cookie, loads>>

\* The cookie comes with the answer; then login() awaits fetchMe.  Refused, the
\* form tells.
LoginAnswered(i, s) ==
    /\ IF s = None
       THEN Done(i) /\ UNCHANGED cookie
       ELSE /\ cookie' = s
            /\ call' = [call EXCEPT ![i] = [Sent("confirm") EXCEPT !.token = s]]
    /\ UNCHANGED <<me, checked, view, nav, loads, stale>>

\* login() returns null whatever fetchMe got, and the form pushes the redirect.
Confirmed(i, who) ==
    /\ Done(i)
    /\ me' = who
    /\ checked' = TRUE
    /\ nav' = None
    /\ view' = Landing("admin", who)
    /\ stale' = (call[i].token # cookie)
    /\ UNCHANGED <<cookie, loads>>

\* Mutation of LoggedOut: without the catch, a failure ends onLogout.
LoggedOutIfTold(i, s) ==
    /\ Done(i)
    /\ IF s = None
       THEN UNCHANGED <<cookie, me, view, nav>>
       ELSE /\ cookie' = None
            /\ me' = None
            /\ view' = "login"
            /\ nav' = None
    /\ UNCHANGED <<checked, loads, stale>>

\* Mutation of LoggedOut: me is not cleared.
LoggedOutKeepsMe(i, s) ==
    /\ Done(i)
    /\ cookie' = IF s = None THEN cookie ELSE None
    /\ view' = Landing("login", me)
    /\ nav' = None
    /\ UNCHANGED <<me, checked, loads, stale>>

\* Only a 204 deletes the cookie; me is cleared and the page left in any case.
LoggedOut(i, s) ==
    /\ Done(i)
    /\ cookie' = IF s = None THEN cookie ELSE None
    /\ me' = None
    /\ view' = "login"
    /\ nav' = None
    /\ UNCHANGED <<checked, loads, stale>>

\* The answer reaches the tab, or fetch fails.
Arrive(i) ==
    /\ call[i] # None
    /\ \E got \in {call[i].answer, None} :
          CASE call[i].kind = "me"      -> MeAnswered(i, got)
            [] call[i].kind = "login"   -> LoginAnswered(i, got)
            [] call[i].kind = "confirm" -> Confirmed(i, got)
            [] call[i].kind = "logout"  -> LoggedOut(i, got)
    /\ UNCHANGED serverState

-------------------------------------------------------------------------------
Init ==
    /\ cookie = None
    /\ owner = [s \in Session |-> None]
    /\ valid = {}
    /\ me = None
    /\ checked = FALSE
    /\ view = "blank"
    /\ nav = None
    /\ call = [i \in Slot |-> None]
    /\ loads = 0
    /\ stale = FALSE

Next ==
    \/ \E to \in Page : Load(to) \/ Go(to)
    \/ SignIn
    \/ LogOut
    \/ \E i \in Slot : Handle(i) \/ Arrive(i)
    \/ \E s \in Session : End(s)
    \/ SignInElsewhere
    \/ CookieGone

\* The browser answers or fails every fetch some day.
Spec ==
    /\ Init
    /\ [][Next]_vars
    /\ \A i \in Slot : WF_vars(Arrive(i))

-------------------------------------------------------------------------------
TypeOK ==
    /\ cookie \in Session \cup {None}
    /\ owner \in [Session -> Account \cup {None}]
    /\ valid \in SUBSET {s \in Session : owner[s] # None}
    /\ me \in Account \cup {None}
    /\ checked \in BOOLEAN
    /\ view \in Page \cup {"blank"}
    /\ nav \in [to : {"login", "admin"}, by : Slot] \cup {None}
    /\ call \in [Slot -> Call \cup {None}]
    /\ loads \in 0 .. MaxLoads
    /\ stale \in BOOLEAN

\* SignedInAs: an administration page is on display only under the name of the
\* account whose session the browser's cookie names, whichever calls were lost,
\* late, or several on their way (stores/admin.ts, the guard of the router).
\* Excused are: another tab or max_age changed the cookie since, an answer came
\* for a navigation that was called off, a login still awaits its /me.
SignedInAs ==
    (view = "admin" /\ ~stale /\ ~Under({"confirm"})) =>
        /\ me # None
        /\ cookie # None
        /\ me = owner[cookie]

\* LogoutLeaves: once the logout button is pressed the page forgets who is
\* signed in and leaves the administration, though the server may refuse the
\* call or never answer it (logout() of stores/admin.ts, onLogout()).
LogoutLeaves ==
    Under({"logout"}) ~> (view # "admin" /\ me = None)

\* NavigationEnds: a navigation whose guard awaits /me comes to a page, or gives
\* way to one that does, also when /me fails (fetchMe never throws).
NavigationEnds ==
    nav # None ~> nav = None

===============================================================================
