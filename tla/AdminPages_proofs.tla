-------------------------- MODULE AdminPages_proofs --------------------------
(***************************************************************************)
(* What a tab of the administration shows, for any accounts, any number of *)
(* sessions, loads and calls under way.                                    *)
(***************************************************************************)
EXTENDS AdminPages, TLAPS

LEMMA TypeInit == Init => TypeOK
<1> SUFFICES ASSUME Init PROVE TypeOK
  OBVIOUS
<1>1. loads \in 0 .. MaxLoads
  BY BoundsAssumption DEF Init
<1>2. valid \in SUBSET {s \in Session : owner[s] # None}
  BY DEF Init
<1>3. call \in [Slot -> Call \cup {None}]
  BY DEF Init
<1>4. owner \in [Session -> Account \cup {None}]
  BY DEF Init
<1> QED
  BY <1>1, <1>2, <1>3, <1>4 DEF Init, TypeOK

LEMMA SentType ==
    ASSUME TypeOK, NEW kind \in Kind
    PROVE  Sent(kind) \in Call
BY DEF TypeOK, Sent, Call, Answer

LEMMA LandingType ==
    ASSUME NEW to \in Page, NEW who
    PROVE  Landing(to, who) \in Page /\ (Landing(to, who) = "admin" => who # None)
BY DEF Landing, Page

-------------------------------------------------------------------------------
\* What an answer says is so: the account is that of the session which was sent;
\* a session that was made has an owner.
AnswersTrue ==
    \A i \in Slot : call[i] # None /\ call[i].answer # None =>
        /\ call[i].kind \in {"me", "confirm"} =>
              /\ call[i].answer \in Account
              /\ call[i].token \in Session
              /\ owner[call[i].token] = call[i].answer
        /\ call[i].kind = "login" =>
              /\ call[i].answer \in Session
              /\ owner[call[i].answer] # None

\* What the tab shows while nothing excuses it.
ShownIsTrue ==
    /\ cookie # None => owner[cookie] # None
    /\ ~stale /\ ~Under({"confirm"}) =>
          /\ view = "admin" => me # None
          /\ me # None => cookie # None /\ me = owner[cookie]

PageInv == TypeOK /\ AnswersTrue /\ ShownIsTrue

LEMMA PageInit == Init => PageInv
BY TypeInit DEF Init, PageInv, AnswersTrue, ShownIsTrue

LEMMA NewSessionKeeps ==
    ASSUME TypeOK, NEW s \in Session, NEW a \in Account, NewSession(s, a)
    PROVE  /\ owner' \in [Session -> Account \cup {None}]
           /\ valid' \in SUBSET {r \in Session : owner'[r] # None}
           /\ owner'[s] = a /\ a # None
           /\ \A r \in Session : owner[r] # None => owner'[r] = owner[r]
BY NoneAssumption DEF TypeOK, NewSession

LEMMA PageStep == PageInv /\ [Next]_vars => PageInv'
<1> SUFFICES ASSUME PageInv, [Next]_vars PROVE PageInv'
  OBVIOUS
<1> USE NoneAssumption, BoundsAssumption
<1> TypeOK /\ AnswersTrue /\ ShownIsTrue
  BY DEF PageInv
<1>1. ASSUME NEW to \in Page, Load(to) PROVE PageInv'
  <2>1. Sent("me") \in Call /\ Sent("me").answer = None /\ 1 \in Slot
    BY SentType DEF Kind, Sent, Slot
  <2>2. TypeOK'
    <3>1. call' \in [Slot -> Call \cup {None}]
      BY <1>1, <2>1 DEF Load
    <3>2. nav' \in [to : {"login", "admin"}, by : Slot] \cup {None}
      BY <1>1, <2>1 DEF Load, Page
    <3>3. loads' \in 0 .. MaxLoads
      BY <1>1 DEF TypeOK, Load
    <3>4. view' \in Page \cup {"blank"}
      BY <1>1 DEF Load, Page
    <3> QED
      BY <1>1, <3>1, <3>2, <3>3, <3>4 DEF TypeOK, Load, serverState
  <2>3. AnswersTrue'
    BY <1>1, <2>1 DEF AnswersTrue, Load
  <2>4. ShownIsTrue'
    BY <1>1 DEF ShownIsTrue, Load, serverState
  <2> QED
    BY <2>2, <2>3, <2>4 DEF PageInv
<1>2. ASSUME NEW to \in Page, Go(to) PROVE PageInv'
  <2>1. CASE checked \/ to = "chat"
    <3>1. view' = Landing(to, me) /\ nav' = None /\ UNCHANGED <<call, me, stale, cookie, owner, valid, checked, loads>>
      BY <1>2, <2>1 DEF Go, serverState
    <3>2. TypeOK'
      BY <3>1, LandingType DEF TypeOK
    <3>3. AnswersTrue' /\ ShownIsTrue'
      BY <3>1, LandingType DEF AnswersTrue, ShownIsTrue, Under
    <3> QED
      BY <3>2, <3>3 DEF PageInv
  <2>2. CASE ~(checked \/ to = "chat")
    <3> PICK i \in Slot : /\ call[i] = None
                          /\ call' = [call EXCEPT ![i] = Sent("me")]
                          /\ nav' = [to |-> to, by |-> i]
                          /\ UNCHANGED view
      BY <1>2, <2>2 DEF Go
    <3>1. UNCHANGED <<me, stale, cookie, owner, valid, checked, loads>>
      BY <1>2 DEF Go, serverState
    <3>2. Sent("me") \in Call /\ Sent("me").answer = None /\ Sent("me").kind = "me"
      BY SentType DEF Kind, Sent
    <3>3. TypeOK'
      BY <2>2, <3>1, <3>2 DEF TypeOK, Page
    <3>4. AnswersTrue'
      BY <3>1, <3>2 DEF TypeOK, AnswersTrue
    <3>5. Under({"confirm"}) = Under({"confirm"})'
      BY <3>2 DEF TypeOK, Under
    <3> QED
      BY <3>1, <3>3, <3>4, <3>5 DEF PageInv, ShownIsTrue
  <2> QED
    BY <2>1, <2>2
<1>3. ASSUME NEW kind \in {"login", "logout"}, NEW i \in Slot, call[i] = None,
             call' = [call EXCEPT ![i] = Sent(kind)],
             UNCHANGED <<cookie, serverState, me, checked, view, nav, loads, stale>>
      PROVE  PageInv'
  <2>1. Sent(kind) \in Call /\ Sent(kind).answer = None /\ Sent(kind).kind = kind
    BY SentType DEF Kind, Sent
  <2>2. TypeOK'
    BY <1>3, <2>1 DEF TypeOK, serverState
  <2>3. AnswersTrue'
    BY <1>3, <2>1 DEF TypeOK, AnswersTrue, serverState
  <2>4. Under({"confirm"}) = Under({"confirm"})'
    BY <1>3, <2>1 DEF TypeOK, Under
  <2> QED
    BY <1>3, <2>2, <2>3, <2>4 DEF PageInv, ShownIsTrue, serverState
<1>4. ASSUME NEW i \in Slot, Handle(i) PROVE PageInv'
  <2>1. call[i] \in Call /\ UNCHANGED <<cookie, me, checked, view, nav, loads, stale>>
    BY <1>4 DEF TypeOK, Handle
  <2>2. ASSUME NEW answer \in Answer, Handled(i, answer)
        PROVE  /\ call' \in [Slot -> Call \cup {None}]
               /\ \A j \in Slot : j # i => call'[j] = call[j]
               /\ call'[i] # None /\ call'[i].answer = answer
               /\ call'[i].kind = call[i].kind /\ call'[i].token = call[i].token
               /\ Under({"confirm"}) = Under({"confirm"})'
    <3>1. [call[i] EXCEPT !.handled = TRUE, !.answer = answer] \in Call
      BY <2>1, <2>2 DEF Call
    <3>2. call' = [call EXCEPT ![i] = [call[i] EXCEPT !.handled = TRUE, !.answer = answer]]
      BY <2>1, <2>2 DEF Handled, TypeOK
    <3>3. /\ call' \in [Slot -> Call \cup {None}]
          /\ \A j \in Slot : j # i => call'[j] = call[j]
          /\ call'[i] = [call[i] EXCEPT !.handled = TRUE, !.answer = answer]
      BY <3>1, <3>2 DEF TypeOK
    <3>4. call'[i].kind = call[i].kind /\ call'[i].token = call[i].token
          /\ call'[i].answer = answer /\ call'[i] # None
      BY <2>1, <3>1, <3>3 DEF Call
    <3>5. call[i] # None
      BY <1>4 DEF Handle
    <3> QED
      BY <3>3, <3>4, <3>5 DEF Under
  <2>3. CASE HandleMe(i)
    <3> DEFINE who == IF call[i].token \in valid THEN owner[call[i].token] ELSE None
    <3>1. Handled(i, who) /\ UNCHANGED <<owner, valid>> /\ call[i].kind # "login"
      BY <2>3 DEF HandleMe, serverState
    <3>2. who \in Account \cup {None}
      BY <2>1 DEF TypeOK
    <3>3. who # None => call[i].token \in Session /\ owner[call[i].token] = who
      BY DEF TypeOK
    <3>4. who \in Answer
      BY <3>2 DEF Answer
    <3> HIDE DEF who
    <3>5. TypeOK'
      BY <2>1, <2>2, <3>1, <3>4 DEF TypeOK
    <3>6. AnswersTrue'
      BY <2>2, <3>1, <3>2, <3>3, <3>4 DEF AnswersTrue
    <3> QED
      BY <2>1, <2>2, <3>1, <3>4, <3>5, <3>6 DEF PageInv, ShownIsTrue
  <2>4. CASE HandleLogin(i)
    <3>1. ASSUME NEW s \in Session, NEW a \in Account, NewSession(s, a), Handled(i, s)
          PROVE  PageInv'
      <4>1. s \in Answer
        BY DEF Answer
      <4>2. TypeOK'
        BY <2>1, <2>2, <3>1, <4>1, NewSessionKeeps DEF TypeOK
      <4>3. call[i].kind = "login"
        BY <2>4 DEF HandleLogin
      <4>4. AnswersTrue'
        BY <2>2, <3>1, <4>1, <4>3, NewSessionKeeps DEF AnswersTrue
      <4>5. cookie # None => owner'[cookie] = owner[cookie]
        BY <3>1, NewSessionKeeps DEF ShownIsTrue, TypeOK
      <4> QED
        BY <2>1, <2>2, <3>1, <4>1, <4>2, <4>4, <4>5 DEF PageInv, ShownIsTrue
    <3>2. CASE Handled(i, None) /\ UNCHANGED serverState
      <4>1. None \in Answer
        BY DEF Answer
      <4> QED
        BY <2>1, <2>2, <3>2, <4>1
           DEF PageInv, TypeOK, AnswersTrue, ShownIsTrue, serverState
    <3> QED
      BY <2>4, <3>1, <3>2 DEF HandleLogin
  <2>5. CASE HandleLogout(i)
    <3> DEFINE s == IF call[i].token \in valid THEN call[i].token ELSE None
    <3>1. Handled(i, s) /\ valid' = valid \ {call[i].token} /\ owner' = owner
          /\ call[i].kind = "logout"
      BY <2>5 DEF HandleLogout
    <3>2. s \in Answer
      BY DEF Answer, TypeOK
    <3> HIDE DEF s
    <3>3. TypeOK'
      BY <2>1, <2>2, <3>1, <3>2 DEF TypeOK
    <3>4. AnswersTrue'
      BY <2>2, <3>1, <3>2 DEF AnswersTrue
    <3> QED
      BY <2>1, <2>2, <3>1, <3>2, <3>3, <3>4 DEF PageInv, ShownIsTrue
  <2> QED
    BY <1>4, <2>3, <2>4, <2>5 DEF Handle
<1>5. ASSUME NEW s \in Session, End(s) PROVE PageInv'
  BY <1>5 DEF PageInv, TypeOK, AnswersTrue, ShownIsTrue, Under, End, tabState
<1>6. ASSUME SignInElsewhere PROVE PageInv'
  <2> PICK s \in Session, a \in Account : NewSession(s, a) /\ cookie' = s
    BY <1>6 DEF SignInElsewhere
  <2>1. stale' = (stale \/ me # None) /\ UNCHANGED <<me, checked, view, nav, call, loads>>
    BY <1>6 DEF SignInElsewhere
  <2>2. TypeOK'
    BY <2>1, NewSessionKeeps DEF TypeOK
  <2>3. AnswersTrue'
    BY <2>1, NewSessionKeeps DEF AnswersTrue
  <2>4. ShownIsTrue'
    BY <2>1, NewSessionKeeps DEF ShownIsTrue, Under
  <2> QED
    BY <2>2, <2>3, <2>4 DEF PageInv
<1>7. ASSUME CookieGone PROVE PageInv'
  BY <1>7 DEF PageInv, TypeOK, AnswersTrue, ShownIsTrue, Under, CookieGone, serverState
<1>8. ASSUME NEW i \in Slot, Arrive(i) PROVE PageInv'
  <2> PICK got \in {call[i].answer, None} :
          CASE call[i].kind = "me"      -> MeAnswered(i, got)
            [] call[i].kind = "login"   -> LoginAnswered(i, got)
            [] call[i].kind = "confirm" -> Confirmed(i, got)
            [] call[i].kind = "logout"  -> LoggedOut(i, got)
    BY <1>8 DEF Arrive
  <2>1. call[i] \in Call /\ call[i] # None /\ UNCHANGED <<owner, valid>>
    BY <1>8 DEF TypeOK, Arrive, serverState
  <2>2. ASSUME Done(i)
        PROVE  /\ call' \in [Slot -> Call \cup {None}]
               /\ AnswersTrue'
               /\ call[i].kind # "confirm" => Under({"confirm"}) = Under({"confirm"})'
    BY <2>1, <2>2 DEF TypeOK, Done, AnswersTrue, Under
  <2>3. ASSUME call[i].kind \in {"me", "confirm"}, got # None
        PROVE  /\ got \in Account
               /\ call[i].token \in Session
               /\ owner[call[i].token] = got
    BY <2>1, <2>3 DEF AnswersTrue
  <2>4. CASE call[i].kind = "me"
    <3>1. MeAnswered(i, got)
      BY <2>4
    <3>2. TypeOK'
      BY <2>1, <2>2, <2>3, <2>4, <3>1, LandingType DEF TypeOK, MeAnswered, Page
    <3>3. ShownIsTrue'
      <4>1. UNCHANGED <<cookie, owner>> /\ me' = got
        BY <2>1, <3>1 DEF MeAnswered
      <4>2. CASE nav # None /\ nav.by = i
        <5>1. view' = Landing(nav.to, got) /\ stale' = (call[i].token # cookie)
          BY <3>1, <4>2 DEF MeAnswered
        <5>2. view' = "admin" => got # None
          BY <4>2, <5>1 DEF TypeOK, Landing
        <5>3. ~stale' => call[i].token = cookie'
          BY <4>1, <5>1
        <5>4. got # None => call[i].token # None /\ owner'[call[i].token] = got
          BY <2>3, <2>4, <4>1 DEF Session
        <5>5. cookie' # None => owner'[cookie'] # None
          BY <4>1 DEF ShownIsTrue
        <5> QED
          BY <4>1, <5>2, <5>3, <5>4, <5>5 DEF ShownIsTrue
      <4>3. CASE ~(nav # None /\ nav.by = i)
        BY <3>1, <4>1, <4>3 DEF MeAnswered, ShownIsTrue
      <4> QED
        BY <4>2, <4>3
    <3> QED
      BY <2>2, <3>1, <3>2, <3>3 DEF PageInv, MeAnswered
  <2>5. CASE call[i].kind = "login"
    <3>1. LoginAnswered(i, got)
      BY <2>5
    <3>2. CASE got = None
      BY <2>1, <2>2, <2>5, <3>1, <3>2 DEF PageInv, TypeOK, ShownIsTrue, LoginAnswered
    <3>3. CASE got # None
      <4>1. got \in Session /\ owner[got] # None
        BY <2>1, <2>5, <3>3 DEF AnswersTrue
      <4> DEFINE c == [Sent("confirm") EXCEPT !.token = got]
      <4>2. c \in Call /\ c.kind = "confirm" /\ c.answer = None
        BY <4>1, SentType DEF Kind, Call, Sent
      <4>3. cookie' = got /\ call' = [call EXCEPT ![i] = c]
            /\ UNCHANGED <<me, checked, view, nav, loads, stale>>
        BY <3>1, <3>3 DEF LoginAnswered
      <4> HIDE DEF c
      <4>4. TypeOK'
        BY <2>1, <4>1, <4>2, <4>3 DEF TypeOK
      <4>5. AnswersTrue'
        BY <2>1, <4>2, <4>3 DEF TypeOK, AnswersTrue
      <4>6. Under({"confirm"})'
        BY <4>2, <4>3 DEF TypeOK, Under
      <4> QED
        BY <2>1, <4>1, <4>3, <4>4, <4>5, <4>6 DEF PageInv, ShownIsTrue
    <3> QED
      BY <3>2, <3>3
  <2>6. CASE call[i].kind = "confirm"
    <3>1. Confirmed(i, got)
      BY <2>6
    <3>2. TypeOK'
      BY <2>1, <2>2, <2>3, <2>6, <3>1, LandingType DEF TypeOK, Confirmed, Page
    <3>3. ShownIsTrue'
      <4>1. UNCHANGED <<cookie, owner>> /\ me' = got /\ view' = Landing("admin", got)
            /\ stale' = (call[i].token # cookie)
        BY <2>1, <3>1 DEF Confirmed
      <4>2. view' = "admin" => got # None
        BY <4>1 DEF Landing
      <4>3. ~stale' => call[i].token = cookie'
        BY <4>1
      <4>4. got # None => call[i].token # None /\ owner'[call[i].token] = got
        BY <2>3, <2>6, <4>1 DEF Session
      <4>5. cookie' # None => owner'[cookie'] # None
        BY <4>1 DEF ShownIsTrue
      <4> QED
        BY <4>1, <4>2, <4>3, <4>4, <4>5 DEF ShownIsTrue
    <3> QED
      BY <2>2, <3>1, <3>2, <3>3 DEF PageInv, Confirmed
  <2>7. CASE call[i].kind = "logout"
    <3>1. LoggedOut(i, got)
      BY <2>7
    <3>2. TypeOK'
      BY <2>1, <2>2, <3>1 DEF TypeOK, LoggedOut, Page
    <3>3. ShownIsTrue'
      BY <2>1, <3>1 DEF TypeOK, ShownIsTrue, LoggedOut
    <3> QED
      BY <2>2, <3>1, <3>2, <3>3 DEF PageInv, LoggedOut
  <2> QED
    BY <2>1, <2>4, <2>5, <2>6, <2>7 DEF Call, Kind
<1>9. CASE UNCHANGED vars
  BY <1>9 DEF PageInv, TypeOK, AnswersTrue, ShownIsTrue, Under, vars, serverState, tabState
<1>10. CASE SignIn
  BY <1>3, <1>10 DEF SignIn
<1>11. CASE LogOut
  BY <1>3, <1>11 DEF LogOut
<1> QED
  BY <1>1, <1>2, <1>4, <1>5, <1>6, <1>7, <1>8, <1>9, <1>10, <1>11 DEF Next

LEMMA PageAlways == Spec => []PageInv
BY PageInit, PageStep, PTL DEF Spec

(* The store, the router and the calls under way keep their types           *)
(* (stores/admin.ts, router/index.ts).                                      *)
THEOREM PageTypeCorrect == Spec => []TypeOK
<1>1. PageInv => TypeOK
  BY DEF PageInv
<1> QED
  BY <1>1, PageAlways, PTL

(* An administration page is only shown under the account of the session    *)
(* that the cookie names, unless another tab, max_age or a navigation that  *)
(* was called off came between, or a login awaits its /me: whichever calls  *)
(* of login, logout and /me were lost, late, or under way at once.          *)
THEOREM AlwaysSignedInAs == Spec => []SignedInAs
<1>1. PageInv => SignedInAs
  BY DEF PageInv, ShownIsTrue, SignedInAs
<1> QED
  BY <1>1, PageAlways, PTL

-------------------------------------------------------------------------------
\* NavigationWaits: a navigation that awaits its guard awaits a call of /me that
\* is under way and that no other call has taken the place of, whatever was
\* called off, answered, lost or reloaded since (fetchMe of stores/admin.ts,
\* beforeEach of the router).
NavigationWaits ==
    nav # None => call[nav.by] # None /\ call[nav.by].kind = "me"

(* A navigation that awaits its guard awaits a call of /me of its own that is *)
(* under way, for any number of calls, loads and navigations called off       *)
(* (fetchMe of stores/admin.ts, beforeEach of router/index.ts).               *)
THEOREM NavigationAlwaysWaits == Spec => []NavigationWaits
<1>1. Init => NavigationWaits
  BY DEF Init, NavigationWaits
<1>2. PageInv /\ NavigationWaits /\ [Next]_vars => NavigationWaits'
  <2> SUFFICES ASSUME PageInv, NavigationWaits, [Next]_vars PROVE NavigationWaits'
    OBVIOUS
  <2> USE NoneAssumption
  <2> TypeOK
    BY DEF PageInv
  <2>1. nav # None => /\ nav.by \in Slot /\ call[nav.by] \in Call
                      /\ call[nav.by].kind = "me"
    BY DEF TypeOK, NavigationWaits
  <2>2. ASSUME nav' = nav, nav # None => call'[nav.by] # None /\ call'[nav.by].kind = "me"
        PROVE  NavigationWaits'
    BY <2>2 DEF NavigationWaits
  <2>3. ASSUME NEW kind \in Kind PROVE Sent(kind) # None /\ Sent(kind).kind = kind
    <3>1. Sent(kind) \in Call
      BY SentType
    <3> QED
      BY <3>1 DEF Sent
  <2>4. ASSUME NEW to \in Page, Load(to) PROVE NavigationWaits'
    <3>1. 1 \in Slot
      BY BoundsAssumption DEF Slot
    <3>2. CASE to = "chat"
      BY <2>4, <3>2 DEF Load, NavigationWaits
    <3>3. CASE to # "chat"
      <4>1. nav' = [to |-> to, by |-> 1] /\ call'[1] = Sent("me")
        BY <2>4, <3>1, <3>3 DEF Load
      <4> QED
        BY <4>1, <2>3 DEF NavigationWaits, Kind
    <3> QED
      BY <3>2, <3>3
  <2>5. ASSUME NEW to \in Page, Go(to) PROVE NavigationWaits'
    <3>1. CASE checked \/ to = "chat"
      BY <2>5, <3>1 DEF Go, NavigationWaits
    <3>2. CASE ~(checked \/ to = "chat")
      <4>1. PICK i \in Slot : /\ call' = [call EXCEPT ![i] = Sent("me")]
                              /\ nav' = [to |-> to, by |-> i]
        BY <2>5, <3>2 DEF Go
      <4>2. call'[i] = Sent("me")
        BY <4>1 DEF TypeOK
      <4> QED
        BY <4>1, <4>2, <2>3 DEF NavigationWaits, Kind
    <3> QED
      BY <3>1, <3>2
  <2>6. CASE SignIn \/ LogOut
    <3>1. PICK i \in Slot : call[i] = None /\ \A j \in Slot \ {i} : call'[j] = call[j]
      BY <2>6 DEF SignIn, LogOut, TypeOK
    <3>2. nav' = nav
      BY <2>6 DEF SignIn, LogOut
    <3>3. nav # None => nav.by # i
      BY <3>1 DEF NavigationWaits
    <3> QED
      BY <2>1, <2>2, <3>1, <3>2, <3>3
  <2>7. ASSUME NEW i \in Slot, Handle(i) PROVE NavigationWaits'
    <3>1. nav' = nav /\ call[i] \in Call
      BY <2>7 DEF Handle, TypeOK
    <3>2. PICK answer \in Answer :
              call' = [call EXCEPT ![i].handled = TRUE, ![i].answer = answer]
      <4>1. ASSUME NEW token, token \in valid PROVE owner[token] \in Answer /\ token \in Answer
        BY <4>1 DEF TypeOK, Answer
      <4>2. None \in Answer /\ Session \subseteq Answer
        BY DEF Answer
      <4> QED
        BY <2>7, <4>1, <4>2 DEF Handle, HandleMe, HandleLogin, HandleLogout, Handled
    <3>3. /\ \A j \in Slot \ {i} : call'[j] = call[j]
          /\ call'[i] = [call[i] EXCEPT !.handled = TRUE, !.answer = answer]
      BY <3>2 DEF TypeOK
    <3>4. call'[i].kind = call[i].kind
      BY <3>1, <3>3 DEF Call
    <3>5. call'[i] # None
      <4>1. call'[i] \in Call
        BY <3>1, <3>3 DEF Call
      <4> QED
        BY <4>1
    <3> QED
      BY <2>1, <2>2, <3>1, <3>3, <3>4, <3>5
  <2>8. ASSUME NEW i \in Slot, Arrive(i) PROVE NavigationWaits'
    <3>1. call[i] \in Call /\ call[i] # None
      BY <2>8 DEF Arrive, TypeOK
    <3>2. PICK got : CASE call[i].kind = "me"      -> MeAnswered(i, got)
                       [] call[i].kind = "login"   -> LoginAnswered(i, got)
                       [] call[i].kind = "confirm" -> Confirmed(i, got)
                       [] call[i].kind = "logout"  -> LoggedOut(i, got)
      BY <2>8 DEF Arrive
    <3>3. CASE call[i].kind = "me"
      <4>1. MeAnswered(i, got)
        BY <3>2, <3>3
      <4>2. CASE nav # None /\ nav.by = i
        BY <4>1, <4>2 DEF MeAnswered, NavigationWaits
      <4>3. CASE ~(nav # None /\ nav.by = i)
        <5>1. nav' = nav /\ \A j \in Slot \ {i} : call'[j] = call[j]
          BY <4>1, <4>3 DEF MeAnswered, Done, TypeOK
        <5> QED
          BY <4>3, <5>1, <2>1, <2>2
      <4> QED
        BY <4>2, <4>3
    <3>4. CASE call[i].kind = "login"
      <4>1. LoginAnswered(i, got)
        BY <3>2, <3>4
      <4>2. nav' = nav /\ \A j \in Slot \ {i} : call'[j] = call[j]
        BY <4>1 DEF LoginAnswered, Done, TypeOK
      <4>3. nav # None => nav.by # i
        BY <3>4, <2>1
      <4> QED
        BY <4>2, <4>3, <2>1, <2>2
    <3>5. CASE call[i].kind = "confirm"
      BY <3>2, <3>5 DEF Confirmed, NavigationWaits
    <3>6. CASE call[i].kind = "logout"
      BY <3>2, <3>6 DEF LoggedOut, NavigationWaits
    <3> QED
      BY <3>1, <3>3, <3>4, <3>5, <3>6 DEF Call, Kind
  <2>9. CASE UNCHANGED <<nav, call>>
    BY <2>9 DEF NavigationWaits
  <2> QED
    BY <2>4, <2>5, <2>6, <2>7, <2>8, <2>9
       DEF Next, End, SignInElsewhere, CookieGone, tabState, vars
<1> QED
  BY <1>1, <1>2, PageAlways, PTL DEF Spec
===============================================================================
