------------------------ MODULE ConnectorFlowProofs ------------------------
(***************************************************************************)
(* ConnectorFlow for any number of browsers, tabs, ids and connectors:     *)
(* types, and that sessions, choices and dashboards stay in their browser. *)
(***************************************************************************)
EXTENDS ConnectorAccess, TLAPS

\* What a tab shows, and what its message carries, was clicked in its browser:
\* the part of the inductive invariant that follows a click through a page, a
\* request, a session and an answer.
WantedIn(b, S) == (intent[b] \cap S) \cup {None}

PagesAreOwn ==
    \A t \in Tab :
        tab[t].at = "idps" => tab[t].res \in WantedIn(BrowserOf[t], Dataset)

MessagesAreOwn ==
    \A t \in Tab :
        LET b == BrowserOf[t]
        IN  /\ net[t].kind = "navigate" => net[t].res \in intent[b] \cap Resource
            /\ net[t].kind \in {"select", "fetching"} =>
                  /\ net[t].connector \in intent[b] \cap Connector
                  /\ net[t].res \in WantedIn(b, Dataset)
            /\ net[t].kind = "prompt" => net[t].res \in intent[b] \cap Dataset
            /\ net[t].kind = "open" =>
                  /\ net[t].res \in intent[b] \cap Dataset
                  /\ net[t].connector \in intent[b] \cap WithDashboard
            /\ net[t].kind = "chosen" => net[t].res \in WantedIn(b, Dataset)

IInv ==
    /\ TypeOK
    /\ NoSharedSession
    /\ SessionIsOwn
    /\ PagesAreOwn
    /\ MessagesAreOwn
    /\ DashboardIsWanted

-----------------------------------------------------------------------------
USE DEF Resource, Requests, Answers, WantedIn

LEMMA MsgType ==
    ASSUME NEW kind \in Requests \cup Answers \cup {"idle"},
           NEW cookie \in Session \cup {None},
           NEW res \in Resource \cup {None}, NEW c \in Connector \cup {None}
    PROVE  Msg(kind, cookie, res, c) \in Message
  BY DEF Msg, Message

LEMMA VisitedType ==
    ASSUME NEW data \in SessionData, NEW r \in Resource
    PROVE  /\ Visited(data, r) \in SessionData
           /\ Visited(data, r).connector = data.connector
           /\ Visited(data, r).pending # None =>
                 \/ Visited(data, r).pending = data.pending
                 \/ r \in Dataset /\ Visited(data, r).pending = r
           /\ VisitReply(data, r) \in {"leave", "prompt", "open"}
           /\ VisitReply(data, r) = "leave" <=> r \notin Dataset
           /\ VisitReply(data, r) = "open" =>
                 r \in Dataset /\ data.connector \in Connector
  BY DEF SessionData, Visited, VisitReply

LEMMA SelectedType ==
    ASSUME NEW data \in SessionData, NEW c \in Connector
    PROVE  /\ Selected(data, c) \in SessionData
           /\ Selected(data, c).connector = c
           /\ Selected(data, c).pending = data.pending
  BY DEF SessionData, Selected

LEMMA NewSessionType ==
    /\ NewSession \in SessionData
    /\ NewSession.connector = None
    /\ NewSession.pending = None
  BY DEF SessionData, NewSession

LEMMA InitIInv == Init => IInv
  <1> SUFFICES ASSUME Init PROVE IInv
    OBVIOUS
  <1>1. TypeOK
    BY ConstantsAssumption, MsgType
    DEF Init, TypeOK, NewSession, SessionData, Search, At, Page, Idle
  <1>2. NoSharedSession /\ SessionIsOwn
    BY ConstantsAssumption DEF Init, NoSharedSession, SessionIsOwn, Idle, Msg
  <1>3. PagesAreOwn /\ MessagesAreOwn /\ DashboardIsWanted
    BY DEF Init, PagesAreOwn, MessagesAreOwn, DashboardIsWanted, Idle, Msg, Search, At
  <1>4. QED
    BY <1>1, <1>2, <1>3 DEF IInv
LEMMA OpenResourceStep ==
    ASSUME IInv, NEW t \in Tab, NEW r \in Resource, OpenResource(t, r)
    PROVE  IInv'
  <1> USE ConstantsAssumption DEF IInv, OpenResource, Waiting, Send, Wants, Msg
  <1>1. TypeOK'
    BY DEF TypeOK, Message
  <1>2. NoSharedSession'
    BY DEF NoSharedSession, TypeOK
  <1>3. SessionIsOwn'
    BY DEF SessionIsOwn, TypeOK
  <1>4. PagesAreOwn' /\ DashboardIsWanted'
    BY DEF PagesAreOwn, DashboardIsWanted, TypeOK
  <1>5. MessagesAreOwn'
    BY DEF MessagesAreOwn, TypeOK
  <1> QED
    BY <1>1, <1>2, <1>3, <1>4, <1>5

LEMMA OpenConnectorListStep ==
    ASSUME IInv, NEW t \in Tab, OpenConnectorList(t)
    PROVE  IInv'
  <1> USE ConstantsAssumption DEF IInv, OpenConnectorList, At
  <1>1. TypeOK'
    BY DEF TypeOK, Page
  <1>2. NoSharedSession'
    BY DEF NoSharedSession, TypeOK
  <1>3. SessionIsOwn'
    BY DEF SessionIsOwn, TypeOK
  <1>4. PagesAreOwn' /\ DashboardIsWanted'
    BY DEF PagesAreOwn, DashboardIsWanted, TypeOK
  <1>5. MessagesAreOwn'
    BY DEF MessagesAreOwn, TypeOK
  <1> QED
    BY <1>1, <1>2, <1>3, <1>4, <1>5

LEMMA ChooseConnectorStep ==
    ASSUME IInv, NEW t \in Tab, NEW c \in Connector, ChooseConnector(t, c)
    PROVE  IInv'
  <1> USE ConstantsAssumption DEF IInv, ChooseConnector, Waiting, Send, Wants, Msg
  <1>1. TypeOK'
    <2>1. tab[t].res \in Resource \cup {None}
      BY DEF TypeOK, Page
    <2> QED
      BY <2>1 DEF TypeOK, Message
  <1>2. NoSharedSession'
    BY DEF NoSharedSession, TypeOK
  <1>3. SessionIsOwn'
    BY DEF SessionIsOwn, TypeOK
  <1>4. PagesAreOwn' /\ DashboardIsWanted'
    BY DEF PagesAreOwn, DashboardIsWanted, TypeOK
  <1>5. MessagesAreOwn'
    BY DEF MessagesAreOwn, TypeOK, PagesAreOwn
  <1> QED
    BY <1>1, <1>2, <1>3, <1>4, <1>5

LEMMA BackToSearchStep ==
    ASSUME IInv, NEW t \in Tab, BackToSearch(t)
    PROVE  IInv'
  <1> USE ConstantsAssumption DEF IInv, BackToSearch, Search, At
  <1>1. TypeOK'
    BY DEF TypeOK, Page
  <1>2. NoSharedSession'
    BY DEF NoSharedSession, TypeOK
  <1>3. SessionIsOwn'
    BY DEF SessionIsOwn, TypeOK
  <1>4. PagesAreOwn' /\ DashboardIsWanted'
    BY DEF PagesAreOwn, DashboardIsWanted, TypeOK
  <1>5. MessagesAreOwn'
    BY DEF MessagesAreOwn, TypeOK
  <1> QED
    BY <1>1, <1>2, <1>3, <1>4, <1>5

LEMMA SignInStep ==
    ASSUME IInv, NEW t \in Tab, SignIn(t)
    PROVE  IInv'
  <1> USE ConstantsAssumption DEF IInv, SignIn, Send, Msg
  <1>1. TypeOK'
    BY DEF TypeOK, Message
  <1>2. NoSharedSession'
    BY DEF NoSharedSession, TypeOK
  <1>3. SessionIsOwn'
    BY DEF SessionIsOwn, TypeOK
  <1>4. PagesAreOwn' /\ DashboardIsWanted'
    BY DEF PagesAreOwn, DashboardIsWanted, TypeOK
  <1>5. MessagesAreOwn'
    BY DEF MessagesAreOwn, TypeOK
  <1> QED
    BY <1>1, <1>2, <1>3, <1>4, <1>5

LEMMA SignOutStep ==
    ASSUME IInv, NEW t \in Tab, SignOut(t)
    PROVE  IInv'
  <1> USE ConstantsAssumption DEF IInv, SignOut, Send, Msg
  <1>1. TypeOK'
    BY DEF TypeOK, Message
  <1>2. NoSharedSession'
    BY DEF NoSharedSession, TypeOK
  <1>3. SessionIsOwn'
    BY DEF SessionIsOwn, TypeOK
  <1>4. PagesAreOwn' /\ DashboardIsWanted'
    BY DEF PagesAreOwn, DashboardIsWanted, TypeOK
  <1>5. MessagesAreOwn'
    BY DEF MessagesAreOwn, TypeOK
  <1> QED
    BY <1>1, <1>2, <1>3, <1>4, <1>5

LEMMA ReceiveStep ==
    ASSUME IInv, NEW t \in Tab, Receive(t)
    PROVE  IInv'
  <1> USE ConstantsAssumption DEF IInv, Receive, Shown, Msg, Idle, At, Search
  <1>1. TypeOK'
    BY DEF TypeOK, Message, Page
  <1>2. NoSharedSession'
    BY DEF NoSharedSession, TypeOK
  <1>3. SessionIsOwn'
    BY DEF SessionIsOwn, TypeOK
  <1>4. PagesAreOwn' /\ DashboardIsWanted'
    BY DEF PagesAreOwn, DashboardIsWanted, TypeOK, MessagesAreOwn
  <1>5. MessagesAreOwn'
    BY DEF MessagesAreOwn, TypeOK
  <1> QED
    BY <1>1, <1>2, <1>3, <1>4, <1>5

LEMMA LoseAnswerStep ==
    ASSUME IInv, NEW t \in Tab, LoseAnswer(t)
    PROVE  IInv'
  <1> USE ConstantsAssumption DEF IInv, LoseAnswer, Idle, Msg
  <1>1. TypeOK'
    BY DEF TypeOK, Message
  <1>2. NoSharedSession'
    BY DEF NoSharedSession, TypeOK
  <1>3. SessionIsOwn'
    BY DEF SessionIsOwn, TypeOK
  <1>4. PagesAreOwn' /\ DashboardIsWanted'
    BY DEF PagesAreOwn, DashboardIsWanted, TypeOK
  <1>5. MessagesAreOwn'
    BY DEF MessagesAreOwn, TypeOK
  <1> QED
    BY <1>1, <1>2, <1>3, <1>4, <1>5

LEMMA CookieExpiresStep ==
    ASSUME IInv, NEW b \in Browser, CookieExpires(b)
    PROVE  IInv'
  <1> USE ConstantsAssumption DEF IInv, CookieExpires
  <1>1. TypeOK'
    BY DEF TypeOK
  <1>2. NoSharedSession'
    BY DEF NoSharedSession, TypeOK
  <1>3. SessionIsOwn'
    BY DEF SessionIsOwn, TypeOK
  <1>4. PagesAreOwn' /\ DashboardIsWanted'
    BY DEF PagesAreOwn, DashboardIsWanted, TypeOK
  <1>5. MessagesAreOwn'
    BY DEF MessagesAreOwn, TypeOK
  <1> QED
    BY <1>1, <1>2, <1>3, <1>4, <1>5

LEMMA HandleNavigateStep ==
    ASSUME IInv, NEW t \in Tab, HandleNavigate(t)
    PROVE  IInv'
  <1> USE ConstantsAssumption DEF IInv, HandleNavigate, Reply, Create, Update
  <1> DEFINE cookie == net[t].cookie
             r == net[t].res
             answer(data, set) == Msg(VisitReply(data, r), set, r,
                                      IF r \in Dataset THEN data.connector ELSE None)
  <1>1. r \in intent[BrowserOf[t]] \cap Resource /\ BrowserOf[t] \in Browser
    BY DEF TypeOK, MessagesAreOwn
  <1>2. CASE /\ cookie \in live
             /\ store' = [store EXCEPT ![cookie] = Visited(store[cookie], r)]
             /\ net' = [net EXCEPT ![t] = answer(store[cookie], None)]
             /\ UNCHANGED <<live, jar, tab, restarts, owner, intent>>
    <2>1. /\ cookie \in Session /\ store[cookie] \in SessionData
          /\ owner[cookie] = BrowserOf[t]
      BY <1>2 DEF TypeOK, NoSharedSession
    <2>2. answer(store[cookie], None) \in Message
      BY <1>1, <2>1, VisitedType DEF Msg, Message, SessionData
    <2>3. TypeOK'
      BY <1>1, <1>2, <2>1, <2>2, VisitedType DEF TypeOK
    <2>4. NoSharedSession'
      BY <1>2, <2>1 DEF NoSharedSession, TypeOK, Msg
    <2>5. SessionIsOwn'
      <3> DEFINE after == Visited(store[cookie], r)
      <3>1. after.connector = store[cookie].connector
        BY <1>1, <2>1, VisitedType
      <3>2. after.pending \in {store[cookie].pending, None} \cup ({r} \cap Dataset)
        BY <1>1, <2>1, VisitedType
      <3> HIDE DEF after
      <3>3. \A x \in Session :
              store'[x] = IF x = cookie THEN after ELSE store[x]
        BY <1>2, <2>1 DEF TypeOK, after
      <3> QED
        BY <1>1, <1>2, <2>1, <3>1, <3>2, <3>3 DEF SessionIsOwn
    <2>6. MessagesAreOwn'
      BY <1>1, <1>2, <2>1, VisitedType DEF MessagesAreOwn, SessionIsOwn, TypeOK, Msg
    <2>7. PagesAreOwn' /\ DashboardIsWanted'
      BY <1>2 DEF PagesAreOwn, DashboardIsWanted
    <2> QED
      BY <2>3, <2>4, <2>5, <2>6, <2>7
  <1>3. ASSUME NEW s \in Session, ~InUse(s),
               live' = live \cup {s},
               store' = [store EXCEPT ![s] = Visited(NewSession, r)],
               owner' = [owner EXCEPT ![s] = BrowserOf[t]],
               net' = [net EXCEPT ![t] = answer(NewSession, s)],
               UNCHANGED <<jar, tab, restarts, intent>>
        PROVE  IInv'
    <2>1. answer(NewSession, s) \in Message
      BY <1>1, NewSessionType, VisitedType DEF Msg, Message, SessionData
    <2>2. TypeOK'
      BY <1>1, <1>3, <2>1, NewSessionType, VisitedType DEF TypeOK
    <2>3. NoSharedSession'
      BY <1>1, <1>3 DEF NoSharedSession, TypeOK, Msg, InUse
    <2>4. SessionIsOwn'
      BY <1>1, <1>3, NewSessionType, VisitedType DEF SessionIsOwn, TypeOK
    <2>5. MessagesAreOwn'
      BY <1>1, <1>3, NewSessionType, VisitedType DEF MessagesAreOwn, TypeOK, Msg
    <2>6. PagesAreOwn' /\ DashboardIsWanted'
      BY <1>3 DEF PagesAreOwn, DashboardIsWanted
    <2> QED
      BY <2>2, <2>3, <2>4, <2>5, <2>6
  <1> QED
    BY <1>2, <1>3

LEMMA AskRegistryStep ==
    ASSUME IInv, NEW t \in Tab, AskRegistry(t)
    PROVE  IInv'
  <1> USE ConstantsAssumption DEF IInv, AskRegistry
  <1>1. TypeOK'
    <2>1. net[t] \in Message
      BY DEF TypeOK
    <2>2. [net[t] EXCEPT !.kind = "fetching"] \in Message
      BY <2>1 DEF Message
    <2> QED
      BY <2>2 DEF TypeOK
  <1>2. NoSharedSession'
    BY DEF NoSharedSession, TypeOK
  <1>3. SessionIsOwn'
    BY DEF SessionIsOwn, TypeOK
  <1>4. PagesAreOwn' /\ DashboardIsWanted'
    BY DEF PagesAreOwn, DashboardIsWanted, TypeOK
  <1>5. MessagesAreOwn'
    BY DEF MessagesAreOwn, TypeOK
  <1> QED
    BY <1>1, <1>2, <1>3, <1>4, <1>5

LEMMA RegistryRefusesStep ==
    ASSUME IInv, NEW t \in Tab, RegistryRefuses(t)
    PROVE  IInv'
  <1> USE ConstantsAssumption DEF IInv, RegistryRefuses, Reply, Msg
  <1>1. TypeOK'
    BY DEF TypeOK, Message
  <1>2. NoSharedSession'
    BY DEF NoSharedSession, TypeOK
  <1>3. SessionIsOwn'
    BY DEF SessionIsOwn, TypeOK
  <1>4. PagesAreOwn' /\ DashboardIsWanted'
    BY DEF PagesAreOwn, DashboardIsWanted, TypeOK
  <1>5. MessagesAreOwn'
    BY DEF MessagesAreOwn, TypeOK
  <1> QED
    BY <1>1, <1>2, <1>3, <1>4, <1>5

LEMMA SaveSelectionStep ==
    ASSUME IInv, NEW t \in Tab, SaveSelection(t)
    PROVE  IInv'
  <1> USE ConstantsAssumption DEF IInv, SaveSelection, Reply, Create, Update
  <1> DEFINE cookie == net[t].cookie
             c == net[t].connector
             next == net[t].res
             answer(data, set) == Msg("chosen", set, Resumed(next, data), c)
  <1>1. /\ c \in intent[BrowserOf[t]] \cap WithDashboard
        /\ next \in WantedIn(BrowserOf[t], Dataset)
        /\ BrowserOf[t] \in Browser
    BY DEF TypeOK, MessagesAreOwn
  <1>2. ASSUME NEW s \in Session, ~InUse(s),
               live' = live \cup {s},
               store' = [store EXCEPT ![s] = Selected(NewSession, c)],
               owner' = [owner EXCEPT ![s] = BrowserOf[t]],
               net' = [net EXCEPT ![t] = answer(NewSession, s)],
               UNCHANGED <<jar, tab, restarts, intent>>
        PROVE  IInv'
    <2>1. answer(NewSession, s) \in Message /\ Resumed(next, NewSession) = next
      BY <1>1, NewSessionType DEF Msg, Message, Resumed
    <2>2. TypeOK'
      BY <1>1, <1>2, <2>1, NewSessionType, SelectedType DEF TypeOK
    <2>3. NoSharedSession'
      BY <1>1, <1>2 DEF NoSharedSession, TypeOK, Msg, InUse
    <2>4. SessionIsOwn'
      BY <1>1, <1>2, NewSessionType, SelectedType DEF SessionIsOwn, TypeOK
    <2>5. MessagesAreOwn'
      BY <1>1, <1>2, <2>1 DEF MessagesAreOwn, TypeOK, Msg
    <2>6. PagesAreOwn' /\ DashboardIsWanted'
      BY <1>2 DEF PagesAreOwn, DashboardIsWanted
    <2> QED
      BY <2>2, <2>3, <2>4, <2>5, <2>6
  <1>3. CASE /\ cookie \in live
             /\ store' = [store EXCEPT ![cookie] = Selected(store[cookie], c)]
             /\ net' = [net EXCEPT ![t] = answer(store[cookie], None)]
             /\ UNCHANGED <<live, jar, tab, restarts, owner, intent>>
    <2>1. /\ cookie \in Session /\ store[cookie] \in SessionData
          /\ owner[cookie] = BrowserOf[t]
      BY <1>3 DEF TypeOK, NoSharedSession
    <2>2. Resumed(next, store[cookie]) \in WantedIn(BrowserOf[t], Dataset)
      BY <1>1, <2>1 DEF Resumed, SessionIsOwn
    <2>3. answer(store[cookie], None) \in Message
      BY <1>1, <2>2 DEF Msg, Message
    <2>4. TypeOK'
      BY <1>1, <1>3, <2>1, <2>3, SelectedType DEF TypeOK
    <2>5. NoSharedSession'
      BY <1>3, <2>1 DEF NoSharedSession, TypeOK, Msg
    <2>6. SessionIsOwn'
      BY <1>1, <1>3, <2>1, SelectedType DEF SessionIsOwn, TypeOK
    <2>7. MessagesAreOwn'
      BY <1>1, <1>3, <2>2 DEF MessagesAreOwn, TypeOK, Msg
    <2>8. PagesAreOwn' /\ DashboardIsWanted'
      BY <1>3 DEF PagesAreOwn, DashboardIsWanted
    <2> QED
      BY <2>4, <2>5, <2>6, <2>7, <2>8
  <1>4. CASE /\ net' = [net EXCEPT ![t] = Msg("crash", None, None, None)]
             /\ UNCHANGED <<live, store, owner, jar, tab, restarts, intent>>
    BY <1>4 DEF TypeOK, NoSharedSession, SessionIsOwn, PagesAreOwn,
                MessagesAreOwn, DashboardIsWanted, Msg, Message
  <1> QED
    BY <1>2, <1>3, <1>4

LEMMA HandleSignInStep ==
    ASSUME IInv, NEW t \in Tab, HandleSignIn(t)
    PROVE  IInv'
  <1> USE ConstantsAssumption DEF IInv, HandleSignIn, Reply, Create, Msg, InUse
  <1>1. TypeOK'
    <2>1. NewSession \in SessionData /\ BrowserOf[t] \in Browser
      BY NewSessionType DEF TypeOK
    <2>2. net' \in [Tab -> Message]
      BY MsgType DEF TypeOK
    <2>3. store' \in [Session -> SessionData] /\ live' \subseteq Session
      BY <2>1 DEF TypeOK
    <2>4. owner' \in [Session -> Browser \cup {None}]
      BY <2>1 DEF TypeOK
    <2> QED
      BY <2>2, <2>3, <2>4 DEF TypeOK
  <1>2. NoSharedSession'
    <2>1. ASSUME NEW s \in Session, ~InUse(s),
                 owner' = [owner EXCEPT ![s] = BrowserOf[t]],
                 net' = [net EXCEPT ![t] = Msg("home", s, None, None)],
                 jar' = jar
          PROVE  NoSharedSession'
      BY <2>1 DEF NoSharedSession, TypeOK
    <2>2. CASE /\ net' = [net EXCEPT ![t] = Msg("denied", None, None, None)]
               /\ UNCHANGED <<owner, jar>>
      BY <2>2 DEF NoSharedSession, TypeOK
    <2> QED
      BY <2>1, <2>2
  <1>3. SessionIsOwn'
    BY NewSessionType DEF SessionIsOwn, TypeOK
  <1>4. PagesAreOwn' /\ DashboardIsWanted'
    BY DEF PagesAreOwn, DashboardIsWanted, TypeOK
  <1>5. MessagesAreOwn'
    BY DEF MessagesAreOwn, TypeOK
  <1> QED
    BY <1>1, <1>2, <1>3, <1>4, <1>5

LEMMA HandleLogoutStep ==
    ASSUME IInv, NEW t \in Tab, HandleLogout(t)
    PROVE  IInv'
  <1> USE ConstantsAssumption DEF IInv, HandleLogout, Reply, Msg
  <1>1. TypeOK'
    <2>1. NewSession \in SessionData /\ BrowserOf[t] \in Browser
      BY NewSessionType DEF TypeOK
    <2>2. net' \in [Tab -> Message]
      BY MsgType DEF TypeOK
    <2>3. store' \in [Session -> SessionData] /\ live' \subseteq Session
      BY <2>1 DEF TypeOK
    <2>4. owner' \in [Session -> Browser \cup {None}]
      BY <2>1 DEF TypeOK
    <2> QED
      BY <2>2, <2>3, <2>4 DEF TypeOK
  <1>2. NoSharedSession'
    BY DEF NoSharedSession, TypeOK
  <1>3. SessionIsOwn'
    BY NewSessionType DEF SessionIsOwn, TypeOK
  <1>4. PagesAreOwn' /\ DashboardIsWanted'
    BY DEF PagesAreOwn, DashboardIsWanted, TypeOK
  <1>5. MessagesAreOwn'
    BY DEF MessagesAreOwn, TypeOK
  <1> QED
    BY <1>1, <1>2, <1>3, <1>4, <1>5

LEMMA RestartStep ==
    ASSUME IInv, Restart
    PROVE  IInv'
  <1> USE ConstantsAssumption DEF IInv, Restart, Msg
  <1>1. TypeOK'
    BY NewSessionType DEF TypeOK, Message
  <1>2. NoSharedSession'
    BY DEF NoSharedSession, TypeOK
  <1>3. SessionIsOwn'
    BY NewSessionType DEF SessionIsOwn, TypeOK
  <1>4. PagesAreOwn' /\ DashboardIsWanted'
    BY DEF PagesAreOwn, DashboardIsWanted, TypeOK
  <1>5. MessagesAreOwn'
    BY DEF MessagesAreOwn, TypeOK
  <1> QED
    BY <1>1, <1>2, <1>3, <1>4, <1>5

-----------------------------------------------------------------------------
LEMMA NextIInv == IInv /\ [Next]_vars => IInv'
  <1> SUFFICES ASSUME IInv, [Next]_vars PROVE IInv'
    OBVIOUS
  <1>1. ASSUME NEW t \in Tab, User(t) PROVE IInv'
    BY <1>1, OpenResourceStep, OpenConnectorListStep, ChooseConnectorStep,
       BackToSearchStep, SignInStep, SignOutStep DEF User
  <1>2. ASSUME NEW t \in Tab, Server(t) PROVE IInv'
    BY <1>2, HandleNavigateStep, AskRegistryStep, RegistryRefusesStep,
       SaveSelectionStep, HandleSignInStep, HandleLogoutStep DEF Server
  <1>3. ASSUME NEW t \in Tab, Receive(t) \/ LoseAnswer(t) PROVE IInv'
    BY <1>3, ReceiveStep, LoseAnswerStep
  <1>4. ASSUME NEW b \in Browser, CookieExpires(b) PROVE IInv'
    BY <1>4, CookieExpiresStep
  <1>5. CASE Restart
    BY <1>5, RestartStep
  <1>6. CASE UNCHANGED vars
    BY <1>6 DEF IInv, TypeOK, NoSharedSession, SessionIsOwn, PagesAreOwn,
                MessagesAreOwn, DashboardIsWanted, vars
  <1> QED
    BY <1>1, <1>2, <1>3, <1>4, <1>5, <1>6 DEF Next

\* The inductive invariant holds in every state of every behaviour.
THEOREM FlowInvariant == Spec => []IInv
  <1> QED
    BY InitIInv, NextIInv, PTL DEF Spec

\* TypeOK: the sessions, the cookies and the messages keep their shapes.
THEOREM FlowTypeCorrect == Spec => []TypeOK
  <1>1. IInv => TypeOK
    BY DEF IInv
  <1> QED
    BY <1>1, FlowInvariant, PTL

\* NoSharedSession: for any number of browsers and tabs, whatever answers are
\* lost or reordered and however often the backend restarts, no id is in the
\* hands of two browsers.
THEOREM SessionsStayApart == Spec => []NoSharedSession
  <1>1. IInv => NoSharedSession
    BY DEF IInv
  <1> QED
    BY <1>1, FlowInvariant, PTL

\* SessionIsOwn: a session remembers only what its own browser clicked.
THEOREM SessionsAreOwn == Spec => []SessionIsOwn
  <1>1. IInv => SessionIsOwn
    BY DEF IInv
  <1> QED
    BY <1>1, FlowInvariant, PTL

\* DashboardIsWanted: every dashboard shown is that of a connector chosen in the
\* browser, for a dataset clicked in it.
THEOREM DashboardsAreWanted == Spec => []DashboardIsWanted
  <1>1. IInv => DashboardIsWanted
    BY DEF IInv
  <1> QED
    BY <1>1, FlowInvariant, PTL

-----------------------------------------------------------------------------
(* A choice is kept as long as its session is.                             *)
Kept ==
    \A s \in live \cap live' :
        InUse(s) /\ store[s].connector # None => store'[s].connector # None

LEMMA StoreUnchanged == UNCHANGED store => Kept
  BY DEF Kept

LEMMA KeptStep == IInv /\ [Next]_vars => Kept
  <1> SUFFICES ASSUME IInv, [Next]_vars PROVE Kept
    OBVIOUS
  <1> USE ConstantsAssumption DEF IInv
  <1>1. ASSUME NEW t \in Tab, HandleNavigate(t) PROVE Kept
    <2>1. net[t].res \in Resource
      BY <1>1 DEF HandleNavigate, MessagesAreOwn
    <2>2. \A s \in Session :
             Visited(store[s], net[t].res).connector = store[s].connector
      BY <2>1, VisitedType DEF TypeOK
    <2> QED
      BY <1>1, <2>2 DEF HandleNavigate, Create, Update, Kept, TypeOK
  <1>2. ASSUME NEW t \in Tab, SaveSelection(t) PROVE Kept
    <2>1. net[t].connector \in Connector /\ net[t].connector # None
      BY <1>2 DEF SaveSelection
    <2>2. \A s \in Session :
             Selected(store[s], net[t].connector).connector # None
      BY <2>1, SelectedType DEF TypeOK
    <2> QED
      BY <1>2, <2>2 DEF SaveSelection, Create, Update, Kept, TypeOK
  <1>3. ASSUME NEW t \in Tab, HandleSignIn(t) PROVE Kept
    BY <1>3 DEF HandleSignIn, Create, Kept, TypeOK
  <1>4. ASSUME NEW t \in Tab, HandleLogout(t) PROVE Kept
    BY <1>4 DEF HandleLogout, Kept, TypeOK
  <1>5. CASE Restart
    BY <1>5 DEF Restart, Kept
  <1>6. CASE UNCHANGED store
    BY <1>6, StoreUnchanged
  <1>7. \/ \E t \in Tab : \/ HandleNavigate(t) \/ SaveSelection(t)
                          \/ HandleSignIn(t) \/ HandleLogout(t)
        \/ Restart
        \/ UNCHANGED store
    BY DEF Next, User, Server, OpenResource, OpenConnectorList, ChooseConnector,
           BackToSearch, SignIn, SignOut, Receive, LoseAnswer, CookieExpires,
           AskRegistry, RegistryRefuses, vars
  <1> QED
    BY <1>1, <1>2, <1>3, <1>4, <1>5, <1>6, <1>7

\* SelectionIsKept: no navigation, selection, sign-in or restart takes the
\* chosen connector from a session that lives on and that somebody holds.
THEOREM SelectionsAreKept == Spec => SelectionIsKept
  <1>1. IInv /\ [Next]_vars => [Kept]_vars
    BY KeptStep
  <1>2. Spec => [][Kept]_vars
    BY <1>1, FlowInvariant, PTL DEF Spec
  <1> QED
    BY <1>2 DEF SelectionIsKept, Kept

-----------------------------------------------------------------------------
(* A dataset is remembered until it is opened or another one is asked for. *)
PendingKept ==
    \A s \in live \cap live' :
        InUse(s) /\ store'[s].pending # store[s].pending =>
            \E t \in Tab :
                /\ net[t].kind = "navigate"
                /\ net[t].res \in Dataset
                /\ net'[t].kind = IF store'[s].pending = None
                                    THEN "open" ELSE "prompt"

LEMMA VisitedPending ==
    ASSUME NEW data \in SessionData, NEW r \in Resource,
           Visited(data, r).pending # data.pending
    PROVE  /\ r \in Dataset
           /\ VisitReply(data, r) =
                 IF Visited(data, r).pending = None THEN "open" ELSE "prompt"
  BY ConstantsAssumption DEF SessionData, Visited, VisitReply

LEMMA PendingStep == IInv /\ [Next]_vars => PendingKept
  <1> SUFFICES ASSUME IInv, [Next]_vars PROVE PendingKept
    OBVIOUS
  <1> USE ConstantsAssumption DEF IInv
  <1>1. ASSUME NEW t \in Tab, HandleNavigate(t) PROVE PendingKept
    <2> SUFFICES ASSUME NEW s \in live \cap live', InUse(s),
                        store'[s].pending # store[s].pending
                 PROVE  /\ net[t].kind = "navigate"
                        /\ net[t].res \in Dataset
                        /\ net'[t].kind = IF store'[s].pending = None
                                            THEN "open" ELSE "prompt"
      BY DEF PendingKept
    <2> DEFINE r == net[t].res
    <2>1. r \in Resource /\ store[s] \in SessionData
      BY <1>1 DEF HandleNavigate, MessagesAreOwn, TypeOK
    <2>2. CASE net[t].cookie \in live
      <3>1. Update(net[t].cookie, Visited(store[net[t].cookie], r))
        BY <1>1, <2>2 DEF HandleNavigate
      <3>2. s = net[t].cookie /\ store'[s] = Visited(store[s], r)
        BY <3>1, <2>2 DEF Update, TypeOK
      <3>3. net'[t].kind = VisitReply(store[s], r)
        BY <1>1, <2>2, <3>2 DEF HandleNavigate, Reply, Msg, TypeOK
      <3> QED
        BY <1>1, <2>1, <3>2, <3>3, VisitedPending DEF HandleNavigate
    <2>3. CASE net[t].cookie \notin live
      BY <1>1, <2>3 DEF HandleNavigate, Create, TypeOK
    <2> QED
      BY <2>2, <2>3
  <1>2. ASSUME NEW t \in Tab, SaveSelection(t) PROVE PendingKept
    <2>1. net[t].connector \in Connector
      BY <1>2 DEF SaveSelection
    <2>2. \A s \in Session : Selected(store[s], net[t].connector).pending = store[s].pending
      BY <2>1, SelectedType DEF TypeOK
    <2> QED
      BY <1>2, <2>2 DEF SaveSelection, Create, Update, PendingKept, TypeOK
  <1>3. ASSUME NEW t \in Tab, HandleSignIn(t) PROVE PendingKept
    BY <1>3 DEF HandleSignIn, Create, PendingKept, TypeOK
  <1>4. ASSUME NEW t \in Tab, HandleLogout(t) PROVE PendingKept
    BY <1>4 DEF HandleLogout, PendingKept, TypeOK
  <1>5. CASE Restart
    BY <1>5 DEF Restart, PendingKept
  <1>6. CASE UNCHANGED store
    BY <1>6 DEF PendingKept
  <1>7. \/ \E t \in Tab : \/ HandleNavigate(t) \/ SaveSelection(t)
                          \/ HandleSignIn(t) \/ HandleLogout(t)
        \/ Restart
        \/ UNCHANGED store
    BY DEF Next, User, Server, OpenResource, OpenConnectorList, ChooseConnector,
           BackToSearch, SignIn, SignOut, Receive, LoseAnswer, CookieExpires,
           AskRegistry, RegistryRefuses, vars
  <1> QED
    BY <1>1, <1>2, <1>3, <1>4, <1>5, <1>6, <1>7

\* PendingIsKept: of the handlers only /navigate takes the remembered dataset from
\* a session that lives on and that somebody holds, and only for another dataset.
THEOREM DatasetsAreRemembered == Spec => PendingIsKept
  <1>1. IInv /\ [Next]_vars => [PendingKept]_vars
    BY PendingStep
  <1>2. Spec => [][PendingKept]_vars
    BY <1>1, FlowInvariant, PTL DEF Spec
  <1> QED
    BY <1>2 DEF PendingIsKept, PendingKept

-----------------------------------------------------------------------------
(* The refinement of DatasetAccess, where every browser has one tab and no *)
(* answer or cookie is lost.                                               *)
OneTabEach ==
    \A b \in Browser : \E t \in Tab :
        BrowserOf[t] = b /\ \A u \in Tab : BrowserOf[u] = b => u = t

NothingLost == Disturbance \cap {"loss", "expiry"} = {}

\* The session in effect in a tab, its connector, and what the tab has led to.
EffectiveIn(t) == SessionFrom(net[t], jar[BrowserOf[t]])
ChosenIn(t) == ConnectorIn(EffectiveIn(t))
LedIn(t) == Led(net[t], tab[t])

\* A request carries the cookie of the jar; only a dataset can be resumed; and
\* whoever is asked for a connector has not chosen one.
Follows(t) ==
    /\ net[t].kind \in Requests => net[t].cookie = jar[BrowserOf[t]]
    /\ net[t].kind = "idle" => net[t].cookie = None
    /\ net[t].kind # "idle" => tab[t].at \in {"search", "idps"}
    /\ net[t].kind \in {"signin", "logout"} => tab[t].at = "search"
    /\ net[t].kind = "navigate" => tab[t].at = "search" \/ net[t].res \in Dataset
    /\ net[t].kind = "prompt" => ChosenIn(t) = None
    /\ /\ tab[t].at = "idps" /\ tab[t].res # None
       /\ net[t].kind \in {"idle", "select", "fetching", "denied", "crash"}
       => ChosenIn(t) = None

AInv == \A t \in Tab : Follows(t)

Nothing == Outcome("nothing", None, None)

\* What a step of tab t may do to its browser's choice and to what t led to.
Moves(t) ==
    \/ ChosenIn(t)' = ChosenIn(t) /\ LedIn(t)' \in {LedIn(t), Nothing}
    \/ ChosenIn(t)' = None /\ LedIn(t)' = LedIn(t)
    \/ /\ ChosenIn(t) = None /\ ChosenIn(t)' = None
       /\ \E d \in Dataset : LedIn(t)' = Outcome("asked", d, None)
    \/ /\ ChosenIn(t) # None /\ ChosenIn(t)' = ChosenIn(t)
       /\ \E d \in Dataset : LedIn(t)' = Outcome("opened", d, ChosenIn(t))
    \/ \E c \in Connector, d \in Dataset \cup {None} :
          ChosenIn(t)' = c /\ LedIn(t)' = Outcome("confirmed", d, c)

Untouched(u) ==
    /\ net'[u] = net[u] /\ tab'[u] = tab[u]
    /\ jar'[BrowserOf[u]] = jar[BrowserOf[u]]
    /\ ChosenIn(u)' = ChosenIn(u)

\* A step of tab t leaves the other tabs alone.
Local(t) ==
    /\ \A u \in Tab \ {t} : Untouched(u)
    /\ Follows(t)'
    /\ Moves(t)

Simulated == [Access!Next]_(Access!vars)

LEMMA UntouchedFollows ==
    ASSUME NEW u \in Tab, Follows(u), Untouched(u)
    PROVE  Follows(u)'
  BY DEF Follows, Untouched

LEMMA TabsAndBrowsers ==
    ASSUME OneTabEach
    PROVE  /\ \A b \in Browser : TabOf(b) \in Tab /\ BrowserOf[TabOf(b)] = b
           /\ \A t \in Tab : BrowserOf[t] \in Browser /\ TabOf(BrowserOf[t]) = t
  <1>1. \A b \in Browser : TabOf(b) \in Tab /\ BrowserOf[TabOf(b)] = b
    BY DEF OneTabEach, TabOf
  <1>2. \A t \in Tab : BrowserOf[t] \in Browser
    BY ConstantsAssumption
  <1> QED
    BY <1>1, <1>2 DEF OneTabEach

LEMMA ChosenIs ==
    ASSUME OneTabEach
    PROVE  /\ Chosen = [b \in Browser |-> ChosenIn(TabOf(b))]
           /\ Chosen' = [b \in Browser |-> ChosenIn(TabOf(b))']
  <1>1. \A b \in Browser : BrowserOf[TabOf(b)] = b
    BY TabsAndBrowsers
  <1>2. \A b \in Browser : jar[BrowserOf[TabOf(b)]] = jar[b] /\ jar'[BrowserOf[TabOf(b)]] = jar'[b]
    BY <1>1
  <1>3. Chosen = [b \in Browser |-> ChosenIn(TabOf(b))]
    BY <1>2 DEF Chosen, ChosenIn, EffectiveIn
  <1>4. Chosen' = [b \in Browser |-> ChosenIn(TabOf(b))']
    BY <1>2 DEF Chosen, ChosenIn, EffectiveIn, ConnectorIn
  <1> QED
    BY <1>3, <1>4

LEMMA LeadsIs ==
    Leads = [t \in Tab |-> LedIn(t)] /\ Leads' = [t \in Tab |-> LedIn(t)']
  BY DEF Leads, LedIn

\* A local step is a step of DatasetAccess.
LEMMA LocalIsSimulated ==
    ASSUME OneTabEach, AInv, NEW t \in Tab, Local(t)
    PROVE  AInv' /\ Simulated
  <1> DEFINE b == BrowserOf[t]
  <1>1. AInv'
    BY UntouchedFollows DEF AInv, Local
  <1> SUFFICES Simulated
    BY <1>1
  <1>2. \A u \in Tab \ {t} : ChosenIn(u)' = ChosenIn(u) /\ LedIn(u)' = LedIn(u)
    <2>1. \A u \in Tab \ {t} : ChosenIn(u)' = ChosenIn(u)
      BY DEF Local, Untouched
    <2>2. \A u \in Tab \ {t} : net'[u] = net[u] /\ tab'[u] = tab[u]
      BY DEF Local, Untouched
    <2>3. \A u \in Tab \ {t} : LedIn(u)' = LedIn(u)
      BY <2>2 DEF LedIn
    <2> QED
      BY <2>1, <2>3
  <1>3. b \in Browser /\ TabOf(b) = t /\ \A c \in Browser \ {b} : TabOf(c) \in Tab \ {t}
    BY TabsAndBrowsers
  <1>4. /\ Chosen[b] = ChosenIn(t)
        /\ Chosen' = [Chosen EXCEPT ![b] = ChosenIn(t)']
        /\ Chosen = [Chosen EXCEPT ![b] = ChosenIn(t)]
    BY <1>2, <1>3, ChosenIs
  <1>5. /\ Leads' = [Leads EXCEPT ![t] = LedIn(t)']
        /\ Leads = [Leads EXCEPT ![t] = LedIn(t)]
    BY <1>2, LeadsIs
  <1>6. Leads \in [Tab -> {LedIn(u) : u \in Tab}] /\ Chosen = [c \in Browser |-> Chosen[c]]
    BY LeadsIs, ChosenIs
  <1> USE DEF Access!Next, Access!vars, Outcome, Nothing, Simulated
  <1>7. CASE ChosenIn(t)' = ChosenIn(t) /\ LedIn(t)' = LedIn(t)
    BY <1>4, <1>5, <1>7
  <1>8. CASE ChosenIn(t)' = ChosenIn(t) /\ LedIn(t)' = Nothing
    <2>1. Access!Leave(t)
      BY <1>4, <1>5, <1>8 DEF Access!Leave, Access!Nothing
    <2> QED
      BY <2>1
  <1>9. CASE ChosenIn(t)' = None /\ LedIn(t)' = LedIn(t)
    <2>1. Chosen' = [c \in Browser |-> IF c \in {b} THEN None ELSE Chosen[c]]
      BY <1>3, <1>4, <1>6, <1>9
    <2>2. Leads' = [u \in Tab |-> IF u \in {} THEN Access!Nothing ELSE Leads[u]]
      BY <1>5, <1>6, <1>9
    <2>3. Access!Forget({b}, {})
      BY <2>1, <2>2 DEF Access!Forget
    <2> QED
      BY <1>3, <2>3
  <1>10. ASSUME NEW d \in Dataset, ChosenIn(t) = None, ChosenIn(t)' = None,
                LedIn(t)' = Outcome("asked", d, None)
         PROVE  Simulated
    <2>1. Access!Ask(t, d)
      BY <1>4, <1>5, <1>10 DEF Access!Ask, Access!Asked
    <2> QED
      BY <2>1
  <1>11. ASSUME NEW d \in Dataset, ChosenIn(t) # None, ChosenIn(t)' = ChosenIn(t),
                LedIn(t)' = Outcome("opened", d, ChosenIn(t))
         PROVE  Simulated
    <2>1. Access!Open(t, d)
      BY <1>4, <1>5, <1>11 DEF Access!Open, Access!Opened
    <2> QED
      BY <2>1
  <1>12. ASSUME NEW c \in Connector, NEW d \in Dataset \cup {None}, ChosenIn(t)' = c,
                LedIn(t)' = Outcome("confirmed", d, c)
         PROVE  Simulated
    <2>1. Access!Choose(t, c)
      BY <1>4, <1>5, <1>12 DEF Access!Choose, Access!Confirmed
    <2> QED
      BY <2>1
  <1> QED
    BY <1>7, <1>8, <1>9, <1>10, <1>11, <1>12 DEF Local, Moves

\* Tabs that keep message, page and cookie are untouched by a step that changes no
\* session, or one that is new or belongs to the browser of another tab.
LEMMA SameSessions ==
    ASSUME UNCHANGED <<live, store>>, NEW u \in Tab, net'[u] = net[u], tab'[u] = tab[u],
           jar'[BrowserOf[u]] = jar[BrowserOf[u]]
    PROVE  Untouched(u)
  BY DEF Untouched, ChosenIn, EffectiveIn, ConnectorIn

LEMMA OtherSession ==
    ASSUME IInv, OneTabEach, NEW t \in Tab, NEW s \in Session,
           InUse(s) => owner[s] = BrowserOf[t], live' \subseteq Session,
           \A x \in Session \ {s} : (x \in live' <=> x \in live) /\ store'[x] = store[x],
           NEW u \in Tab \ {t}, net'[u] = net[u], tab'[u] = tab[u],
           jar'[BrowserOf[u]] = jar[BrowserOf[u]]
    PROVE  Untouched(u)
  <1> DEFINE e == EffectiveIn(u)
  <1>1. BrowserOf[u] \in Browser /\ BrowserOf[u] # BrowserOf[t]
    BY TabsAndBrowsers
  <1>2. net[u].cookie \in Session \cup {None} /\ jar[BrowserOf[u]] \in Session \cup {None}
    BY <1>1 DEF IInv, TypeOK, Message
  <1>3. e = net[u].cookie \/ e = jar[BrowserOf[u]]
    BY DEF EffectiveIn, SessionFrom
  <1>4. e # None => InUse(e) /\ owner[e] = BrowserOf[u]
    BY <1>1, <1>3 DEF IInv, NoSharedSession, InUse
  <1>5. e # s
    BY <1>1, <1>4, ConstantsAssumption
  <1>6. None \notin live /\ None \notin live'
    BY ConstantsAssumption DEF IInv, TypeOK
  <1>7. EffectiveIn(u)' = e
    BY DEF EffectiveIn, SessionFrom
  <1>8. (e \in live' <=> e \in live) /\ (e \in live => store'[e] = store[e])
    BY <1>2, <1>3, <1>5, <1>6 DEF IInv, TypeOK
  <1>9. ChosenIn(u)' = IF e \in live' THEN store'[e].connector ELSE None
    BY <1>7 DEF ChosenIn, ConnectorIn
  <1>10. ChosenIn(u) = IF e \in live THEN store[e].connector ELSE None
    BY DEF ChosenIn, ConnectorIn
  <1> HIDE DEF e
  <1>11. ChosenIn(u)' = ChosenIn(u)
    BY <1>8, <1>9, <1>10
  <1> QED
    BY <1>11 DEF Untouched

\* A request carries the cookie that is in effect.
LEMMA SendLocal ==
    ASSUME IInv, AInv, NEW t \in Tab, ~Waiting(t),
           NEW kind \in {"navigate", "select", "signin", "logout"}, NEW r, NEW c,
           Send(t, kind, r, c), UNCHANGED <<live, store, jar, tab>>
    PROVE  /\ \A u \in Tab \ {t} : Untouched(u)
           /\ net'[t] = Msg(kind, jar[BrowserOf[t]], r, c)
           /\ ChosenIn(t)' = ChosenIn(t)
  <1>1. net[t].kind = "idle" /\ net[t].cookie = None
    BY DEF Waiting, AInv, Follows
  <1>2. /\ net'[t] = Msg(kind, jar[BrowserOf[t]], r, c)
        /\ \A u \in Tab \ {t} : net'[u] = net[u]
    BY DEF Send, IInv, TypeOK
  <1>3. net'[t].kind = kind /\ net'[t].cookie = jar[BrowserOf[t]]
    BY <1>2 DEF Msg
  <1>4. EffectiveIn(t) = jar[BrowserOf[t]] /\ EffectiveIn(t)' = jar[BrowserOf[t]]
    BY <1>1, <1>3 DEF EffectiveIn, SessionFrom
  <1>5. ChosenIn(t)' = ChosenIn(t)
    BY <1>4 DEF ChosenIn, ConnectorIn
  <1> QED
    BY <1>2, <1>5, SameSessions

LEMMA AtSearch ==
    ASSUME NEW page, page.at = "search"
    PROVE  PageOutcome(page) = Nothing
  BY DEF PageOutcome, Nothing

LEMMA UserLocal ==
    ASSUME IInv, AInv, NEW t \in Tab, User(t)
    PROVE  Local(t)
  <1> USE DEF Local, Moves, LedIn, Led
  <1>1. ASSUME NEW r \in Resource, OpenResource(t, r) PROVE Local(t)
    <2>1. /\ \A u \in Tab \ {t} : Untouched(u)
          /\ net'[t] = Msg("navigate", jar[BrowserOf[t]], r, None)
          /\ ChosenIn(t)' = ChosenIn(t)
      BY <1>1, SendLocal DEF OpenResource
    <2>2. net'[t].kind = "navigate" /\ net'[t].cookie = jar[BrowserOf[t]]
      BY <2>1 DEF Msg
    <2>3. UNCHANGED <<tab, jar>> /\ tab[t].at = "search"
      BY <1>1 DEF OpenResource
    <2>4. Follows(t)'
      BY <2>2, <2>3 DEF Follows
    <2>5. LedIn(t)' = Nothing
      BY <2>2 DEF Nothing
    <2> QED
      BY <2>1, <2>4, <2>5
  <1>2. ASSUME OpenConnectorList(t) PROVE Local(t)
    <2>1. /\ UNCHANGED <<live, store, jar, net>> /\ tab'[t] = At("idps", None, None)
          /\ \A u \in Tab \ {t} : tab'[u] = tab[u]
      BY <1>2 DEF OpenConnectorList, IInv, TypeOK
    <2>2. tab'[t].at = "idps" /\ tab'[t].res = None /\ net[t].kind = "idle" /\ net[t].cookie = None
      BY <1>2, <2>1 DEF At, OpenConnectorList, Waiting, AInv, Follows
    <2>3. ChosenIn(t)' = ChosenIn(t)
      BY <2>1 DEF ChosenIn, EffectiveIn, ConnectorIn
    <2>4. Follows(t)'
      BY <2>1, <2>2 DEF Follows
    <2>5. LedIn(t)' = Nothing
      BY <2>1, <2>2 DEF Nothing, PageOutcome
    <2> QED
      BY <2>1, <2>3, <2>4, <2>5, SameSessions
  <1>3. ASSUME NEW c \in Connector, ChooseConnector(t, c) PROVE Local(t)
    <2>1. /\ \A u \in Tab \ {t} : Untouched(u)
          /\ net'[t] = Msg("select", jar[BrowserOf[t]], tab[t].res, c)
          /\ ChosenIn(t)' = ChosenIn(t)
      BY <1>3, SendLocal DEF ChooseConnector
    <2>2. net'[t].kind = "select" /\ net'[t].cookie = jar[BrowserOf[t]]
      BY <2>1 DEF Msg
    <2>3. UNCHANGED <<tab, jar>> /\ tab[t].at = "idps" /\ net[t].kind = "idle"
      BY <1>3 DEF ChooseConnector, Waiting
    <2>4. Follows(t)'
      BY <2>1, <2>2, <2>3 DEF AInv, Follows
    <2>5. LedIn(t)' = LedIn(t)
      BY <2>2, <2>3
    <2> QED
      BY <2>1, <2>4, <2>5
  <1>4. ASSUME BackToSearch(t) PROVE Local(t)
    <2>1. /\ UNCHANGED <<live, store, jar, net>> /\ tab'[t] = Search
          /\ \A u \in Tab \ {t} : tab'[u] = tab[u]
      BY <1>4 DEF BackToSearch, IInv, TypeOK
    <2>2. tab'[t].at = "search" /\ net[t].kind = "idle" /\ net[t].cookie = None
      BY <1>4, <2>1 DEF Search, At, BackToSearch, Waiting, AInv, Follows
    <2>3. ChosenIn(t)' = ChosenIn(t)
      BY <2>1 DEF ChosenIn, EffectiveIn, ConnectorIn
    <2>4. Follows(t)'
      BY <2>1, <2>2 DEF Follows
    <2>5. LedIn(t)' = Nothing
      BY <2>1, <2>2, AtSearch
    <2> QED
      BY <2>1, <2>3, <2>4, <2>5, SameSessions
  <1>5. ASSUME NEW kind \in {"signin", "logout"}, ~Waiting(t), tab[t].at = "search",
               Send(t, kind, None, None), UNCHANGED <<live, store, jar, tab>>
        PROVE  Local(t)
    <2>1. /\ \A u \in Tab \ {t} : Untouched(u)
          /\ net'[t] = Msg(kind, jar[BrowserOf[t]], None, None)
          /\ ChosenIn(t)' = ChosenIn(t)
      BY <1>5, SendLocal
    <2>2. net'[t].kind = kind /\ net'[t].cookie = jar[BrowserOf[t]]
      BY <2>1 DEF Msg
    <2>3. Follows(t)'
      BY <1>5, <2>2 DEF Follows
    <2>4. LedIn(t)' = Nothing
      BY <1>5, <2>2, AtSearch
    <2> QED
      BY <2>1, <2>3, <2>4
  <1> QED
    BY <1>1, <1>2, <1>3, <1>4, <1>5 DEF User, SignIn, SignOut

\* What a handler that only answers, and one that writes one session, leaves alone.
LEMMA AnswerLocal ==
    ASSUME IInv, NEW t \in Tab, NEW m, net' = [net EXCEPT ![t] = m],
           UNCHANGED <<live, store, jar, tab>>
    PROVE  net'[t] = m /\ \A u \in Tab \ {t} : Untouched(u)
  <1>1. net'[t] = m /\ \A u \in Tab \ {t} : net'[u] = net[u]
    BY DEF IInv, TypeOK
  <1> QED
    BY <1>1, SameSessions

LEMMA WriteLocal ==
    ASSUME IInv, OneTabEach, NEW t \in Tab, NEW s \in Session,
           InUse(s) => owner[s] = BrowserOf[t],
           live' \in {live \cup {s}, live, live \ {s}},
           store' = [store EXCEPT ![s] = store'[s]],
           net' = [net EXCEPT ![t] = net'[t]], UNCHANGED <<jar, tab>>
    PROVE  \A u \in Tab \ {t} : Untouched(u)
  <1>1. \A u \in Tab \ {t} : net'[u] = net[u]
    BY DEF IInv, TypeOK
  <1>2. \A x \in Session \ {s} : store'[x] = store[x]
    BY DEF IInv, TypeOK
  <1>3. live' \subseteq Session /\ \A x \in Session \ {s} : x \in live' <=> x \in live
    BY DEF IInv, TypeOK
  <1> QED
    BY <1>1, <1>2, <1>3, OtherSession

LEMMA AskRegistryLocal ==
    ASSUME IInv, AInv, NEW t \in Tab, AskRegistry(t)
    PROVE  Local(t)
  <1>1. /\ net'[t] = [net[t] EXCEPT !.kind = "fetching"]
        /\ \A u \in Tab \ {t} : Untouched(u)
    <2>1. net' = [net EXCEPT ![t] = [net[t] EXCEPT !.kind = "fetching"]]
      BY DEF AskRegistry
    <2> QED
      BY <2>1, AnswerLocal DEF AskRegistry
  <1>2. net[t].kind = "select" /\ net'[t].kind = "fetching" /\ net'[t].cookie = net[t].cookie
    BY <1>1 DEF AskRegistry, IInv, TypeOK, Message
  <1>3. UNCHANGED <<live, store, jar, tab>>
    BY DEF AskRegistry
  <1>4. ChosenIn(t)' = ChosenIn(t)
    BY <1>2, <1>3 DEF ChosenIn, EffectiveIn, SessionFrom, ConnectorIn
  <1>5. Follows(t)'
    BY <1>2, <1>3, <1>4 DEF AInv, Follows
  <1>6. LedIn(t)' = LedIn(t)
    BY <1>2, <1>3 DEF LedIn, Led
  <1> QED
    BY <1>1, <1>4, <1>5, <1>6 DEF Local, Moves

LEMMA RegistryRefusesLocal ==
    ASSUME IInv, AInv, NEW t \in Tab, RegistryRefuses(t)
    PROVE  Local(t)
  <1>1. net'[t] = Msg("denied", None, None, None) /\ \A u \in Tab \ {t} : Untouched(u)
    BY AnswerLocal DEF RegistryRefuses, Reply
  <1>2. net[t].kind = "fetching" /\ net'[t].kind = "denied" /\ net'[t].cookie = None
    BY <1>1 DEF RegistryRefuses, Msg
  <1>3. UNCHANGED <<live, store, jar, tab>> /\ net[t].cookie = jar[BrowserOf[t]]
    BY <1>2 DEF RegistryRefuses, AInv, Follows
  <1>4. ChosenIn(t)' = ChosenIn(t)
    BY <1>2, <1>3 DEF ChosenIn, EffectiveIn, SessionFrom, ConnectorIn
  <1>5. Follows(t)'
    BY <1>2, <1>3, <1>4 DEF AInv, Follows
  <1>6. LedIn(t)' = Nothing
    BY <1>2 DEF LedIn, Led, Nothing
  <1> QED
    BY <1>1, <1>4, <1>5, <1>6 DEF Local, Moves

LEMMA HandleSignInLocal ==
    ASSUME IInv, AInv, OneTabEach, NEW t \in Tab, HandleSignIn(t)
    PROVE  Local(t)
  <1>1. net[t].kind = "signin" /\ tab[t].at = "search" /\ net[t].cookie = jar[BrowserOf[t]]
    BY DEF HandleSignIn, AInv, Follows
  <1>2. LedIn(t) = Nothing
    BY <1>1, AtSearch DEF LedIn, Led
  <1>3. ASSUME NEW s \in Session, Create(t, s, NewSession), UNCHANGED <<jar, tab>>,
               Reply(t, "home", s, None, None)
        PROVE  Local(t)
    <2>0. /\ net'[t] = Msg("home", s, None, None) /\ store'[s] = NewSession
          /\ store' = [store EXCEPT ![s] = store'[s]] /\ net' = [net EXCEPT ![t] = net'[t]]
      BY <1>3 DEF Create, Reply, IInv, TypeOK
    <2>1. /\ net'[t] = Msg("home", s, None, None) /\ store'[s] = NewSession
          /\ \A u \in Tab \ {t} : Untouched(u)
      BY <1>3, <2>0, WriteLocal DEF Create
    <2>2. net'[t].kind = "home" /\ net'[t].cookie = s /\ s # None
      BY <2>1, ConstantsAssumption DEF Msg
    <2>3. ChosenIn(t)' = None
      BY <1>3, <2>1, <2>2, NewSessionType
      DEF ChosenIn, EffectiveIn, SessionFrom, ConnectorIn, Create
    <2>4. Follows(t)' /\ LedIn(t)' = Nothing
      BY <1>1, <1>3, <2>2, AtSearch DEF Follows, LedIn, Led
    <2> QED
      BY <1>2, <2>1, <2>3, <2>4 DEF Local, Moves
  <1>4. CASE Reply(t, "denied", None, None, None) /\ UNCHANGED <<live, store, owner, jar, tab>>
    <2>1. net'[t] = Msg("denied", None, None, None) /\ \A u \in Tab \ {t} : Untouched(u)
      BY <1>4, AnswerLocal DEF Reply
    <2>2. net'[t].kind = "denied" /\ net'[t].cookie = None
      BY <2>1 DEF Msg
    <2>3. ChosenIn(t)' = ChosenIn(t)
      BY <1>1, <1>4, <2>2 DEF ChosenIn, EffectiveIn, SessionFrom, ConnectorIn
    <2>4. Follows(t)' /\ LedIn(t)' = Nothing
      BY <1>1, <1>4, <2>2 DEF Follows, LedIn, Led, Nothing
    <2> QED
      BY <2>1, <2>3, <2>4 DEF Local, Moves
  <1> QED
    BY <1>3, <1>4 DEF HandleSignIn

LEMMA HandleLogoutLocal ==
    ASSUME IInv, AInv, OneTabEach, NEW t \in Tab, HandleLogout(t)
    PROVE  Local(t)
  <1> DEFINE s == net[t].cookie
  <1>1. /\ net[t].kind = "logout" /\ tab[t].at = "search" /\ s = jar[BrowserOf[t]]
        /\ UNCHANGED <<jar, tab>>
    BY DEF HandleLogout, AInv, Follows
  <1>2. LedIn(t) = Nothing
    BY <1>1, AtSearch DEF LedIn, Led
  <1>3. CASE s = None
    <2>1. net'[t] = Msg("denied", None, None, None) /\ \A u \in Tab \ {t} : Untouched(u)
      BY <1>3, AnswerLocal DEF HandleLogout, Reply
    <2>2. net'[t].kind = "denied" /\ net'[t].cookie = None /\ UNCHANGED <<live, store>>
      BY <1>3, <2>1 DEF HandleLogout, Msg
    <2>3. ChosenIn(t)' = ChosenIn(t)
      BY <1>1, <2>2 DEF ChosenIn, EffectiveIn, SessionFrom, ConnectorIn
    <2>4. Follows(t)' /\ LedIn(t)' = Nothing
      BY <1>1, <2>2 DEF Follows, LedIn, Led, Nothing
    <2> QED
      BY <2>1, <2>3, <2>4 DEF Local, Moves
  <1>4. CASE s # None
    <2>1. s \in Session /\ owner[s] = BrowserOf[t]
      BY <1>4 DEF IInv, TypeOK, Message, NoSharedSession
    <2>2. /\ net' = [net EXCEPT ![t] = Msg("home", None, None, None)]
          /\ live' = live \ {s} /\ store' = [store EXCEPT ![s] = NewSession]
      BY <1>4 DEF HandleLogout, Reply
    <2>3. net'[t] = Msg("home", None, None, None) /\ \A u \in Tab \ {t} : Untouched(u)
      <3>1. /\ net'[t] = Msg("home", None, None, None) /\ store'[s] = NewSession
            /\ store' = [store EXCEPT ![s] = store'[s]] /\ net' = [net EXCEPT ![t] = net'[t]]
        BY <2>1, <2>2 DEF IInv, TypeOK
      <3> QED
        BY <1>1, <2>1, <2>2, <3>1, WriteLocal
    <2>4. net'[t].kind = "home" /\ net'[t].cookie = None
      BY <2>3 DEF Msg
    <2>5. ChosenIn(t)' = None
      BY <1>1, <2>2, <2>4 DEF ChosenIn, EffectiveIn, SessionFrom, ConnectorIn
    <2>6. Follows(t)' /\ LedIn(t)' = Nothing
      BY <1>1, <2>4, AtSearch DEF Follows, LedIn, Led
    <2> QED
      BY <1>2, <2>3, <2>5, <2>6 DEF Local, Moves
  <1> QED
    BY <1>3, <1>4

LEMMA ReceiveLocal ==
    ASSUME IInv, AInv, OneTabEach, NEW t \in Tab, Receive(t)
    PROVE  Local(t)
  <1> DEFINE m == net[t]
             b == BrowserOf[t]
             cookie == IF m.cookie = None THEN jar[b] ELSE m.cookie
             resumes == m.kind = "chosen" /\ m.res # None
  <1>1. b \in Browser /\ \A u \in Tab \ {t} : BrowserOf[u] # b
    BY TabsAndBrowsers
  <1>2. /\ m.kind \in Answers /\ UNCHANGED <<live, store>>
        /\ jar' = [jar EXCEPT ![b] = cookie]
        /\ tab' = [tab EXCEPT ![t] = Shown(t, m)]
        /\ net' = [net EXCEPT ![t] = IF resumes THEN Msg("navigate", cookie, m.res, None)
                                                ELSE Idle]
    BY DEF Receive
  <1>3. /\ jar'[b] = cookie
        /\ tab'[t] = Shown(t, m)
        /\ net'[t] = IF resumes THEN Msg("navigate", cookie, m.res, None) ELSE Idle
    BY <1>1, <1>2 DEF IInv, TypeOK
  <1>4. \A u \in Tab \ {t} : Untouched(u)
    <2>1. \A u \in Tab \ {t} : net'[u] = net[u] /\ tab'[u] = tab[u]
      BY <1>2 DEF IInv, TypeOK
    <2>2. \A u \in Tab \ {t} : jar'[BrowserOf[u]] = jar[BrowserOf[u]]
      BY <1>1, <1>2, TabsAndBrowsers DEF IInv, TypeOK
    <2> QED
      BY <1>2, <2>1, <2>2, SameSessions
  <1>5. /\ resumes => net'[t].kind = "navigate" /\ net'[t].cookie = cookie /\ net'[t].res = m.res
        /\ ~resumes => net'[t].kind = "idle" /\ net'[t].cookie = None
    BY <1>3 DEF Msg, Idle
  <1>6. EffectiveIn(t) = cookie /\ EffectiveIn(t)' = cookie
    BY <1>2, <1>3, <1>5 DEF EffectiveIn, SessionFrom
  <1>7. ChosenIn(t)' = ChosenIn(t)
    BY <1>2, <1>6 DEF ChosenIn, ConnectorIn
  <1>8. /\ m.kind = "prompt" => m.res \in Dataset /\ ChosenIn(t) = None
        /\ m.kind = "chosen" => m.res \in Dataset \cup {None}
        /\ tab[t].at \in {"search", "idps"}
        /\ tab[t].at = "idps" /\ tab[t].res # None /\ m.kind \in {"denied", "crash"} =>
              tab[t].res \in Dataset /\ ChosenIn(t) = None
    BY <1>2 DEF AInv, Follows, IInv, MessagesAreOwn, PagesAreOwn
  <1> HIDE DEF cookie, m
  <1>9. Follows(t)'
    <2>1. CASE resumes
      <3>1. tab'[t] = tab[t]
        BY <1>3, <2>1 DEF Shown
      <3> QED
        BY <1>3, <1>5, <1>8, <2>1, <3>1 DEF Follows
    <2>2. CASE ~resumes
      <3>1. tab'[t].at = "idps" /\ tab'[t].res # None =>
              \/ m.kind = "prompt"
              \/ m.kind \in {"denied", "crash"} /\ tab'[t] = tab[t]
        BY <1>3, <2>2 DEF Shown, At, Search
      <3>2. tab'[t].at = "idps" /\ tab'[t].res # None => ChosenIn(t)' = None
        BY <1>7, <1>8, <3>1
      <3> QED
        BY <1>5, <2>2, <3>2 DEF Follows
    <2> QED
      BY <2>1, <2>2
  <1>10. Moves(t)
    <2>1. CASE resumes
      BY <1>5, <1>7, <2>1 DEF Moves, LedIn, Led, Nothing
    <2>2. LedIn(t) = Led(m, tab[t])
      BY DEF LedIn, m
    <2>3. ~resumes => LedIn(t)' = PageOutcome(Shown(t, m))
      BY <1>3, <1>5 DEF LedIn, Led
    <2>4. CASE m.kind = "prompt"
      <3>1. Shown(t, m) = At("idps", m.res, None) /\ m.res # None
        BY <1>8, <2>4, ConstantsAssumption DEF Shown
      <3>2. LedIn(t)' = Outcome("asked", m.res, None)
        BY <2>3, <2>4, <3>1 DEF PageOutcome, At
      <3> QED
        BY <1>7, <2>2, <2>4, <3>2 DEF Moves, Led
    <2>5. CASE m.kind = "open"
      <3>1. Shown(t, m) = At("dashboard", m.res, m.connector)
        BY <2>5 DEF Shown
      <3>2. LedIn(t)' = Outcome("opened", m.res, m.connector)
        BY <2>3, <2>5, <3>1 DEF PageOutcome, At
      <3> QED
        BY <1>7, <2>2, <2>5, <3>2 DEF Moves, Led
    <2>6. CASE m.kind \in {"leave", "home"} \/ (m.kind = "chosen" /\ m.res = None)
      <3>1. Shown(t, m).at \in {"elsewhere", "search"}
        BY <2>6 DEF Shown, At, Search
      <3>2. LedIn(t)' = Nothing
        BY <2>3, <2>6, <3>1 DEF PageOutcome, Nothing
      <3> QED
        BY <1>7, <3>2 DEF Moves
    <2>7. CASE m.kind \in {"denied", "crash"}
      <3>1. LedIn(t)' = PageOutcome(tab[t])
        BY <2>3, <2>7 DEF Shown
      <3>2. CASE m.kind = "crash"
        BY <1>7, <2>2, <3>1, <3>2 DEF Moves, Led
      <3>3. CASE m.kind = "denied" /\ tab[t].at = "idps" /\ tab[t].res # None
        <4>1. LedIn(t)' = Outcome("asked", tab[t].res, None)
          BY <3>1, <3>3 DEF PageOutcome
        <4> QED
          BY <1>7, <1>8, <3>3, <4>1 DEF Moves
      <3>4. CASE ~(tab[t].at = "idps" /\ tab[t].res # None)
        <4>1. LedIn(t)' = Nothing
          BY <1>8, <3>1, <3>4 DEF PageOutcome, Nothing
        <4> QED
          BY <1>7, <4>1 DEF Moves
      <3> QED
        BY <2>7, <3>2, <3>3, <3>4
    <2> QED
      BY <1>2, <2>1, <2>4, <2>5, <2>6, <2>7 DEF m
  <1> QED
    BY <1>4, <1>9, <1>10 DEF Local

LEMMA HandleNavigateLocal ==
    ASSUME IInv, AInv, OneTabEach, NEW t \in Tab, HandleNavigate(t)
    PROVE  Local(t)
  <1> DEFINE b == BrowserOf[t]
             cookie == net[t].cookie
             r == net[t].res
             reply(data, set) == Msg(VisitReply(data, r), set, r,
                                     IF r \in Dataset THEN data.connector ELSE None)
  <1>1. /\ net[t].kind = "navigate" /\ r \in Resource /\ cookie = jar[b]
        /\ tab[t].at \in {"search", "idps"} /\ (r \notin Dataset => tab[t].at = "search")
        /\ UNCHANGED <<jar, tab>>
    BY DEF HandleNavigate, IInv, MessagesAreOwn, AInv, Follows
  <1>2. EffectiveIn(t) = cookie
    BY <1>1 DEF EffectiveIn, SessionFrom
  \* The answer that goes with a session's data, once that session is in effect.
  <1>3. ASSUME NEW data \in SessionData, NEW set \in Session \cup {None},
               net'[t] = reply(data, set), \A u \in Tab \ {t} : Untouched(u),
               ChosenIn(t) = data.connector, ChosenIn(t)' = data.connector
        PROVE  Local(t)
    <2>1. /\ net'[t].kind = VisitReply(data, r) /\ net'[t].res = r
          /\ net'[t].connector = IF r \in Dataset THEN data.connector ELSE None
      BY <1>3 DEF Msg
    <2>2. CASE r \notin Dataset
      <3>1. net'[t].kind = "leave" /\ tab'[t].at = "search"
        BY <1>1, <2>1, <2>2 DEF VisitReply
      <3>2. Follows(t)' /\ LedIn(t)' = Nothing
        BY <1>1, <3>1, AtSearch DEF Follows, LedIn, Led
      <3> QED
        BY <1>3, <3>2 DEF Local, Moves
    <2>3. CASE r \in Dataset /\ data.connector = None
      <3>1. net'[t].kind = "prompt"
        BY <2>1, <2>3 DEF VisitReply
      <3>2. Follows(t)' /\ LedIn(t)' = Outcome("asked", r, None)
        BY <1>1, <1>3, <2>1, <2>3, <3>1 DEF Follows, LedIn, Led
      <3> QED
        BY <1>3, <2>3, <3>2 DEF Local, Moves
    <2>4. CASE r \in Dataset /\ data.connector # None
      <3>1. net'[t].kind = "open" /\ net'[t].connector = data.connector
        BY <2>1, <2>4 DEF VisitReply
      <3>2. Follows(t)' /\ LedIn(t)' = Outcome("opened", r, data.connector)
        BY <1>1, <2>1, <3>1 DEF Follows, LedIn, Led
      <3> QED
        BY <1>3, <2>4, <3>2 DEF Local, Moves
    <2> QED
      BY <2>2, <2>3, <2>4
  <1>4. CASE cookie \in live
    <2>1. cookie \in Session /\ cookie # None /\ store[cookie] \in SessionData /\ owner[cookie] = b
      BY <1>4, ConstantsAssumption DEF IInv, TypeOK, NoSharedSession
    <2>2. /\ net' = [net EXCEPT ![t] = reply(store[cookie], None)]
          /\ store' = [store EXCEPT ![cookie] = Visited(store[cookie], r)]
          /\ UNCHANGED live
      BY <1>4 DEF HandleNavigate, Reply, Update
    <2>3. /\ net'[t] = reply(store[cookie], None)
          /\ store'[cookie] = Visited(store[cookie], r)
          /\ \A u \in Tab \ {t} : Untouched(u)
      <3>1. net'[t] = reply(store[cookie], None) /\ net' = [net EXCEPT ![t] = net'[t]]
        BY <2>1, <2>2 DEF IInv, TypeOK
      <3>2. store'[cookie] = Visited(store[cookie], r) /\ store' = [store EXCEPT ![cookie] = store'[cookie]]
        BY <2>1, <2>2 DEF IInv, TypeOK
      <3> QED
        BY <1>1, <2>1, <2>2, <3>1, <3>2, WriteLocal
    <2>4. net'[t].cookie = None /\ net'[t].kind \notin Requests
      BY <1>1, <2>1, <2>3, VisitedType DEF Msg
    <2>5. EffectiveIn(t)' = cookie
      BY <1>1, <2>4 DEF EffectiveIn, SessionFrom
    <2>6. ChosenIn(t) = store[cookie].connector /\ ChosenIn(t)' = store[cookie].connector
      BY <1>1, <1>2, <1>4, <2>1, <2>2, <2>3, <2>5, VisitedType DEF ChosenIn, ConnectorIn
    <2> QED
      BY <1>3, <2>1, <2>3, <2>6
  <1>5. CASE cookie \notin live
    <2>1. PICK s \in Session :
             /\ Create(t, s, Visited(NewSession, r))
             /\ net' = [net EXCEPT ![t] = reply(NewSession, s)]
      BY <1>5 DEF HandleNavigate, Reply
    <2>2. /\ ~InUse(s) /\ live' = live \cup {s}
          /\ store' = [store EXCEPT ![s] = Visited(NewSession, r)]
      BY <2>1 DEF Create
    <2>3. /\ net'[t] = reply(NewSession, s)
          /\ store'[s] = Visited(NewSession, r)
          /\ \A u \in Tab \ {t} : Untouched(u)
      <3>1. net'[t] = reply(NewSession, s) /\ net' = [net EXCEPT ![t] = net'[t]]
        BY <2>1, <2>2 DEF IInv, TypeOK
      <3>2. store'[s] = Visited(NewSession, r) /\ store' = [store EXCEPT ![s] = store'[s]]
        BY <2>1, <2>2 DEF IInv, TypeOK
      <3> QED
        BY <1>1, <2>1, <2>2, <3>1, <3>2, WriteLocal
    <2>4. net'[t].cookie = s /\ s # None
      BY <2>3, ConstantsAssumption DEF Msg
    <2>5. EffectiveIn(t)' = s
      BY <2>4 DEF EffectiveIn, SessionFrom
    <2>6. Visited(NewSession, r).connector = None
      BY <1>1, NewSessionType, VisitedType
    <2>7. ChosenIn(t) = None /\ ChosenIn(t)' = None
      BY <1>2, <1>5, <2>2, <2>3, <2>5, <2>6 DEF ChosenIn, ConnectorIn
    <2> QED
      BY <1>3, <2>3, <2>7, NewSessionType
  <1> QED
    BY <1>4, <1>5

LEMMA SaveSelectionLocal ==
    ASSUME IInv, AInv, OneTabEach, NEW t \in Tab, SaveSelection(t)
    PROVE  Local(t)
  <1> DEFINE b == BrowserOf[t]
             cookie == net[t].cookie
             c == net[t].connector
             next == net[t].res
  <1>1. /\ net[t].kind = "fetching" /\ c \in Connector /\ cookie = jar[b]
        /\ next \in Dataset \cup {None} /\ tab[t].at \in {"search", "idps"}
        /\ UNCHANGED <<jar, tab>>
    BY DEF SaveSelection, IInv, MessagesAreOwn, AInv, Follows
  <1>2. EffectiveIn(t) = cookie
    BY <1>1 DEF EffectiveIn, SessionFrom
  \* The choice is confirmed, with the session that now holds it in effect.
  <1>3. ASSUME NEW set, NEW d \in Dataset \cup {None}, net'[t] = Msg("chosen", set, d, c),
               \A u \in Tab \ {t} : Untouched(u), ChosenIn(t)' = c
        PROVE  Local(t)
    <2>1. net'[t].kind = "chosen" /\ net'[t].res = d /\ net'[t].connector = c
      BY <1>3 DEF Msg
    <2>2. Follows(t)'
      BY <1>1, <2>1 DEF Follows
    <2>3. LedIn(t)' = Outcome("confirmed", d, c)
      BY <2>1 DEF LedIn, Led
    <2> QED
      BY <1>1, <1>3, <2>2, <2>3 DEF Local, Moves
  <1>4. CASE cookie = None
    <2>1. PICK s \in Session :
             /\ Create(t, s, Selected(NewSession, c))
             /\ net' = [net EXCEPT ![t] = Msg("chosen", s, Resumed(next, NewSession), c)]
      BY <1>4, ConstantsAssumption DEF SaveSelection, Reply, IInv, TypeOK
    <2>2. /\ ~InUse(s) /\ live' = live \cup {s}
          /\ store' = [store EXCEPT ![s] = Selected(NewSession, c)]
      BY <2>1 DEF Create
    <2>3. /\ net'[t] = Msg("chosen", s, Resumed(next, NewSession), c)
          /\ store'[s] = Selected(NewSession, c)
          /\ \A u \in Tab \ {t} : Untouched(u)
      <3>1. net'[t] = Msg("chosen", s, Resumed(next, NewSession), c) /\ net' = [net EXCEPT ![t] = net'[t]]
        BY <2>1, <2>2 DEF IInv, TypeOK
      <3>2. store'[s] = Selected(NewSession, c) /\ store' = [store EXCEPT ![s] = store'[s]]
        BY <2>1, <2>2 DEF IInv, TypeOK
      <3> QED
        BY <1>1, <2>1, <2>2, <3>1, <3>2, WriteLocal
    <2>4. EffectiveIn(t)' = s
      BY <2>3, ConstantsAssumption DEF EffectiveIn, SessionFrom, Msg
    <2>5. ChosenIn(t)' = c
      BY <1>1, <2>2, <2>3, <2>4, NewSessionType, SelectedType DEF ChosenIn, ConnectorIn
    <2>6. Resumed(next, NewSession) \in Dataset \cup {None}
      BY <1>1, NewSessionType DEF Resumed
    <2> QED
      BY <1>3, <2>3, <2>5, <2>6
  <1>5. CASE cookie \in live
    <2>1. cookie \in Session /\ cookie # None /\ store[cookie] \in SessionData /\ owner[cookie] = b
      BY <1>5, ConstantsAssumption DEF IInv, TypeOK, NoSharedSession
    <2>2. /\ net' = [net EXCEPT ![t] = Msg("chosen", None, Resumed(next, store[cookie]), c)]
          /\ store' = [store EXCEPT ![cookie] = Selected(store[cookie], c)]
          /\ UNCHANGED live
      BY <1>5, <2>1 DEF SaveSelection, Reply, Update
    <2>3. /\ net'[t] = Msg("chosen", None, Resumed(next, store[cookie]), c)
          /\ store'[cookie] = Selected(store[cookie], c)
          /\ \A u \in Tab \ {t} : Untouched(u)
      <3>1. net'[t] = Msg("chosen", None, Resumed(next, store[cookie]), c) /\ net' = [net EXCEPT ![t] = net'[t]]
        BY <2>1, <2>2 DEF IInv, TypeOK
      <3>2. store'[cookie] = Selected(store[cookie], c) /\ store' = [store EXCEPT ![cookie] = store'[cookie]]
        BY <2>1, <2>2 DEF IInv, TypeOK
      <3> QED
        BY <1>1, <2>1, <2>2, <3>1, <3>2, WriteLocal
    <2>4. EffectiveIn(t)' = cookie
      BY <1>1, <2>3 DEF EffectiveIn, SessionFrom, Msg
    <2>5. ChosenIn(t)' = c
      BY <1>1, <1>5, <2>1, <2>2, <2>3, <2>4, SelectedType DEF ChosenIn, ConnectorIn
    <2>6. Resumed(next, store[cookie]) \in Dataset \cup {None}
      BY <1>1, <2>1 DEF Resumed, SessionData
    <2> QED
      BY <1>3, <2>3, <2>5, <2>6
  <1>6. CASE cookie \notin live \cup {None}
    <2>1. UNCHANGED <<live, store, jar, tab>> /\ net' = [net EXCEPT ![t] = Msg("crash", None, None, None)]
      BY <1>6 DEF SaveSelection, Reply
    <2>2. net'[t] = Msg("crash", None, None, None) /\ \A u \in Tab \ {t} : Untouched(u)
      BY <2>1, AnswerLocal
    <2>3. net'[t].kind = "crash" /\ net'[t].cookie = None
      BY <2>2 DEF Msg
    <2>4. ChosenIn(t) = None /\ ChosenIn(t)' = ChosenIn(t)
      BY <1>1, <1>2, <1>6, <2>1, <2>3 DEF ChosenIn, EffectiveIn, SessionFrom, ConnectorIn
    <2>5. Follows(t)'
      BY <1>1, <2>1, <2>3, <2>4 DEF Follows
    <2>6. LedIn(t)' = LedIn(t)
      BY <1>1, <2>1, <2>3 DEF LedIn, Led
    <2> QED
      BY <2>2, <2>4, <2>5, <2>6 DEF Local, Moves
  <1> QED
    BY <1>4, <1>5, <1>6

\* A restart ends every session at once, and the requests with them.
LEMMA RestartIsSimulated ==
    ASSUME IInv, AInv, OneTabEach, Restart
    PROVE  AInv' /\ Simulated
  <1> DEFINE T == {t \in Tab : net[t].kind \in Requests}
  <1>1. /\ live' = {} /\ UNCHANGED <<jar, tab>>
        /\ \A t \in T : net'[t] = Msg("denied", None, None, None)
        /\ \A t \in Tab \ T : net'[t] = net[t]
    BY DEF Restart
  <1>2. \A t \in T : net'[t].kind = "denied" /\ net'[t].cookie = None
    BY <1>1 DEF Msg
  <1>3. \A t \in Tab : ChosenIn(t)' = None
    BY <1>1 DEF ChosenIn, ConnectorIn
  <1>4. ASSUME NEW t \in Tab PROVE Follows(t)'
    <2>1. Follows(t)
      BY DEF AInv
    <2>2. CASE t \in T
      BY <1>1, <1>2, <1>3, <2>1, <2>2 DEF Follows
    <2>3. CASE t \notin T
      BY <1>1, <1>3, <2>1, <2>3 DEF Follows
    <2> QED
      BY <2>2, <2>3
  <1>5. Chosen' = [b \in Browser |-> IF b \in Browser THEN None ELSE Chosen[b]]
    BY <1>3, ChosenIs, TabsAndBrowsers
  <1>6. \A t \in Tab : LedIn(t)' = IF t \in T THEN Access!Nothing ELSE LedIn(t)
    <2>1. ASSUME NEW t \in T PROVE LedIn(t)' = Access!Nothing
      BY <1>2, <2>1 DEF LedIn, Led, Outcome, Access!Nothing
    <2>2. ASSUME NEW t \in Tab \ T PROVE LedIn(t)' = LedIn(t)
      BY <1>1, <2>2 DEF LedIn
    <2> QED
      BY <2>1, <2>2
  <1>7. Leads' = [t \in Tab |-> IF t \in T THEN Access!Nothing ELSE Leads[t]]
    BY <1>6, LeadsIs
  <1>8. Access!Forget(Browser, T)
    BY <1>5, <1>7 DEF Access!Forget
  <1>9. Browser \in SUBSET Browser /\ T \in SUBSET Tab
    OBVIOUS
  <1> HIDE DEF T
  <1>10. Access!Next
    BY <1>8, <1>9 DEF Access!Next
  <1> QED
    BY <1>4, <1>10 DEF AInv, Simulated

LEMMA StepIsSimulated ==
    ASSUME OneTabEach, NothingLost, IInv, AInv, [Next]_vars
    PROVE  AInv' /\ Simulated
  <1>1. ASSUME NEW t \in Tab, User(t) \/ Server(t) \/ Receive(t)
        PROVE  AInv' /\ Simulated
    <2>1. Server(t) => Local(t)
      BY HandleNavigateLocal, AskRegistryLocal, RegistryRefusesLocal, SaveSelectionLocal,
         HandleSignInLocal, HandleLogoutLocal DEF Server
    <2> QED
      BY <1>1, <2>1, UserLocal, ReceiveLocal, LocalIsSimulated
  <1>2. CASE Restart
    BY <1>2, RestartIsSimulated
  <1>3. CASE UNCHANGED vars
    <2>1. UNCHANGED <<net, tab, jar, live, store>>
      BY <1>3 DEF vars
    <2>2. \A t \in Tab : ChosenIn(t)' = ChosenIn(t) /\ LedIn(t)' = LedIn(t)
      BY <2>1 DEF ChosenIn, EffectiveIn, ConnectorIn, LedIn
    <2>3. AInv'
      BY <2>1, <2>2 DEF AInv, Follows
    <2>4. Chosen' = Chosen /\ Leads' = Leads
      BY <2>1 DEF Chosen, ConnectorIn, Leads
    <2> QED
      BY <2>3, <2>4 DEF Simulated, Access!vars
  <1>4. ~(\E t \in Tab : LoseAnswer(t)) /\ ~(\E b \in Browser : CookieExpires(b))
    BY DEF NothingLost, LoseAnswer, CookieExpires
  <1> QED
    BY <1>1, <1>2, <1>3, <1>4 DEF Next

LEMMA InitIsSimulated ==
    ASSUME OneTabEach, Init
    PROVE  AInv /\ Access!Init
  <1>1. \A t \in Tab : /\ net[t].kind = "idle" /\ net[t].cookie = None
                       /\ tab[t].at = "search" /\ tab[t].res = None
    BY DEF Init, Idle, Msg, Search, At
  <1>2. \A t \in Tab : Follows(t)
    BY <1>1 DEF Follows
  <1>3. Chosen = [b \in Browser |-> None]
    BY DEF Init, Chosen, ConnectorIn
  <1>4. \A t \in Tab : LedIn(t) = Access!Nothing
    BY <1>1 DEF LedIn, Led, PageOutcome, Outcome, Access!Nothing
  <1>5. Leads = [t \in Tab |-> Access!Nothing]
    BY <1>4, LeadsIs
  <1> QED
    BY <1>2, <1>3, <1>5 DEF AInv, Access!Init

\* The sessions, the cookie and the messages implement DatasetAccess for any number of
\* browsers, each with one tab, whatever restarts, sign-ins and sign-outs happen, as
\* long as no answer is lost and no cookie ends: the connector chosen last is the one a
\* dataset is opened with, and nobody who has chosen one is asked again.
THEOREM FlowImplementsAccess ==
    ASSUME OneTabEach, NothingLost
    PROVE  Spec => ImplementsAccess
  <1>1. Init => AInv /\ Access!Init
    BY InitIsSimulated
  <1>2. IInv /\ AInv /\ [Next]_vars => AInv' /\ [Access!Next]_(Access!vars)
    BY StepIsSimulated DEF Simulated
  <1>3. Spec => Access!Init /\ [][Access!Next]_(Access!vars)
    BY <1>1, <1>2, FlowInvariant, PTL DEF Spec
  <1> QED
    BY <1>3 DEF ImplementsAccess, Access!Spec
=============================================================================
