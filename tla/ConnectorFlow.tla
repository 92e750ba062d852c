--------------------------- MODULE ConnectorFlow ---------------------------
(***************************************************************************)
(* Server-side sessions and the dataset -> connector -> dashboard journey. *)
(*                                                                         *)
(* The backend is one asyncio process.  It keeps every session in memory   *)
(* (fastapi_sessions' InMemoryBackend), and the browser only holds the     *)
(* session's id in a signed cookie.  A browser has several tabs, all with  *)
(* the same cookie jar; a tab has at most one request under way (the idps  *)
(* page refuses a second selection, a navigation replaces the page).       *)
(*                                                                         *)
(* A handler that never leaves the event loop is one step.  Only           *)
(* select_connector does leave it, for the Participant Registry: the       *)
(* message kinds "select" and "fetching" are the two halves of that        *)
(* handler.  Requests and answers are in the network between the steps of  *)
(* the browser and those of the server, so that answers of two tabs reach  *)
(* the cookie jar in any order.                                            *)
(***************************************************************************)
EXTENDS Naturals

CONSTANTS
    Browser,        \* the users' browsers
    Tab,            \* their tabs
    BrowserOf,      \* BrowserOf[t]: the browser of tab t
    Session,        \* the ids uuid4() can return
    Dataset,        \* resources of type "dataset"
    Other,          \* resources of the other types
    Connector,      \* parties of the Participant Registry
    WithDashboard,  \* those that have a dashboard URL
    None,
    Disturbance,    \* which of Disturbances happen in this instance
    MaxRestarts     \* bound on the number of restarts of the backend

Disturbances == {"restart", "logout", "signin", "expiry", "loss"}

Resource == Dataset \cup Other

ASSUME ConstantsAssumption ==
    /\ BrowserOf \in [Tab -> Browser]
    /\ WithDashboard \subseteq Connector
    /\ Dataset \cap Other = {}
    /\ None \notin Browser \cup Session \cup Resource \cup Connector
    /\ Disturbance \subseteq Disturbances
    /\ MaxRestarts \in Nat

VARIABLES
    live,      \* the keys of backend.data
    store,     \* store[s]: the SessionData of session s
    jar,       \* jar[b]: the session cookie of browser b, or None
    tab,       \* tab[t]: the page that tab t shows
    net,       \* net[t]: the request or answer of tab t under way
    restarts,  \* number of restarts so far
    owner,     \* history: the browser for which an id was made, or None
    intent     \* history: the resources and connectors clicked in a browser

vars == <<live, store, jar, tab, net, restarts, owner, intent>>

-----------------------------------------------------------------------------
(* selected_connector_{party_id,name,dashboard_url} are only ever written  *)
(* together, from one connector, and so are the three pending_dataset_*.   *)
(* username, aai_* and session_uuid are not read by this flow.             *)
SessionData ==
    [connector: Connector \cup {None}, pending: Dataset \cup {None}]

NewSession == [connector |-> None, pending |-> None]

Requests == {"navigate", "select", "fetching", "signin", "logout"}

\* "prompt", "open" and "leave" are the redirects of /navigate, "chosen" the
\* reply of /connectors/select, "home" a redirect to the UI, "denied" a 4xx,
\* a 502/503 or a broken connection, "crash" an unhandled exception (500).
Answers == {"prompt", "open", "leave", "chosen", "home", "denied", "crash"}

Message ==
    [kind: Requests \cup Answers \cup {"idle"}, cookie: Session \cup {None},
     res: Resource \cup {None}, connector: Connector \cup {None}]

\* The cookie of a request is the one it carries, of an answer the one it sets.
Msg(kind, cookie, res, connector) ==
    [kind |-> kind, cookie |-> cookie, res |-> res, connector |-> connector]

Idle == Msg("idle", None, None, None)

Page ==
    [at: {"search", "idps", "dashboard", "elsewhere"},
     res: Resource \cup {None}, connector: Connector \cup {None}]

At(page, res, connector) == [at |-> page, res |-> res, connector |-> connector]

Search == At("search", None, None)

TypeOK ==
    /\ live \subseteq Session
    /\ store \in [Session -> SessionData]
    /\ jar \in [Browser -> Session \cup {None}]
    /\ tab \in [Tab -> Page]
    /\ net \in [Tab -> Message]
    /\ restarts \in 0..MaxRestarts
    /\ owner \in [Session -> Browser \cup {None}]
    /\ intent \in [Browser -> SUBSET (Resource \cup Connector)]

Init ==
    /\ live = {}
    /\ store = [s \in Session |-> NewSession]
    /\ jar = [b \in Browser |-> None]
    /\ tab = [t \in Tab |-> Search]
    /\ net = [t \in Tab |-> Idle]
    /\ restarts = 0
    /\ owner = [s \in Session |-> None]
    /\ intent = [b \in Browser |-> {}]

-----------------------------------------------------------------------------
(* The browser: pages of the UI and what the user does there.              *)

Waiting(t) == net[t].kind # "idle"

Send(t, kind, res, connector) ==
    net' = [net EXCEPT ![t] = Msg(kind, jar[BrowserOf[t]], res, connector)]

Wants(t, x) ==
    intent' = [intent EXCEPT ![BrowserOf[t]] = @ \cup {x}]

\* A result's title on the search page links to GET /api/web/navigate.
OpenResource(t, r) ==
    /\ ~Waiting(t)
    /\ tab[t].at = "search"
    /\ Send(t, "navigate", r, None)
    /\ Wants(t, r)
    /\ UNCHANGED <<live, store, jar, tab, restarts, owner>>

\* The connector list opened from the menu: /idps with no "next".
OpenConnectorList(t) ==
    /\ ~Waiting(t)
    /\ tab[t].at = "search"
    /\ tab' = [tab EXCEPT ![t] = At("idps", None, None)]
    /\ UNCHANGED <<live, store, jar, net, restarts, owner, intent>>

\* selectConnector of the idps page.  A connector without a dashboard can be
\* clicked as long as its details are loading.
ChooseConnector(t, c) ==
    /\ ~Waiting(t)
    /\ tab[t].at = "idps"
    /\ Send(t, "select", tab[t].res, c)
    /\ Wants(t, c)
    /\ UNCHANGED <<live, store, jar, tab, restarts, owner>>

\* The user leaves the page shown for the search page.
BackToSearch(t) ==
    /\ ~Waiting(t)
    /\ tab[t].at # "search"
    /\ tab' = [tab EXCEPT ![t] = Search]
    /\ UNCHANGED <<live, store, jar, net, restarts, owner, intent>>

\* The identity provider sends the browser back to /checkin (or to
\* /connectors/return), or the user follows the link to /logout.
SignIn(t) ==
    /\ "signin" \in Disturbance
    /\ ~Waiting(t)
    /\ tab[t].at = "search"
    /\ Send(t, "signin", None, None)
    /\ UNCHANGED <<live, store, jar, tab, restarts, owner, intent>>

SignOut(t) ==
    /\ "logout" \in Disturbance
    /\ ~Waiting(t)
    /\ tab[t].at = "search"
    /\ Send(t, "logout", None, None)
    /\ UNCHANGED <<live, store, jar, tab, restarts, owner, intent>>

\* The page that an answer leads to.  An error of /connectors/select is shown
\* on the idps page, an error of a navigation brings the user back.
Shown(t, m) ==
    CASE m.kind = "prompt" -> At("idps", m.res, None)
      [] m.kind = "open" -> At("dashboard", m.res, m.connector)
      [] m.kind = "leave" -> At("elsewhere", m.res, None)
      [] m.kind = "chosen" /\ m.res # None -> tab[t]
      [] m.kind \in {"denied", "crash"} -> tab[t]
      [] OTHER -> Search

\* The answer reaches the browser: its cookie goes to the jar, its location is
\* followed.  "chosen" with a navigation URL sends the next request at once
\* (location.href = redirect_url), with the cookie the answer has just set.
Receive(t) ==
    /\ net[t].kind \in Answers
    /\ LET m == net[t]
           b == BrowserOf[t]
           cookie == IF m.cookie = None THEN jar[b] ELSE m.cookie
       IN  /\ jar' = [jar EXCEPT ![b] = cookie]
           /\ tab' = [tab EXCEPT ![t] = Shown(t, m)]
           /\ net' = [net EXCEPT ![t] = IF m.kind = "chosen" /\ m.res # None
                                          THEN Msg("navigate", cookie, m.res, None)
                                          ELSE Idle]
    /\ UNCHANGED <<live, store, restarts, owner, intent>>

\* The connection breaks before the answer is read.
LoseAnswer(t) ==
    /\ "loss" \in Disturbance
    /\ net[t].kind \in Answers
    /\ net' = [net EXCEPT ![t] = Idle]
    /\ UNCHANGED <<live, store, jar, tab, restarts, owner, intent>>

\* max_age of the cookie (AUTH_COOKIES_CONFIG) is over.
CookieExpires(b) ==
    /\ "expiry" \in Disturbance
    /\ jar[b] # None
    /\ jar' = [jar EXCEPT ![b] = None]
    /\ UNCHANGED <<live, store, tab, net, restarts, owner, intent>>

-----------------------------------------------------------------------------
(* The backend.                                                            *)

\* An id that no browser and no message holds.  uuid4() never repeats one; a
\* session that nobody can name any more stays in backend.data for ever and is
\* never read, and here its id stands for the next new one.
InUse(s) ==
    \/ \E b \in Browser : jar[b] = s
    \/ \E t \in Tab : net[t].cookie = s

Reply(t, kind, cookie, res, connector) ==
    net' = [net EXCEPT ![t] = Msg(kind, cookie, res, connector)]

\* backend.create(session_id, data), for a request of tab t.
Create(t, s, data) ==
    /\ ~InUse(s)
    /\ live' = live \cup {s}
    /\ store' = [store EXCEPT ![s] = data]
    /\ owner' = [owner EXCEPT ![s] = BrowserOf[t]]

\* backend.update(session_id, data)
Update(s, data) ==
    /\ s \in live
    /\ store' = [store EXCEPT ![s] = data]
    /\ UNCHANGED <<live, owner>>

\* What /navigate makes of the session's data, and how it answers.
VisitedForgets(data, r) ==
    IF r \in Dataset
      THEN [NewSession EXCEPT !.pending = IF data.connector = None THEN r ELSE None]
      ELSE data

VisitedAnyType(data, r) ==
    [data EXCEPT !.pending = IF data.connector = None THEN r ELSE None]

Visited(data, r) ==
    IF r \in Dataset
      THEN [data EXCEPT !.pending = IF data.connector = None THEN r ELSE None]
      ELSE data

VisitReplyUnasked(data, r) == IF r \in Dataset THEN "open" ELSE "leave"

VisitReply(data, r) ==
    IF r \notin Dataset THEN "leave"
    ELSE IF data.connector = None THEN "prompt"
    ELSE "open"

\* GET /navigate: `verifier` raises for a missing cookie and for an id that is
\* not in the backend (403); the handler then starts a session of its own.
HandleNavigate(t) ==
    /\ net[t].kind = "navigate"
    /\ LET cookie == net[t].cookie
           r == net[t].res
           Answer(data, set) ==
               Reply(t, VisitReply(data, r), set, r,
                     IF r \in Dataset THEN data.connector ELSE None)
       IN  \/ /\ cookie \in live
              /\ Update(cookie, Visited(store[cookie], r))
              /\ Answer(store[cookie], None)
           \/ /\ cookie \notin live
              /\ \E s \in Session :
                    /\ Create(t, s, Visited(NewSession, r))
                    /\ Answer(NewSession, s)
    /\ UNCHANGED <<jar, tab, restarts, intent>>

\* POST /connectors/select, up to the await of get_connector_details.
AskRegistry(t) ==
    /\ net[t].kind = "select"
    /\ net' = [net EXCEPT ![t].kind = "fetching"]
    /\ UNCHANGED <<live, store, jar, tab, restarts, owner, intent>>

\* get_connector_details raised (502, 503), or the connector has no dashboard (409).
RegistryRefuses(t) ==
    /\ net[t].kind = "fetching"
    /\ Reply(t, "denied", None, None, None)
    /\ UNCHANGED <<live, store, jar, tab, restarts, owner, intent>>

SelectedNothing(data, c) == data

SelectedFirstWins(data, c) ==
    IF data.connector = None THEN [data EXCEPT !.connector = c] ELSE data

SelectedDropsPending(data, c) == [data EXCEPT !.connector = c, !.pending = None]

Selected(data, c) == [data EXCEPT !.connector = c]

\* _post_selection_redirect_url
Resumed(next, data) == IF next # None THEN next ELSE data.pending

\* The rest of select_connector, read-modify-write without an await that
\* suspends.  backend.read returns None for an id that it does not have, and
\* _get_or_create_session hands that None on: setting an attribute of it raises
\* an AttributeError that no handler catches.
SaveSelection(t) ==
    /\ net[t].kind = "fetching"
    /\ net[t].connector \in WithDashboard
    /\ LET cookie == net[t].cookie
           c == net[t].connector
           next == net[t].res
       IN  \/ /\ cookie = None
              /\ \E s \in Session :
                    /\ Create(t, s, Selected(NewSession, c))
                    /\ Reply(t, "chosen", s, Resumed(next, NewSession), c)
           \/ /\ cookie \in live
              /\ Update(cookie, Selected(store[cookie], c))
              /\ Reply(t, "chosen", None, Resumed(next, store[cookie]), c)
           \/ /\ cookie \notin live \cup {None}
              /\ Reply(t, "crash", None, None, None)
              /\ UNCHANGED <<live, store, owner>>
    /\ UNCHANGED <<jar, tab, restarts, intent>>

\* With an id made once, when the module is loaded (a default argument).
HandleSignInFixedId(t) ==
    /\ net[t].kind = "signin"
    /\ \E s \in Session :
          /\ live' = live \cup {s}
          /\ store' = [store EXCEPT ![s] = NewSession]
          /\ owner' = [owner EXCEPT ![s] = BrowserOf[t]]
          /\ Reply(t, "home", s, None, None)
    /\ UNCHANGED <<jar, tab, restarts, intent>>

\* The tail of auth_checkin and of connector_login_return: a session of its
\* own, whatever the cookie of the request names.
HandleSignIn(t) ==
    /\ net[t].kind = "signin"
    /\ \/ \E s \in Session :
             /\ Create(t, s, NewSession)
             /\ Reply(t, "home", s, None, None)
       \/ /\ Reply(t, "denied", None, None, None)
          /\ UNCHANGED <<live, store, owner>>
    /\ UNCHANGED <<jar, tab, restarts, intent>>

\* GET /logout: the session goes, a KeyError is ignored.  The cookie is deleted
\* from the injected response, which is not the one that is returned: the
\* browser keeps it.
HandleLogout(t) ==
    /\ net[t].kind = "logout"
    /\ IF net[t].cookie = None
         THEN /\ Reply(t, "denied", None, None, None)
              /\ UNCHANGED <<live, store>>
         ELSE /\ Reply(t, "home", None, None, None)
              /\ live' = live \ {net[t].cookie}
              /\ store' = [store EXCEPT ![net[t].cookie] = NewSession]
    /\ UNCHANGED <<jar, tab, restarts, owner, intent>>

\* The process ends and starts again: backend.data was its only copy, and the
\* requests it was serving fail.
Restart ==
    /\ "restart" \in Disturbance
    /\ restarts < MaxRestarts
    /\ restarts' = restarts + 1
    /\ live' = {}
    /\ store' = [s \in Session |-> NewSession]
    /\ net' = [t \in Tab |-> IF net[t].kind \in Requests
                               THEN Msg("denied", None, None, None)
                               ELSE net[t]]
    /\ UNCHANGED <<jar, tab, owner, intent>>

-----------------------------------------------------------------------------
User(t) ==
    \/ \E r \in Resource : OpenResource(t, r)
    \/ OpenConnectorList(t)
    \/ \E c \in Connector : ChooseConnector(t, c)
    \/ BackToSearch(t)
    \/ SignIn(t)
    \/ SignOut(t)

Server(t) ==
    \/ HandleNavigate(t)
    \/ AskRegistry(t)
    \/ RegistryRefuses(t)
    \/ SaveSelection(t)
    \/ HandleSignIn(t)
    \/ HandleLogout(t)

Next ==
    \/ \E t \in Tab : User(t) \/ Server(t) \/ Receive(t) \/ LoseAnswer(t)
    \/ \E b \in Browser : CookieExpires(b)
    \/ Restart

Spec == Init /\ [][Next]_vars

\* The event loop serves every request, httpx returns (its timeout raises), and
\* the network delivers what the server sends.
Fairness == \A t \in Tab : WF_vars(Server(t)) /\ WF_vars(Receive(t))

FairSpec == Spec /\ Fairness
-----------------------------------------------------------------------------
(* Properties.                                                             *)

\* No session is in the hands of two browsers: an id that a jar holds, or that
\* a request or an answer carries, was made for that browser (Create and the
\* Set-Cookie of the answer belong together in every handler).
NoSharedSession ==
    /\ \A b \in Browser : jar[b] # None => owner[jar[b]] = b
    /\ \A t \in Tab : net[t].cookie # None => owner[net[t].cookie] = BrowserOf[t]

\* What a session remembers was clicked in the browser that it belongs to.
SessionIsOwn ==
    \A s \in Session, b \in Browser : owner[s] = b =>
        /\ store[s].connector \in (intent[b] \cap WithDashboard) \cup {None}
        /\ store[s].pending \in (intent[b] \cap Dataset) \cup {None}

\* A dashboard that a tab shows is that of a connector chosen in its browser,
\* for a dataset clicked there, whatever sessions were made, replaced, lost or
\* resumed in between.
DashboardIsWanted ==
    \A t \in Tab : tab[t].at = "dashboard" =>
        /\ tab[t].connector \in intent[BrowserOf[t]] \cap WithDashboard
        /\ tab[t].res \in intent[BrowserOf[t]] \cap Dataset

\* A choice of connector is replaced or lost with its session, and otherwise
\* kept: no navigation and no second tab writes an older copy of the session
\* back (the read and the update of a handler enclose no suspension).
SelectionIsKept ==
    [][\A s \in live \cap live' :
          InUse(s) /\ store[s].connector # None => store'[s].connector # None]_vars

\* A dataset remembered for later is forgotten only when this very session
\* opens a dataset in a dashboard, or is asked for another one.
PendingIsKept ==
    [][\A s \in live \cap live' :
          InUse(s) /\ store'[s].pending # store[s].pending =>
              \E t \in Tab :
                  /\ net[t].kind = "navigate"
                  /\ net[t].res \in Dataset
                  /\ net'[t].kind = IF store'[s].pending = None
                                      THEN "open" ELSE "prompt"]_vars

\* "After the connector is selected, the saved `next` navigation is resumed and
\* the dataset URL is rewritten to the selected connector dashboard" (README),
\* unless a restart loses the session in between.
SelectionResumes ==
    \A t \in Tab, d \in Dataset, n \in 0..MaxRestarts :
        (/\ net[t].kind = "chosen" /\ net[t].res = d /\ restarts = n
         /\ (IF net[t].cookie = None THEN jar[BrowserOf[t]] ELSE net[t].cookie) \in live)
            ~> (tab[t].at = "dashboard" /\ tab[t].res = d) \/ restarts # n
=============================================================================
