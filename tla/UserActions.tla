---------------------------- MODULE UserActions ----------------------------
(***************************************************************************)
(* The reports of user actions to the databus.                             *)
(*                                                                         *)
(* Every call of /navigate first gets, as a dependency, a STOMP client of  *)
(* its own: user_actions_client connects to the broker in a thread of the  *)
(* pool.  The handler then redirects the browser and leaves the report to  *)
(* a background task, which sends one message and disconnects, again in a  *)
(* thread of the pool, some time after the browser has its answer.         *)
(*                                                                         *)
(* Neither the connect nor the broker has a time limit: a broker that      *)
(* accepts and then says nothing keeps the threads that wait for it.       *)
(*                                                                         *)
(* ConnectorFlow describes what /navigate does to the sessions; here a     *)
(* session is the person and whether a connector is chosen.                *)
(***************************************************************************)
EXTENDS Naturals, Sequences, FiniteSets

CONSTANTS
    Request,      \* calls of /navigate
    Browser,
    Session,      \* session ids; a session's id stands for its uuid as well
    Person,       \* AAI ids of people who sign in
    Threads,      \* size of the pool of threads
    BrokerLimit,  \* connections that the broker accepts
    MaxEvents,    \* bound on broker failures, sign-ins and sign-outs
    Nobody,       \* the AAI id of a visitor
    None

ASSUME UserActionsAssumption ==
    /\ IsFiniteSet(Request)
    /\ Threads \in Nat \ {0}
    /\ BrokerLimit \in Nat \ {0}
    /\ MaxEvents \in Nat
    /\ None \notin Session \cup Browser
    /\ Nobody \notin Person

VARIABLES
    store,   \* the session backend
    cookie,  \* the session cookie of each browser
    call,    \* the state of each call
    open,    \* the calls whose client is connected to the broker
    broker,  \* whether the broker answers, is silent or is down
    topic,   \* the messages on the topic of user actions
    lost,    \* history: the calls whose connection or message the broker lost
    events   \* number of events so far

vars == <<store, cookie, call, open, broker, topic, lost, events>>

databus == <<open, broker, topic, lost>>

-----------------------------------------------------------------------------
SessionData == [aai_id : Person \cup {Nobody}, chosen : BOOLEAN]

Anonymous == [aai_id |-> Nobody, chosen |-> FALSE]

Phase == {"idle", "waiting", "connecting", "handling", "answered", "reporting", "done"}

Reply == [kind : {"prompt", "redirect"}, client_uid : Session, aai_id : Person \cup {Nobody}]

ASSUME ReplyAssumption == None \notin Reply

Call == [phase : Phase, browser : Browser \cup {None}, sent : Session \cup {None},
         dataset : BOOLEAN, client : BOOLEAN, reply : Reply \cup {None}]

Message == [target : Request, unique_id : Session, aai_id : Person \cup {Nobody}]

\* A session that was never made is absent from `store`, one that was deleted
\* is None: uuids are not used twice.
TypeOK ==
    /\ DOMAIN store \subseteq Session
    /\ \A s \in DOMAIN store : store[s] \in SessionData \cup {None}
    /\ cookie \in [Browser -> Session \cup {None}]
    /\ call \in [Request -> Call]
    /\ open \subseteq Request
    /\ broker \in {"up", "silent", "down"}
    /\ topic \in Seq(Message)
    /\ lost \subseteq Request
    /\ events \in 0..MaxEvents

Idle == [phase |-> "idle", browser |-> None, sent |-> None, dataset |-> FALSE,
         client |-> FALSE, reply |-> None]

Init ==
    /\ store = [s \in {} |-> None]
    /\ cookie = [b \in Browser |-> None]
    /\ call = [r \in Request |-> Idle]
    /\ open = {}
    /\ broker = "up"
    /\ topic = <<>>
    /\ lost = {}
    /\ events = 0

-----------------------------------------------------------------------------
(* The pool of threads runs the dependency and the background task.        *)
Busy == {r \in Request : call[r].phase \in {"connecting", "reporting"}}

HasThread == Cardinality(Busy) < Threads

Goto(r, phase) == call' = [call EXCEPT ![r].phase = phase]

\* The user opens a link to a resource.
Click(r, b, dataset) ==
    /\ call[r].phase = "idle"
    /\ call' = [call EXCEPT ![r] = [Idle EXCEPT !.phase = "waiting", !.browser = b,
                                               !.sent = cookie[b], !.dataset = dataset]]
    /\ UNCHANGED <<store, cookie, databus, events>>

StartConnect(r) ==
    /\ call[r].phase = "waiting"
    /\ HasThread
    /\ Goto(r, "connecting")
    /\ UNCHANGED <<store, cookie, databus, events>>

ConnectFailedPhaseUnhandled == "done"

\* except ConnectFailedException: return None
ConnectFailedPhase == "handling"

\* connect(wait=True): the thread waits for the broker's CONNECTED, without a
\* time limit.  Only a broker that answers or breaks the connection ends that.
UserActionsClient(r) ==
    /\ call[r].phase = "connecting"
    /\ broker # "silent"
    /\ \/ /\ broker = "up"
          /\ Cardinality(open) < BrokerLimit
          /\ open' = open \cup {r}
          /\ call' = [call EXCEPT ![r].phase = "handling", ![r].client = TRUE]
       \/ /\ Goto(r, ConnectFailedPhase)
          /\ UNCHANGED open
    /\ UNCHANGED <<store, cookie, broker, topic, lost, events>>

-----------------------------------------------------------------------------
(* The handler, which does not wait for anything.                          *)

Live(s) == s \in DOMAIN store /\ store[s] # None

\* uuid4: which of the ids that were never used does not matter.
Fresh(s) == s = CHOOSE t \in Session : t \notin DOMAIN store

\* The session of the request's cookie, or a new one.
SessionOf(r, s) == IF Live(call[r].sent) THEN s = call[r].sent ELSE Fresh(s)

Put(s, data) == [t \in DOMAIN store \cup {s} |-> IF t = s THEN data ELSE store[t]]

AfterRedirectKnownOnly(r) == IF call[r].client /\ Live(call[r].sent) THEN "answered" ELSE "done"

\* The task is added whenever there is a client.
AfterRedirect(r) == IF call[r].client THEN "answered" ELSE "done"

Navigate(r) ==
    /\ call[r].phase = "handling"
    /\ \E s \in Session :
          LET data == IF Live(s) THEN store[s] ELSE Anonymous
              prompt == call[r].dataset /\ ~data.chosen
          IN  /\ SessionOf(r, s)
              /\ store' = Put(s, data)
              /\ cookie' = IF s = call[r].sent THEN cookie
                           ELSE [cookie EXCEPT ![call[r].browser] = s]
              /\ call' = [call EXCEPT
                    ![r].phase = IF prompt THEN "done" ELSE AfterRedirect(r),
                    ![r].reply = [kind |-> IF prompt THEN "prompt" ELSE "redirect",
                                  client_uid |-> s, aai_id |-> data.aai_id]]
    /\ UNCHANGED <<databus, events>>

-----------------------------------------------------------------------------
(* The background task.                                                    *)

StartReport(r) ==
    /\ call[r].phase = "answered"
    /\ HasThread
    /\ Goto(r, "reporting")
    /\ UNCHANGED <<store, cookie, databus, events>>

UserActionOfNow(r) ==
    LET s == call[r].reply.client_uid
    IN  [target |-> r, unique_id |-> s,
         aai_id |-> IF Live(s) THEN store[s].aai_id ELSE Nobody]

\* The task was given the handler's copy of the session.
UserAction(r) ==
    [target |-> r, unique_id |-> call[r].reply.client_uid, aai_id |-> call[r].reply.aai_id]

Disconnected(r) == open \ {r}

\* A connection that is lost makes send raise, and nothing is tried again.  No
\* receipt is asked for: what a silent broker was sent it may read, or not.
Send(r) ==
    /\ call[r].phase = "reporting"
    /\ Goto(r, "done")
    /\ \/ /\ r \in open
          /\ topic' = Append(topic, UserAction(r))
          /\ open' = Disconnected(r)
          /\ UNCHANGED lost
       \/ /\ r \in open
          /\ broker = "silent"
          /\ open' = Disconnected(r)
          /\ lost' = lost \cup {r}
          /\ UNCHANGED topic
       \/ /\ r \notin open
          /\ UNCHANGED <<topic, open, lost>>
    /\ UNCHANGED <<store, cookie, broker, events>>

-----------------------------------------------------------------------------
(* What happens meanwhile.                                                 *)

Event == events < MaxEvents /\ events' = events + 1

SignIn(b, p) ==
    /\ Event
    /\ \E s \in Session :
          /\ Fresh(s)
          /\ store' = Put(s, [aai_id |-> p, chosen |-> FALSE])
          /\ cookie' = [cookie EXCEPT ![b] = s]
    /\ UNCHANGED <<call, databus>>

\* /logout deletes the session and not the cookie.
SignOut(b) ==
    /\ Event
    /\ Live(cookie[b])
    /\ store' = Put(cookie[b], None)
    /\ UNCHANGED <<cookie, call, databus>>

SelectConnector(b) ==
    /\ Live(cookie[b])
    /\ ~store[cookie[b]].chosen
    /\ store' = [store EXCEPT ![cookie[b]].chosen = TRUE]
    /\ UNCHANGED <<cookie, call, databus, events>>

BrokerStops ==
    /\ Event
    /\ broker # "down"
    /\ broker' = "down"
    /\ open' = {}
    /\ lost' = lost \cup open
    /\ UNCHANGED <<store, cookie, call, topic>>

BrokerStarts ==
    /\ broker = "down"
    /\ broker' = "up"
    /\ UNCHANGED <<store, cookie, call, open, topic, lost, events>>

\* It accepts connections, keeps those it has, and says nothing.
BrokerFallsSilent ==
    /\ Event
    /\ broker = "up"
    /\ broker' = "silent"
    /\ UNCHANGED <<store, cookie, call, open, topic, lost>>

BrokerAnswersAgain ==
    /\ broker = "silent"
    /\ broker' = "up"
    /\ UNCHANGED <<store, cookie, call, open, topic, lost, events>>

-----------------------------------------------------------------------------
Serve(r) ==
    \/ StartConnect(r) \/ UserActionsClient(r) \/ Navigate(r)
    \/ StartReport(r) \/ Send(r)

Next ==
    \/ \E r \in Request : Serve(r)
    \/ \E r \in Request, b \in Browser, d \in BOOLEAN : Click(r, b, d)
    \/ \E b \in Browser : SignOut(b) \/ SelectConnector(b)
    \/ \E b \in Browser, p \in Person : SignIn(b, p)
    \/ BrokerStops \/ BrokerStarts \/ BrokerFallsSilent \/ BrokerAnswersAgain

Spec == Init /\ [][Next]_vars

\* Uvicorn runs every call, a connect that the broker answered or refused ends,
\* and the threads of the pool are handed out in the order of the requests.
\* Nothing is assumed of the broker, which may stay silent or down for good.
FairSpec ==
    /\ Spec
    /\ \A r \in Request :
          /\ WF_vars(UserActionsClient(r)) /\ WF_vars(Navigate(r)) /\ WF_vars(Send(r))
          /\ SF_vars(StartConnect(r)) /\ SF_vars(StartReport(r))

-----------------------------------------------------------------------------
(* Properties.                                                             *)

Reports(r) == {i \in 1..Len(topic) : topic[i].target = r}

\* What the databus is told agrees with what the browser was told: a report
\* names the client_uid of the redirect and the person who was signed in when
\* the link was opened, whatever happened to the session since; there is one
\* report of a visit at most, and none of a prompt to choose a connector.
ReportedAsVisited ==
    /\ \A r \in Request : Cardinality(Reports(r)) <= 1
    /\ \A i \in 1..Len(topic) :
          LET m == topic[i]
              reply == call[m.target].reply
          IN  /\ reply # None
              /\ reply.kind = "redirect"
              /\ m.unique_id = reply.client_uid
              /\ m.aai_id = reply.aai_id

SilentForGood == [](broker = "silent")

\* The browser gets its answer whether the broker is there, refuses, stops or
\* falls silent for a while, and however many visits wait for a thread: only a
\* broker that stays silent for good keeps it waiting.
VisitsAreAnswered ==
    \A r \in Request :
        call[r].phase = "waiting" ~> (call[r].reply # None \/ SilentForGood)

\* A redirect that had a connection is reported, unless the broker loses the
\* connection or the message, or stays silent for good.
VisitsAreReported ==
    \A r \in Request :
        (call[r].reply # None /\ call[r].reply.kind = "redirect" /\ call[r].client)
            ~> (Reports(r) # {} \/ r \in lost \/ SilentForGood)
=============================================================================
