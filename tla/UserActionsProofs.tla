------------------------- MODULE UserActionsProofs -------------------------
(***************************************************************************)
(* What the databus is told agrees with what the browser was told, for any *)
(* number of calls, browsers and sessions, any size of the pool of threads *)
(* and any limit of the broker.                                            *)
(*                                                                         *)
(* ReportedAsVisited is not inductive: that a report agrees with its answer*)
(* rests on the task that sends it having been added by a redirect         *)
(* (TasksOfRedirects), and that there is one at most on the call being over*)
(* once its message is on the topic (AgreesWith).                          *)
(***************************************************************************)
EXTENDS UserActions, FiniteSetTheorems, TLAPS

-----------------------------------------------------------------------------
(* The inductive invariant.                                                *)

\* A background task was added by a redirect.
TasksOfRedirects ==
    \A r \in Request :
        call[r].phase \in {"answered", "reporting"} =>
            call[r].reply # None /\ call[r].reply.kind = "redirect"

\* What a message must be to agree with its call, which is over.
AgreesWith(m, c) ==
    /\ c.phase = "done"
    /\ c.reply # None
    /\ c.reply.kind = "redirect"
    /\ m.unique_id = c.reply.client_uid
    /\ m.aai_id = c.reply.aai_id

MessagesAgree == \A i \in 1..Len(topic) : AgreesWith(topic[i], call[topic[i].target])

OneMessageEach ==
    \A i, j \in 1..Len(topic) : topic[i].target = topic[j].target => i = j

Inv ==
    /\ TypeOK
    /\ TasksOfRedirects
    /\ MessagesAgree
    /\ OneMessageEach

-----------------------------------------------------------------------------
(* Lemmas.                                                                 *)

\* A call that is stored in place of another leaves `call` well typed.
LEMMA CallStored ==
    ASSUME call \in [Request -> Call], NEW r \in Request, NEW c \in Call,
           call' = [call EXCEPT ![r] = c]
    PROVE  call' \in [Request -> Call]
    OBVIOUS

\* A call that goes to another phase is a call.
LEMMA GoneTo ==
    ASSUME call \in [Request -> Call], NEW r \in Request, NEW phase \in Phase, Goto(r, phase)
    PROVE  /\ call' \in [Request -> Call]
           /\ call'[r].phase = phase
           /\ call'[r].reply = call[r].reply
           /\ \A q \in Request : q # r => call'[q] = call[q]
    BY DEF Goto, Call

\* A session that is put keeps the backend well typed.
LEMMA StorePut ==
    ASSUME DOMAIN store \subseteq Session,
           \A s \in DOMAIN store : store[s] \in SessionData \cup {None},
           NEW t \in Session, NEW data \in SessionData \cup {None},
           store' = Put(t, data)
    PROVE  /\ DOMAIN store' \subseteq Session
           /\ \A s \in DOMAIN store' : store'[s] \in SessionData \cup {None}
    BY DEF Put

\* While a call that is not over changes, and no message is sent, the messages
\* agree with their calls.
LEMMA MessagesKept ==
    ASSUME TypeOK, MessagesAgree, OneMessageEach, NEW r \in Request,
           call[r].phase # "done",
           \A q \in Request : q # r => call'[q] = call[q],
           topic' = topic
    PROVE  MessagesAgree' /\ OneMessageEach'
<1>1. ASSUME NEW i \in 1..Len(topic)
      PROVE  /\ topic[i].target \in Request
             /\ topic[i].target # r
  <2>1. topic[i] \in Message
    BY DEF TypeOK
  <2>2. call[topic[i].target].phase = "done"
    BY DEF MessagesAgree, AgreesWith
  <2>3. QED
    BY <2>1, <2>2 DEF Message
<1>2. MessagesAgree'
    BY <1>1 DEF MessagesAgree, AgreesWith
<1>3. OneMessageEach'
    BY DEF OneMessageEach
<1>4. QED
    BY <1>2, <1>3

\* A step of which the calls and the messages know nothing.
LEMMA Elsewhere ==
    ASSUME Inv, UNCHANGED <<call, topic>>, TypeOK'
    PROVE  Inv'
    BY DEF Inv, TasksOfRedirects, MessagesAgree, AgreesWith, OneMessageEach

\* A step of a call that is not over, up to its answer.
LEMMA CallSteps ==
    ASSUME Inv, NEW r \in Request, call[r].phase # "done",
           \A q \in Request : q # r => call'[q] = call[q],
           topic' = topic, TypeOK',
           call'[r].phase \in {"answered", "reporting"} =>
              call'[r].reply # None /\ call'[r].reply.kind = "redirect"
    PROVE  Inv'
<1>1. TasksOfRedirects'
    BY DEF Inv, TasksOfRedirects
<1>2. MessagesAgree' /\ OneMessageEach'
    BY MessagesKept DEF Inv
<1>3. QED
    BY <1>1, <1>2 DEF Inv

-----------------------------------------------------------------------------
(* The invariant holds at first, and every step keeps it.                  *)

LEMMA InitInv == Init => Inv
<1> SUFFICES ASSUME Init PROVE Inv
    OBVIOUS
<1>1. Idle \in Call
    BY DEF Idle, Call, Phase
<1>2. TypeOK
    BY <1>1, UserActionsAssumption DEF Init, TypeOK
<1>3. TasksOfRedirects
    BY DEF Init, TasksOfRedirects, Idle
<1>4. MessagesAgree /\ OneMessageEach
    BY DEF Init, MessagesAgree, OneMessageEach
<1>5. QED
    BY <1>2, <1>3, <1>4 DEF Inv

LEMMA ClickStep ==
    ASSUME Inv, NEW r \in Request, NEW b \in Browser, NEW dataset \in BOOLEAN,
           Click(r, b, dataset)
    PROVE  Inv'
<1> DEFINE c == [Idle EXCEPT !.phase = "waiting", !.browser = b,
                             !.sent = cookie[b], !.dataset = dataset]
<1>1. c \in Call
    BY DEF Inv, TypeOK, Idle, Call, Phase
<1>2. call' = [call EXCEPT ![r] = c]
    BY DEF Click, databus
<1>3. call'[r].phase = "waiting" /\ \A q \in Request : q # r => call'[q] = call[q]
    BY <1>2 DEF Inv, TypeOK, Idle
<1>4. call' \in [Request -> Call]
    BY <1>1, <1>2 DEF Inv, TypeOK
<1>5. TypeOK'
    BY <1>4 DEF Inv, TypeOK, Click, databus
<1>6. call[r].phase # "done" /\ topic' = topic
    BY DEF Click, databus
<1>7. QED
    BY <1>3, <1>5, <1>6, CallSteps

LEMMA StartConnectStep ==
    ASSUME Inv, NEW r \in Request, StartConnect(r)
    PROVE  Inv'
<1>1. /\ call' \in [Request -> Call]
      /\ call'[r].phase = "connecting"
      /\ \A q \in Request : q # r => call'[q] = call[q]
    BY GoneTo DEF Inv, TypeOK, StartConnect, Phase
<1>2. TypeOK'
    BY <1>1 DEF Inv, TypeOK, StartConnect, databus
<1>3. call[r].phase # "done" /\ topic' = topic
    BY DEF StartConnect, databus
<1>4. QED
    BY <1>1, <1>2, <1>3, CallSteps

LEMMA ConnectStep ==
    ASSUME Inv, NEW r \in Request, UserActionsClient(r)
    PROVE  Inv'
<1>1. /\ call' \in [Request -> Call]
      /\ call'[r].phase = "handling"
      /\ \A q \in Request : q # r => call'[q] = call[q]
  <2>1. CASE call' = [call EXCEPT ![r].phase = "handling", ![r].client = TRUE]
    BY <2>1 DEF Inv, TypeOK, Call, Phase
  <2>2. CASE Goto(r, ConnectFailedPhase)
    BY <2>2, GoneTo DEF Inv, TypeOK, ConnectFailedPhase, Phase
  <2>3. QED
    BY <2>1, <2>2 DEF UserActionsClient
<1>2. open' \subseteq Request
    BY DEF Inv, TypeOK, UserActionsClient
<1>3. TypeOK'
    BY <1>1, <1>2 DEF Inv, TypeOK, UserActionsClient
<1>4. call[r].phase # "done" /\ topic' = topic
    BY DEF UserActionsClient
<1>5. QED
    BY <1>1, <1>3, <1>4, CallSteps

LEMMA NavigateStep ==
    ASSUME Inv, NEW r \in Request, Navigate(r)
    PROVE  Inv'
<1> DEFINE data(s) == IF Live(s) THEN store[s] ELSE Anonymous
           prompt(s) == call[r].dataset /\ ~data(s).chosen
           reply(s) == [kind |-> IF prompt(s) THEN "prompt" ELSE "redirect",
                        client_uid |-> s, aai_id |-> data(s).aai_id]
           phase(s) == IF prompt(s) THEN "done" ELSE AfterRedirect(r)
<1>1. PICK s \in Session :
          /\ store' = Put(s, data(s))
          /\ cookie' = IF s = call[r].sent THEN cookie
                       ELSE [cookie EXCEPT ![call[r].browser] = s]
          /\ call' = [call EXCEPT ![r].phase = phase(s), ![r].reply = reply(s)]
    BY DEF Navigate, databus
<1>2. data(s) \in SessionData
  <2>1. CASE Live(s)
    BY <2>1 DEF Live, Inv, TypeOK
  <2>2. CASE ~Live(s)
    BY <2>2 DEF Anonymous, SessionData
  <2>3. QED
    BY <2>1, <2>2
<1>3. reply(s) \in Reply
    BY <1>2 DEF SessionData, Reply
<1>4. phase(s) \in {"done", "answered"} /\ phase(s) \in Phase
    BY DEF AfterRedirect, Phase
<1>5. phase(s) = "answered" => reply(s).kind = "redirect"
    BY DEF AfterRedirect
<1> HIDE DEF data, reply, phase
<1>6. /\ call' \in [Request -> Call]
      /\ call'[r].phase = phase(s)
      /\ call'[r].reply = reply(s)
      /\ \A q \in Request : q # r => call'[q] = call[q]
    BY <1>1, <1>3, <1>4 DEF Inv, TypeOK, Call
<1>7. /\ DOMAIN store' \subseteq Session
      /\ \A t \in DOMAIN store' : store'[t] \in SessionData \cup {None}
    BY <1>1, <1>2, StorePut DEF Inv, TypeOK
<1>8. cookie' \in [Browser -> Session \cup {None}]
    BY <1>1 DEF Inv, TypeOK
<1>9. TypeOK'
    BY <1>6, <1>7, <1>8 DEF Inv, TypeOK, Navigate, databus
<1>10. reply(s) # None
    BY <1>3, ReplyAssumption
<1>11. call[r].phase # "done" /\ topic' = topic
    BY DEF Navigate, databus
<1>12. call'[r].phase \in {"answered", "reporting"} =>
          call'[r].reply # None /\ call'[r].reply.kind = "redirect"
    BY <1>4, <1>5, <1>6, <1>10
<1>13. QED
    BY <1>6, <1>9, <1>11, <1>12, CallSteps

LEMMA StartReportStep ==
    ASSUME Inv, NEW r \in Request, StartReport(r)
    PROVE  Inv'
<1>1. /\ call' \in [Request -> Call]
      /\ call'[r].phase = "reporting"
      /\ call'[r].reply = call[r].reply
      /\ \A q \in Request : q # r => call'[q] = call[q]
    BY GoneTo DEF Inv, TypeOK, StartReport, Phase
<1>2. TypeOK'
    BY <1>1 DEF Inv, TypeOK, StartReport, databus
<1>3. call[r].phase = "answered" /\ topic' = topic
    BY DEF StartReport, databus
<1>4. call[r].reply # None /\ call[r].reply.kind = "redirect"
    BY <1>3 DEF Inv, TasksOfRedirects
<1>5. QED
    BY <1>1, <1>2, <1>3, <1>4, CallSteps

LEMMA SendStep ==
    ASSUME Inv, NEW r \in Request, Send(r)
    PROVE  Inv'
<1>1. /\ call' \in [Request -> Call]
      /\ call'[r].phase = "done"
      /\ call'[r].reply = call[r].reply
      /\ \A q \in Request : q # r => call'[q] = call[q]
    BY GoneTo DEF Inv, TypeOK, Send, Phase
<1>2. call[r].phase = "reporting"
    BY DEF Send
<1>3. call[r].reply # None /\ call[r].reply.kind = "redirect" /\ call[r].reply \in Reply
    BY <1>2 DEF Inv, TasksOfRedirects, TypeOK, Call
<1>4. CASE r \in open /\ topic' = Append(topic, UserAction(r))
  <2>1. topic' = Append(topic, UserAction(r)) /\ open' \subseteq open /\ lost' \subseteq lost \cup {r}
    BY <1>4 DEF Send, Disconnected
  <2>2. UserAction(r) \in Message
    BY <1>3 DEF UserAction, Message, Reply
  <2>3. topic \in Seq(Message)
    BY DEF Inv, TypeOK
  <2>4. /\ topic' \in Seq(Message)
        /\ Len(topic') = Len(topic) + 1
        /\ topic'[Len(topic) + 1] = UserAction(r)
        /\ \A i \in 1..Len(topic) : topic'[i] = topic[i]
    BY <2>1, <2>2, <2>3
  <2>5. TypeOK'
    BY <1>1, <2>1, <2>4 DEF Inv, TypeOK, Send
  <2>6. TasksOfRedirects'
    BY <1>1 DEF Inv, TasksOfRedirects
  <2>7. ASSUME NEW i \in 1..Len(topic)
        PROVE  topic[i].target \in Request /\ topic[i].target # r
    <3>1. topic[i] \in Message
      BY <2>3
    <3>2. call[topic[i].target].phase = "done"
      BY DEF Inv, MessagesAgree, AgreesWith
    <3>3. QED
      BY <1>2, <3>1, <3>2 DEF Message
  <2>8. Len(topic) \in Nat /\ 1..Len(topic') = 1..Len(topic) \cup {Len(topic) + 1}
    BY <2>3, <2>4
  <2>9. UserAction(r).target = r /\ AgreesWith(UserAction(r), call'[r])
    BY <1>1, <1>3 DEF UserAction, AgreesWith
  <2>10. MessagesAgree'
    <3> SUFFICES ASSUME NEW i \in 1..Len(topic')
                 PROVE  AgreesWith(topic'[i], call'[topic'[i].target])
        BY DEF MessagesAgree, AgreesWith
    <3>1. CASE i \in 1..Len(topic)
        BY <1>1, <2>4, <2>7, <3>1 DEF Inv, MessagesAgree
    <3>2. CASE i = Len(topic) + 1
        BY <2>4, <2>9, <3>2
    <3>3. QED
        BY <2>8, <3>1, <3>2
  <2>11. OneMessageEach'
    <3> SUFFICES ASSUME NEW i \in 1..Len(topic'), NEW j \in 1..Len(topic'),
                        topic'[i].target = topic'[j].target
                 PROVE  i = j
        BY DEF OneMessageEach
    <3>1. CASE i \in 1..Len(topic) /\ j \in 1..Len(topic)
        BY <2>4, <3>1 DEF Inv, OneMessageEach
    <3>2. CASE i = Len(topic) + 1 /\ j \in 1..Len(topic)
        BY <2>4, <2>7, <2>9, <3>2
    <3>3. CASE i \in 1..Len(topic) /\ j = Len(topic) + 1
        BY <2>4, <2>7, <2>9, <3>3
    <3>4. QED
        BY <2>8, <3>1, <3>2, <3>3
  <2>12. QED
    BY <2>5, <2>6, <2>10, <2>11 DEF Inv
<1>5. CASE topic' = topic
  <2>1. topic' = topic /\ open' \subseteq open /\ lost' \subseteq lost \cup {r}
    BY <1>5 DEF Send, Disconnected
  <2>2. TypeOK'
    BY <1>1, <2>1 DEF Inv, TypeOK, Send
  <2>3. QED
    BY <1>1, <1>2, <2>1, <2>2, CallSteps
<1>6. QED
    BY <1>4, <1>5 DEF Send

\* Sign-ins, sign-outs, choices of a connector and the broker.
LEMMA SignInStep ==
    ASSUME Inv, NEW b \in Browser, NEW p \in Person, SignIn(b, p)
    PROVE  Inv'
<1>1. PICK s \in Session :
          /\ store' = Put(s, [aai_id |-> p, chosen |-> FALSE])
          /\ cookie' = [cookie EXCEPT ![b] = s]
    BY DEF SignIn
<1>2. [aai_id |-> p, chosen |-> FALSE] \in SessionData
    BY DEF SessionData
<1>3. /\ DOMAIN store' \subseteq Session
      /\ \A t \in DOMAIN store' : store'[t] \in SessionData \cup {None}
    BY <1>1, <1>2, StorePut DEF Inv, TypeOK
<1>4. events' \in 0..MaxEvents
    BY UserActionsAssumption DEF Inv, TypeOK, SignIn, Event
<1>5. cookie' \in [Browser -> Session \cup {None}]
    BY <1>1 DEF Inv, TypeOK
<1>6. TypeOK'
    BY <1>3, <1>4, <1>5 DEF Inv, TypeOK, SignIn, databus
<1>7. QED
    BY <1>6, Elsewhere DEF SignIn, databus

LEMMA SignOutStep ==
    ASSUME Inv, NEW b \in Browser, SignOut(b)
    PROVE  Inv'
<1>1. cookie[b] \in Session
    BY DEF SignOut, Live, Inv, TypeOK
<1>2. /\ DOMAIN store' \subseteq Session
      /\ \A t \in DOMAIN store' : store'[t] \in SessionData \cup {None}
    BY <1>1, StorePut DEF Inv, TypeOK, SignOut, databus
<1>3. events' \in 0..MaxEvents
    BY UserActionsAssumption DEF Inv, TypeOK, SignOut, Event
<1>4. TypeOK'
    BY <1>2, <1>3 DEF Inv, TypeOK, SignOut, databus
<1>5. QED
    BY <1>4, Elsewhere DEF SignOut, databus

LEMMA SelectConnectorStep ==
    ASSUME Inv, NEW b \in Browser, SelectConnector(b)
    PROVE  Inv'
<1>1. cookie[b] \in DOMAIN store /\ store[cookie[b]] \in SessionData
    BY DEF SelectConnector, Live, Inv, TypeOK
<1>2. /\ DOMAIN store' \subseteq Session
      /\ \A t \in DOMAIN store' : store'[t] \in SessionData \cup {None}
  <2>1. DOMAIN store' = DOMAIN store
    BY DEF SelectConnector
  <2>2. ASSUME NEW t \in DOMAIN store
        PROVE  store'[t] \in SessionData \cup {None}
    <3>1. CASE t = cookie[b]
        BY <1>1, <3>1 DEF SelectConnector, SessionData
    <3>2. CASE t # cookie[b]
        BY <2>2, <3>2 DEF SelectConnector, Inv, TypeOK
    <3>3. QED
        BY <3>1, <3>2
  <2>3. QED
    BY <2>1, <2>2 DEF Inv, TypeOK
<1>3. TypeOK'
    BY <1>2 DEF Inv, TypeOK, SelectConnector, databus
<1>4. QED
    BY <1>3, Elsewhere DEF SelectConnector, databus

\* A step of the broker: it stops, starts, falls silent or answers again.
BrokerMoves == BrokerStops \/ BrokerStarts \/ BrokerFallsSilent \/ BrokerAnswersAgain

LEMMA BrokerStep ==
    ASSUME Inv, BrokerMoves
    PROVE  Inv'
<1>1. events' \in 0..MaxEvents
    BY UserActionsAssumption
    DEF Inv, TypeOK, BrokerMoves, BrokerStops, BrokerStarts, BrokerFallsSilent,
        BrokerAnswersAgain, Event
<1>2. TypeOK'
    BY <1>1 DEF Inv, TypeOK, BrokerMoves, BrokerStops, BrokerStarts, BrokerFallsSilent,
                BrokerAnswersAgain
<1>3. UNCHANGED <<call, topic>>
    BY DEF BrokerMoves, BrokerStops, BrokerStarts, BrokerFallsSilent, BrokerAnswersAgain
<1>4. QED
    BY <1>2, <1>3, Elsewhere

LEMMA NextInv == Inv /\ [Next]_vars => Inv'
<1> SUFFICES ASSUME Inv, [Next]_vars PROVE Inv'
    OBVIOUS
<1>1. ASSUME NEW r \in Request, Serve(r) PROVE Inv'
    BY <1>1, StartConnectStep, ConnectStep, NavigateStep, StartReportStep, SendStep DEF Serve
<1>2. ASSUME NEW r \in Request, NEW b \in Browser, NEW d \in BOOLEAN, Click(r, b, d)
      PROVE  Inv'
    BY <1>2, ClickStep
<1>3. ASSUME NEW b \in Browser, SignOut(b) \/ SelectConnector(b) PROVE Inv'
    BY <1>3, SignOutStep, SelectConnectorStep
<1>4. ASSUME NEW b \in Browser, NEW p \in Person, SignIn(b, p) PROVE Inv'
    BY <1>4, SignInStep
<1>5. CASE BrokerMoves
    BY <1>5, BrokerStep
<1>6. CASE UNCHANGED vars
  <2>1. TypeOK'
    BY <1>6 DEF vars, Inv, TypeOK
  <2>2. QED
    BY <1>6, <2>1, Elsewhere DEF vars
<1>7. QED
    BY <1>1, <1>2, <1>3, <1>4, <1>5, <1>6 DEF Next, BrokerMoves

LEMMA Invariance == Spec => []Inv
    BY InitInv, NextInv, PTL DEF Spec

-----------------------------------------------------------------------------
(* The invariant is what the databus sees.                                 *)

LEMMA InvReported == Inv => ReportedAsVisited
<1> SUFFICES ASSUME Inv PROVE ReportedAsVisited
    OBVIOUS
<1>1. ASSUME NEW r \in Request
      PROVE  Cardinality(Reports(r)) <= 1
  <2>1. CASE Reports(r) = {}
    BY <2>1, FS_EmptySet
  <2>2. CASE Reports(r) # {}
    <3>1. PICK i \in 1..Len(topic) : topic[i].target = r
        BY <2>2 DEF Reports
    <3>2. Reports(r) = {i}
        BY <3>1 DEF Reports, Inv, OneMessageEach
    <3>3. Cardinality({i}) = 1
        BY FS_Singleton
    <3>4. QED
        BY <3>2, <3>3
  <2>3. QED
    BY <2>1, <2>2
<1>2. QED
    BY <1>1 DEF ReportedAsVisited, Inv, MessagesAgree, AgreesWith

\* Sessions, cookies, calls and messages stay what they are declared to be,
\* whatever the order of tasks, sign-ins and failures of the broker.
THEOREM TypeCorrect == Spec => []TypeOK
<1>1. Inv => TypeOK
    BY DEF Inv
<1>2. QED
    BY <1>1, Invariance, PTL

\* A report of /navigate names the client_uid and the person of the answer that
\* the browser got; a visit is reported once at most and a prompt never.
THEOREM Reported == Spec => []ReportedAsVisited
    BY InvReported, Invariance, PTL
-----------------------------------------------------------------------------
(* The connections to the broker.                                          *)

\* An open connection is that of a call that got its client, and either has
\* not ended or was answered with the prompt to choose a connector.
MayBeOpen(c) ==
    /\ c.client
    /\ \/ c.phase \in {"handling", "answered", "reporting"}
       \/ c.phase = "done" /\ c.reply # None /\ c.reply.kind = "prompt"

\* user_actions_client yields a connection that only the background task ends:
\* what stays open after its call is the connection of a prompt, and of nothing
\* else.  In particular no report, sent or not, leaves one behind.
OnlyPromptsLeaveOpen == \A r \in open : MayBeOpen(call[r])

\* A step of one call leaves the connections of the others as they are.
LEMMA OpenKept ==
    ASSUME OnlyPromptsLeaveOpen, NEW r \in Request,
           \A q \in Request : q # r => call'[q] = call[q],
           open' \subseteq open \cup {r}, open \subseteq Request,
           r \in open' => MayBeOpen(call'[r])
    PROVE  OnlyPromptsLeaveOpen'
    BY DEF OnlyPromptsLeaveOpen

\* The steps of a call.
LEMMA ServeOpen ==
    ASSUME TypeOK, OnlyPromptsLeaveOpen, NEW r \in Request, Serve(r)
    PROVE  OnlyPromptsLeaveOpen'
<1>1. call \in [Request -> Call] /\ open \subseteq Request
    BY DEF TypeOK
<1>2. r \in open => MayBeOpen(call[r])
    BY DEF OnlyPromptsLeaveOpen
<1>3. CASE StartConnect(r)
  <2>1. r \notin open
    BY <1>2, <1>3 DEF StartConnect, MayBeOpen
  <2>2. open' = open /\ \A q \in Request : q # r => call'[q] = call[q]
    BY <1>1, <1>3 DEF StartConnect, Goto, databus
  <2>3. QED
    BY <1>1, <2>1, <2>2, OpenKept
<1>4. CASE UserActionsClient(r)
  <2>1. r \notin open
    BY <1>2, <1>4 DEF UserActionsClient, MayBeOpen
  <2>2. \A q \in Request : q # r => call'[q] = call[q]
    BY <1>1, <1>4 DEF UserActionsClient, Goto
  <2>3. CASE open' = open
    BY <1>1, <2>1, <2>2, <2>3, OpenKept
  <2>4. CASE call' = [call EXCEPT ![r].phase = "handling", ![r].client = TRUE]
             /\ open' = open \cup {r}
    <3>1. call'[r].phase = "handling" /\ call'[r].client
        BY <1>1, <2>4 DEF Call
    <3>2. QED
        BY <1>1, <2>2, <2>4, <3>1, OpenKept DEF MayBeOpen
  <2>5. QED
    BY <1>4, <2>3, <2>4 DEF UserActionsClient
<1>5. CASE Navigate(r)
  <2>1. PICK kind \in {"prompt", "redirect"}, s \in Session, p \in Person \cup {Nobody} :
          call' = [call EXCEPT
                     ![r].phase = IF kind = "prompt" THEN "done" ELSE AfterRedirect(r),
                     ![r].reply = [kind |-> kind, client_uid |-> s, aai_id |-> p]]
    <3>1. PICK s \in Session :
            LET data == IF Live(s) THEN store[s] ELSE Anonymous
                prompt == call[r].dataset /\ ~data.chosen
            IN  call' = [call EXCEPT
                      ![r].phase = IF prompt THEN "done" ELSE AfterRedirect(r),
                      ![r].reply = [kind |-> IF prompt THEN "prompt" ELSE "redirect",
                                    client_uid |-> s, aai_id |-> data.aai_id]]
        BY <1>5 DEF Navigate
    <3> DEFINE data == IF Live(s) THEN store[s] ELSE Anonymous
               prompt == call[r].dataset /\ ~data.chosen
    <3>2. data \in SessionData
        BY DEF TypeOK, Live, Anonymous, SessionData
    <3>3. data.aai_id \in Person \cup {Nobody}
        BY <3>2 DEF SessionData
    <3>4. CASE prompt
        BY <3>1, <3>3, <3>4
    <3>5. CASE ~prompt
        BY <3>1, <3>3, <3>5
    <3>6. QED
        BY <3>4, <3>5
  <2>2. open' = open /\ \A q \in Request : q # r => call'[q] = call[q]
    BY <1>1, <1>5, <2>1 DEF Navigate, databus
  <2> DEFINE reply == [kind |-> kind, client_uid |-> s, aai_id |-> p]
  <2>3. reply \in Reply /\ reply.kind = kind
    BY <2>1 DEF Reply
  <2>4. /\ call'[r].client = call[r].client
        /\ call'[r].reply = reply
        /\ call'[r].phase = IF kind = "prompt" THEN "done" ELSE AfterRedirect(r)
    BY <1>1, <2>1 DEF Call
  <2> HIDE DEF reply
  <2>5. reply # None
    BY <2>3, ReplyAssumption
  <2>6. r \in open => MayBeOpen(call'[r])
    BY <1>2, <2>1, <2>3, <2>4, <2>5 DEF MayBeOpen, AfterRedirect
  <2>7. QED
    BY <1>1, <2>2, <2>6, OpenKept
<1>6. CASE StartReport(r)
  <2>1. /\ open' = open
        /\ call'[r].client = call[r].client /\ call'[r].phase = "reporting"
        /\ \A q \in Request : q # r => call'[q] = call[q]
    BY <1>1, <1>6 DEF StartReport, Goto, Call, databus
  <2>2. QED
    BY <1>1, <1>2, <2>1, OpenKept DEF MayBeOpen
<1>7. CASE Send(r)
  <2>1. /\ r \notin open' /\ open' \subseteq open
        /\ \A q \in Request : q # r => call'[q] = call[q]
    BY <1>1, <1>7 DEF Send, Goto, Disconnected
  <2>2. QED
    BY <1>1, <2>1, OpenKept
<1>8. QED
    BY <1>3, <1>4, <1>5, <1>6, <1>7 DEF Serve

\* No connection is left open but that of a visitor who was asked to choose a
\* connector: the broker's places are used up by prompts only.
THEOREM OnlyPromptsLeak == Spec => []OnlyPromptsLeaveOpen
<1>1. Init => OnlyPromptsLeaveOpen
    BY DEF Init, OnlyPromptsLeaveOpen
<1>2. TypeOK /\ OnlyPromptsLeaveOpen /\ [Next]_vars => OnlyPromptsLeaveOpen'
  <2> SUFFICES ASSUME TypeOK, OnlyPromptsLeaveOpen, [Next]_vars
               PROVE  OnlyPromptsLeaveOpen'
    OBVIOUS
  <2>1. ASSUME NEW r \in Request, Serve(r) PROVE OnlyPromptsLeaveOpen'
    BY <2>1, ServeOpen
  <2>2. ASSUME NEW r \in Request, NEW b \in Browser, NEW d \in BOOLEAN, Click(r, b, d)
        PROVE  OnlyPromptsLeaveOpen'
    <3>1. r \notin open
        BY <2>2 DEF Click, OnlyPromptsLeaveOpen, MayBeOpen
    <3>2. open' = open /\ \A q \in Request : q # r => call'[q] = call[q]
        BY <2>2 DEF Click, TypeOK, databus
    <3>3. QED
        BY <3>1, <3>2, OpenKept DEF TypeOK
  <2>3. CASE \/ \E b \in Browser : SignOut(b) \/ SelectConnector(b)
             \/ \E b \in Browser, p \in Person : SignIn(b, p)
             \/ BrokerMoves
             \/ UNCHANGED vars
    <3>1. call' = call /\ open' \subseteq open
        BY <2>3 DEF SignOut, SelectConnector, SignIn, databus, vars, BrokerMoves, BrokerStops,
               BrokerStarts, BrokerFallsSilent, BrokerAnswersAgain
    <3>2. QED
        BY <3>1 DEF OnlyPromptsLeaveOpen
  <2>4. QED
    BY <2>1, <2>2, <2>3 DEF Next, BrokerMoves
<1>3. QED
    BY <1>1, <1>2, TypeCorrect, PTL DEF Spec

-----------------------------------------------------------------------------
(* Why every visit is answered and every report made, but for fairness.    *)

PhaseRank(phase) ==
    CASE phase = "idle"       -> 0
      [] phase = "waiting"    -> 1
      [] phase = "connecting" -> 2
      [] phase = "handling"   -> 3
      [] phase = "answered"   -> 4
      [] phase = "reporting"  -> 5
      [] phase = "done"       -> 6

\* Call c is later than b, and keeps the answer that b had.
Later(b, c) ==
    /\ PhaseRank(c.phase) > PhaseRank(b.phase)
    /\ PhaseRank(b.phase) >= 4 => c.reply = b.reply /\ c.client = b.client

\* The broker is tried once and a report is made once: each step of a call takes
\* it on, nothing else changes it, and its answer, once given, is final whatever
\* the background task does.
OnlyForward ==
    [][\A r \in Request :
          /\ Serve(r) => Later(call[r], call'[r])
          /\ call'[r] = call[r] \/ Later(call[r], call'[r])]_vars

\* The steps of a call, one after the other.
LEMMA ServeLater ==
    ASSUME TypeOK, NEW r \in Request, Serve(r)
    PROVE  /\ Later(call[r], call'[r])
           /\ \A q \in Request : q # r => call'[q] = call[q]
<1>1. call \in [Request -> Call]
    BY DEF TypeOK
<1>2. CASE StartConnect(r)
    BY <1>1, <1>2 DEF StartConnect, Goto, Later, PhaseRank, Call
<1>3. CASE UserActionsClient(r)
  <2>1. call[r].phase = "connecting" /\ call'[r].phase = "handling"
        /\ \A q \in Request : q # r => call'[q] = call[q]
    BY <1>1, <1>3 DEF UserActionsClient, Goto, ConnectFailedPhase, Call
  <2>2. QED
    BY <2>1 DEF Later, PhaseRank
<1>4. CASE Navigate(r)
  <2>1. /\ call[r].phase = "handling" /\ call'[r].phase \in {"answered", "done"}
        /\ \A q \in Request : q # r => call'[q] = call[q]
    BY <1>1, <1>4 DEF Navigate, AfterRedirect, Call
  <2>2. QED
    BY <2>1 DEF Later, PhaseRank
<1>5. CASE StartReport(r)
    BY <1>1, <1>5 DEF StartReport, Goto, Later, PhaseRank, Call
<1>6. CASE Send(r)
    BY <1>1, <1>6 DEF Send, Goto, Later, PhaseRank, Call
<1>7. QED
    BY <1>2, <1>3, <1>4, <1>5, <1>6 DEF Serve

\* Whatever the broker, the pool of threads and the sessions do, a visit only
\* goes forward and keeps its answer.
THEOREM VisitsGoForward == Spec => OnlyForward
<1> DEFINE Forward == \A r \in Request :
                         /\ Serve(r) => Later(call[r], call'[r])
                         /\ call'[r] = call[r] \/ Later(call[r], call'[r])
<1>1. ASSUME TypeOK, Next PROVE Forward
  <2> SUFFICES ASSUME NEW r \in Request
               PROVE  /\ Serve(r) => Later(call[r], call'[r])
                      /\ call'[r] = call[r] \/ Later(call[r], call'[r])
    BY Zenon
  <2>1. ASSUME NEW q \in Request, Serve(q)
        PROVE  Later(call[q], call'[q]) /\ (q # r => call'[r] = call[r])
    BY <1>1, <2>1, ServeLater
  <2>2. ASSUME NEW q \in Request, NEW b \in Browser, NEW d \in BOOLEAN, Click(q, b, d)
        PROVE  call'[r] = call[r] \/ Later(call[r], call'[r])
    <3>1. CASE q # r
        BY <1>1, <2>2, <3>1 DEF Click, TypeOK
    <3>2. CASE q = r
      <4>1. call[r].phase = "idle" /\ call'[r].phase = "waiting"
        BY <1>1, <2>2, <3>2 DEF Click, Idle, TypeOK
      <4>2. QED
        BY <4>1 DEF Later, PhaseRank
    <3>3. QED
        BY <3>1, <3>2
  <2>3. ASSUME \/ \E b \in Browser : SignOut(b) \/ SelectConnector(b)
               \/ \E b \in Browser, p \in Person : SignIn(b, p)
               \/ BrokerMoves
        PROVE  call'[r] = call[r]
    BY <2>3 DEF SignOut, SelectConnector, SignIn, BrokerMoves, BrokerStops, BrokerStarts,
                   BrokerFallsSilent, BrokerAnswersAgain
  <2>4. QED
    BY <1>1, <2>1, <2>2, <2>3 DEF Next, BrokerMoves
<1>2. TypeOK /\ [Next]_vars => [Forward]_vars
    BY <1>1
<1>3. QED
    BY <1>2, TypeCorrect, PTL DEF Spec, OnlyForward
=============================================================================
