------------------------ MODULE RegistryClientProofs -----------------------
(***************************************************************************)
(* The invariants of RegistryClient for every set of parties, number of    *)
(* endpoints and repertoire of their answers.                              *)
(*                                                                         *)
(* ListedIsCurrent and NoneIsLost speak of a finished call.  They become   *)
(* inductive by saying the same of every item on its way to the answer,    *)
(* with what ties the history to the registry (HistoryFits) and the items  *)
(* to the phase of the call (ItemsFollowPhase).                            *)
(***************************************************************************)
EXTENDS RegistryClient, TLAPS

ItemsFollowPhase ==
    /\ call.phase \in {"token", "parties"} =>
          /\ call.kind = "list"
          /\ readRecord = {}
          /\ \A p \in Party : item[p] = "none"
    /\ call.phase = "enrich" =>
          \A p \in Party : item[p] \notin {"token", "record", "listed"}
    /\ call.phase = "answered" =>
          \A p \in Party : item[p] \in {"none", "dropped", "done"}

HistoryFits ==
    /\ call.phase # "idle" => valid \subseteq seen
    /\ steady \subseteq valid \cap listing

Kept == {"listed", "capabilities", "done"}

ItemsAreCurrent ==
    \A p \in Party :
        /\ (call.phase = "refresh" /\ item[p] \in {"token", "record"})
              => p \notin readRecord
        /\ item[p] \in Kept =>
              p \in seen \/ (call.kind = "list" /\ p \notin readRecord)

SteadyIsKept ==
    (call.kind = "list" /\ call.phase \in {"refresh", "enrich", "answered"}) =>
        \A p \in steady : item[p] \notin {"none", "dropped"} \/ p \in exhausted

ItemsHaveOverrides ==
    \A p \in WithOverride :
        (item[p] \in Kept \/ (call.kind = "list" /\ item[p] \in {"token", "record"}))
            => p \in dashboard

IInv ==
    /\ TypeOK
    /\ ItemsFollowPhase
    /\ HistoryFits
    /\ ItemsAreCurrent
    /\ SteadyIsKept
    /\ ItemsHaveOverrides

-----------------------------------------------------------------------------
(* The fallback moves to an endpoint that exists.                          *)
LEMMA TokenFallback ==
    ASSUME NEW outcome, NEW e \in 1..Endpoints, TokenResult(outcome, e) = "next"
    PROVE  e + 1 \in 1..Endpoints
  BY ConstantsAssumption DEF TokenResult

(* ... and so does that of the party records and of the list.              *)
LEMMA RecordFallback ==
    ASSUME NEW outcome \in Outcomes, NEW e \in 1..Endpoints, NEW object \in BOOLEAN,
           RecordResult(outcome, e, object) = "next"
    PROVE  e + 1 \in 1..Endpoints
  BY ConstantsAssumption DEF RecordResult, Outcomes

(* The client starts with an empty history.                                *)
LEMMA InitInv == Init => IInv
  BY ConstantsAssumption
  DEF Init, IInv, TypeOK, Call, Phases, ItemStates, ItemsFollowPhase, HistoryFits,
      ItemsAreCurrent, SteadyIsKept, ItemsHaveOverrides, Kept

(* A change of the registry only adds to what was seen, and takes from what *)
(* was steady.                                                              *)
LEMMA ChangeInv ==
    ASSUME IInv, NEW p \in Party, Change(p)
    PROVE  IInv'
  <1> USE DEF IInv, Change
  <1>1. TypeOK'
    BY ConstantsAssumption DEF TypeOK, Call, ItemStates
  <1>2. HistoryFits'
    BY DEF HistoryFits
  <1>3. ItemsFollowPhase' /\ ItemsAreCurrent' /\ SteadyIsKept' /\ ItemsHaveOverrides'
    BY DEF ItemsFollowPhase, ItemsAreCurrent, SteadyIsKept, ItemsHaveOverrides
  <1> QED BY <1>1, <1>2, <1>3

(* So does a new list of the registry.                                     *)
LEMMA PublishInv ==
    ASSUME IInv, Publish
    PROVE  IInv'
  <1> USE DEF IInv, Publish, history
  <1>1. TypeOK'
    BY DEF TypeOK, Call, ItemStates
  <1>2. HistoryFits'
    BY DEF HistoryFits
  <1>3. ItemsFollowPhase' /\ ItemsAreCurrent' /\ SteadyIsKept' /\ ItemsHaveOverrides'
    BY DEF ItemsFollowPhase, ItemsAreCurrent, SteadyIsKept, ItemsHaveOverrides
  <1> QED BY <1>1, <1>2, <1>3

(* A call starts with nothing on its way but the party it is about.        *)
LEMMA StartInv ==
    ASSUME IInv,
           (\E full \in BOOLEAN : StartList(full)) \/ (\E p \in Party : StartDetails(p))
    PROVE  IInv'
  <1> USE DEF IInv, Begin, world
  <1>1. ASSUME NEW full \in BOOLEAN, StartList(full)
        PROVE  IInv'
    <2> USE <1>1 DEF StartList
    <2>1. TypeOK'
      BY ConstantsAssumption DEF TypeOK, Call, Phases, ItemStates
    <2>2. ItemsFollowPhase' /\ HistoryFits'
      BY DEF ItemsFollowPhase, HistoryFits
    <2>3. ItemsAreCurrent' /\ SteadyIsKept' /\ ItemsHaveOverrides'
      BY ConstantsAssumption
      DEF ItemsAreCurrent, SteadyIsKept, ItemsHaveOverrides, Kept
    <2> QED BY <2>1, <2>2, <2>3
  <1>2. ASSUME NEW p \in Party, StartDetails(p)
        PROVE  IInv'
    <2> USE <1>2 DEF StartDetails
    <2>1. TypeOK'
      BY ConstantsAssumption DEF TypeOK, Call, Phases, ItemStates
    <2>2. ItemsFollowPhase' /\ HistoryFits'
      BY DEF ItemsFollowPhase, HistoryFits
    <2>3. ItemsAreCurrent' /\ SteadyIsKept' /\ ItemsHaveOverrides'
      BY ConstantsAssumption
      DEF ItemsAreCurrent, SteadyIsKept, ItemsHaveOverrides, Kept
    <2> QED BY <2>1, <2>2, <2>3
  <1> QED BY <1>1, <1>2

(* The end of a call in an exception leaves its items as they are.         *)
LEMMA EndInv ==
    ASSUME IInv, NEW phase \in {"failed", "crashed"}, End(phase),
           call.phase \in Running, UNCHANGED <<world, seen, steady>>
    PROVE  IInv'
  <1> USE DEF IInv, End, world
  <1>0. /\ call'.kind = call.kind
        /\ call'.phase = phase
        /\ call.phase # "idle"
    BY DEF TypeOK, Call, Running
  <1>1. TypeOK'
    BY DEF TypeOK, Call, Phases, ItemStates
  <1>2. ItemsFollowPhase' /\ SteadyIsKept' /\ HistoryFits'
    BY <1>0 DEF ItemsFollowPhase, SteadyIsKept, HistoryFits
  <1>3. ItemsAreCurrent' /\ ItemsHaveOverrides'
    BY <1>0 DEF ItemsAreCurrent, ItemsHaveOverrides
  <1> QED BY <1>1, <1>2, <1>3

(* Before the list there are no items to disturb.                          *)
LEMMA GetTokenInv ==
    ASSUME IInv, GetToken
    PROVE  IInv'
  <1> USE DEF IInv, GetToken, world
  <1>1. PICK outcome \in Outcome :
          LET result == TokenResult(outcome, call.endpoint)
          IN  \/ /\ result = "next"
                 /\ call' = [call EXCEPT !.endpoint = @ + 1]
                 /\ UNCHANGED <<item, at, dashboard, readRecord, exhausted>>
              \/ /\ result = "ok"
                 /\ call' = [call EXCEPT !.phase = "parties", !.endpoint = 1]
                 /\ UNCHANGED <<item, at, dashboard, readRecord, exhausted>>
              \/ /\ result = "error"
                 /\ End("failed")
    OBVIOUS
  <1> DEFINE result == TokenResult(outcome, call.endpoint)
  <1>2. CASE result = "error" /\ End("failed")
    BY <1>2, EndInv DEF Running
  <1>3. CASE \E e \in 1..Endpoints, phase \in {"token", "parties"} :
               /\ call' = [call EXCEPT !.endpoint = e, !.phase = phase]
               /\ UNCHANGED <<item, at, dashboard, readRecord, exhausted>>
    <2> PICK e \in 1..Endpoints, phase \in {"token", "parties"} :
               /\ call' = [call EXCEPT !.endpoint = e, !.phase = phase]
               /\ UNCHANGED <<item, at, dashboard, readRecord, exhausted>>
      BY <1>3
    <2>0. call'.kind = call.kind /\ call'.phase = phase
      BY DEF TypeOK, Call
    <2>1. TypeOK'
      BY DEF TypeOK, Call, Phases, ItemStates
    <2>2. ItemsFollowPhase' /\ HistoryFits' /\ SteadyIsKept'
      BY <2>0 DEF ItemsFollowPhase, HistoryFits, SteadyIsKept
    <2>3. ItemsAreCurrent' /\ ItemsHaveOverrides'
      BY <2>0 DEF ItemsAreCurrent, ItemsHaveOverrides
    <2> QED BY <2>1, <2>2, <2>3
  <1>4. CASE /\ result = "next"
             /\ call' = [call EXCEPT !.endpoint = @ + 1]
             /\ UNCHANGED <<item, at, dashboard, readRecord, exhausted>>
    <2>1. call.endpoint + 1 \in 1..Endpoints
      BY <1>4, TokenFallback DEF TypeOK, Call
    <2>2. call' = [call EXCEPT !.endpoint = call.endpoint + 1, !.phase = "token"]
      BY <1>4 DEF TypeOK, Call
    <2> QED BY <1>3, <1>4, <2>1, <2>2
  <1>5. CASE /\ call' = [call EXCEPT !.phase = "parties", !.endpoint = 1]
             /\ UNCHANGED <<item, at, dashboard, readRecord, exhausted>>
    <2>1. 1 \in 1..Endpoints
      BY ConstantsAssumption
    <2>2. call' = [call EXCEPT !.endpoint = 1, !.phase = "parties"]
      BY <1>5 DEF TypeOK, Call
    <2> QED BY <1>3, <1>5, <2>1, <2>2
  <1> QED BY <1>1, <1>2, <1>4, <1>5

(* The first items have the overrides, and every steady party is one.      *)
LEMMA ListItemsInv ==
    ASSUME IInv, call.phase = "parties", NEW parties \in SUBSET Party,
           ListItems(parties), UNCHANGED <<world, seen, steady, readRecord, at>>,
           \/ parties = listing /\ UNCHANGED exhausted
           \/ parties = {} /\ exhausted' = Party
    PROVE  IInv'
  <1> USE DEF IInv, ListItems, world
  <1>0. /\ call.kind = "list" /\ readRecord = {}
        /\ call'.kind = "list" /\ call'.phase = IF ActiveOnly THEN "refresh" ELSE "enrich"
    BY DEF TypeOK, Call, ItemsFollowPhase
  <1>1. TypeOK'
    BY <1>0, ConstantsAssumption DEF TypeOK, Call, Phases, ItemStates
  <1>2. ItemsFollowPhase'
    BY <1>0, ConstantsAssumption DEF ItemsFollowPhase
  <1>3. HistoryFits'
    BY <1>0 DEF HistoryFits
  <1>4. ItemsAreCurrent'
    BY <1>0 DEF ItemsAreCurrent
  <1>5. SteadyIsKept'
    BY <1>0, ConstantsAssumption DEF SteadyIsKept, HistoryFits, TypeOK
  <1>6. ItemsHaveOverrides'
    BY <1>0, ConstantsAssumption DEF ItemsHaveOverrides, Kept
  <1> QED BY <1>1, <1>2, <1>3, <1>4, <1>5, <1>6

LEMMA GetPartiesInv ==
    ASSUME IInv, GetParties
    PROVE  IInv'
  <1> USE DEF GetParties
  <1>1. PICK outcome \in Outcome, object \in BOOLEAN :
          LET result == PartiesResult(outcome, call.endpoint, object)
          IN  \/ /\ result = "next"
                 /\ call' = [call EXCEPT !.endpoint = @ + 1]
                 /\ UNCHANGED <<item, at, dashboard, exhausted>>
              \/ /\ result = "ok"
                 /\ ListItems(Listed)
                 /\ UNCHANGED <<at, exhausted>>
              \/ /\ result = "object"
                 /\ ListItems({})
                 /\ exhausted' = Party
                 /\ UNCHANGED at
              \/ /\ result \in {"error", "object"}
                 /\ End("failed")
              \/ /\ result = "crash"
                 /\ End("crashed")
    OBVIOUS
  <1> DEFINE result == PartiesResult(outcome, call.endpoint, object)
  <1>2. CASE /\ result = "next"
             /\ call' = [call EXCEPT !.endpoint = @ + 1]
             /\ UNCHANGED <<item, at, dashboard, exhausted>>
    <2> USE <1>2 DEF IInv, world
    <2>0. call'.kind = call.kind /\ call'.phase = call.phase
      BY DEF TypeOK, Call
    <2>1. call.endpoint + 1 \in 1..Endpoints
      BY RecordFallback, ConstantsAssumption DEF PartiesResult, TypeOK, Call
    <2>2. TypeOK'
      BY <2>1 DEF TypeOK, Call, Phases, ItemStates
    <2>3. ItemsFollowPhase' /\ HistoryFits' /\ SteadyIsKept'
      BY <2>0 DEF ItemsFollowPhase, HistoryFits, SteadyIsKept
    <2>4. ItemsAreCurrent' /\ ItemsHaveOverrides'
      BY <2>0 DEF ItemsAreCurrent, ItemsHaveOverrides
    <2> QED BY <2>2, <2>3, <2>4
  <1>3. CASE ListItems(Listed) /\ UNCHANGED <<at, exhausted>>
    <2>1. Listed \in SUBSET Party /\ Listed = listing
      BY DEF Listed, IInv, TypeOK
    <2> QED BY <1>3, <2>1, ListItemsInv DEF world
  <1>4. CASE ListItems({}) /\ exhausted' = Party /\ UNCHANGED at
    BY <1>4, ListItemsInv DEF world
  <1>5. CASE End("failed") \/ End("crashed")
    BY <1>5, EndInv DEF Running
  <1> QED BY <1>1, <1>2, <1>3, <1>4, <1>5

(* A registry error of one party ends a details call, and keeps the item of *)
(* a list call.                                                             *)
LEMMA RecordErrorInv ==
    ASSUME IInv, NEW p \in Party, RecordError(p), call.phase = "refresh",
           item[p] \in {"token", "record"},
           UNCHANGED <<world, seen, steady>>
    PROVE  IInv'
  <1>1. CASE call.kind = "list"
    <2> USE <1>1 DEF IInv, RecordError, world
    <2>1. TypeOK'
      BY DEF TypeOK, ItemStates
    <2>2. ItemsFollowPhase' /\ HistoryFits' /\ SteadyIsKept'
      BY DEF TypeOK, ItemsFollowPhase, HistoryFits, SteadyIsKept
    <2>3. ItemsAreCurrent' /\ ItemsHaveOverrides'
      BY ConstantsAssumption DEF TypeOK, ItemsAreCurrent, ItemsHaveOverrides
    <2> QED BY <2>1, <2>2, <2>3
  <1>2. CASE call.kind # "list"
    BY <1>2, EndInv DEF RecordError, Running
  <1> QED BY <1>1, <1>2

(* A record that is not that of a connector was of no steady party.        *)
LEMMA RecordRefusedInv ==
    ASSUME IInv, NEW p \in Party, RecordRefused(p), call.phase = "refresh",
           item[p] = "record", UNCHANGED <<world, seen, steady>>,
           \/ ~Accepts(p) /\ readRecord' = readRecord \cup {p} /\ UNCHANGED exhausted
           \/ exhausted' = exhausted \cup {p} /\ UNCHANGED readRecord
    PROVE  IInv'
  <1> USE DEF IInv, RecordRefused, world
  <1>1. CASE call.kind = "list"
    <2> USE <1>1
    <2>1. TypeOK'
      BY DEF TypeOK, ItemStates
    <2>2. ItemsFollowPhase' /\ HistoryFits' /\ SteadyIsKept'
      BY DEF TypeOK, ItemsFollowPhase, HistoryFits, SteadyIsKept, Accepts
    <2>3. ItemsAreCurrent' /\ ItemsHaveOverrides'
      BY ConstantsAssumption
      DEF TypeOK, ItemsAreCurrent, ItemsHaveOverrides, Kept
    <2> QED BY <2>1, <2>2, <2>3
  <1>2. CASE call.kind # "list"
    <2> USE <1>2
    <2>0. call'.kind = call.kind /\ call'.phase = "failed"
      BY DEF TypeOK, Call
    <2>1. TypeOK'
      BY DEF TypeOK, Call, Phases, ItemStates
    <2>2. ItemsFollowPhase' /\ HistoryFits' /\ SteadyIsKept'
      BY <2>0 DEF ItemsFollowPhase, HistoryFits, SteadyIsKept
    <2>3. ItemsAreCurrent' /\ ItemsHaveOverrides'
      BY <2>0 DEF ItemsAreCurrent, ItemsHaveOverrides, Kept
    <2> QED BY <2>1, <2>2, <2>3
  <1> QED BY <1>1, <1>2

(* An accepted record is that of a party seen as a connector.              *)
LEMMA RecordAcceptedInv ==
    ASSUME IInv, NEW p \in Party, call.phase = "refresh", item[p] = "record",
           Accepts(p),
           item' = [item EXCEPT ![p] = "listed"],
           dashboard' = Rebuilt(p),
           readRecord' = readRecord \cup {p},
           UNCHANGED <<world, seen, steady, call, at, exhausted>>
    PROVE  IInv'
  <1> USE DEF IInv, Accepts, Rebuilt, world
  <1>1. TypeOK'
    BY ConstantsAssumption DEF TypeOK, ItemStates
  <1>2. ItemsFollowPhase' /\ HistoryFits' /\ SteadyIsKept'
    BY DEF TypeOK, ItemsFollowPhase, HistoryFits, SteadyIsKept
  <1>3. ItemsAreCurrent'
    BY DEF TypeOK, ItemsAreCurrent, HistoryFits, Kept
  <1>4. ItemsHaveOverrides'
    BY ConstantsAssumption DEF TypeOK, ItemsHaveOverrides, Kept
  <1> QED BY <1>1, <1>2, <1>3, <1>4

(* The next endpoint changes nothing but at.                               *)
LEMMA NextEndpointInv ==
    ASSUME IInv, NEW p \in Party, at[p] + 1 \in 1..Endpoints,
           at' = [at EXCEPT ![p] = at[p] + 1],
           UNCHANGED <<world, history, call, item, dashboard>>
    PROVE  IInv'
  <1> USE DEF IInv, world, history
  <1>1. TypeOK'
    BY DEF TypeOK, Call, ItemStates
  <1>2. ItemsFollowPhase' /\ HistoryFits' /\ SteadyIsKept'
    BY DEF ItemsFollowPhase, HistoryFits, SteadyIsKept
  <1>3. ItemsAreCurrent' /\ ItemsHaveOverrides'
    BY DEF ItemsAreCurrent, ItemsHaveOverrides
  <1> QED BY <1>1, <1>2, <1>3

LEMMA GetItemTokenInv ==
    ASSUME IInv, NEW p \in Party, GetItemToken(p)
    PROVE  IInv'
  <1> USE DEF GetItemToken, world
  <1>0. PICK outcome \in Outcome :
          LET result == TokenResult(outcome, at[p])
          IN  \/ /\ result = "next"
                 /\ at' = [at EXCEPT ![p] = @ + 1]
                 /\ UNCHANGED <<call, item, dashboard, readRecord, exhausted>>
              \/ /\ result = "ok"
                 /\ item' = [item EXCEPT ![p] = "record"]
                 /\ at' = [at EXCEPT ![p] = 1]
                 /\ UNCHANGED <<call, dashboard, readRecord, exhausted>>
              \/ /\ result = "error"
                 /\ RecordError(p)
    OBVIOUS
  <1>1. CASE /\ TokenResult(outcome, at[p]) = "next"
             /\ at' = [at EXCEPT ![p] = @ + 1]
             /\ UNCHANGED <<call, item, dashboard, readRecord, exhausted>>
    <2>1. at[p] + 1 \in 1..Endpoints
      BY <1>1, TokenFallback DEF IInv, TypeOK
    <2> QED BY <1>1, <2>1, NextEndpointInv DEF history
  <1>2. CASE /\ item' = [item EXCEPT ![p] = "record"]
             /\ at' = [at EXCEPT ![p] = 1]
             /\ UNCHANGED <<call, dashboard, readRecord, exhausted>>
    <2> USE <1>2 DEF IInv
    <2>1. TypeOK'
      BY ConstantsAssumption DEF TypeOK, ItemStates
    <2>2. ItemsFollowPhase' /\ HistoryFits' /\ SteadyIsKept'
      BY DEF TypeOK, ItemsFollowPhase, HistoryFits, SteadyIsKept
    <2>3. ItemsAreCurrent' /\ ItemsHaveOverrides'
      BY ConstantsAssumption
      DEF TypeOK, ItemsAreCurrent, ItemsHaveOverrides, Kept
    <2> QED BY <2>1, <2>2, <2>3
  <1>3. CASE RecordError(p)
    BY <1>3, RecordErrorInv
  <1> QED BY <1>0, <1>1, <1>2, <1>3

LEMMA GetRecordInv ==
    ASSUME IInv, NEW p \in Party, GetRecord(p)
    PROVE  IInv'
  <1> USE DEF GetRecord, world
  <1>0. PICK outcome \in Outcome, object \in BOOLEAN :
          LET result == RecordResult(outcome, at[p], object)
          IN  \/ /\ result = "next"
                 /\ at' = [at EXCEPT ![p] = @ + 1]
                 /\ UNCHANGED <<call, item, dashboard, readRecord, exhausted>>
              \/ /\ result = "ok"
                 /\ Accepts(p)
                 /\ item' = [item EXCEPT ![p] = "listed"]
                 /\ dashboard' = Rebuilt(p)
                 /\ readRecord' = readRecord \cup {p}
                 /\ UNCHANGED <<call, at, exhausted>>
              \/ /\ result = "ok"
                 /\ ~Accepts(p)
                 /\ RecordRefused(p)
                 /\ readRecord' = readRecord \cup {p}
                 /\ UNCHANGED exhausted
              \/ /\ result = "object"
                 /\ RecordRefused(p)
                 /\ exhausted' = exhausted \cup {p}
                 /\ UNCHANGED readRecord
              \/ /\ result = "error"
                 /\ RecordError(p)
              \/ /\ result = "crash"
                 /\ End("crashed")
    OBVIOUS
  <1>1. CASE /\ RecordResult(outcome, at[p], object) = "next"
             /\ at' = [at EXCEPT ![p] = @ + 1]
             /\ UNCHANGED <<call, item, dashboard, readRecord, exhausted>>
    <2>1. at[p] + 1 \in 1..Endpoints
      BY <1>1, RecordFallback, ConstantsAssumption DEF IInv, TypeOK
    <2> QED BY <1>1, <2>1, NextEndpointInv DEF history
  <1>2. CASE /\ Accepts(p)
             /\ item' = [item EXCEPT ![p] = "listed"]
             /\ dashboard' = Rebuilt(p)
             /\ readRecord' = readRecord \cup {p}
             /\ UNCHANGED <<call, at, exhausted>>
    BY <1>2, RecordAcceptedInv
  <1>3. CASE /\ RecordRefused(p)
             /\ \/ ~Accepts(p) /\ readRecord' = readRecord \cup {p} /\ UNCHANGED exhausted
                \/ exhausted' = exhausted \cup {p} /\ UNCHANGED readRecord
    BY <1>3, RecordRefusedInv
  <1>4. CASE RecordError(p)
    BY <1>4, RecordErrorInv
  <1>5. CASE End("crashed")
    BY <1>5, EndInv DEF Running
  <1> QED BY <1>0, <1>1, <1>2, <1>3, <1>4, <1>5

(* Between the gathers the listed items go on.                             *)
LEMMA RefreshedInv ==
    ASSUME IInv, Refreshed
    PROVE  IInv'
  <1> USE DEF IInv, Refreshed, world, history
  <1>0. call'.kind = call.kind /\ call'.phase = "enrich"
    BY DEF TypeOK, Call
  <1>1. TypeOK'
    BY DEF TypeOK, Call, Phases, ItemStates
  <1>2. ItemsFollowPhase' /\ HistoryFits' /\ SteadyIsKept'
    BY <1>0 DEF TypeOK, ItemsFollowPhase, HistoryFits, SteadyIsKept
  <1>3. ItemsAreCurrent' /\ ItemsHaveOverrides'
    BY <1>0, ConstantsAssumption
    DEF TypeOK, ItemsAreCurrent, ItemsHaveOverrides, Kept
  <1> QED BY <1>1, <1>2, <1>3

(* Capabilities only add a dashboard.                                      *)
LEMMA GetCapabilitiesInv ==
    ASSUME IInv, NEW p \in Party, GetCapabilities(p)
    PROVE  IInv'
  <1> USE DEF GetCapabilities, world
  <1>1. CASE End("crashed")
    BY <1>1, EndInv DEF Running
  <1>2. CASE /\ item' = [item EXCEPT ![p] = "done"]
             /\ dashboard \subseteq dashboard' /\ dashboard' \subseteq Party
             /\ UNCHANGED <<call, at, readRecord, exhausted>>
    <2> USE <1>2 DEF IInv
    <2>1. TypeOK'
      BY DEF TypeOK, ItemStates
    <2>2. ItemsFollowPhase' /\ HistoryFits' /\ SteadyIsKept'
      BY DEF TypeOK, ItemsFollowPhase, HistoryFits, SteadyIsKept
    <2>3. ItemsAreCurrent' /\ ItemsHaveOverrides'
      BY ConstantsAssumption
      DEF TypeOK, ItemsAreCurrent, ItemsHaveOverrides, Kept
    <2> QED BY <2>1, <2>2, <2>3
  <1> QED BY <1>1, <1>2, ConstantsAssumption DEF IInv, TypeOK, Published

(* The answer is made of the items that are done.                         *)
LEMMA AnswerInv ==
    ASSUME IInv, Answer
    PROVE  IInv'
  <1> USE DEF IInv, Answer, world, history
  <1>0. call'.kind = call.kind /\ call'.phase = "answered"
    BY DEF TypeOK, Call
  <1>1. TypeOK'
    BY DEF TypeOK, Call, Phases, ItemStates
  <1>2. ItemsFollowPhase' /\ HistoryFits' /\ SteadyIsKept'
    BY <1>0 DEF TypeOK, ItemStates, ItemsFollowPhase, HistoryFits, SteadyIsKept
  <1>3. ItemsAreCurrent' /\ ItemsHaveOverrides'
    BY <1>0 DEF ItemsAreCurrent, ItemsHaveOverrides
  <1> QED BY <1>1, <1>2, <1>3

(* A stuttering step changes nothing.                                      *)
LEMMA StutterInv ==
    ASSUME IInv, UNCHANGED vars
    PROVE  IInv'
  BY DEF IInv, vars, TypeOK, Call, ItemStates, ItemsFollowPhase, HistoryFits,
         ItemsAreCurrent, SteadyIsKept, ItemsHaveOverrides

-----------------------------------------------------------------------------
(* The invariant holds in every state of every call.                       *)
THEOREM ClientInvariant == Spec => []IInv
  <1>1. IInv /\ [Next]_vars => IInv'
    BY StartInv, ChangeInv, PublishInv, GetTokenInv, GetPartiesInv, GetItemTokenInv,
       GetRecordInv, GetCapabilitiesInv, RefreshedInv, AnswerInv, StutterInv
    DEF Next, Client
  <1> QED BY InitInv, <1>1, PTL DEF Spec

(* The state keeps its types.                                              *)
THEOREM ClientTypeCorrect == Spec => []TypeOK
  BY ClientInvariant, PTL DEF IInv

(* A connector in an answer was one during the call, unless its record was *)
(* unreadable.                                                             *)
THEOREM ListsAreCurrent == Spec => []ListedIsCurrent
  <1>1. IInv => ListedIsCurrent
    BY DEF IInv, ItemsAreCurrent, ListedIsCurrent, Done, Kept
  <1> QED BY ClientInvariant, <1>1, PTL

(* No steady connector is missing from an answered list, but for the       *)
(* registry's own failure to give its record.                              *)
THEOREM NoneAreLost == Spec => []NoneIsLost
  <1>1. IInv => NoneIsLost
    BY DEF IInv, TypeOK, ItemsFollowPhase, SteadyIsKept, NoneIsLost, Done
  <1> QED BY ClientInvariant, <1>1, PTL

(* Configured dashboards are in every answer.                              *)
THEOREM OverridesAlwaysSurvive == Spec => []OverridesSurvive
  <1>1. IInv => OverridesSurvive
    BY DEF IInv, ItemsHaveOverrides, OverridesSurvive, Done, Kept
  <1> QED BY ClientInvariant, <1>1, PTL

(* A list call that has its list never fails on a single party.            *)
THEOREM FailuresAreLocal == Spec => OneFailureIsLocal
  <1> DEFINE Local == call.kind = "list" /\ call.phase \in {"refresh", "enrich"}
                         => call'.phase # "failed"
  <1>1. ASSUME TypeOK, [Next]_vars, call.kind = "list",
               call.phase \in {"refresh", "enrich"}
        PROVE  call'.phase # "failed"
    <2>1. CASE \E full \in BOOLEAN : StartList(full)
      BY <1>1, <2>1 DEF StartList, Begin, Running
    <2>2. CASE \E p \in Party : StartDetails(p)
      BY <1>1, <2>2 DEF StartDetails, Begin, Running
    <2>3. CASE (\E p \in Party : Change(p)) \/ Publish
      BY <1>1, <2>3 DEF Change, Publish
    <2>4. CASE GetToken \/ GetParties
      BY <1>1, <2>4 DEF GetToken, GetParties
    <2>5. CASE \E p \in Party : GetItemToken(p)
      BY <1>1, <2>5 DEF GetItemToken, RecordError
    <2>6. CASE \E p \in Party : GetRecord(p)
      BY <1>1, <2>6 DEF GetRecord, RecordError, RecordRefused, End, TypeOK, Call
    <2>7. CASE \E p \in Party : GetCapabilities(p)
      BY <1>1, <2>7 DEF GetCapabilities, End, TypeOK, Call
    <2>8. CASE Refreshed \/ Answer
      BY <1>1, <2>8 DEF Refreshed, Answer, TypeOK, Call
    <2>9. CASE UNCHANGED vars
      BY <1>1, <2>9 DEF vars
    <2> QED BY <1>1, <2>1, <2>2, <2>3, <2>4, <2>5, <2>6, <2>7, <2>8, <2>9
            DEF Next, Client
  <1>2. TypeOK /\ [Next]_vars => [Local]_vars
    BY <1>1
  <1> QED BY ClientTypeCorrect, <1>2, PTL DEF Spec, OneFailureIsLocal
-----------------------------------------------------------------------------
(* Why a call ends: however the registry answers and changes, each step    *)
(* of the client brings the call nearer to its end.                        *)

PhaseRank(phase) ==
    CASE phase = "token"   -> 0
      [] phase = "parties" -> 1
      [] phase = "refresh" -> 2
      [] phase = "enrich"  -> 3
      [] OTHER             -> 4

ItemRank(state) ==
    CASE state = "token"                     -> 0
      [] state = "record"                    -> 1
      [] state \in {"listed", "capabilities"} -> 2
      [] OTHER                               -> 3

\* The request goes on to the next endpoint, which exists.
NextEndpoint ==
    /\ call'.endpoint = call.endpoint + 1
    /\ call'.endpoint <= Endpoints
    /\ call'.phase = call.phase
    /\ UNCHANGED <<item, at>>

\* The coroutine of party p moves on, and no other one does.
ItemMoves(p) ==
    /\ UNCHANGED call
    /\ \A q \in Party \ {p} : item'[q] = item[q] /\ at'[q] = at[q]
    /\ \/ ItemRank(item'[p]) > ItemRank(item[p])
       \/ /\ item'[p] = item[p]
          /\ at'[p] = at[p] + 1
          /\ at'[p] <= Endpoints

Nearer ==
    \/ PhaseRank(call'.phase) > PhaseRank(call.phase)
    \/ NextEndpoint
    \/ \E p \in Party : ItemMoves(p)

\* A step that is not the client's leaves a running call alone: the registry
\* changes, and no second call begins.
Aside == UNCHANGED <<call, item, at>> /\ (Publish \/ \E p \in Party : Change(p))

\* Every step during a call is aside or brings it nearer to its end; there are
\* no more steps of the second kind than phases, and endpoints and states of
\* the items, allow.  With the fairness of FairSpec this is what CallEnds needs:
\* no fallback repeats an endpoint, and no coroutine is sent back.
AlwaysNearer == [][call.phase \in Running => Nearer \/ Aside]_vars

\* The token of a list call.
LEMMA GetTokenNearer ==
    ASSUME TypeOK, GetToken
    PROVE  Nearer
  <1>0. call \in Call /\ call.endpoint \in 1..Endpoints /\ PhaseRank(call.phase) = 0
    BY DEF TypeOK, Call, GetToken, PhaseRank
  <1>1. PICK outcome \in Outcome :
          \/ /\ TokenResult(outcome, call.endpoint) = "next"
             /\ call' = [call EXCEPT !.endpoint = @ + 1]
             /\ UNCHANGED <<item, at>>
          \/ call' = [call EXCEPT !.phase = "parties", !.endpoint = 1]
          \/ call' = [call EXCEPT !.phase = "failed"]
    BY DEF GetToken, End
  <1>2. CASE /\ TokenResult(outcome, call.endpoint) = "next"
             /\ call' = [call EXCEPT !.endpoint = @ + 1]
             /\ UNCHANGED <<item, at>>
    BY <1>0, <1>2, TokenFallback, ConstantsAssumption DEF Nearer, NextEndpoint, Call
  <1>3. CASE \/ call' = [call EXCEPT !.phase = "parties", !.endpoint = 1]
             \/ call' = [call EXCEPT !.phase = "failed"]
    <2>1. call'.phase \in {"parties", "failed"}
      BY <1>0, <1>3 DEF Call
    <2>2. PhaseRank(call'.phase) \in {1, 4}
      BY <2>1 DEF PhaseRank
    <2> QED BY <1>0, <2>2 DEF Nearer
  <1> QED BY <1>1, <1>2, <1>3

\* The registry's list.
LEMMA GetPartiesNearer ==
    ASSUME TypeOK, GetParties
    PROVE  Nearer
  <1>0. call \in Call /\ call.endpoint \in 1..Endpoints /\ PhaseRank(call.phase) = 1
    BY DEF TypeOK, Call, GetParties, PhaseRank
  <1>1. PICK outcome \in Outcome, object \in BOOLEAN :
          \/ /\ RecordResult(outcome, call.endpoint, object) = "next"
             /\ call' = [call EXCEPT !.endpoint = @ + 1]
             /\ UNCHANGED <<item, at>>
          \/ \E phase \in {"refresh", "enrich", "failed", "crashed"} :
                call' = [call EXCEPT !.phase = phase]
    BY DEF GetParties, PartiesResult, ListItems, End
  <1>2. CASE /\ RecordResult(outcome, call.endpoint, object) = "next"
             /\ call' = [call EXCEPT !.endpoint = @ + 1]
             /\ UNCHANGED <<item, at>>
    BY <1>0, <1>2, RecordFallback, ConstantsAssumption DEF Nearer, NextEndpoint, Call
  <1>3. CASE \E phase \in {"refresh", "enrich", "failed", "crashed"} :
                call' = [call EXCEPT !.phase = phase]
    BY <1>0, <1>3 DEF Nearer, Call, PhaseRank
  <1> QED BY <1>1, <1>2, <1>3

\* A call that ends is at the last phase.
LEMMA EndNearer ==
    ASSUME TypeOK, call.phase \in Running, NEW phase \in {"failed", "crashed"},
           call' = [call EXCEPT !.phase = phase]
    PROVE  Nearer
  BY DEF TypeOK, Call, Running, Nearer, PhaseRank

\* An item in a later state is one coroutine's progress.
LEMMA LaterItem ==
    ASSUME TypeOK, NEW p \in Party, NEW s, UNCHANGED call,
           item' = [item EXCEPT ![p] = s], ItemRank(s) > ItemRank(item[p]),
           UNCHANGED at \/ at' = [at EXCEPT ![p] = 1]
    PROVE  Nearer
  <1>1. ItemMoves(p)
    BY DEF TypeOK, ItemMoves
  <1> QED BY <1>1 DEF Nearer

\* So is a request sent to a further endpoint.
LEMMA LaterEndpoint ==
    ASSUME TypeOK, NEW p \in Party, UNCHANGED <<call, item>>,
           at' = [at EXCEPT ![p] = @ + 1], at[p] + 1 \in 1..Endpoints
    PROVE  Nearer
  <1>1. ItemMoves(p)
    BY ConstantsAssumption DEF TypeOK, ItemMoves
  <1> QED BY <1>1 DEF Nearer

\* A registry error leaves the item listed, or ends the call.
LEMMA RecordErrorNearer ==
    ASSUME TypeOK, NEW p \in Party, call.phase \in Running,
           item[p] \in {"token", "record"}, RecordError(p)
    PROVE  Nearer
  <1>1. CASE call.kind = "list"
    <2>1. ItemRank("listed") > ItemRank(item[p])
      BY DEF ItemRank
    <2> QED BY <1>1, <2>1, LaterItem DEF RecordError
  <1>2. CASE call.kind # "list"
    BY <1>2, EndNearer DEF RecordError, End
  <1> QED BY <1>1, <1>2

\* A refused record drops the item, or ends the call.
LEMMA RecordRefusedNearer ==
    ASSUME TypeOK, NEW p \in Party, call.phase \in Running,
           item[p] = "record", RecordRefused(p)
    PROVE  Nearer
  <1>1. CASE call.kind = "list"
    <2>1. ItemRank("dropped") > ItemRank(item[p])
      BY DEF ItemRank
    <2> QED BY <1>1, <2>1, LaterItem DEF RecordRefused
  <1>2. CASE call.kind # "list"
    BY <1>2, EndNearer DEF RecordRefused
  <1> QED BY <1>1, <1>2

\* The token of an item.
LEMMA GetItemTokenNearer ==
    ASSUME TypeOK, NEW p \in Party, GetItemToken(p)
    PROVE  Nearer
  <1>0. at[p] \in 1..Endpoints /\ item[p] = "token" /\ call.phase \in Running
    BY DEF TypeOK, GetItemToken, Running
  <1>1. PICK outcome \in Outcome :
          \/ /\ TokenResult(outcome, at[p]) = "next"
             /\ at' = [at EXCEPT ![p] = @ + 1]
             /\ UNCHANGED <<call, item>>
          \/ /\ item' = [item EXCEPT ![p] = "record"]
             /\ at' = [at EXCEPT ![p] = 1]
             /\ UNCHANGED call
          \/ RecordError(p)
    BY DEF GetItemToken
  <1>2. CASE /\ TokenResult(outcome, at[p]) = "next"
             /\ at' = [at EXCEPT ![p] = @ + 1]
             /\ UNCHANGED <<call, item>>
    BY <1>0, <1>2, TokenFallback, LaterEndpoint
  <1>3. CASE /\ item' = [item EXCEPT ![p] = "record"]
             /\ at' = [at EXCEPT ![p] = 1]
             /\ UNCHANGED call
    <2>1. ItemRank("record") > ItemRank(item[p])
      BY <1>0 DEF ItemRank
    <2> QED BY <1>3, <2>1, LaterItem
  <1>4. CASE RecordError(p)
    BY <1>0, <1>4, RecordErrorNearer
  <1> QED BY <1>1, <1>2, <1>3, <1>4

\* The record of an item.
LEMMA GetRecordNearer ==
    ASSUME TypeOK, NEW p \in Party, GetRecord(p)
    PROVE  Nearer
  <1>0. /\ at[p] \in 1..Endpoints
        /\ item[p] = "record"
        /\ call.phase \in Running
        /\ Outcome \subseteq Outcomes
    BY ConstantsAssumption DEF TypeOK, GetRecord, Running
  <1>1. PICK outcome \in Outcome, object \in BOOLEAN :
          \/ /\ RecordResult(outcome, at[p], object) = "next"
             /\ at' = [at EXCEPT ![p] = @ + 1]
             /\ UNCHANGED <<call, item>>
          \/ /\ item' = [item EXCEPT ![p] = "listed"]
             /\ UNCHANGED <<call, at>>
          \/ RecordRefused(p)
          \/ RecordError(p)
          \/ End("crashed")
    BY DEF GetRecord
  <1>2. CASE /\ RecordResult(outcome, at[p], object) = "next"
             /\ at' = [at EXCEPT ![p] = @ + 1]
             /\ UNCHANGED <<call, item>>
    BY <1>0, <1>2, RecordFallback, LaterEndpoint
  <1>3. CASE /\ item' = [item EXCEPT ![p] = "listed"]
             /\ UNCHANGED <<call, at>>
    <2>1. ItemRank("listed") > ItemRank(item[p])
      BY <1>0 DEF ItemRank
    <2> QED BY <1>3, <2>1, LaterItem
  <1>4. CASE RecordRefused(p)
    BY <1>0, <1>4, RecordRefusedNearer
  <1>5. CASE RecordError(p)
    BY <1>0, <1>5, RecordErrorNearer
  <1>6. CASE End("crashed")
    BY <1>0, <1>6, EndNearer DEF End
  <1> QED BY <1>1, <1>2, <1>3, <1>4, <1>5, <1>6

\* The capabilities of an item.
LEMMA GetCapabilitiesNearer ==
    ASSUME TypeOK, NEW p \in Party, GetCapabilities(p)
    PROVE  Nearer
  <1>0. item[p] = "capabilities" /\ call.phase \in Running
    BY DEF GetCapabilities, Running
  <1>1. CASE item' = [item EXCEPT ![p] = "done"] /\ UNCHANGED <<call, at>>
    <2>1. ItemRank("done") > ItemRank(item[p])
      BY <1>0 DEF ItemRank
    <2> QED BY <1>1, <2>1, LaterItem
  <1>2. CASE End("crashed")
    BY <1>0, <1>2, EndNearer DEF End
  <1> QED BY <1>1, <1>2 DEF GetCapabilities

\* The two gathers return to a later phase.
LEMMA PhaseNearer ==
    ASSUME TypeOK, Refreshed \/ Answer
    PROVE  Nearer
  BY DEF TypeOK, Call, Refreshed, Answer, Nearer, PhaseRank

(* Whatever the registry answers and however it changes, a call cannot go  *)
(* round in a circle: each step of the client takes it to a later phase,   *)
(* takes its request to a further endpoint, or takes one coroutine on      *)
(* while the others stay where they are.                                   *)
THEOREM CallsDoNotCircle == Spec => AlwaysNearer
  <1> DEFINE Step == call.phase \in Running => Nearer \/ Aside
  <1>1. ASSUME TypeOK, Next, call.phase \in Running
        PROVE  Nearer \/ Aside
    <2>1. CASE (\E full \in BOOLEAN : StartList(full)) \/ \E p \in Party : StartDetails(p)
      BY <1>1, <2>1 DEF StartList, StartDetails, Begin
    <2>2. CASE Publish \/ \E p \in Party : Change(p)
      BY <2>2 DEF Aside, Publish, Change
    <2>3. CASE Client
      BY <1>1, <2>3, GetTokenNearer, GetPartiesNearer, GetItemTokenNearer,
         GetRecordNearer, GetCapabilitiesNearer, PhaseNearer
      DEF Client
    <2> QED BY <1>1, <2>1, <2>2, <2>3 DEF Next
  <1>2. TypeOK /\ [Next]_vars => [Step]_vars
    BY <1>1
  <1> QED BY ClientTypeCorrect, <1>2, PTL DEF Spec, AlwaysNearer
=============================================================================
