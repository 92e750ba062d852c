--------------------------- MODULE RegistryClient ---------------------------
(***************************************************************************)
(* IShareParticipantRegistryClient: how the list of connectors, and the    *)
(* details of one, are made from a registry that changes and fails.        *)
(*                                                                         *)
(* A list call gets a token, then the registry's list of parties, then     *)
(* checks every listed party against its full record, all at once          *)
(* (asyncio.gather), then reads the capabilities of those that remain,     *)
(* again all at once.  A details call does the same for one party.  Every  *)
(* answer of an endpoint is one step, so that the coroutines of a gather   *)
(* interleave with each other and with the changes of the registry.        *)
(*                                                                         *)
(* Every GET and POST of the client tries the versioned endpoint and, for  *)
(* some statuses, goes on to the unversioned one.                          *)
(***************************************************************************)
EXTENDS Naturals

CONSTANTS
    Party,           \* the parties of the registry
    ActiveOnly,      \* ISHARE_CONNECTOR_ACTIVE_ONLY
    Endpoints,       \* number of distinct endpoints of the registry, 1 or 2
    WithOverride,    \* parties in ISHARE_CONNECTOR_DASHBOARD_URL_OVERRIDES
    WithCapability,  \* parties whose capability URL is known
    WithService,     \* those whose capabilities publish a dashboard
    Outcome,         \* what an endpoint may answer in this instance
    MaxChanges       \* bound on the number of changes of the registry

\* "missing" is 404, "broken" is 500, "refused" any other error status or a
\* failed connection; "unreadable" is a body that the client rejects (no JSON,
\* a bad signature, an expired token, another issuer), "garbled" one on which
\* its decoding raises an exception of another class.
Outcomes ==
    {"ok", "missing", "broken", "refused", "unreadable", "garbled"}

ASSUME ConstantsAssumption ==
    /\ ActiveOnly \in BOOLEAN
    /\ Endpoints \in Nat \ {0}
    /\ WithOverride \subseteq Party
    /\ WithService \subseteq WithCapability
    /\ WithCapability \subseteq Party
    /\ Outcome \subseteq Outcomes
    /\ MaxChanges \in Nat

VARIABLES
    valid,      \* the parties whose record makes them connectors, now
    listing,    \* those that the registry's list shows as such
    changes,    \* number of changes so far
    call,       \* the call of the client
    item,       \* item[p]: where the coroutine of party p is
    at,         \* at[p]: the endpoint that it is trying
    dashboard,  \* the parties whose item has a dashboard URL
    seen,       \* history: parties valid at some moment of the call
    steady,     \* history: parties valid and listed during all of it
    readRecord, \* history: parties whose record the call has read
    exhausted   \* history: parties whose record no endpoint would give

world == <<valid, listing, changes>>
history == <<seen, steady, readRecord, exhausted>>
vars == <<valid, listing, changes, call, item, at, dashboard,
          seen, steady, readRecord, exhausted>>

-----------------------------------------------------------------------------
Phases == {"idle", "token", "parties", "refresh", "enrich",
           "answered", "failed", "crashed"}

Running == {"token", "parties", "refresh", "enrich"}

Call ==
    [kind: {"none", "list", "details"}, phase: Phases,
     endpoint: 1..Endpoints, full: BOOLEAN]

\* "none" is no item of this call, "listed" an item between the two gathers,
\* "dropped" one that was refused, "done" one that the answer will hold.
ItemStates ==
    {"none", "token", "record", "listed", "dropped", "capabilities", "done"}

TypeOK ==
    /\ valid \subseteq Party
    /\ listing \subseteq Party
    /\ changes \in 0..MaxChanges
    /\ call \in Call
    /\ item \in [Party -> ItemStates]
    /\ at \in [Party -> 1..Endpoints]
    /\ dashboard \subseteq Party
    /\ seen \subseteq Party
    /\ steady \subseteq Party
    /\ readRecord \subseteq Party
    /\ exhausted \subseteq Party

Init ==
    /\ valid \in SUBSET Party
    /\ listing = valid
    /\ changes = 0
    /\ call = [kind |-> "none", phase |-> "idle", endpoint |-> 1, full |-> FALSE]
    /\ item = [p \in Party |-> "none"]
    /\ at = [p \in Party |-> 1]
    /\ dashboard = {}
    /\ seen = {}
    /\ steady = {}
    /\ readRecord = {}
    /\ exhausted = {}

-----------------------------------------------------------------------------
(* The registry.                                                           *)

\* A party is admitted, or revoked (its adherence, role, agreement or tags).
Change(p) ==
    /\ changes < MaxChanges
    /\ changes' = changes + 1
    /\ valid' = IF p \in valid THEN valid \ {p} ELSE valid \cup {p}
    /\ seen' = seen \cup valid'
    /\ steady' = steady \ {p}
    /\ UNCHANGED <<listing, call, item, at, dashboard, readRecord, exhausted>>

\* The list of the middleware catches up with the records.
Publish ==
    /\ listing # valid
    /\ listing' = valid
    /\ UNCHANGED <<valid, changes, call, item, at, dashboard, history>>

-----------------------------------------------------------------------------
(* What the client makes of an answer of an endpoint.                      *)

\* _get_access_token goes on to the next endpoint after a 404 only.  The last
\* error response, decoded like a good one, has no access_token.
TokenResult(outcome, e) ==
    IF outcome = "ok" THEN "ok"
    ELSE IF outcome = "missing" /\ e < Endpoints THEN "next"
    ELSE "error"

\* get_party_record goes on after a 404 or a 500.  When all endpoints have
\* answered so, `response` still holds the last error response and is not None:
\* its body is decoded, and a JSON object is taken for a party.
RecordResultOffByOne(outcome, e, object) ==
    CASE outcome = "ok" -> "ok"
      [] outcome \in {"missing", "broken"} ->
            IF e <= Endpoints THEN "next" ELSE IF object THEN "object" ELSE "error"
      [] outcome \in {"refused", "unreadable"} -> "error"
      [] outcome = "garbled" -> "crash"

RecordResult(outcome, e, object) ==
    CASE outcome = "ok" -> "ok"
      [] outcome \in {"missing", "broken"} ->
            IF e < Endpoints THEN "next" ELSE IF object THEN "object" ELSE "error"
      [] outcome \in {"refused", "unreadable"} -> "error"
      [] outcome = "garbled" -> "crash"

\* _get_parties; an object without a list of parties is refused later, one with
\* an empty list is an answer without connectors.
PartiesResult(outcome, e, object) == RecordResult(outcome, e, object)

\* get_capabilities: one endpoint.
CapabilitiesResult(outcome) ==
    CASE outcome = "ok" -> "ok"
      [] outcome = "garbled" -> "crash"
      [] OTHER -> "error"

-----------------------------------------------------------------------------
(* The calls.                                                              *)

Begin(kind, phase, full) ==
    /\ call.phase \notin Running
    /\ call' = [kind |-> kind, phase |-> phase, endpoint |-> 1, full |-> full]
    /\ at' = [p \in Party |-> 1]
    /\ dashboard' = {}
    /\ seen' = valid
    /\ steady' = valid \cap listing
    /\ readRecord' = {}
    /\ exhausted' = {}
    /\ UNCHANGED world

\* get_connector_list(include_details = full)
StartList(full) ==
    /\ Begin("list", "token", full)
    /\ item' = [p \in Party |-> "none"]

\* get_connector_details(party_id)
StartDetails(p) ==
    /\ Begin("details", "refresh", TRUE)
    /\ item' = [q \in Party |-> IF q = p THEN "token" ELSE "none"]

\* The call ends in an exception: a registry error (502 or 404), or one that
\* no handler expects (500).  gather does not wait for the other coroutines;
\* they go on, but nobody reads their items.
End(phase) ==
    /\ call' = [call EXCEPT !.phase = phase]
    /\ UNCHANGED <<item, at, dashboard, readRecord, exhausted>>

GetToken ==
    /\ call.phase = "token"
    /\ \E outcome \in Outcome :
          LET result == TokenResult(outcome, call.endpoint)
          IN  \/ /\ result = "next"
                 /\ call' = [call EXCEPT !.endpoint = @ + 1]
                 /\ UNCHANGED <<item, at, dashboard, readRecord, exhausted>>
              \/ /\ result = "ok"
                 /\ call' = [call EXCEPT !.phase = "parties", !.endpoint = 1]
                 /\ UNCHANGED <<item, at, dashboard, readRecord, exhausted>>
              \/ /\ result = "error"
                 /\ End("failed")
    /\ UNCHANGED <<world, seen, steady>>

\* The items of the list, of the parties that the client's own filter passes:
\* whatever the registry returns is checked again, party by party.
Listed == listing

ListItems(parties) ==
    /\ call' = [call EXCEPT !.phase = IF ActiveOnly THEN "refresh" ELSE "enrich"]
    /\ item' = [p \in Party |->
                  IF p \notin parties THEN "none"
                  ELSE IF ActiveOnly THEN "token"
                  ELSE IF call.full /\ p \in WithCapability THEN "capabilities"
                  ELSE "done"]
    /\ dashboard' = parties \cap WithOverride

GetParties ==
    /\ call.phase = "parties"
    /\ \E outcome \in Outcome, object \in BOOLEAN :
          LET result == PartiesResult(outcome, call.endpoint, object)
          IN  \/ /\ result = "next"
                 /\ call' = [call EXCEPT !.endpoint = @ + 1]
                 /\ UNCHANGED <<item, at, dashboard, exhausted>>
              \/ /\ result = "ok"
                 /\ ListItems(Listed)
                 /\ UNCHANGED <<at, exhausted>>
              \/ /\ result = "object"
                 /\ ListItems({})
                 /\ exhausted' = Party
                 /\ UNCHANGED at
              \/ /\ result \in {"error", "object"}
                 /\ End("failed")
              \/ /\ result = "crash"
                 /\ End("crashed")
    /\ UNCHANGED <<world, seen, steady, readRecord>>

\* What a registry error in the coroutine of party p does: the listed item
\* stays as it is; the call for one party's details fails.
RecordErrorFails(p) == End("failed")

RecordErrorDrops(p) ==
    IF call.kind = "list"
      THEN /\ item' = [item EXCEPT ![p] = "dropped"]
           /\ UNCHANGED <<call, at, dashboard, readRecord, exhausted>>
      ELSE End("failed")

RecordError(p) ==
    IF call.kind = "list"
      THEN /\ item' = [item EXCEPT ![p] = "listed"]
           /\ UNCHANGED <<call, at, dashboard, readRecord, exhausted>>
      ELSE End("failed")

\* The filter says that the record is not that of a connector.
RecordRefused(p) ==
    IF call.kind = "list"
      THEN /\ item' = [item EXCEPT ![p] = "dropped"]
           /\ UNCHANGED <<call, at, dashboard>>
      ELSE /\ call' = [call EXCEPT !.phase = "failed"]
           /\ UNCHANGED <<item, at, dashboard>>

GetItemToken(p) ==
    /\ call.phase = "refresh"
    /\ item[p] = "token"
    /\ \E outcome \in Outcome :
          LET result == TokenResult(outcome, at[p])
          IN  \/ /\ result = "next"
                 /\ at' = [at EXCEPT ![p] = @ + 1]
                 /\ UNCHANGED <<call, item, dashboard, readRecord, exhausted>>
              \/ /\ result = "ok"
                 /\ item' = [item EXCEPT ![p] = "record"]
                 /\ at' = [at EXCEPT ![p] = 1]
                 /\ UNCHANGED <<call, dashboard, readRecord, exhausted>>
              \/ /\ result = "error"
                 /\ RecordError(p)
    /\ UNCHANGED <<world, seen, steady>>

AcceptsAny(p) == TRUE

\* The item is made anew from the record, with the overrides.
Rebuilt(p) == (dashboard \ {p}) \cup ({p} \cap WithOverride)

\* _to_party_list_item returns an item for the record of party p.
Accepts(p) == p \in valid

GetRecord(p) ==
    /\ call.phase = "refresh"
    /\ item[p] = "record"
    /\ \E outcome \in Outcome, object \in BOOLEAN :
          LET result == RecordResult(outcome, at[p], object)
          IN  \/ /\ result = "next"
                 /\ at' = [at EXCEPT ![p] = @ + 1]
                 /\ UNCHANGED <<call, item, dashboard, readRecord, exhausted>>
              \/ /\ result = "ok"
                 /\ Accepts(p)
                 /\ item' = [item EXCEPT ![p] = "listed"]
                 /\ dashboard' = Rebuilt(p)
                 /\ readRecord' = readRecord \cup {p}
                 /\ UNCHANGED <<call, at, exhausted>>
              \/ /\ result = "ok"
                 /\ ~Accepts(p)
                 /\ RecordRefused(p)
                 /\ readRecord' = readRecord \cup {p}
                 /\ UNCHANGED exhausted
              \/ /\ result = "object"
                 /\ RecordRefused(p)
                 /\ exhausted' = exhausted \cup {p}
                 /\ UNCHANGED readRecord
              \/ /\ result = "error"
                 /\ RecordError(p)
              \/ /\ result = "crash"
                 /\ End("crashed")
    /\ UNCHANGED <<world, seen, steady>>

RefreshedWhenAllListed ==
    /\ call.phase = "refresh"
    /\ \A p \in Party : item[p] \in {"none", "listed"}
    /\ call' = [call EXCEPT !.phase = "enrich"]
    /\ item' = [p \in Party |->
                  IF item[p] # "listed" THEN item[p]
                  ELSE IF call.full /\ p \in WithCapability THEN "capabilities"
                  ELSE "done"]
    /\ UNCHANGED <<world, at, dashboard, history>>

\* gather returns when every coroutine has.
Refreshed ==
    /\ call.phase = "refresh"
    /\ \A p \in Party : item[p] \notin {"token", "record"}
    /\ call' = [call EXCEPT !.phase = "enrich"]
    /\ item' = [p \in Party |->
                  IF item[p] # "listed" THEN item[p]
                  ELSE IF call.full /\ p \in WithCapability THEN "capabilities"
                  ELSE "done"]
    /\ UNCHANGED <<world, at, dashboard, history>>

\* resolve_service_endpoint(capabilities, "dashboard")
Published(p) == {p} \cap WithService

\* _enrich_connector_item: an error of the connector's own endpoint is ignored.
GetCapabilities(p) ==
    /\ call.phase = "enrich"
    /\ item[p] = "capabilities"
    /\ \E outcome \in Outcome :
          LET result == CapabilitiesResult(outcome)
          IN  \/ /\ result \in {"ok", "error"}
                 /\ item' = [item EXCEPT ![p] = "done"]
                 /\ dashboard' = IF result = "ok"
                                   THEN dashboard \cup Published(p)
                                   ELSE dashboard
                 /\ UNCHANGED <<call, at, readRecord, exhausted>>
              \/ /\ result = "crash"
                 /\ End("crashed")
    /\ UNCHANGED <<world, seen, steady>>

Answer ==
    /\ call.phase = "enrich"
    /\ \A p \in Party : item[p] # "capabilities"
    /\ call' = [call EXCEPT !.phase = "answered"]
    /\ UNCHANGED <<world, item, at, dashboard, history>>

-----------------------------------------------------------------------------
Client ==
    \/ GetToken
    \/ GetParties
    \/ \E p \in Party : GetItemToken(p) \/ GetRecord(p) \/ GetCapabilities(p)
    \/ Refreshed
    \/ Answer

Next ==
    \/ \E full \in BOOLEAN : StartList(full)
    \/ \E p \in Party : StartDetails(p) \/ Change(p)
    \/ Publish
    \/ Client

Spec == Init /\ [][Next]_vars

\* Every request of httpx has a timeout: it returns or raises.
FairSpec == Spec /\ WF_vars(Client)

-----------------------------------------------------------------------------
(* Properties.                                                             *)

Done == {p \in Party : item[p] = "done"}

\* A connector in an answer was a connector at some moment of the call; only
\* in a list, and only if its own record could not be read, does the client
\* rely on what the list of the registry said of it.
ListedIsCurrent ==
    call.phase = "answered" =>
        \A p \in Done : p \in seen \/ (call.kind = "list" /\ p \notin readRecord)

\* A party that is a connector during the whole call, and is listed, is in the
\* answer, whatever the endpoints of the others do and whichever of its own
\* fail, unless no endpoint of the registry would give its record.
NoneIsLost ==
    (call.phase = "answered" /\ call.kind = "list") =>
        steady \subseteq Done \cup exhausted

\* Once there is a list, no registry error of a single party makes the call fail.
OneFailureIsLocal ==
    [][call.kind = "list" /\ call.phase \in {"refresh", "enrich"}
          => call'.phase # "failed"]_vars

\* The configured dashboard URL of a connector outlasts the refresh of its item
\* and the failures of its capabilities endpoint.
OverridesSurvive ==
    call.phase = "answered" => Done \cap WithOverride \subseteq dashboard

\* Every call ends.
CallEnds == call.phase \in Running ~> call.phase \notin Running

\* An IShareParticipantRegistryError is "raised when the Participant Registry
\* or a participant endpoint fails", and a list then keeps the item: a party is
\* dropped only for what its record says.
DroppedByRecord == \A p \in Party : item[p] = "dropped" => p \in readRecord
=============================================================================
