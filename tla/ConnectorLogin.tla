--------------------------- MODULE ConnectorLogin --------------------------
(***************************************************************************)
(* Signing in through a connector's identity provider.                     *)
(*                                                                         *)
(* /connectors/login asks the registry, the connector and the provider     *)
(* where to send the browser, and keeps what the way back needs in         *)
(* connector_login_cache, a TTLCache under a fresh `state`.  The provider  *)
(* sends the browser to /connectors/return with a code and the state; the  *)
(* entry is taken out of the cache, the code exchanged for an id token,    *)
(* and a session made of it.                                               *)
(*                                                                         *)
(* A login attempt stands for its state and its nonce, which are uuids.    *)
(* The provider, the browser and the clock are the environment: the way    *)
(* back may be walked late, never, or more than once, and with the code of *)
(* another attempt at the same provider.                                   *)
(***************************************************************************)
EXTENDS Naturals, FiniteSets

CONSTANTS
    Login,        \* attempts to log in
    Return,       \* calls of /connectors/return
    Connector,    \* party ids of connectors
    Provider,     \* party ids of identity providers
    Person,       \* people who have an account with the providers
    CacheSize,    \* maxsize of connector_login_cache
    MaxRestarts,  \* bound on the restarts of the server
    None

ASSUME ConnectorLoginAssumption ==
    /\ IsFiniteSet(Login)
    /\ CacheSize \in Nat \ {0}
    /\ MaxRestarts \in Nat
    /\ None \notin Login \cup Return \cup Connector \cup Provider \cup Person
    /\ Connector \cap Person = {}    \* a party id names no person

VARIABLES
    login,     \* the calls of /connectors/login
    cache,     \* the states in connector_login_cache ...
    born,      \* ... and when they were put there
    stored,    \* number of states put there since the start of the server
    expired,   \* states that have outlived the ttl
    code,      \* the codes that the providers gave out
    spent,     \* the attempts whose code was exchanged
    back,      \* the calls of /connectors/return
    restarts

cacheVars == <<cache, born, stored, expired>>
providerVars == <<code, spent>>
vars == <<login, cacheVars, providerVars, back, restarts>>

-----------------------------------------------------------------------------
LoginPhase == {"idle", "details", "capabilities", "provider", "endpoints",
               "form", "refused", "lost"}

LoginCall == [phase : LoginPhase, connector : Connector \cup {None},
              idp : Provider \cup {None}]

ASSUME NoneIsNoCall == None \notin LoginCall

BackPhase == {"idle", "arrived", "exchanging", "idps", "session", "error", "lost"}

\* context: the entry taken from the cache; name: who the session is for.
BackCall == [phase : BackPhase, state : Login \cup {None}, code : Login \cup {None},
             context : LoginCall \cup {None}, nonce : Login \cup {None},
             name : Person \cup Connector \cup {None}]

TypeOK ==
    /\ login \in [Login -> LoginCall]
    /\ cache \subseteq Login
    /\ born \in [Login -> Nat]
    /\ stored \in Nat
    /\ expired \subseteq Login
    /\ code \in [Login -> Person \cup {None}]
    /\ spent \subseteq Login
    /\ back \in [Return -> BackCall]
    /\ restarts \in 0..MaxRestarts

NoBack == [phase |-> "idle", state |-> None, code |-> None, context |-> None,
           nonce |-> None, name |-> None]

Init ==
    /\ login = [l \in Login |-> [phase |-> "idle", connector |-> None, idp |-> None]]
    /\ cache = {} /\ born = [l \in Login |-> 0] /\ stored = 0 /\ expired = {}
    /\ code = [l \in Login |-> None] /\ spent = {}
    /\ back = [r \in Return |-> NoBack]
    /\ restarts = 0

-----------------------------------------------------------------------------
(* The cache.  An entry that is read is taken out, so the least recently   *)
(* used entry is the one put in first, as is the next one to expire.       *)

Oldest(l) == l \in cache /\ \A k \in cache : born[l] <= born[k]

EvictedEarly == {l \in cache : Cardinality(cache) + 1 >= CacheSize /\ Oldest(l)}

\* The entry that makes room for a new one, if one must.
Evicted == {l \in cache : Cardinality(cache) >= CacheSize /\ Oldest(l)}

Put(l) ==
    /\ cache' = (cache \ Evicted) \cup {l}
    /\ born' = [born EXCEPT ![l] = stored + 1]
    /\ stored' = stored + 1
    /\ UNCHANGED expired

Expire(l) ==
    /\ Oldest(l)
    /\ cache' = cache \ {l}
    /\ expired' = expired \cup {l}
    /\ UNCHANGED <<login, born, stored, providerVars, back, restarts>>

-----------------------------------------------------------------------------
(* /connectors/login, one action for what follows each await.              *)

RequestLogin(l, c) ==
    /\ login[l].phase = "idle"
    /\ login' = [login EXCEPT ![l] = [phase |-> "details", connector |-> c, idp |-> None]]
    /\ UNCHANGED <<cacheVars, providerVars, back, restarts>>

Refuse(l) ==
    /\ login' = [login EXCEPT ![l].phase = "refused"]
    /\ UNCHANGED <<cacheVars, providerVars, back, restarts>>

\* The connector's record names its capability_url, or the answer is 409.
GotDetails(l) ==
    /\ login[l].phase = "details"
    /\ login' = [login EXCEPT ![l].phase = "capabilities"]
    /\ UNCHANGED <<cacheVars, providerVars, back, restarts>>

\* The connector declares its associated identity provider.
GotCapabilities(l, p) ==
    /\ login[l].phase = "capabilities"
    /\ login' = [login EXCEPT ![l].phase = "provider", ![l].idp = p]
    /\ UNCHANGED <<cacheVars, providerVars, back, restarts>>

\* Without a capability url of the provider, its capabilities are not asked for.
GotProvider(l) ==
    /\ login[l].phase = "provider"
    /\ login' = [login EXCEPT ![l].phase = "endpoints"]
    /\ UNCHANGED <<cacheVars, providerVars, back, restarts>>

\* Both endpoints of the provider are known: the state is put in the cache, and
\* the request JWT is made after that, which may still fail.
SendForm(l) ==
    /\ login[l].phase = "endpoints"
    /\ Put(l)
    /\ \E phase \in {"form", "refused"} : login' = [login EXCEPT ![l].phase = phase]
    /\ UNCHANGED <<providerVars, back, restarts>>

Fail(l) ==
    /\ login[l].phase \in {"details", "capabilities", "provider", "endpoints"}
    /\ Refuse(l)

-----------------------------------------------------------------------------
(* The provider and the browser.                                           *)

Authenticate(l, p) ==
    /\ login[l].phase = "form"
    /\ code[l] = None
    /\ code' = [code EXCEPT ![l] = p]
    /\ UNCHANGED <<login, cacheVars, spent, back, restarts>>

\* The browser comes back with the state of l and a code of the same provider.
ComeBack(r, l, k) ==
    /\ back[r].phase = "idle"
    /\ code[k] # None
    /\ login[l].phase = "form"
    /\ login[l].idp = login[k].idp
    /\ back' = [back EXCEPT ![r] = [NoBack EXCEPT !.phase = "arrived", !.state = l, !.code = k]]
    /\ UNCHANGED <<login, cacheVars, providerVars, restarts>>

-----------------------------------------------------------------------------
(* /connectors/return.                                                     *)

Kept(l) == cache

\* connector_login_cache.pop(state)
Popped(l) == cache \ {l}

TakeContext(r) ==
    LET l == back[r].state
    IN  /\ back[r].phase = "arrived"
        /\ \/ /\ l \notin cache
              /\ back' = [back EXCEPT ![r].phase = "idps"]
              /\ UNCHANGED <<cache, expired>>
           \/ /\ l \in cache
              /\ cache' = Popped(l)
              /\ back' = [back EXCEPT ![r].phase = "exchanging", ![r].context = login[l]]
              /\ UNCHANGED expired
           \/ \* The ttl ends between `state not in` and `pop`, which raises.
              /\ Oldest(l)
              /\ cache' = cache \ {l}
              /\ expired' = expired \cup {l}
              /\ back' = [back EXCEPT ![r].phase = "error"]
        /\ UNCHANGED <<login, born, stored, providerVars, restarts>>

NonceIsNeverWrong(r, nonce) == FALSE

\* The nonces are compared when the token has one.
NonceIsWrong(r, nonce) == nonce # None /\ nonce # back[r].state

NameOfProvider(r, sub) == IF sub # None THEN sub ELSE back[r].context.idp

\* name or sub of the token, or the party id of the connector.
NameOf(r, sub) == IF sub # None THEN sub ELSE back[r].context.connector

\* The provider exchanges a code once; the token may lack the nonce and the
\* claims that name the person.
Exchanged(r) ==
    LET k == back[r].code
    IN  /\ back[r].phase = "exchanging"
        /\ k \notin spent
        /\ spent' = spent \cup {k}
        /\ \E nonce \in {None, k}, sub \in {None, code[k]} :
              back' = [back EXCEPT
                 ![r].phase = IF NonceIsWrong(r, nonce) THEN "idps" ELSE "session",
                 ![r].nonce = nonce,
                 ![r].name = IF NonceIsWrong(r, nonce) THEN None ELSE NameOf(r, sub)]
        /\ UNCHANGED <<login, cacheVars, code, restarts>>

\* IShareParticipantRegistryError leads back to the list; a missing key or
\* certificate (IShareConfigurationError) is not caught.
ExchangeFails(r) ==
    /\ back[r].phase = "exchanging"
    /\ \E phase \in {"idps", "error"} : back' = [back EXCEPT ![r].phase = phase]
    /\ UNCHANGED <<login, cacheVars, providerVars, restarts>>

-----------------------------------------------------------------------------
\* The cache and the calls under way are lost.
Restart ==
    /\ restarts < MaxRestarts
    /\ restarts' = restarts + 1
    /\ cache' = {}
    /\ login' = [l \in Login |->
          IF login[l].phase \in {"details", "capabilities", "provider", "endpoints"}
            THEN [login[l] EXCEPT !.phase = "lost"] ELSE login[l]]
    /\ back' = [r \in Return |->
          IF back[r].phase \in {"arrived", "exchanging"}
            THEN [back[r] EXCEPT !.phase = "lost"] ELSE back[r]]
    /\ expired' = expired \cup {l \in Login : born[l] > 0}
    /\ UNCHANGED <<born, stored, providerVars>>

LoginStep(l) ==
    \/ GotDetails(l) \/ (\E p \in Provider : GotCapabilities(l, p))
    \/ GotProvider(l) \/ SendForm(l) \/ Fail(l)

BackStep(r) == TakeContext(r) \/ Exchanged(r) \/ ExchangeFails(r)

Next ==
    \/ \E l \in Login, c \in Connector : RequestLogin(l, c)
    \/ \E l \in Login : LoginStep(l) \/ Expire(l)
    \/ \E l \in Login, p \in Person : Authenticate(l, p)
    \/ \E r \in Return, l, k \in Login : ComeBack(r, l, k)
    \/ \E r \in Return : BackStep(r)
    \/ Restart

Spec == Init /\ [][Next]_vars

-----------------------------------------------------------------------------
(* Properties.                                                             *)

Redeems(r, l) == back[r].context # None /\ back[r].state = l

\* A state leads to one exchange at most, however often the browser comes back
\* with it and whatever the calls wait for meanwhile.
RedeemedOnce ==
    \A l \in Login, q, r \in Return : Redeems(q, l) /\ Redeems(r, l) => q = r

\* The cache keeps within its size.
CacheIsBounded == Cardinality(cache) <= CacheSize

\* An attempt in which the browser has been given the form can be completed
\* until its time is up, unless CacheSize attempts were made after it.
LoginSurvives ==
    \A l \in Login :
        (born[l] > 0 /\ l \notin expired /\ \A r \in Return : ~Redeems(r, l))
            => l \in cache \/ stored - born[l] >= CacheSize

\* A session is for the person whom the provider authenticated for this very
\* attempt, when the token says for which attempt it is.
SessionOfThePerson ==
    \A r \in Return :
        (back[r].phase = "session" /\ back[r].nonce # None /\ back[r].name \in Person)
            => back[r].name = code[back[r].state]

=============================================================================
