------------------------ MODULE ConnectorLoginProofs -----------------------
(***************************************************************************)
(* The invariants of ConnectorLogin for every number of attempts, ways     *)
(* back and entries of the cache.                                          *)
(*                                                                         *)
(* They become inductive with two facts about the data: CacheFits numbers  *)
(* the entries in the order in which they were put into the cache, and     *)
(* WayBackFits says that what a way back has taken is in the cache no more.*)
(***************************************************************************)
EXTENDS ConnectorLogin, FiniteSetTheorems, TLAPS

CacheFits ==
    /\ \A l \in cache : born[l] > 0
    /\ \A l \in Login : born[l] > 0 => login[l].phase \in {"form", "refused"}
    /\ \A l \in Login : born[l] <= stored
    /\ \A k, l \in Login : born[k] > 0 /\ born[k] = born[l] => k = l

WayBackFits ==
    \A r \in Return :
        /\ back[r].phase # "idle" => back[r].state \in Login /\ back[r].code \in Login
        /\ back[r].phase \in {"idle", "arrived"} => back[r].context = None
        /\ back[r].phase \in {"exchanging", "session"} => back[r].context # None
        /\ back[r].context # None =>
              /\ back[r].state \in Login \ cache
              /\ born[back[r].state] > 0

IInv ==
    /\ TypeOK
    /\ CacheFits
    /\ WayBackFits
    /\ RedeemedOnce
    /\ CacheIsBounded
    /\ LoginSurvives
    /\ SessionOfThePerson

-----------------------------------------------------------------------------
(* The cache is finite, as only finitely many attempts are made.           *)
LEMMA CacheIsFinite ==
    ASSUME TypeOK
    PROVE  IsFiniteSet(cache) /\ Cardinality(cache) \in Nat
  BY FS_Subset, FS_CardinalityType, ConnectorLoginAssumption DEF TypeOK

(* Of the entries of a cache, one is the oldest.                           *)
LEMMA OneIsOldest ==
    ASSUME TypeOK, cache # {}
    PROVE  \E l \in cache : Oldest(l)
  <1> DEFINE births == {born[l] : l \in cache}
  <1>1. births \subseteq Nat /\ births # {}
    BY DEF TypeOK
  <1>2. PICK first \in births : \A n \in births : ~(<<n, first>> \in OpToRel(<, Nat))
    BY <1>1, NatLessThanWellFounded, WFMin
  <1>3. ASSUME NEW n \in births, n < first
        PROVE  FALSE
    <2>1. <<n, first>> \in OpToRel(<, Nat)
      BY <1>1, <1>3 DEF OpToRel
    <2> QED BY <1>2, <2>1
  <1>4. PICK l \in cache : first = born[l]
    OBVIOUS
  <1>5. Oldest(l)
    <2>1. \A k \in cache : ~(born[k] < first) /\ born[k] \in Nat
      BY <1>3 DEF TypeOK
    <2> QED BY <1>4, <2>1 DEF Oldest, TypeOK
  <1> QED BY <1>5

(* As many states as the cache holds were put there since its oldest one.  *)
LEMMA OldestIsBehind ==
    ASSUME TypeOK, CacheFits, NEW l \in Login, Oldest(l)
    PROVE  Cardinality(cache) <= stored - born[l] + 1
  <1> DEFINE births == born[l]..stored
             number == [k \in cache |-> born[k]]
  <1>0. /\ born[l] \in Nat /\ stored \in Nat
        /\ born[l] <= stored /\ cache \subseteq Login
    BY DEF TypeOK, CacheFits
  <1>1. \A k \in cache : born[k] \in births /\ born[k] > 0
    BY <1>0 DEF TypeOK, CacheFits, Oldest
  <1>2. \A j, k \in cache : number[j] = number[k] => j = k
    BY <1>0, <1>1 DEF CacheFits
  <1>3. number \in Injection(cache, births)
    BY <1>1, <1>2 DEF Injection, IsInjective
  <1>4. IsFiniteSet(births) /\ Cardinality(births) = stored - born[l] + 1
    <2>1. born[l] \in Int /\ stored \in Int
      BY <1>0
    <2>2. /\ IsFiniteSet(born[l]..stored)
          /\ Cardinality(born[l]..stored) =
                IF born[l] > stored THEN 0 ELSE stored - born[l] + 1
      BY <2>1, FS_Interval, Zenon
    <2> QED BY <1>0, <2>2
  <1> HIDE DEF births, number
  <1> QED BY <1>3, <1>4, FS_Injection

(* Making room keeps the cache within its size.                            *)
LEMMA RoomIsMade ==
    ASSUME TypeOK, CacheIsBounded, NEW l \in Login
    PROVE  Cardinality((cache \ Evicted) \cup {l}) <= CacheSize
  <1> DEFINE rest == cache \ Evicted
  <1>1. IsFiniteSet(cache) /\ Cardinality(cache) \in Nat /\ CacheSize \in Nat \ {0}
    BY CacheIsFinite, ConnectorLoginAssumption
  <1>2. /\ IsFiniteSet(rest) /\ Cardinality(rest) \in Nat
        /\ Cardinality(rest) <= Cardinality(cache)
        /\ Cardinality(rest) = Cardinality(cache) => rest = cache
    BY <1>1, FS_Subset, FS_CardinalityType
  <1>3. Cardinality(rest) < CacheSize
    <2>1. CASE Cardinality(cache) < CacheSize
      BY <1>1, <1>2, <2>1
    <2>2. CASE Cardinality(cache) >= CacheSize
      <3>1. cache # {}
        BY <1>1, <2>2, FS_EmptySet
      <3>2. Evicted # {} /\ Evicted \subseteq cache
        BY <2>2, <3>1, OneIsOldest DEF Evicted
      <3>3. Cardinality(rest) # Cardinality(cache)
        BY <1>2, <3>2
      <3> QED BY <1>1, <1>2, <3>3 DEF CacheIsBounded
    <2> QED BY <1>1, <2>1, <2>2
  <1> HIDE DEF rest
  <1>4. Cardinality(rest \cup {l}) =
           IF l \in rest THEN Cardinality(rest) ELSE Cardinality(rest) + 1
    BY <1>2, FS_AddElement, Zenon
  <1>5. Cardinality(rest \cup {l}) \in Nat
    BY <1>2, <1>4
  <1>6. Cardinality(rest \cup {l}) <= CacheSize
    BY <1>1, <1>2, <1>3, <1>4, <1>5
  <1> QED BY <1>6 DEF rest

(* What is evicted is as many attempts behind as the cache holds.          *)
LEMMA EvictedIsBehind ==
    ASSUME TypeOK, CacheFits, NEW l \in Evicted
    PROVE  (stored + 1) - born[l] >= CacheSize
  <1>1. l \in Login /\ Oldest(l) /\ Cardinality(cache) >= CacheSize
    BY DEF Evicted, TypeOK
  <1>2. Cardinality(cache) <= stored - born[l] + 1
    BY <1>1, OldestIsBehind
  <1> QED BY <1>1, <1>2, CacheIsFinite, ConnectorLoginAssumption DEF TypeOK

(* A cache that loses entries stays within its size.                       *)
LEMMA SmallerIsBounded ==
    ASSUME TypeOK, CacheIsBounded, cache' \subseteq cache
    PROVE  CacheIsBounded'
  <1>1. Cardinality(cache') <= Cardinality(cache) /\ Cardinality(cache') \in Nat
    BY CacheIsFinite, FS_Subset, FS_CardinalityType
  <1> QED BY <1>1, CacheIsFinite, ConnectorLoginAssumption DEF CacheIsBounded

-----------------------------------------------------------------------------
(* Before the first attempt the cache is empty.                            *)
LEMMA InitInv == Init => IInv
  <1> SUFFICES ASSUME Init PROVE IInv
    OBVIOUS
  <1>1. TypeOK /\ CacheFits /\ WayBackFits
    BY ConnectorLoginAssumption
    DEF Init, TypeOK, LoginCall, LoginPhase, BackCall, BackPhase, NoBack, CacheFits,
        WayBackFits
  <1>2. RedeemedOnce /\ LoginSurvives /\ SessionOfThePerson
    BY ConnectorLoginAssumption
    DEF Init, NoBack, RedeemedOnce, Redeems, LoginSurvives, SessionOfThePerson
  <1>3. CacheIsBounded
    BY FS_EmptySet, ConnectorLoginAssumption DEF Init, CacheIsBounded
  <1> QED BY <1>1, <1>2, <1>3 DEF IInv

(* A call of /connectors/login on its way leaves the cache alone.          *)
LEMMA LoginMoves ==
    ASSUME IInv, NEW l \in Login, NEW call \in LoginCall,
           login' = [login EXCEPT ![l] = call],
           login[l].phase \notin {"form", "refused"},
           UNCHANGED <<cacheVars, providerVars, back, restarts>>
    PROVE  IInv'
  <1> USE DEF IInv, cacheVars, providerVars
  <1>1. TypeOK'
    BY DEF TypeOK
  <1>2. CacheFits'
    BY DEF TypeOK, CacheFits
  <1>3. WayBackFits' /\ RedeemedOnce' /\ CacheIsBounded' /\ LoginSurvives' /\ SessionOfThePerson'
    BY DEF WayBackFits, RedeemedOnce, Redeems, CacheIsBounded, LoginSurvives, SessionOfThePerson
  <1> QED BY <1>1, <1>2, <1>3

(* ... and so does every step of it before the form.                       *)
LEMMA LoginStepsInv ==
    ASSUME IInv, NEW l \in Login,
           \/ \E c \in Connector : RequestLogin(l, c)
           \/ GotDetails(l) \/ (\E p \in Provider : GotCapabilities(l, p))
           \/ GotProvider(l) \/ Fail(l)
    PROVE  IInv'
  <1>0. login[l] \in LoginCall /\ login \in [Login -> LoginCall]
    BY DEF IInv, TypeOK
  <1>1. ASSUME NEW c \in Connector, RequestLogin(l, c)
        PROVE  IInv'
    <2> DEFINE call == [phase |-> "details", connector |-> c, idp |-> None]
    <2>1. call \in LoginCall
      BY DEF LoginCall, LoginPhase
    <2> QED BY <1>1, <2>1, LoginMoves DEF RequestLogin
  <1>2. ASSUME NEW p \in Provider, GotCapabilities(l, p)
        PROVE  IInv'
    <2> DEFINE call == [login[l] EXCEPT !.phase = "provider", !.idp = p]
    <2>1. call \in LoginCall
      BY <1>0 DEF LoginCall, LoginPhase
    <2>2. login' = [login EXCEPT ![l] = call]
      BY <1>0, <1>2 DEF GotCapabilities, LoginCall
    <2> QED BY <1>2, <2>1, <2>2, LoginMoves DEF GotCapabilities
  <1>3. ASSUME NEW phase \in LoginPhase, login[l].phase \notin {"form", "refused"},
               login' = [login EXCEPT ![l].phase = phase],
               UNCHANGED <<cacheVars, providerVars, back, restarts>>
        PROVE  IInv'
    <2> DEFINE call == [login[l] EXCEPT !.phase = phase]
    <2>1. call \in LoginCall
      BY <1>0, <1>3 DEF LoginCall
    <2>2. login' = [login EXCEPT ![l] = call]
      BY <1>0, <1>3 DEF LoginCall
    <2> QED BY <1>3, <2>1, <2>2, LoginMoves
  <1>4. CASE GotDetails(l)
    BY <1>3, <1>4 DEF GotDetails, LoginPhase
  <1>5. CASE GotProvider(l)
    BY <1>3, <1>5 DEF GotProvider, LoginPhase
  <1>6. CASE Fail(l)
    BY <1>3, <1>6 DEF Fail, Refuse, LoginPhase
  <1> QED BY <1>1, <1>2, <1>4, <1>5, <1>6

(* The new state takes its place in the cache, at the cost of the oldest.  *)
LEMMA SendFormInv ==
    ASSUME IInv, NEW l \in Login, SendForm(l)
    PROVE  IInv'
  <1> USE DEF IInv, SendForm, Put, providerVars
  <1>0. /\ born[l] = 0 /\ l \notin cache
        /\ born' = [born EXCEPT ![l] = stored + 1]
        /\ born \in [Login -> Nat] /\ stored \in Nat /\ CacheSize \in Nat
        /\ stored' = stored + 1
    BY ConnectorLoginAssumption DEF TypeOK, CacheFits
  <1>1. PICK phase \in {"form", "refused"} : login' = [login EXCEPT ![l].phase = phase]
    OBVIOUS
  <1>2. TypeOK'
    <2>1. [login[l] EXCEPT !.phase = phase] \in LoginCall
      BY DEF TypeOK, LoginCall, LoginPhase
    <2>2. login' \in [Login -> LoginCall]
      BY <1>1, <2>1 DEF TypeOK
    <2>3. cache' \subseteq Login /\ born' \in [Login -> Nat] /\ stored' \in Nat
      BY <1>0 DEF TypeOK
    <2> QED BY <2>2, <2>3 DEF TypeOK
  <1>3. CacheFits'
    <2>1. \A k \in Login : born'[k] = IF k = l THEN stored + 1 ELSE born[k]
      BY <1>0
    <2>2. \A k \in Login : k # l => login'[k] = login[k]
      BY <1>1 DEF TypeOK
    <2>3. login'[l].phase = phase
      BY <1>1 DEF TypeOK, LoginCall
    <2> QED BY <1>0, <2>1, <2>2, <2>3 DEF TypeOK, CacheFits
  <1>4. WayBackFits'
    BY <1>0 DEF TypeOK, WayBackFits
  <1>5. RedeemedOnce' /\ SessionOfThePerson'
    BY DEF RedeemedOnce, Redeems, SessionOfThePerson
  <1>6. CacheIsBounded'
    BY RoomIsMade DEF CacheIsBounded
  <1>7. LoginSurvives'
    <2> SUFFICES ASSUME NEW k \in Login, born'[k] > 0, k \notin expired',
                        \A r \in Return : ~Redeems(r, k)',
                        k \notin cache'
                 PROVE  stored' - born'[k] >= CacheSize
      BY DEF LoginSurvives
    <2>1. k # l /\ born'[k] = born[k] /\ born[k] \in Nat
      BY <1>0
    <2>2. k \in cache \/ stored - born[k] >= CacheSize
      BY <2>1 DEF LoginSurvives, Redeems
    <2>3. CASE k \in cache
      <3>1. k \in Evicted
        BY <2>3
      <3> QED BY <1>0, <2>1, <3>1, EvictedIsBehind
    <2> QED BY <1>0, <2>1, <2>2, <2>3
  <1> QED BY <1>2, <1>3, <1>4, <1>5, <1>6, <1>7

(* An entry whose time is up leaves the cache, and nothing else changes.   *)
LEMMA ExpireInv ==
    ASSUME IInv, NEW l \in Login, Expire(l)
    PROVE  IInv'
  <1> USE DEF IInv, Expire, providerVars
  <1>1. TypeOK' /\ CacheFits' /\ WayBackFits'
    BY DEF TypeOK, CacheFits, WayBackFits, Oldest
  <1>2. RedeemedOnce' /\ LoginSurvives' /\ SessionOfThePerson'
    BY DEF RedeemedOnce, Redeems, LoginSurvives, SessionOfThePerson
  <1>3. CacheIsBounded'
    BY SmallerIsBounded
  <1> QED BY <1>1, <1>2, <1>3

(* A code is given out once, so that no session loses its person.          *)
LEMMA AuthenticateInv ==
    ASSUME IInv, NEW l \in Login, NEW p \in Person, Authenticate(l, p)
    PROVE  IInv'
  <1> USE DEF IInv, Authenticate, cacheVars
  <1>1. TypeOK' /\ CacheFits' /\ WayBackFits'
    BY DEF TypeOK, CacheFits, WayBackFits
  <1>2. RedeemedOnce' /\ LoginSurvives' /\ CacheIsBounded'
    BY DEF RedeemedOnce, Redeems, LoginSurvives, CacheIsBounded
  <1>3. SessionOfThePerson'
    BY ConnectorLoginAssumption DEF SessionOfThePerson, TypeOK
  <1> QED BY <1>1, <1>2, <1>3

(* A way back that takes nothing from the cache leaves all but itself, and *)
(* what expires, as it is.                                                 *)
LEMMA BackMoves ==
    ASSUME IInv, NEW r \in Return, NEW call \in BackCall, NEW gone \in SUBSET Login,
           back' \in [Return -> BackCall], back'[r] = call,
           \A q \in Return \ {r} : back'[q] = back[q],
           call.phase # "idle", call.phase = "arrived" => call.context = None,
           call.phase \in {"exchanging", "session"} => call.context # None,
           call.state \in Login, call.code \in Login, call.context = back[r].context,
           call.context # None => call.state = back[r].state,
           call.phase = "session" /\ call.nonce # None /\ call.name \in Person
              => call.name = code[call.state],
           cache' = cache \ gone, expired' = expired \cup gone, spent' \subseteq Login,
           UNCHANGED <<login, born, stored, code, restarts>>
    PROVE  IInv'
  <1> USE DEF IInv
  <1>1. TypeOK'
    BY DEF TypeOK
  <1>2. CacheFits'
    BY DEF CacheFits
  <1>3. WayBackFits'
    <2> SUFFICES ASSUME NEW q \in Return
                 PROVE  /\ back'[q].phase # "idle" =>
                              back'[q].state \in Login /\ back'[q].code \in Login
                        /\ back'[q].phase \in {"idle", "arrived"} => back'[q].context = None
                        /\ back'[q].phase \in {"exchanging", "session"}
                              => back'[q].context # None
                        /\ back'[q].context # None =>
                              /\ back'[q].state \in Login \ cache'
                              /\ born'[back'[q].state] > 0
      BY DEF WayBackFits
    <2> QED BY DEF WayBackFits
  <1>4. \A q \in Return, l \in Login : Redeems(q, l)' <=> Redeems(q, l)
    BY DEF Redeems
  <1>5. RedeemedOnce'
    BY <1>4 DEF RedeemedOnce
  <1>6. CacheIsBounded'
    BY SmallerIsBounded
  <1>7. LoginSurvives'
    BY <1>4 DEF LoginSurvives
  <1>8. SessionOfThePerson'
    BY DEF SessionOfThePerson
  <1> QED BY <1>1, <1>2, <1>3, <1>5, <1>6, <1>7, <1>8

(* The way back starts with nothing taken.                                 *)
LEMMA ComeBackInv ==
    ASSUME IInv, NEW r \in Return, NEW l \in Login, NEW k \in Login, ComeBack(r, l, k)
    PROVE  IInv'
  <1> DEFINE call == [NoBack EXCEPT !.phase = "arrived", !.state = l, !.code = k]
  <1>1. /\ call \in BackCall /\ call.phase = "arrived" /\ call.context = None
        /\ call.state = l /\ call.code = k
    BY DEF NoBack, BackCall, BackPhase
  <1>2. back[r].context = None /\ back \in [Return -> BackCall]
    BY DEF IInv, TypeOK, WayBackFits, ComeBack
  <1> DEFINE gone == {}
  <1>3. /\ back' = [back EXCEPT ![r] = call]
        /\ cache' = cache \ gone /\ expired' = expired \cup gone
        /\ gone \in SUBSET Login /\ spent' \subseteq Login
        /\ UNCHANGED <<login, born, stored, code, restarts>>
    BY DEF ComeBack, cacheVars, providerVars, IInv, TypeOK
  <1> HIDE DEF call, gone
  <1>4. /\ back'[r] = call /\ back' \in [Return -> BackCall]
        /\ \A q \in Return \ {r} : back'[q] = back[q]
    BY <1>1, <1>2, <1>3
  <1> QED BY <1>1, <1>2, <1>3, <1>4, BackMoves

(* An entry is taken out of the cache by one way back only.                *)
LEMMA TakeContextInv ==
    ASSUME IInv, NEW r \in Return, TakeContext(r)
    PROVE  IInv'
  <1> DEFINE l == back[r].state
  <1>1. /\ l \in Login /\ back[r].phase = "arrived" /\ back[r].context = None
        /\ back[r] \in BackCall /\ back[r].code \in Login
        /\ back \in [Return -> BackCall] /\ login[l] \in LoginCall
    BY DEF IInv, TypeOK, WayBackFits, TakeContext
  <1>2. UNCHANGED <<login, born, stored, providerVars, restarts>>
    BY DEF TakeContext
  <1>3. ASSUME NEW phase \in {"idps", "error"}, NEW gone \in SUBSET Login,
               back' = [back EXCEPT ![r].phase = phase],
               cache' = cache \ gone, expired' = expired \cup gone
        PROVE  IInv'
    <2> DEFINE call == [back[r] EXCEPT !.phase = phase]
    <2>1. /\ call \in BackCall /\ call.phase = phase /\ call.context = None
          /\ call.state \in Login /\ call.code \in Login
      BY <1>1 DEF BackCall, BackPhase
    <2>2. back' = [back EXCEPT ![r] = call]
      BY <1>3
    <2>3. spent' \subseteq Login /\ UNCHANGED code
      BY <1>2 DEF providerVars, IInv, TypeOK
    <2> HIDE DEF call
    <2> QED BY <1>1, <1>2, <1>3, <2>1, <2>2, <2>3, BackMoves
  <1>4. CASE l \notin cache /\ back' = [back EXCEPT ![r].phase = "idps"]
             /\ UNCHANGED <<cache, expired>>
    <2> DEFINE gone == {}
    <2>1. gone \in SUBSET Login /\ cache' = cache \ gone /\ expired' = expired \cup gone
      BY <1>4
    <2> HIDE DEF gone
    <2> QED BY <1>3, <1>4, <2>1
  <1>5. CASE /\ Oldest(l) /\ cache' = cache \ {l} /\ expired' = expired \cup {l}
             /\ back' = [back EXCEPT ![r].phase = "error"]
    BY <1>1, <1>3, <1>5
  <1>6. CASE /\ l \in cache /\ cache' = Popped(l) /\ UNCHANGED expired
             /\ back' = [back EXCEPT ![r].phase = "exchanging", ![r].context = login[l]]
    <2> DEFINE call == [back[r] EXCEPT !.phase = "exchanging", !.context = login[l]]
    <2>1. /\ call \in BackCall /\ call.phase = "exchanging" /\ call.context # None
          /\ call.state = l /\ call.code = back[r].code
      BY <1>1, NoneIsNoCall DEF BackCall, BackPhase
    <2>2. back' = [back EXCEPT ![r] = call]
      BY <1>1, <1>6 DEF BackCall
    <2> HIDE DEF call
    <2>3. /\ back'[r] = call /\ back' \in [Return -> BackCall]
          /\ \A q \in Return \ {r} : back'[q] = back[q]
      BY <1>1, <2>1, <2>2
    <2>4. TypeOK'
      BY <1>2, <1>6, <2>3 DEF IInv, TypeOK, Popped, providerVars
    <2>5. CacheFits' /\ born[l] > 0
      BY <1>2, <1>6 DEF IInv, CacheFits, Popped
    <2>6. WayBackFits'
      <3> SUFFICES ASSUME NEW q \in Return
                   PROVE  /\ back'[q].phase # "idle" =>
                                back'[q].state \in Login /\ back'[q].code \in Login
                          /\ back'[q].phase \in {"idle", "arrived"} => back'[q].context = None
                          /\ back'[q].phase \in {"exchanging", "session"}
                                => back'[q].context # None
                          /\ back'[q].context # None =>
                                /\ back'[q].state \in Login \ cache'
                                /\ born'[back'[q].state] > 0
        BY DEF WayBackFits
      <3>1. CASE q = r
        <4>1. l \in Login \ cache'
          BY <1>1, <1>6 DEF Popped
        <4>2. born'[l] > 0
          BY <1>2, <2>5
        <4> HIDE DEF l
        <4> QED BY <1>1, <2>1, <2>3, <3>1, <4>1, <4>2
      <3>2. CASE q # r
        BY <1>2, <1>6, <2>3, <3>2 DEF IInv, WayBackFits, Popped
      <3> QED BY <3>1, <3>2
    <2>7. CacheIsBounded'
      BY <1>6, SmallerIsBounded DEF IInv, Popped
    <2>8. \A q \in Return, k \in Login :
             Redeems(q, k)' <=> Redeems(q, k) \/ (q = r /\ k = l)
      BY <1>1, <2>1, <2>3 DEF Redeems
    <2>9. \A q \in Return : ~Redeems(q, l)
      BY <1>6 DEF IInv, WayBackFits, Redeems
    <2>10. RedeemedOnce'
      BY <2>8, <2>9 DEF IInv, RedeemedOnce
    <2>11. LoginSurvives'
      BY <1>2, <1>6, <2>8 DEF IInv, LoginSurvives, Popped
    <2>12. SessionOfThePerson'
      BY <1>2, <2>1, <2>3 DEF IInv, SessionOfThePerson, providerVars
    <2> QED BY <2>4, <2>5, <2>6, <2>7, <2>10, <2>11, <2>12 DEF IInv
  <1> QED BY <1>4, <1>5, <1>6 DEF TakeContext

(* The exchange makes a session of a code of this attempt, or tells of none. *)
LEMMA ExchangeInv ==
    ASSUME IInv, NEW r \in Return, Exchanged(r) \/ ExchangeFails(r)
    PROVE  IInv'
  <1>1. /\ back[r] \in BackCall /\ back[r].phase = "exchanging"
        /\ back[r].state \in Login /\ back[r].code \in Login
        /\ back[r].context # None /\ back[r].context \in LoginCall
        /\ back \in [Return -> BackCall] /\ code \in [Login -> Person \cup {None}]
    BY DEF IInv, TypeOK, WayBackFits, Exchanged, ExchangeFails, BackCall
  <1> DEFINE gone == {}
  <1>2. /\ gone \in SUBSET Login /\ spent' \subseteq Login
        /\ cache' = cache \ gone /\ expired' = expired \cup gone
        /\ UNCHANGED <<login, born, stored, code, restarts>>
    BY <1>1 DEF Exchanged, ExchangeFails, cacheVars, providerVars, IInv, TypeOK
  <1> HIDE DEF gone
  <1>3. ASSUME NEW phase \in {"idps", "session", "error"},
               NEW nonce \in Login \cup {None},
               NEW name \in Person \cup Connector \cup {None},
               back' = [back EXCEPT ![r] = [back[r] EXCEPT
                          !.phase = phase, !.nonce = nonce, !.name = name]],
               phase = "session" /\ nonce # None /\ name \in Person
                  => name = code[back[r].state]
        PROVE  IInv'
    <2> DEFINE call == [back[r] EXCEPT !.phase = phase, !.nonce = nonce, !.name = name]
    <2>1. /\ call \in BackCall /\ call.phase = phase /\ call.context = back[r].context
          /\ call.state = back[r].state /\ call.code = back[r].code
          /\ call.nonce = nonce /\ call.name = name
      BY <1>1 DEF BackCall, BackPhase
    <2>2. /\ back'[r] = call /\ back' \in [Return -> BackCall]
          /\ \A q \in Return \ {r} : back'[q] = back[q]
      BY <1>1, <1>3, <2>1
    <2> HIDE DEF call
    <2>3. /\ call.phase \notin {"idle", "arrived"} /\ call.context # None
          /\ call.state \in Login /\ call.code \in Login
          /\ call.phase = "session" /\ call.nonce # None /\ call.name \in Person
                => call.name = code[call.state]
      BY <1>1, <1>3, <2>1
    <2> QED BY <1>2, <2>1, <2>2, <2>3, BackMoves
  <1>4. CASE ExchangeFails(r)
    <2>1. PICK phase \in {"idps", "error"} : back' = [back EXCEPT ![r].phase = phase]
      BY <1>4 DEF ExchangeFails
    <2>2. back' = [back EXCEPT ![r] = [back[r] EXCEPT
                     !.phase = phase, !.nonce = back[r].nonce, !.name = back[r].name]]
      BY <1>1, <2>1 DEF BackCall
    <2>3. /\ back[r].nonce \in Login \cup {None}
          /\ back[r].name \in Person \cup Connector \cup {None}
      BY <1>1 DEF BackCall
    <2> QED BY <1>3, <2>2, <2>3
  <1>5. CASE Exchanged(r)
    <2> DEFINE k == back[r].code
    <2>1. PICK nonce \in {None, k}, sub \in {None, code[k]} :
              back' = [back EXCEPT
                 ![r].phase = IF NonceIsWrong(r, nonce) THEN "idps" ELSE "session",
                 ![r].nonce = nonce,
                 ![r].name = IF NonceIsWrong(r, nonce) THEN None ELSE NameOf(r, sub)]
      BY <1>5 DEF Exchanged
    <2> DEFINE phase == IF NonceIsWrong(r, nonce) THEN "idps" ELSE "session"
               name == IF NonceIsWrong(r, nonce) THEN None ELSE NameOf(r, sub)
    <2>2. name \in Person \cup Connector \cup {None}
      BY <1>1 DEF NameOf, LoginCall
    <2>3. phase = "session" /\ nonce # None /\ name \in Person => name = code[back[r].state]
      BY <1>1, ConnectorLoginAssumption DEF NonceIsWrong, NameOf, LoginCall
    <2>4. phase \in {"idps", "session", "error"} /\ nonce \in Login \cup {None}
      BY <1>1
    <2> HIDE DEF phase, name
    <2>5. back' = [back EXCEPT ![r] = [back[r] EXCEPT
                     !.phase = phase, !.nonce = nonce, !.name = name]]
      BY <1>1, <2>1 DEF BackCall, phase, name
    <2> QED BY <1>3, <2>2, <2>3, <2>4, <2>5
  <1> QED BY <1>4, <1>5

(* After a restart no state is left, and every one counts as expired.      *)
LEMMA RestartInv ==
    ASSUME IInv, Restart
    PROVE  IInv'
  <1> USE DEF IInv, Restart, providerVars
  <1>0. /\ \A l \in Login : login[l].phase \in {"form", "refused"} => login'[l] = login[l]
        /\ \A q \in Return : /\ back'[q].state = back[q].state
                             /\ back'[q].code = back[q].code
                             /\ back'[q].context = back[q].context
                             /\ back'[q].nonce = back[q].nonce
                             /\ back'[q].name = back[q].name
                             /\ back'[q].phase = IF back[q].phase \in {"arrived", "exchanging"}
                                                   THEN "lost" ELSE back[q].phase
    BY DEF TypeOK, BackCall
  <1>1. TypeOK'
    <2>1. login' \in [Login -> LoginCall]
      BY DEF TypeOK, LoginCall, LoginPhase
    <2>2. back' \in [Return -> BackCall]
      <3> SUFFICES ASSUME NEW q \in Return PROVE back'[q] \in BackCall
        OBVIOUS
      <3>1. back[q] \in BackCall /\ [back[q] EXCEPT !.phase = "lost"] \in BackCall
        BY DEF TypeOK, BackCall, BackPhase
      <3> QED BY <3>1
    <2> QED BY <2>1, <2>2, ConnectorLoginAssumption DEF TypeOK
  <1>2. CacheFits' /\ WayBackFits'
    BY <1>0 DEF TypeOK, CacheFits, WayBackFits
  <1>3. RedeemedOnce' /\ LoginSurvives' /\ SessionOfThePerson'
    BY <1>0 DEF RedeemedOnce, Redeems, LoginSurvives, SessionOfThePerson
  <1>4. CacheIsBounded'
    BY SmallerIsBounded
  <1> QED BY <1>1, <1>2, <1>3, <1>4

(* A stuttering step changes nothing.                                      *)
LEMMA StutterInv ==
    ASSUME IInv, UNCHANGED vars
    PROVE  IInv'
  BY DEF IInv, vars, cacheVars, providerVars, TypeOK, CacheFits, WayBackFits, RedeemedOnce,
         Redeems, CacheIsBounded, LoginSurvives, SessionOfThePerson

-----------------------------------------------------------------------------
(* The inductive invariant holds in every reachable state.                 *)
THEOREM LoginInvariant == Spec => []IInv
  <1>1. IInv /\ [Next]_vars => IInv'
    BY LoginStepsInv, SendFormInv, ExpireInv, AuthenticateInv, ComeBackInv, TakeContextInv,
       ExchangeInv, RestartInv, StutterInv
    DEF Next, LoginStep, BackStep
  <1> QED BY InitInv, <1>1, PTL DEF Spec

(* The state keeps its types.                                              *)
THEOREM LoginTypeCorrect == Spec => []TypeOK
  BY LoginInvariant, PTL DEF IInv

(* No state of a login is redeemed by two ways back.                       *)
THEOREM StatesAreRedeemedOnce == Spec => []RedeemedOnce
  BY LoginInvariant, PTL DEF IInv

(* connector_login_cache never holds more than its maxsize.                *)
THEOREM CacheStaysBounded == Spec => []CacheIsBounded
  BY LoginInvariant, PTL DEF IInv

(* A login is forgotten only when its time is up, or when as many others   *)
(* have followed as the cache holds.                                       *)
THEOREM LoginsSurvive == Spec => []LoginSurvives
  BY LoginInvariant, PTL DEF IInv

(* A session made of a token that names its attempt is for the person who  *)
(* signed in for that attempt.                                             *)
THEOREM SessionsAreOfThePerson == Spec => []SessionOfThePerson
  BY LoginInvariant, PTL DEF IInv
=============================================================================
