------------------------- MODULE BearerAuth_proofs -------------------------
(***************************************************************************)
(* Bearer authentication for every number of tokens, prefixes and requests.*)
(*                                                                         *)
(* AuthorizedByLiveToken is not inductive: it speaks of requests in their  *)
(* handler, and what keeps a dead token out was decided two steps earlier. *)
(* DeadStaysOut says what a request whose token was revoked before it came *)
(* can have read, and needs that a revocation is never undone, which in    *)
(* turn needs that the time a DELETE is about to store is not NULL.        *)
(***************************************************************************)
EXTENDS BearerAuthProps, TLAPS

\* A dead request has a revoked token and no row that matches it.
DeadStaysOut ==
  \A q \in Requests : req[q].dead =>
    /\ req[q].secret \in TokenIds /\ revokedAt[req[q].secret] # 0
    /\ req[q].secret \notin req[q].found
    /\ req[q].at \in {"select", "verify"}

\* The time a DELETE has taken is a time, not NULL.
StampIsSet == \A q \in Requests : req[q].at = "revoke" => req[q].now # 0

\* Past Verify a request stands for the token it presented.
OwnToken == \A q \in Requests : req[q].at \in {"handle", "revoke"} => req[q].as = req[q].secret

IInv == TypeOK /\ DeadStaysOut /\ StampIsSet /\ OwnToken

-----------------------------------------------------------------------------
\* A free slot is a request.
LEMMA IdleType == Idle \in ReqType
  BY BearerAssumption DEF Idle, ReqType, Stamp

\* Requests stay requests.
LEMMA ReqHolds == TypeOK /\ [Next]_vars => req' \in [Requests -> ReqType]
<1> USE IdleType
<1> SUFFICES ASSUME TypeOK, [Next]_vars PROVE req' \in [Requests -> ReqType]
  OBVIOUS
<1>1. req \in [Requests -> ReqType]
  BY DEF TypeOK
<1>2. ASSUME NEW q \in Requests, NEW r \in ReqType, req' = [req EXCEPT ![q] = r]
      PROVE req' \in [Requests -> ReqType]
  BY <1>1, <1>2
<1>3. ASSUME NEW q \in Requests, NEW t \in TokenIds, Arrive(q, t)
      PROVE req' \in [Requests -> ReqType]
  <2>1. [Idle EXCEPT !.at = "select", !.secret = t, !.dead = revokedAt[t] # 0] \in ReqType
    BY DEF Idle, ReqType, Stamp
  <2> QED
    BY <1>2, <1>3, <2>1 DEF Arrive
<1>4. ASSUME NEW q \in Requests, Select(q) PROVE req' \in [Requests -> ReqType]
  <2> DEFINE f == ListActiveTokensByPrefix(req[q].secret)
  <2>1. f \in SUBSET TokenIds
    BY DEF ListActiveTokensByPrefix, Alive, TypeOK
  <2>2. req' = [req EXCEPT ![q] = [@ EXCEPT !.at = "verify", !.found = f]]
    BY <1>1, <1>4 DEF Select, ReqType
  <2> HIDE DEF f
  <2>3. [req[q] EXCEPT !.at = "verify", !.found = f] \in ReqType
    BY <1>1, <2>1 DEF ReqType
  <2> QED
    BY <1>2, <2>2, <2>3
<1>5. ASSUME NEW q \in Requests, Verify(q) PROVE req' \in [Requests -> ReqType]
  <2>1. CASE Matches(q) = {}
    BY <1>2, <1>5, <2>1 DEF Verify
  <2>2. CASE Matches(q) # {}
    <3> DEFINE winner == CHOOSE u \in Matches(q) : TRUE
    <3>1. winner \in TokenIds
      <4>1. winner \in Matches(q)
        BY <2>2
      <4> QED
        BY <1>1, <4>1 DEF Matches, ReqType
    <3>2. req' = [req EXCEPT ![q] = [@ EXCEPT !.at = "handle", !.as = winner, !.found = {}]]
      BY <1>1, <1>5, <2>2 DEF Verify, ReqType
    <3> HIDE DEF winner
    <3>3. [req[q] EXCEPT !.at = "handle", !.as = winner, !.found = {}] \in ReqType
      BY <1>1, <3>1 DEF ReqType
    <3> QED
      BY <1>2, <3>2, <3>3
  <2> QED
    BY <2>1, <2>2
<1>6. ASSUME NEW q \in Requests, Delete(q) PROVE req' \in [Requests -> ReqType]
  <2>1. PICK t \in TokenIds :
          req' = [req EXCEPT ![q].at = "revoke", ![q].target = t, ![q].now = clock]
    BY <1>6 DEF Delete
  <2>2. req' = [req EXCEPT ![q] = [@ EXCEPT !.at = "revoke", !.target = t, !.now = clock]]
    BY <1>1, <2>1 DEF ReqType
  <2>3. [req[q] EXCEPT !.at = "revoke", !.target = t, !.now = clock] \in ReqType
    <3>1. req[q] \in ReqType /\ clock \in Stamp /\ t \in TokenIds \cup {Nobody}
      BY <1>1, BearerAssumption DEF TypeOK, Stamp
    <3> QED
      BY <3>1 DEF ReqType
  <2> QED
    BY <1>2, <2>2, <2>3
<1>7. ASSUME NEW q \in Requests, Create(q) \/ Revoke(q) \/ End(q)
      PROVE req' \in [Requests -> ReqType]
  BY <1>2, <1>7 DEF Create, Revoke, End
<1>8. ASSUME Restart PROVE req' \in [Requests -> ReqType]
  BY <1>8 DEF Restart
<1>9. ASSUME req' = req PROVE req' \in [Requests -> ReqType]
  BY <1>1, <1>9
<1> QED
  BY <1>3, <1>4, <1>5, <1>6, <1>7, <1>8, <1>9 DEF Next, vars, TouchTokenLastUsedAt, Tick

\* TypeOK is inductive by itself.
LEMMA TypeHolds == TypeOK /\ [Next]_vars => TypeOK'
<1> SUFFICES ASSUME TypeOK, [Next]_vars PROVE TypeOK'
  OBVIOUS
<1> DEFINE Rest == /\ rows' \subseteq TokenIds
                   /\ revokedAt' \in [TokenIds -> Stamp]
                   /\ lastUsed' \in [TokenIds -> Stamp]
                   /\ authAt' \in [TokenIds -> Stamp]
                   /\ clock' \in 1 .. MaxClock
                   /\ touches' \subseteq [id : TokenIds, when : Stamp]
<1>1. clock \in Stamp /\ \A q \in Requests : req[q].now \in Stamp
  BY BearerAssumption DEF TypeOK, ReqType, Stamp
<1>2. ASSUME NEW q \in Requests, Verify(q) PROVE Rest
  <2>1. CASE Matches(q) = {}
    BY <1>2, <2>1 DEF Verify, TypeOK, table
  <2>2. CASE Matches(q) # {}
    <3> DEFINE winner == CHOOSE u \in Matches(q) : TRUE
    <3>1. winner \in TokenIds
      <4>1. winner \in Matches(q)
        BY <2>2
      <4> QED
        BY <4>1 DEF Matches, ReqType, TypeOK
    <3>2. /\ touches' = touches \cup {[id |-> winner, when |-> clock]}
          /\ authAt' = [authAt EXCEPT ![winner] = clock]
          /\ UNCHANGED <<table, clock>>
      BY <1>2, <2>2 DEF Verify
    <3> HIDE DEF winner
    <3> QED
      BY <1>1, <3>1, <3>2 DEF TypeOK, table
  <2> QED
    BY <2>1, <2>2
<1>3. ASSUME NEW q \in Requests, Create(q) PROVE Rest
  BY <1>3 DEF Create, TypeOK
<1>4. ASSUME NEW q \in Requests, Revoke(q) PROVE Rest
  <2>1. revokedAt' \in [TokenIds -> Stamp]
    BY <1>1, <1>4 DEF Revoke, TypeOK
  <2> QED
    BY <1>4, <2>1 DEF Revoke, TypeOK
<1>5. ASSUME NEW p \in touches, TouchTokenLastUsedAt(p) PROVE Rest
  <2>1. p.id \in TokenIds /\ p.when \in Stamp
    BY DEF TypeOK
  <2> QED
    BY <1>5, <2>1 DEF TouchTokenLastUsedAt, TypeOK
<1>6. ASSUME Restart PROVE Rest
  BY <1>6 DEF Restart, TypeOK, table
<1>7. ASSUME Tick PROVE Rest
  BY <1>7, BearerAssumption DEF Tick, TypeOK, table
<1>8. ASSUME UNCHANGED <<table, clock, touches, authAt>> PROVE Rest
  BY <1>8 DEF TypeOK, table
<1>9. Rest
  BY <1>2, <1>3, <1>4, <1>5, <1>6, <1>7, <1>8
     DEF Next, vars, table, Arrive, Select, Delete, End
<1> QED
  BY <1>9, ReqHolds DEF TypeOK

\* Only Revoke writes revoked_at, and only where it was NULL.
LEMMA RevokedForGood ==
  ASSUME TypeOK, [Next]_vars, NEW t \in TokenIds, revokedAt[t] # 0
  PROVE  revokedAt'[t] = revokedAt[t]
<1>1. ASSUME NEW q \in Requests, Revoke(q) PROVE revokedAt'[t] = revokedAt[t]
  BY <1>1 DEF Revoke, TypeOK, Alive
<1>2. ASSUME revokedAt' = revokedAt PROVE revokedAt'[t] = revokedAt[t]
  BY <1>2
<1> QED
  BY <1>1, <1>2 DEF Next, vars, table, Arrive, Select, Verify, Create, Delete, End,
                    TouchTokenLastUsedAt, Restart, Tick

\* What keeps a revoked token out, step by step.
LEMMA DeadHolds == IInv /\ [Next]_vars => DeadStaysOut'
<1> USE BearerAssumption
<1> SUFFICES ASSUME IInv, [Next]_vars, NEW p \in Requests, req'[p].dead
    PROVE /\ req'[p].secret \in TokenIds /\ revokedAt'[req'[p].secret] # 0
          /\ req'[p].secret \notin req'[p].found
          /\ req'[p].at \in {"select", "verify"}
  BY DEF DeadStaysOut
<1> USE DEF IInv
<1>1. /\ TypeOK'
      /\ \A t \in TokenIds : revokedAt[t] # 0 => revokedAt'[t] = revokedAt[t]
  BY TypeHolds, RevokedForGood
<1>2. ASSUME NEW q \in Requests, NEW t \in TokenIds, Arrive(q, t)
      PROVE /\ req'[p].secret \in TokenIds /\ revokedAt'[req'[p].secret] # 0
            /\ req'[p].secret \notin req'[p].found
            /\ req'[p].at \in {"select", "verify"}
  BY <1>2 DEF Arrive, DeadStaysOut, TypeOK, ReqType, Idle, table
<1>3. ASSUME NEW q \in Requests, Select(q)
      PROVE /\ req'[p].secret \in TokenIds /\ revokedAt'[req'[p].secret] # 0
            /\ req'[p].secret \notin req'[p].found
            /\ req'[p].at \in {"select", "verify"}
  BY <1>3 DEF Select, DeadStaysOut, TypeOK, ReqType, ListActiveTokensByPrefix, Alive, table
<1>4. ASSUME NEW q \in Requests, Verify(q)
      PROVE /\ req'[p].secret \in TokenIds /\ revokedAt'[req'[p].secret] # 0
            /\ req'[p].secret \notin req'[p].found
            /\ req'[p].at \in {"select", "verify"}
  <2>1. CASE p # q
    <3>1. req'[p] = req[p] /\ revokedAt' = revokedAt
      BY <1>4, <2>1 DEF Verify, TypeOK, table
    <3> QED
      BY <3>1 DEF DeadStaysOut
  <2>2. CASE p = q
    <3>1. Matches(q) = {}
      <4>1. CASE Matches(q) # {}
        <5>1. req'[q].dead = req[q].dead
          <6> DEFINE winner == CHOOSE u \in Matches(q) : TRUE
          <6>1. req' = [req EXCEPT ![q].at = "handle", ![q].as = winner, ![q].found = {}]
            BY <1>4, <4>1 DEF Verify
          <6> HIDE DEF winner
          <6> QED
            BY <6>1 DEF TypeOK, ReqType
        <5>2. Matches(q) = {}
          BY <5>1, <2>2 DEF Matches, DeadStaysOut
        <5> QED
          BY <5>2, <4>1
      <4> QED
        BY <4>1
    <3>2. ~req'[q].dead
      BY <1>4, <3>1 DEF Verify, TypeOK, ReqType, Idle
    <3> QED
      BY <3>2, <2>2
  <2> QED
    BY <2>1, <2>2
<1>5. ASSUME NEW q \in Requests, Create(q) \/ Revoke(q) \/ End(q)
      PROVE /\ req'[p].secret \in TokenIds /\ revokedAt'[req'[p].secret] # 0
            /\ req'[p].secret \notin req'[p].found
            /\ req'[p].at \in {"select", "verify"}
  <2>1. p # q /\ req'[p] = req[p]
    BY <1>5 DEF Create, Revoke, End, TypeOK, Idle
  <2> QED
    BY <2>1, <1>1 DEF DeadStaysOut
<1>6. ASSUME NEW q \in Requests, Delete(q)
      PROVE /\ req'[p].secret \in TokenIds /\ revokedAt'[req'[p].secret] # 0
            /\ req'[p].secret \notin req'[p].found
            /\ req'[p].at \in {"select", "verify"}
  BY <1>6 DEF Delete, DeadStaysOut, TypeOK, ReqType, table
<1>7. ASSUME Restart
      PROVE /\ req'[p].secret \in TokenIds /\ revokedAt'[req'[p].secret] # 0
            /\ req'[p].secret \notin req'[p].found
            /\ req'[p].at \in {"select", "verify"}
  BY <1>7 DEF Restart, Idle
<1>8. ASSUME req' = req
      PROVE /\ req'[p].secret \in TokenIds /\ revokedAt'[req'[p].secret] # 0
            /\ req'[p].secret \notin req'[p].found
            /\ req'[p].at \in {"select", "verify"}
  BY <1>8, <1>1 DEF DeadStaysOut
<1> QED
  BY <1>2, <1>3, <1>4, <1>5, <1>6, <1>7, <1>8 DEF Next, vars, TouchTokenLastUsedAt, Tick

\* The time of a DELETE is set once the handler has read the clock.
LEMMA StampHolds == IInv /\ [Next]_vars => StampIsSet'
<1> SUFFICES ASSUME IInv, [Next]_vars, NEW p \in Requests, req'[p].at = "revoke"
    PROVE req'[p].now # 0
  BY DEF StampIsSet
<1> USE DEF IInv
<1>1. ASSUME NEW q \in Requests, Delete(q) PROVE req'[p].now # 0
  BY <1>1 DEF Delete, StampIsSet, TypeOK, ReqType
<1>2. ASSUME NEW q \in Requests, NEW t \in TokenIds, Arrive(q, t) PROVE req'[p].now # 0
  BY <1>2 DEF Arrive, StampIsSet, TypeOK, Idle
<1>3. ASSUME NEW q \in Requests, Select(q) PROVE req'[p].now # 0
  <2> DEFINE f == ListActiveTokensByPrefix(req[q].secret)
  <2>1. req' = [req EXCEPT ![q].at = "verify", ![q].found = f]
    BY <1>3 DEF Select
  <2> HIDE DEF f
  <2> QED
    BY <2>1 DEF StampIsSet, TypeOK, ReqType
<1>4. ASSUME NEW q \in Requests, Verify(q) PROVE req'[p].now # 0
  <2>1. CASE Matches(q) = {}
    BY <1>4, <2>1 DEF Verify, StampIsSet, TypeOK, Idle
  <2>2. CASE Matches(q) # {}
    <3> DEFINE winner == CHOOSE u \in Matches(q) : TRUE
    <3>1. req' = [req EXCEPT ![q].at = "handle", ![q].as = winner, ![q].found = {}]
      BY <1>4, <2>2 DEF Verify
    <3> HIDE DEF winner
    <3> QED
      BY <3>1 DEF StampIsSet, TypeOK, ReqType
  <2> QED
    BY <2>1, <2>2
<1>5. ASSUME NEW q \in Requests, Create(q) \/ Revoke(q) \/ End(q) PROVE req'[p].now # 0
  BY <1>5 DEF Create, Revoke, End, StampIsSet, TypeOK, Idle
<1>6. ASSUME Restart PROVE req'[p].now # 0
  BY <1>6 DEF Restart, Idle
<1>7. ASSUME req' = req PROVE req'[p].now # 0
  BY <1>7 DEF StampIsSet
<1> QED
  BY <1>1, <1>2, <1>3, <1>5, <1>6, <1>7, <1>4 DEF Next, vars, TouchTokenLastUsedAt, Tick

\* A request past Verify stands for the token it presented.
LEMMA OwnHolds == IInv /\ [Next]_vars => OwnToken'
<1> SUFFICES ASSUME IInv, [Next]_vars, NEW p \in Requests, req'[p].at \in {"handle", "revoke"}
    PROVE req'[p].as = req'[p].secret
  BY DEF OwnToken
<1> USE DEF IInv
<1>1. ASSUME NEW q \in Requests, Verify(q) PROVE req'[p].as = req'[p].secret
  <2>1. CASE Matches(q) = {}
    BY <1>1, <2>1 DEF Verify, OwnToken, TypeOK, Idle
  <2>2. CASE Matches(q) # {}
    <3> DEFINE winner == CHOOSE u \in Matches(q) : TRUE
    <3>1. winner = req[q].secret
      BY <2>2 DEF Matches
    <3>2. req' = [req EXCEPT ![q].at = "handle", ![q].as = winner, ![q].found = {}]
      BY <1>1, <2>2 DEF Verify
    <3> HIDE DEF winner
    <3> QED
      BY <3>1, <3>2 DEF OwnToken, TypeOK, ReqType
  <2> QED
    BY <2>1, <2>2
<1>2. ASSUME NEW q \in Requests, NEW t \in TokenIds, Arrive(q, t)
      PROVE req'[p].as = req'[p].secret
  BY <1>2 DEF Arrive, OwnToken, TypeOK, Idle
<1>3. ASSUME NEW q \in Requests, Select(q) PROVE req'[p].as = req'[p].secret
  <2> DEFINE f == ListActiveTokensByPrefix(req[q].secret)
  <2>1. req' = [req EXCEPT ![q].at = "verify", ![q].found = f]
    BY <1>3 DEF Select
  <2> HIDE DEF f
  <2> QED
    BY <2>1 DEF OwnToken, TypeOK, ReqType
<1>4. ASSUME NEW q \in Requests, Delete(q) PROVE req'[p].as = req'[p].secret
  <2>1. PICK t \in TokenIds :
          req' = [req EXCEPT ![q].at = "revoke", ![q].target = t, ![q].now = clock]
    BY <1>4 DEF Delete
  <2>2. req[q].as = req[q].secret
    BY <1>4 DEF Delete, OwnToken
  <2> QED
    BY <2>1, <2>2 DEF OwnToken, TypeOK, ReqType
<1>5. ASSUME NEW q \in Requests, Create(q) \/ Revoke(q) \/ End(q)
      PROVE req'[p].as = req'[p].secret
  BY <1>5 DEF Create, Revoke, End, OwnToken, TypeOK, Idle
<1>6. ASSUME Restart PROVE req'[p].as = req'[p].secret
  BY <1>6 DEF Restart, Idle
<1>7. ASSUME req' = req PROVE req'[p].as = req'[p].secret
  BY <1>7 DEF OwnToken
<1> QED
  BY <1>1, <1>2, <1>3, <1>5, <1>6, <1>7, <1>4 DEF Next, vars, TouchTokenLastUsedAt, Tick

-----------------------------------------------------------------------------
\* IInv holds in every reachable state: what a request has read and taken so
\* far (auth/middleware.go, store/tokens.go) decides what it may still do.
THEOREM AuthInductive == Spec => []IInv
<1>1. Init => IInv
  BY BearerAssumption
     DEF Init, IInv, TypeOK, ReqType, Stamp, DeadStaysOut, StampIsSet, OwnToken, Idle
<1>2. IInv /\ [Next]_vars => IInv'
  BY TypeHolds, DeadHolds, StampHolds, OwnHolds DEF IInv
<1> QED
  BY <1>1, <1>2, PTL DEF Spec

\* For any tokens, prefix collisions and requests, a handler runs only for
\* the token presented and never for one revoked before the request came
\* (auth/middleware.go Middleware).
THEOREM OnlyLiveTokens == Spec => []AuthorizedByLiveToken
<1>1. IInv => AuthorizedByLiveToken
  BY DEF IInv, DeadStaysOut, OwnToken, AuthorizedByLiveToken
<1> QED
  BY <1>1, AuthInductive, PTL

\* A revocation is never moved or undone, by any race of DELETEs, touches
\* and restarts (store/tokens.go RevokeToken).
THEOREM RevokedStaysRevoked == Spec => RevocationIsFinal
<1>1. IInv /\ [Next]_vars =>
        [\A t \in TokenIds : revokedAt[t] # 0 => revokedAt'[t] = revokedAt[t]]_vars
  BY RevokedForGood DEF IInv
<1> QED
  BY <1>1, AuthInductive, PTL DEF Spec, RevocationIsFinal
-----------------------------------------------------------------------------
\* TouchedOnlyByUse is not inductive: an accepted request moves authAt of its
\* token, and must not move it back below what a touch has already stored.
UsesArePast == \A t \in TokenIds : authAt[t] <= clock

\* Touches stay behind uses, and uses in the past.
LEMMA UseHolds ==
  ASSUME TypeOK, UsesArePast, TouchedOnlyByUse, [Next]_vars
  PROVE  UsesArePast' /\ TouchedOnlyByUse'
<1> DEFINE OK == UsesArePast' /\ TouchedOnlyByUse'
<1>1. /\ \A t \in TokenIds : authAt[t] \in Nat /\ lastUsed[t] \in Nat
      /\ clock \in Nat \ {0}
      /\ \A p \in touches : p.id \in TokenIds /\ p.when \in Nat
  BY BearerAssumption DEF TypeOK, Stamp
<1>2. ASSUME NEW q \in Requests, Verify(q) PROVE OK
  <2>1. CASE Matches(q) = {}
    BY <1>2, <2>1 DEF Verify, UsesArePast, TouchedOnlyByUse, table
  <2>2. CASE Matches(q) # {}
    <3> DEFINE winner == CHOOSE u \in Matches(q) : TRUE
    <3>1. winner \in Matches(q)
      BY <2>2
    <3>2. winner \in TokenIds
      BY <3>1 DEF Matches, ReqType, TypeOK
    <3>3. /\ touches' = touches \cup {[id |-> winner, when |-> clock]}
          /\ authAt' = [authAt EXCEPT ![winner] = clock]
          /\ UNCHANGED <<lastUsed, clock>>
      BY <1>2, <2>2 DEF Verify, table
    <3> HIDE DEF winner
    <3>4. \A t \in TokenIds : authAt[t] <= authAt'[t] /\ authAt'[t] <= clock
      BY <1>1, <3>2, <3>3 DEF TypeOK, UsesArePast
    <3>5. \A t \in TokenIds : lastUsed'[t] <= authAt'[t] /\ authAt'[t] \in Nat
      BY <1>1, <3>2, <3>3, <3>4 DEF TypeOK, TouchedOnlyByUse
    <3>6. ASSUME NEW p \in touches PROVE p.when <= authAt'[p.id] /\ authAt'[p.id] # 0
      <4>1. p.when <= authAt[p.id] /\ authAt[p.id] # 0 /\ p.id \in TokenIds
        BY <1>1 DEF TouchedOnlyByUse
      <4> QED BY <1>1, <3>4, <3>5, <4>1
    <3>7. authAt'[winner] = clock
      BY <3>2, <3>3 DEF TypeOK
    <3>8. \A p \in touches' : p.when <= authAt'[p.id] /\ authAt'[p.id] # 0
      BY <1>1, <3>3, <3>6, <3>7
    <3> QED BY <3>3, <3>4, <3>5, <3>8 DEF UsesArePast, TouchedOnlyByUse
  <2> QED BY <2>1, <2>2
<1>3. ASSUME NEW p \in touches, TouchTokenLastUsedAt(p) PROVE OK
  <2>1. UNCHANGED <<authAt, clock>> /\ touches' \subseteq touches
    BY <1>3 DEF TouchTokenLastUsedAt
  <2>2. \A t \in TokenIds : lastUsed'[t] <= authAt[t]
    BY <1>1, <1>3 DEF TouchTokenLastUsedAt, TouchedOnlyByUse, TypeOK
  <2> QED BY <2>1, <2>2 DEF UsesArePast, TouchedOnlyByUse
<1>4. ASSUME Restart PROVE OK
  BY <1>4 DEF Restart, table, UsesArePast, TouchedOnlyByUse
<1>5. ASSUME Tick PROVE OK
  <2>1. UNCHANGED <<lastUsed, authAt, touches>> /\ clock' = clock + 1
    BY <1>5 DEF Tick, table
  <2>2. UsesArePast'
    BY <1>1, <2>1 DEF UsesArePast
  <2> QED BY <2>1, <2>2 DEF TouchedOnlyByUse
<1>6. ASSUME UNCHANGED <<lastUsed, authAt, clock, touches>> PROVE OK
  BY <1>6 DEF UsesArePast, TouchedOnlyByUse
<1> QED
  BY <1>2, <1>3, <1>4, <1>5, <1>6
     DEF Next, vars, table, Arrive, Select, Create, Delete, Revoke, End

\* last_used_at never claims a use that did not happen, however late the
\* goroutines that write it are (auth/middleware.go, the goroutine after a
\* match).
THEOREM TouchesTellUses == Spec => []TouchedOnlyByUse
<1>1. Init => UsesArePast /\ TouchedOnlyByUse
  BY DEF Init, UsesArePast, TouchedOnlyByUse
<1>2. TypeOK /\ UsesArePast /\ TouchedOnlyByUse /\ [Next]_vars
        => UsesArePast' /\ TouchedOnlyByUse'
  BY UseHolds
<1>3. IInv => TypeOK
  BY DEF IInv
<1> QED BY <1>1, <1>2, <1>3, AuthInductive, PTL DEF Spec
=============================================================================
