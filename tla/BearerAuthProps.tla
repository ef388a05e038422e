-------------------------- MODULE BearerAuthProps --------------------------
(***************************************************************************)
(* What bearer authentication promises, over the behaviour in BearerAuth.  *)
(***************************************************************************)
EXTENDS BearerAuth

Stamp   == 0 .. MaxClock
ReqType == [at : {"idle", "select", "verify", "handle", "revoke"},
            secret : TokenIds \cup {Nobody}, as : TokenIds \cup {Nobody},
            found : SUBSET TokenIds, dead : BOOLEAN,
            target : TokenIds \cup {Nobody}, now : Stamp]

TypeOK ==
  /\ rows \subseteq TokenIds
  /\ revokedAt \in [TokenIds -> Stamp]
  /\ lastUsed \in [TokenIds -> Stamp]
  /\ authAt \in [TokenIds -> Stamp]
  /\ clock \in 1 .. MaxClock
  /\ touches \subseteq [id : TokenIds, when : Stamp]
  /\ req \in [Requests -> ReqType]

\* A handler runs only for the token that was presented, even when other
\* rows share its prefix, and never for one whose revocation was stored
\* before the request came; a request that was in flight may finish
\* (auth/middleware.go Middleware, ListActiveTokensByPrefix).
AuthorizedByLiveToken ==
  \A q \in Requests : req[q].at \in {"handle", "revoke"} =>
    req[q].as = req[q].secret /\ ~req[q].dead

\* The first revocation decides: of two racing DELETEs the later one
\* neither moves the time nor brings the token back, and nor does a touch
\* that is written after it (store/tokens.go RevokeToken).
RevocationIsFinal ==
  [][\A t \in TokenIds : revokedAt[t] # 0 => revokedAt'[t] = revokedAt[t]]_vars

\* last_used_at never claims a use that did not happen: it is the time of
\* some accepted request, and rejected ones leave no mark
\* (auth/middleware.go, the goroutine after a match).
TouchedOnlyByUse ==
  /\ \A t \in TokenIds : lastUsed[t] <= authAt[t]
  /\ \A p \in touches : p.when <= authAt[p.id] /\ authAt[p.id] # 0
=============================================================================
