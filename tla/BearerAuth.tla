----------------------------- MODULE BearerAuth -----------------------------
(***************************************************************************)
(* Bearer authentication and the token endpoints.  Every /v1 request walks *)
(* the live rows that share the presented secret's prefix, hashes the      *)
(* secret against each, and runs its handler only after a match; a match   *)
(* also starts a goroutine that writes last_used_at when it gets to it.    *)
(* The handlers create and revoke tokens, so a request is authorized by a  *)
(* row another one is about to revoke.                                     *)
(*                                                                         *)
(* One SQL statement is one step; hashing reads only the rows the SELECT   *)
(* returned and is part of the step after it.  A secret is named by the    *)
(* id of its token.  Requests without a well-formed secret are answered    *)
(* 401 before anything is read and are no steps.                           *)
(***************************************************************************)
EXTENDS Naturals, FiniteSets

CONSTANTS
  TokenIds,    \* tokens.id; also the secret handed out with the row
  Prefix,      \* the first nine characters of each secret
  Requests,    \* /v1 requests in flight
  Nobody,      \* no token
  TouchesLost, \* may a write of last_used_at fail, or die with the daemon?
  MaxClock     \* bound: seconds that pass

ASSUME BearerAssumption ==
  /\ DOMAIN Prefix = TokenIds
  /\ Nobody \notin TokenIds
  /\ TouchesLost \in BOOLEAN
  /\ MaxClock \in Nat \ {0}

VARIABLES
  rows,       \* the ids in the tokens table
  revokedAt,  \* tokens.revoked_at, 0 for NULL
  lastUsed,   \* tokens.last_used_at, 0 for NULL
  clock,      \* time.Now in seconds, from 1
  req,        \* the requests
  touches,    \* goroutines that have yet to write last_used_at
  authAt      \* history: when a token was last accepted

vars == <<rows, revokedAt, lastUsed, clock, req, touches, authAt>>
table == <<rows, revokedAt, lastUsed>>

-----------------------------------------------------------------------------
Idle  == [at |-> "idle", secret |-> Nobody, as |-> Nobody, found |-> {}, dead |-> FALSE,
          target |-> Nobody, now |-> 0]
Alive == {t \in rows : revokedAt[t] = 0}

Init ==
  /\ rows \in SUBSET TokenIds
  /\ revokedAt = [t \in TokenIds |-> 0]
  /\ lastUsed = [t \in TokenIds |-> 0]
  /\ clock = 1
  /\ req = [q \in Requests |-> Idle]
  /\ touches = {}
  /\ authAt = [t \in TokenIds |-> 0]

\* dead: the presented token was revoked before this request came.
Arrive(q, t) ==
  /\ req[q].at = "idle"
  /\ req' = [req EXCEPT ![q] = [Idle EXCEPT !.at = "select", !.secret = t,
                                            !.dead = revokedAt[t] # 0]]
  /\ UNCHANGED <<table, clock, touches, authAt>>

\* Fault: the query does not ask for revoked_at IS NULL.
ListTokensByPrefix(t) == {u \in rows : Prefix[u] = Prefix[t]}

ListActiveTokensByPrefix(t) == {u \in Alive : Prefix[u] = Prefix[t]}

Select(q) ==
  /\ req[q].at = "select"
  /\ req' = [req EXCEPT ![q].at = "verify",
                        ![q].found = ListActiveTokensByPrefix(req[q].secret)]
  /\ UNCHANGED <<table, clock, touches, authAt>>

\* Only the row of the secret itself hashes to its token_hash.
Matches(q) == {u \in req[q].found : u = req[q].secret}

\* Fault: last_used_at is touched before the hash is compared.
VerifyTouchesFirst(q) ==
  LET hit == Matches(q) # {}
  IN /\ req[q].at = "verify"
     /\ touches' = touches \cup {[id |-> u, when |-> clock] : u \in req[q].found}
     /\ req' = [req EXCEPT ![q] = IF hit THEN [@ EXCEPT !.at = "handle", !.as = req[q].secret] ELSE Idle]
     /\ authAt' = IF hit THEN [authAt EXCEPT ![req[q].secret] = clock] ELSE authAt
     /\ UNCHANGED <<table, clock>>

Verify(q) ==
  /\ req[q].at = "verify"
  /\ IF Matches(q) = {}
     THEN req' = [req EXCEPT ![q] = Idle] /\ UNCHANGED <<touches, authAt>>
     ELSE LET winner == CHOOSE u \in Matches(q) : TRUE
          IN /\ req' = [req EXCEPT ![q].at = "handle", ![q].as = winner, ![q].found = {}]
             /\ touches' = touches \cup {[id |-> winner, when |-> clock]}
             /\ authAt' = [authAt EXCEPT ![winner] = clock]
  /\ UNCHANGED <<table, clock>>

\* The goroutine's UPDATE, or its five seconds run out.
TouchTokenLastUsedAt(p) ==
  /\ p \in touches
  /\ touches' = touches \ {p}
  /\ \/ lastUsed' = [lastUsed EXCEPT ![p.id] = p.when]
     \/ TouchesLost /\ UNCHANGED lastUsed
  /\ UNCHANGED <<rows, revokedAt, clock, req, authAt>>

\* POST /v1/tokens, and the INSERT of meowthd bootstrap-token.
Create(q) ==
  /\ req[q].at = "handle"
  /\ \E t \in TokenIds \ rows : rows' = rows \cup {t}
  /\ req' = [req EXCEPT ![q] = Idle]
  /\ UNCHANGED <<revokedAt, lastUsed, clock, touches, authAt>>

\* DELETE /v1/tokens/{id}: RevokeToken takes the time, then updates.
Delete(q) ==
  /\ req[q].at = "handle"
  /\ \E t \in TokenIds : req' = [req EXCEPT ![q].at = "revoke", ![q].target = t, ![q].now = clock]
  /\ UNCHANGED <<table, clock, touches, authAt>>

\* Fault: the UPDATE does not ask for revoked_at IS NULL.
RevokeAgain(q) ==
  /\ req[q].at = "revoke"
  /\ revokedAt' = IF req[q].target \in rows
                  THEN [revokedAt EXCEPT ![req[q].target] = req[q].now]
                  ELSE revokedAt
  /\ req' = [req EXCEPT ![q] = Idle]
  /\ UNCHANGED <<rows, lastUsed, clock, touches, authAt>>

Revoke(q) ==
  /\ req[q].at = "revoke"
  /\ revokedAt' = IF req[q].target \in Alive
                  THEN [revokedAt EXCEPT ![req[q].target] = req[q].now]
                  ELSE revokedAt
  /\ req' = [req EXCEPT ![q] = Idle]
  /\ UNCHANGED <<rows, lastUsed, clock, touches, authAt>>

\* Any other handler, a failed statement, a client that leaves.
End(q) ==
  /\ req[q].at # "idle"
  /\ req' = [req EXCEPT ![q] = Idle]
  /\ UNCHANGED <<table, clock, touches, authAt>>

\* The daemon dies and starts again on the same table.
Restart ==
  /\ TouchesLost \/ touches = {}
  /\ req' = [q \in Requests |-> Idle]
  /\ touches' = {}
  /\ UNCHANGED <<table, clock, authAt>>

Tick ==
  /\ clock < MaxClock
  /\ clock' = clock + 1
  /\ UNCHANGED <<table, req, touches, authAt>>

Next ==
  \/ \E q \in Requests, t \in TokenIds : Arrive(q, t)
  \/ \E q \in Requests : Select(q) \/ Verify(q) \/ Create(q) \/ Delete(q) \/ Revoke(q) \/ End(q)
  \/ \E p \in touches : TouchTokenLastUsedAt(p)
  \/ Restart
  \/ Tick

Spec == Init /\ [][Next]_vars
=============================================================================
