----------------------------- MODULE OneShotReply -----------------------------
(***************************************************************************)
(* What the reply proxy promises, without tasks, subscriptions or a map: a *)
(* request opened for a requester has exactly one outcome, and its reply,  *)
(* if any, is delivered at most once, to that requester, and only if the   *)
(* outcome is "answered".                                                  *)
(***************************************************************************)
EXTENDS Naturals

CONSTANTS Request, Requester, Nobody

VARIABLES
  outcome,     \* what became of each request
  owner,       \* who asked
  delivered    \* the <<request, requester>> pairs whose reply was published

vars == <<outcome, owner, delivered>>

Outcome == {"unused", "open", "answered", "expired", "abandoned"}

Init ==
  /\ outcome = [r \in Request |-> "unused"]
  /\ owner = [r \in Request |-> Nobody]
  /\ delivered = {}

\* A new request, which may push old ones (V) out.
Open(r, who, V) ==
  /\ outcome[r] = "unused"
  /\ \A v \in V : outcome[v] = "open"
  /\ outcome' = [x \in Request |-> IF x = r THEN "open"
                                   ELSE IF x \in V THEN "expired" ELSE outcome[x]]
  /\ owner' = [owner EXCEPT ![r] = who]
  /\ UNCHANGED delivered

\* Requests whose time has come, together.
Expire(V) ==
  /\ V /= {}
  /\ \A v \in V : outcome[v] = "open"
  /\ outcome' = [x \in Request |-> IF x \in V THEN "expired" ELSE outcome[x]]
  /\ UNCHANGED <<owner, delivered>>

End(r, how) ==
  /\ outcome[r] = "open"
  /\ outcome' = [outcome EXCEPT ![r] = how]
  /\ UNCHANGED <<owner, delivered>>

Deliver(r) ==
  /\ outcome[r] = "answered"
  /\ \A who \in Requester : <<r, who>> \notin delivered
  /\ delivered' = delivered \cup {<<r, owner[r]>>}
  /\ UNCHANGED <<outcome, owner>>

Settle(r) ==
  \/ End(r, "answered")
  \/ End(r, "abandoned")
  \/ \E V \in SUBSET Request : r \in V /\ Expire(V)
  \/ \E n \in Request, who \in Requester, V \in SUBSET Request :
        r \in V /\ Open(n, who, V)

Next ==
  \/ \E r \in Request, who \in Requester, V \in SUBSET Request : Open(r, who, V)
  \/ \E V \in SUBSET Request : Expire(V)
  \/ \E r \in Request, how \in {"answered", "abandoned"} : End(r, how)
  \/ \E r \in Request : Deliver(r)

Safety == Init /\ [][Next]_vars

\* Every open request is eventually settled.
Spec == Safety /\ \A r \in Request : WF_vars(Settle(r))

=============================================================================
