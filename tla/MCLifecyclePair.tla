-------------------------- MODULE MCLifecyclePair --------------------------
(* lifecycle_pair explores two parts of the behaviours of Spec: two        *)
(* tickets and one PATCH at a time; and, once the second ticket is closed, *)
(* two overlapping PATCHes of the first with no hook.                      *)
EXTENDS MCTicketLifecycle

VARIABLE scope

scopedVars == <<vars, scope>>
Closed(row) == [row EXCEPT !.status = "RESOLVED", !.resolved_at = "recent"]
PairOrStale == PairDtos \cup StaleDtos

ScopedInit ==
  \/ scope = "pair" /\ Init
  \/ /\ scope = "stale"
     /\ \E o \in InitOwners, tm \in Teams :
          rows = [t \in Tickets |-> IF t = 1 THEN FreshRow(o, tm) ELSE Closed(FreshRow(o, tm))]
     /\ pres = [a \in Agents |-> IF a \in InitOnline THEN "ONLINE" ELSE "AWAY"]
     /\ active = [a \in Agents |-> TRUE]
     /\ reqs = {} /\ patches = {} /\ wanted = {} /\ swept = {} /\ bounces = {}
     /\ drains = [w \in Workers |-> IdleDrain] /\ sweep = IdleSweep /\ budget = MaxEvents

ScopedNext ==
  /\ Next /\ scope' = scope
  /\ \/ /\ scope = "pair" /\ Cardinality(patches') <= 1
        /\ \A p \in patches' : p.dto \in PairDtos
     \/ /\ scope = "stale" /\ drains'[h1] = IdleDrain
        /\ \A p \in patches' : p.ticket = 1 /\ p.dto \in StaleDtos

ScopedSpec == ScopedInit /\ [][ScopedNext]_scopedVars
=============================================================================
