------------------------ MODULE TicketLifecycleProofs ------------------------
(* Proofs about TicketLifecycle, for every set of tickets, agents, teams,  *)
(* workers and requests.                                                   *)
(*                                                                         *)
(* The inductive invariant joins the type of the state to the coherence of *)
(* every row and to what the locks guarantee: a locked row is still the    *)
(* one its holder selected, and has one holder.  Coherence needs the locks *)
(* (the hook clears the timer of what it locked as a followup) and the     *)
(* locks need coherence (an OPEN row has no timer that could elapse).      *)
EXTENDS TicketLifecycle, FiniteSetTheorems, TLAPS

(* Every write of a row yields a row: the writers of TicketRow keep each   *)
(* column in its type.                                                     *)
LEMMA PatchedType ==
  ASSUME NEW cur \in Row, NEW read \in Row, NEW dto \in PatchDto,
         dto.status = "WAITING" <=> dto.waiting_action # "null"
  PROVE  Patched(cur, read, dto) \in Row
<1> DEFINE owner == IF ChangesAssignee(read, dto) THEN dto.assignee ELSE cur.assignee
           tm    == IF ChangesTeam(read, dto) THEN dto.team ELSE cur.team
<1>1. owner \in Owners BY DEF ChangesAssignee, PatchDto, Row
<1>2. tm \in Teams BY DEF ChangesTeam, PatchDto, Row
<1>3. PatchedResolvedAt(cur, read, dto) \in {"null", "recent", "old"}
  BY DEF PatchedResolvedAt, Row
<1>4. CASE ChangesStatus(read, dto)
  BY <1>1, <1>2, <1>3, <1>4 DEF Patched, ChangesStatus, PatchDto, Row, TicketStatus, PausedStatus
<1>5. CASE ~ChangesStatus(read, dto)
  BY <1>1, <1>2, <1>5 DEF Patched, Row
<1> QED BY <1>4, <1>5

LEMMA WriterTypes ==
  ASSUME NEW row \in Row, NEW owner \in Owners
  PROVE  /\ TimerResolved(row) \in Row /\ TimerReopened(row, owner) \in Row
         /\ FollowupRequeued(row) \in Row /\ FollowupWoken(row) \in Row
         /\ Assigned(row, owner) \in Row
         /\ [row EXCEPT !.resume_at = "ripe"] \in Row
BY DEF TimerResolved, TimerReopened, FollowupRequeued, FollowupWoken, Assigned,
       Row, Owners, TicketStatus

(* The writers keep a coherent row coherent.                               *)
LEMMA PatchedCoherent ==
  ASSUME NEW cur \in Row, NEW read \in Row, NEW dto \in PatchDto, Coherent(cur),
         dto.status = "WAITING" <=> dto.waiting_action # "null"
  PROVE  Coherent(Patched(cur, read, dto))
<1>1. CASE ChangesStatus(read, dto)
  BY <1>1 DEF Patched, ChangesStatus, PatchedResolvedAt, Coherent, PatchDto, Row,
              TicketStatus, PausedStatus
<1>2. CASE ~ChangesStatus(read, dto)
  BY <1>2 DEF Patched, Coherent, Row
<1> QED BY <1>1, <1>2

LEMMA WritersCoherent ==
  ASSUME NEW row \in Row, NEW owner \in Owners, Coherent(row)
  PROVE  /\ Coherent(TimerResolved(row)) /\ Coherent(TimerReopened(row, owner))
         /\ Coherent(Assigned(row, owner))
         /\ row.resume_at = "pending" => Coherent([row EXCEPT !.resume_at = "ripe"])
         /\ row.status = "IN_FOLLOWUP" => /\ Coherent(FollowupRequeued(row))
                                          /\ Coherent(FollowupWoken(row))
BY DEF TimerResolved, TimerReopened, FollowupRequeued, FollowupWoken, Assigned,
       Coherent, Row, PausedStatus
----------------------------------------------------------------------------
(* A drain that holds a row holds one of the tickets.                      *)
DrainsHoldTickets ==
  \A w \in Workers : drains[w].phase \in {"followup", "pull"} => drains[w].ticket \in Tickets

IInv == TypeOK /\ DrainsHoldTickets /\ TimerCoherent /\ LockedRowsHold /\ LocksExclusive

(* What a lock holds has no timer still running.                           *)
LEMMA LockedNotPending ==
  ASSUME IInv, NEW t \in Tickets, Locked(t)
  PROVE  rows[t].resume_at # "pending"
<1>1. CASE t \in SweepHolds
  BY <1>1 DEF IInv, LockedRowsHold, SweepRowsHold, SweepHolds
<1>2. CASE \E w \in Workers : t \in DrainHolds(w)
  <2>1. PICK w \in Workers : t \in DrainHolds(w) BY <1>2
  <2>2. DrainRowHolds(w) /\ Coherent(rows[t]) /\ rows[t] \in Row
    BY <2>1 DEF IInv, LockedRowsHold, TimerCoherent, TypeOK
  <2> QED BY <2>1, <2>2 DEF DrainHolds, DrainRowHolds, Queued, Coherent, PausedStatus
<1> QED BY <1>1, <1>2 DEF Locked

(* Steps that leave the transactions alone, and the rows they have locked, *)
(* leave what the locks guarantee alone.                                   *)
LEMMA LocksUndisturbed ==
  ASSUME IInv, UNCHANGED <<drains, sweep>>,
         \A t \in Tickets : Locked(t) => rows'[t] = rows[t]
  PROVE  DrainsHoldTickets' /\ LockedRowsHold' /\ LocksExclusive'
<1>1. DrainsHoldTickets' BY DEF IInv, DrainsHoldTickets
<1>2. \A t \in SweepHolds : t \in Tickets /\ rows'[t] = rows[t]
  BY DEF IInv, TypeOK, SweepTxn, SweepHolds, Locked
<1>3. SweepRowsHold'
  BY <1>2 DEF IInv, LockedRowsHold, SweepRowsHold, SweepHolds
<1>4. \A w \in Workers : drains[w].phase \in {"followup", "pull"} =>
         drains[w].ticket \in Tickets /\ rows'[drains[w].ticket] = rows[drains[w].ticket]
  BY DEF IInv, DrainsHoldTickets, Locked, DrainHolds
<1>5. ASSUME NEW w \in Workers PROVE DrainRowHolds(w)'
  BY <1>4 DEF IInv, LockedRowsHold, DrainRowHolds, Queued
<1>6. LocksExclusive'
  BY <1>4 DEF IInv, LocksExclusive, DrainHolds, SweepHolds
<1> QED BY <1>1, <1>3, <1>5, <1>6 DEF LockedRowsHold
----------------------------------------------------------------------------
LEMMA InitInv == Init => IInv
<1> SUFFICES ASSUME Init PROVE IInv OBVIOUS
<1> USE BotAssumption, AgentsAssumption, NumbersAssumption
<1>1. \A t \in Tickets : rows[t] \in {FreshRow(o, tm) : o \in InitOwners, tm \in Teams}
  BY DEF Init
<1>2. ASSUME NEW t \in Tickets PROVE rows[t] \in Row /\ Coherent(rows[t])
  BY <1>1 DEF FreshRow, Row, TicketStatus, Coherent, PausedStatus, Owners
<1>3. TypeOK
  BY <1>2 DEF Init, TypeOK, Presence, DrainTxn, IdleDrain, SweepTxn, IdleSweep, Owners, NoTicket
<1>4. DrainsHoldTickets /\ LockedRowsHold /\ LocksExclusive
  BY DEF Init, DrainsHoldTickets, LockedRowsHold, SweepRowsHold, DrainRowHolds, LocksExclusive,
         IdleDrain, IdleSweep, DrainHolds, SweepHolds
<1> QED BY <1>2, <1>3, <1>4 DEF IInv, TimerCoherent

(* One step per action.                                                    *)
LEMMA ElapseInv == ASSUME IInv, NEW t \in Tickets, Elapse(t) PROVE IInv'
<1>1. /\ rows' = [rows EXCEPT ![t] = [rows[t] EXCEPT !.resume_at = "ripe"]]
      /\ rows[t] \in Row /\ Coherent(rows[t]) /\ rows[t].resume_at = "pending"
  BY DEF Elapse, IInv, TypeOK, TimerCoherent
<1>2. [rows[t] EXCEPT !.resume_at = "ripe"] \in Row
  BY <1>1, WriterTypes DEF Row
<1>3. Coherent([rows[t] EXCEPT !.resume_at = "ripe"])
  BY <1>1, WritersCoherent DEF Row
<1>4. TypeOK' BY <1>1, <1>2 DEF IInv, TypeOK, Elapse, people, jobs
<1>5. TimerCoherent' BY <1>1, <1>3 DEF IInv, TypeOK, TimerCoherent
<1>6. \A u \in Tickets : Locked(u) => rows'[u] = rows[u]
  BY <1>1, LockedNotPending DEF IInv, TypeOK
<1>7. UNCHANGED <<drains, sweep>> BY DEF Elapse, jobs
<1> QED BY <1>4, <1>5, <1>6, <1>7, LocksUndisturbed DEF IInv

LEMMA PatchReadInv ==
  ASSUME IInv, NEW t \in Tickets, NEW dto \in Dtos, PatchRead(t, dto) PROVE IInv'
<1>1. TypeOK' BY DEF IInv, TypeOK, PatchRead, PatchTxn, people, jobs, Spend
<1>2. UNCHANGED <<rows, drains, sweep>> BY DEF PatchRead, jobs
<1>3. TimerCoherent' BY <1>2 DEF IInv, TimerCoherent
<1> QED BY <1>1, <1>2, <1>3, LocksUndisturbed DEF IInv

LEMMA PatchWriteInv == ASSUME IInv, NEW p \in patches, PatchWrite(p) PROVE IInv'
<1> DEFINE t == p.ticket
<1>1. /\ t \in Tickets /\ p.read \in Row /\ p.dto \in PatchDto
      /\ p.dto.status = "WAITING" <=> p.dto.waiting_action # "null"
  BY DtosAssumption DEF IInv, TypeOK, PatchTxn
<1>2. rows[t] \in Row /\ Coherent(rows[t]) BY <1>1 DEF IInv, TypeOK, TimerCoherent
<1>3. rows' = [rows EXCEPT ![t] = Patched(rows[t], p.read, p.dto)] BY DEF PatchWrite
<1>4. Freed(p.read, p.dto) \subseteq Agents BY DEF Freed
<1>5. Patched(rows[t], p.read, p.dto) \in Row BY <1>1, <1>2, PatchedType
<1>9. TypeOK'
  BY <1>1, <1>3, <1>4, <1>5 DEF IInv, TypeOK, PatchWrite, people
<1>6. TimerCoherent'
  BY <1>1, <1>2, <1>3, PatchedCoherent DEF IInv, TypeOK, TimerCoherent
<1>7. \A u \in Tickets : Locked(u) => rows'[u] = rows[u]
  BY <1>1, <1>3 DEF PatchWrite, IInv, TypeOK
<1>8. UNCHANGED <<drains, sweep>> BY DEF PatchWrite
<1> QED BY <1>6, <1>7, <1>8, <1>9, LocksUndisturbed DEF IInv

(* Presence, accounts and the starting of jobs touch neither rows nor      *)
(* locks.                                                                  *)
LEMMA PeopleInv ==
  ASSUME IInv,
         \/ \E a \in Agents : SetAway(a) \/ Deactivate(a) \/ Reactivate(a)
         \/ \E a \in Agents, next \in {"ONLINE", "EMERGENCY"} : StatusRead(a, next)
         \/ \E r \in reqs : StatusWrite(r)
  PROVE  IInv'
<1>1. UNCHANGED <<rows, drains, sweep>>
  BY DEF SetAway, Deactivate, Reactivate, StatusRead, StatusWrite, jobs
<1>2. CASE \E a \in Agents : SetAway(a) \/ Deactivate(a) \/ Reactivate(a)
  <2>1. PICK a \in Agents : SetAway(a) \/ Deactivate(a) \/ Reactivate(a) BY <1>2
  <2>2. pres' \in [Agents -> Presence]
    BY <2>1 DEF IInv, TypeOK, SetAway, Deactivate, Reactivate, Presence
  <2>3. active' \in [Agents -> BOOLEAN]
    BY <2>1 DEF IInv, TypeOK, SetAway, Deactivate, Reactivate
  <2>4. budget' \in Nat BY <2>1 DEF IInv, TypeOK, SetAway, Deactivate, Reactivate, Spend
  <2>5. UNCHANGED <<reqs, patches, jobs>> BY <2>1 DEF SetAway, Deactivate, Reactivate
  <2>6. TypeOK' BY <1>1, <2>2, <2>3, <2>4, <2>5 DEF IInv, TypeOK, jobs
  <2> QED BY <1>1, <2>6, LocksUndisturbed DEF IInv, TimerCoherent
<1>3. CASE \E a \in Agents, next \in {"ONLINE", "EMERGENCY"} : StatusRead(a, next)
  <2>1. PICK a \in Agents, next \in {"ONLINE", "EMERGENCY"} : StatusRead(a, next) BY <1>3
  <2>2. [agent |-> a, next |-> next, prev |-> pres[a]] \in StatusReq
    BY DEF IInv, TypeOK, StatusReq
  <2>3. reqs' \subseteq StatusReq BY <2>1, <2>2 DEF IInv, TypeOK, StatusRead
  <2>4. TypeOK' BY <2>1, <2>3 DEF IInv, TypeOK, StatusRead, Spend, jobs
  <2> QED BY <1>1, <2>4, LocksUndisturbed DEF IInv, TimerCoherent
<1>4. CASE \E r \in reqs : StatusWrite(r)
  <2>1. PICK r \in reqs : StatusWrite(r) BY <1>4
  <2>2. r \in StatusReq BY DEF IInv, TypeOK
  <2>3. r.agent \in Agents /\ r.next \in Presence BY <2>2 DEF StatusReq, Presence
  <2>4. [agent |-> r.agent, phase |-> "pending", ids |-> {}] \in BounceTxn
    BY <2>3 DEF BounceTxn
  <2>5. bounces' \subseteq BounceTxn
    BY <2>1, <2>4 DEF IInv, TypeOK, StatusWrite
  <2>6. wanted' \subseteq Agents BY <2>1, <2>3 DEF IInv, TypeOK, StatusWrite
  <2>7. pres' \in [Agents -> Presence] BY <2>1, <2>3 DEF IInv, TypeOK, StatusWrite
  <2>8. reqs' \subseteq StatusReq BY <2>1 DEF IInv, TypeOK, StatusWrite
  <2>9. TypeOK' BY <2>1, <2>5, <2>6, <2>7, <2>8 DEF IInv, TypeOK, StatusWrite
  <2> QED BY <1>1, <2>9, LocksUndisturbed DEF IInv, TimerCoherent
<1> QED BY <1>2, <1>3, <1>4

(* A drain that takes hold of a free row, or lets go of one, keeps what    *)
(* the locks guarantee.                                                    *)
LEMMA AdvanceLocks ==
  ASSUME IInv, NEW w \in Workers, NEW txn \in DrainTxn, Advance(w, txn),
         UNCHANGED <<rows, sweep>>,
         txn.phase \in {"followup", "pull"} => txn.ticket \in Tickets /\ ~Locked(txn.ticket),
         txn.phase = "followup" => txn.ticket \in RipeFollowups(txn.agent),
         txn.phase = "pull" => Queued(txn.ticket) /\ ~TeamLocked(rows[txn.ticket].team)
  PROVE  DrainsHoldTickets' /\ LockedRowsHold' /\ LocksExclusive'
<1>1. /\ drains'[w] = txn
      /\ \A v \in Workers : v # w => drains'[v] = drains[v]
  BY DEF Advance, IInv, TypeOK
<1>2. DrainsHoldTickets' BY <1>1 DEF IInv, DrainsHoldTickets
<1>3. SweepRowsHold' BY DEF IInv, LockedRowsHold, SweepRowsHold
<1>4. DrainRowHolds(w)' BY <1>1 DEF DrainRowHolds, RipeFollowups, Queued
<1>5. ASSUME NEW v \in Workers, v # w PROVE DrainRowHolds(v)'
  BY <1>1, <1>5 DEF IInv, LockedRowsHold, DrainRowHolds, Queued
<1>6. SweepHolds' = SweepHolds BY DEF SweepHolds
<1>7. \A v \in Workers : v # w => DrainHolds(v)' = DrainHolds(v)
  BY <1>1 DEF DrainHolds
<1>8. DrainHolds(w)' \cap SweepHolds = {}
      /\ \A v \in Workers : v # w => DrainHolds(w)' \cap DrainHolds(v) = {}
  BY <1>1 DEF DrainHolds, Locked
<1>9. ASSUME NEW v \in Workers, v # w, drains[v].phase = "pull", txn.phase = "pull"
      PROVE  rows[drains[v].ticket].team # rows[txn.ticket].team
  BY <1>9 DEF TeamLocked
<1>10. \A v \in Workers : (DrainHolds(v) \cap SweepHolds)' = {}
  BY <1>6, <1>7, <1>8 DEF IInv, LocksExclusive
<1>11. \A u, v \in Workers : u # v => (DrainHolds(u) \cap DrainHolds(v))' = {}
  BY <1>7, <1>8 DEF IInv, LocksExclusive
<1>12. \A u, v \in Workers : u # v =>
         ~ /\ drains'[u].phase = "pull" /\ drains'[v].phase = "pull"
           /\ rows'[drains'[u].ticket].team = rows'[drains'[v].ticket].team
  BY <1>1, <1>9 DEF IInv, LocksExclusive
<1>13. LocksExclusive' BY <1>10, <1>11, <1>12 DEF LocksExclusive
<1> QED BY <1>2, <1>3, <1>4, <1>5, <1>13 DEF LockedRowsHold

LEMMA IdleDrainType == IdleDrain \in DrainTxn /\ IdleDrain.phase = "idle"
BY DEF IdleDrain, DrainTxn, Owners, NoTicket

LEMMA BeginType ==
  ASSUME NEW a \in Owners
  PROVE  /\ [IdleDrain EXCEPT !.agent = a, !.phase = "begin"] \in DrainTxn
         /\ [IdleDrain EXCEPT !.agent = a, !.phase = "begin"].phase = "begin"
BY DEF IdleDrain, DrainTxn, Owners, NoTicket

LEMMA JobStartInv ==
  ASSUME IInv,
         \/ \E w \in Workers : HookStep(w)
         \/ CapacitySweep
  PROVE  IInv'
<1>1. CASE \E w \in Workers : HookStep(w)
  <2>1. PICK w \in Workers, a \in Agents : HookBegins(w, a) BY <1>1 DEF HookStep
  <2> DEFINE txn == [IdleDrain EXCEPT !.agent = a, !.phase = "begin"]
  <2>2. txn \in DrainTxn /\ txn.phase = "begin" BY BeginType DEF Owners
  <2> HIDE DEF txn
  <2>3. Advance(w, txn) /\ UNCHANGED <<rows, sweep>> BY <2>1 DEF HookBegins, txn
  <2>4. TypeOK' BY <2>1, <2>2, <2>3 DEF IInv, TypeOK, HookBegins, Advance, people
  <2> QED BY <2>2, <2>3, <2>4, AdvanceLocks DEF IInv, TimerCoherent
<1>2. CASE CapacitySweepStart
  <2>1. TypeOK' BY <1>2 DEF IInv, TypeOK, CapacitySweepStart, OnlineMembers, people
  <2> QED BY <1>2, <2>1, LocksUndisturbed DEF IInv, TimerCoherent, CapacitySweepStart
<1>3. ASSUME NEW a \in Agents, SweeperVisits(a) PROVE IInv'
  <2> DEFINE txn == [IdleDrain EXCEPT !.agent = a, !.phase = "begin"]
  <2>1. txn \in DrainTxn /\ txn.phase = "begin" BY BeginType DEF Owners
  <2> HIDE DEF txn
  <2>2. Advance(Sweeper, txn) /\ UNCHANGED <<rows, sweep>> BY <1>3 DEF SweeperVisits, txn
  <2>3. Sweeper \in Workers BY DEF Workers
  <2>4. TypeOK' BY <1>3, <2>1, <2>2, <2>3 DEF IInv, TypeOK, SweeperVisits, Advance, people
  <2> QED BY <2>1, <2>2, <2>3, <2>4, AdvanceLocks DEF IInv, TimerCoherent
<1> QED BY <1>1, <1>2, <1>3 DEF CapacitySweep

(* A transaction of the drain that moves no row.                           *)
LEMMA DrainQuietInv ==
  ASSUME IInv, NEW w \in Workers, NEW txn \in DrainTxn, Advance(w, txn),
         UNCHANGED <<rows, people, patches, wanted, swept, sweep, bounces>>, budget' \in Nat,
         txn.phase \in {"followup", "pull"} => txn.ticket \in Tickets /\ ~Locked(txn.ticket),
         txn.phase = "followup" => txn.ticket \in RipeFollowups(txn.agent),
         txn.phase = "pull" => Queued(txn.ticket) /\ ~TeamLocked(rows[txn.ticket].team)
  PROVE  IInv'
<1>1. TypeOK' BY DEF IInv, TypeOK, Advance, people
<1>2. TimerCoherent' BY DEF IInv, TimerCoherent
<1> QED BY <1>1, <1>2, AdvanceLocks DEF IInv

LEMMA DrainTxnStartInv == ASSUME IInv, NEW w \in Workers, DrainTxnStart(w) PROVE IInv'
<1>1. /\ UNCHANGED <<rows, people, patches, wanted, swept, sweep, bounces>>
      /\ budget' \in Nat /\ drains[w] \in DrainTxn
  BY DEF DrainTxnStart, IInv, TypeOK
<1>2. CASE Advance(w, IdleDrain) BY <1>1, <1>2, IdleDrainType, DrainQuietInv
<1>3. ASSUME NEW t \in RipeFollowups(drains[w].agent),
             Advance(w, [drains[w] EXCEPT !.phase = "followup", !.ticket = t])
      PROVE  IInv'
  <2> DEFINE txn == [drains[w] EXCEPT !.phase = "followup", !.ticket = t]
  <2>1. t \in Tickets /\ ~Locked(t) BY DEF RipeFollowups
  <2>2. /\ txn \in DrainTxn /\ txn.phase = "followup" /\ txn.ticket = t
        /\ txn.agent = drains[w].agent
    BY <1>1, <2>1 DEF DrainTxn
  <2> HIDE DEF txn
  <2>3. Advance(w, txn) BY <1>3 DEF txn
  <2> QED BY <1>1, <2>1, <2>2, <2>3, DrainQuietInv
<1>4. ASSUME Advance(w, [drains[w] EXCEPT !.phase = "scanned", !.cands = Candidates(drains[w].agent)])
      PROVE  IInv'
  <2> DEFINE txn == [drains[w] EXCEPT !.phase = "scanned", !.cands = Candidates(drains[w].agent)]
  <2>1. Candidates(drains[w].agent) \subseteq Tickets \X Teams BY DEF Candidates
  <2>2. txn \in DrainTxn /\ txn.phase = "scanned" BY <1>1, <2>1 DEF DrainTxn
  <2> HIDE DEF txn
  <2>3. Advance(w, txn) BY <1>4 DEF txn
  <2> QED BY <1>1, <2>2, <2>3, DrainQuietInv
<1> QED BY <1>2, <1>3, <1>4 DEF DrainTxnStart

LEMMA DrainTxnLockInv == ASSUME IInv, NEW w \in Workers, DrainTxnLock(w) PROVE IInv'
<1>1. /\ UNCHANGED <<rows, people, patches, wanted, swept, sweep, bounces>>
      /\ budget' \in Nat /\ drains[w] \in DrainTxn
  BY DEF DrainTxnLock, IInv, TypeOK
<1>2. CASE Advance(w, IdleDrain) BY <1>1, <1>2, IdleDrainType, DrainQuietInv
<1>3. ASSUME NEW c \in drains[w].cands, Lockable(c),
             Advance(w, [drains[w] EXCEPT !.phase = "pull", !.ticket = c[1], !.cands = {}])
      PROVE  IInv'
  <2> DEFINE txn == [drains[w] EXCEPT !.phase = "pull", !.ticket = c[1], !.cands = {}]
  <2>1. c[1] \in Tickets BY <1>1 DEF DrainTxn
  <2>2. txn \in DrainTxn /\ txn.phase = "pull" /\ txn.ticket = c[1]
    BY <1>1, <2>1 DEF DrainTxn
  <2> HIDE DEF txn
  <2>3. ~Locked(c[1]) /\ Queued(c[1]) /\ ~TeamLocked(rows[c[1]].team)
    BY <1>3 DEF Lockable
  <2>4. Advance(w, txn) BY <1>3 DEF txn
  <2> QED BY <1>1, <2>1, <2>2, <2>3, <2>4, DrainQuietInv
<1> QED BY <1>2, <1>3 DEF DrainTxnLock

LEMMA DrainTxnFailsInv == ASSUME IInv, NEW w \in Workers, DrainTxnFails(w) PROVE IInv'
<1>1. /\ UNCHANGED <<rows, people, patches, wanted, swept, sweep, bounces>>
      /\ budget' \in Nat /\ Advance(w, IdleDrain)
  BY DEF DrainTxnFails, Spend, IInv, TypeOK
<1> QED BY <1>1, IdleDrainType, DrainQuietInv

(* A drain commits: its one row changes while the lock on it goes.         *)
LEMMA DrainTxnCommitInv == ASSUME IInv, NEW w \in Workers, DrainTxnCommit(w) PROVE IInv'
<1> DEFINE d == drains[w]
           t == d.ticket
           txn == [IdleDrain EXCEPT !.agent = d.agent, !.phase = "begin"]
<1>1. /\ d.phase \in {"followup", "pull"} /\ d \in DrainTxn /\ t \in Tickets
      /\ rows[t] \in Row /\ Coherent(rows[t]) /\ d.agent \in Owners
  BY DEF DrainTxnCommit, IInv, TypeOK, DrainsHoldTickets, TimerCoherent, DrainTxn
<1>2. txn \in DrainTxn /\ txn.phase = "begin" BY <1>1, BeginType
<1>3. PICK row \in {FollowupWoken(rows[t]), Assigned(rows[t], d.agent)} :
        /\ rows' = [rows EXCEPT ![t] = row] /\ row \in Row /\ Coherent(row)
  <2>1. CASE d.phase = "followup"
    <3>1. rows[t].status = "IN_FOLLOWUP"
      BY <2>1 DEF IInv, LockedRowsHold, DrainRowHolds
    <3> QED BY <1>1, <2>1, <3>1, WriterTypes, WritersCoherent DEF DrainTxnCommit
  <2>2. CASE d.phase = "pull"
    BY <1>1, <2>2, WriterTypes, WritersCoherent DEF DrainTxnCommit
  <2> QED BY <1>1, <2>1, <2>2
<1> HIDE DEF txn
<1>4. /\ drains' = [drains EXCEPT ![w] = txn]
      /\ UNCHANGED <<people, patches, wanted, swept, sweep, bounces, budget>>
  BY DEF DrainTxnCommit, Advance, txn
<1>5. TypeOK' BY <1>1, <1>2, <1>3, <1>4 DEF IInv, TypeOK, people
<1>6. TimerCoherent' BY <1>1, <1>3 DEF IInv, TypeOK, TimerCoherent
<1>7. /\ drains'[w].phase = "begin"
      /\ \A v \in Workers : v # w => drains'[v] = drains[v]
  BY <1>2, <1>4 DEF IInv, TypeOK
<1>8. DrainHolds(w) = {t} BY <1>1 DEF DrainHolds
<1>9. \A u \in Tickets : u # t => rows'[u] = rows[u] BY <1>3 DEF IInv, TypeOK
<1>10. t \notin SweepHolds BY <1>8 DEF IInv, LocksExclusive
<1>11. SweepRowsHold'
  BY <1>4, <1>9, <1>10 DEF IInv, TypeOK, SweepTxn, LockedRowsHold, SweepRowsHold, SweepHolds
<1>12. ASSUME NEW v \in Workers, v # w, drains[v].phase \in {"followup", "pull"}
       PROVE  /\ drains[v].ticket \in Tickets
              /\ rows'[drains[v].ticket] = rows[drains[v].ticket]
  <2>1. drains[v].ticket \in Tickets BY <1>12 DEF IInv, DrainsHoldTickets
  <2>2. DrainHolds(v) = {drains[v].ticket} BY <1>12 DEF DrainHolds
  <2>3. drains[v].ticket # t BY <1>8, <1>12, <2>2 DEF IInv, LocksExclusive
  <2> QED BY <1>9, <2>1, <2>3
<1>13. DrainsHoldTickets' BY <1>7 DEF IInv, DrainsHoldTickets
<1>14. ASSUME NEW v \in Workers PROVE DrainRowHolds(v)'
  BY <1>7, <1>12 DEF IInv, LockedRowsHold, DrainRowHolds, Queued
<1>15. SweepHolds' = SweepHolds BY <1>4 DEF SweepHolds
<1>16. \A v \in Workers : DrainHolds(v)' \subseteq DrainHolds(v) BY <1>7 DEF DrainHolds
<1>17. \A v \in Workers : (DrainHolds(v) \cap SweepHolds)' = {}
  BY <1>15, <1>16 DEF IInv, LocksExclusive
<1>18. \A u, v \in Workers : u # v => (DrainHolds(u) \cap DrainHolds(v))' = {}
  BY <1>16 DEF IInv, LocksExclusive
<1>19. \A u, v \in Workers : u # v =>
         ~ /\ drains'[u].phase = "pull" /\ drains'[v].phase = "pull"
           /\ rows'[drains'[u].ticket].team = rows'[drains'[v].ticket].team
  BY <1>7, <1>12 DEF IInv, LocksExclusive
<1>20. LocksExclusive' BY <1>17, <1>18, <1>19 DEF LocksExclusive
<1> QED BY <1>5, <1>6, <1>11, <1>13, <1>14, <1>20 DEF IInv, LockedRowsHold
----------------------------------------------------------------------------
(* The timer sweep.                                                        *)

LEMMA BatchesSubset == ASSUME NEW S, NEW B \in Batches(S) PROVE B \subseteq S
BY DEF Batches

LEMMA RipeUnlockedFree ==
  ASSUME NEW s, NEW t \in RipeUnlocked(s)
  PROVE  /\ t \in Tickets /\ t \notin SweepHolds
         /\ \A w \in Workers : t \notin DrainHolds(w)
         /\ rows[t].status = s /\ rows[t].resume_at = "ripe"
BY DEF RipeUnlocked, Locked

(* A sweep that only takes hold of free rows keeps the locks exclusive.    *)
LEMMA SweepQuietInv ==
  ASSUME IInv, sweep' \in SweepTxn, SweepRowsHold',
         UNCHANGED <<rows, people, patches, wanted, swept, drains, bounces>>, budget' \in Nat,
         \A t \in SweepHolds' : t \notin SweepHolds =>
            \A w \in Workers : t \notin DrainHolds(w)
  PROVE  IInv'
<1>1. TypeOK' BY DEF IInv, TypeOK, people
<1>2. TimerCoherent' BY DEF IInv, TimerCoherent
<1>3. DrainsHoldTickets' BY DEF IInv, DrainsHoldTickets
<1>4. \A w \in Workers : DrainRowHolds(w)'
  BY DEF IInv, LockedRowsHold, DrainRowHolds, Queued
<1>5. \A w \in Workers : DrainHolds(w)' = DrainHolds(w) BY DEF DrainHolds
<1>6. \A w \in Workers : (DrainHolds(w) \cap SweepHolds)' = {}
  BY <1>5 DEF IInv, LocksExclusive
<1>7. LocksExclusive' BY <1>5, <1>6 DEF IInv, LocksExclusive
<1> QED BY <1>1, <1>2, <1>3, <1>4, <1>7 DEF IInv, LockedRowsHold

LEMMA SweepSelectWaitingInv == ASSUME IInv, SweepSelectWaiting PROVE IInv'
<1>1. PICK B \in Batches(RipeUnlocked("WAITING")) :
        LET reopen == {t \in B : rows[t].waiting_action = "REOPEN"} IN
        sweep' = [IdleSweep EXCEPT !.phase = "waiting", !.resolve = B \ reopen,
                    !.keep = {t \in reopen : Stays(t)},
                    !.toBot = {t \in reopen : ~Stays(t)}]
  BY DEF SweepSelectWaiting
<1>2. B \subseteq RipeUnlocked("WAITING") BY BatchesSubset
<1>3. \A t \in B : /\ t \in Tickets /\ \A w \in Workers : t \notin DrainHolds(w)
                   /\ rows[t].status = "WAITING" /\ rows[t].resume_at = "ripe"
  BY <1>2, RipeUnlockedFree
<1> DEFINE reopen == {t \in B : rows[t].waiting_action = "REOPEN"}
<1>4. /\ sweep'.phase = "waiting" /\ sweep'.resolve = B \ reopen
      /\ sweep'.keep \subseteq reopen /\ sweep'.toBot \subseteq reopen
      /\ sweep'.requeue = {} /\ sweep'.leave = {}
  BY <1>1 DEF IdleSweep
<1>5. sweep' \in SweepTxn BY <1>1, <1>3 DEF SweepTxn, IdleSweep
<1>6. SweepRowsHold' BY <1>3, <1>4 DEF SweepRowsHold, SweepSelectWaiting
<1>7. \A t \in SweepHolds' : \A w \in Workers : t \notin DrainHolds(w)
  BY <1>3, <1>4 DEF SweepHolds
<1>8. /\ UNCHANGED <<rows, people, patches, wanted, swept, drains, bounces>>
      /\ budget' \in Nat
  BY DEF SweepSelectWaiting, IInv, TypeOK
<1> QED BY <1>5, <1>6, <1>7, <1>8, SweepQuietInv

LEMMA SweepSelectFollowupInv == ASSUME IInv, SweepSelectFollowup PROVE IInv'
<1>1. PICK B \in Batches(RipeUnlocked("IN_FOLLOWUP")) :
        sweep' = [sweep EXCEPT !.phase = "locked",
                    !.requeue = {t \in B : ~Stays(t)}, !.leave = {t \in B : Stays(t)}]
  BY DEF SweepSelectFollowup
<1>2. B \subseteq RipeUnlocked("IN_FOLLOWUP") BY BatchesSubset
<1>3. \A t \in B : /\ t \in Tickets /\ \A w \in Workers : t \notin DrainHolds(w)
                   /\ rows[t].status = "IN_FOLLOWUP" /\ rows[t].resume_at = "ripe"
  BY <1>2, RipeUnlockedFree
<1>4. sweep \in SweepTxn BY DEF IInv, TypeOK
<1>5. /\ sweep'.resolve = sweep.resolve /\ sweep'.keep = sweep.keep
      /\ sweep'.toBot = sweep.toBot /\ sweep'.requeue \subseteq B /\ sweep'.leave \subseteq B
  BY <1>1, <1>4 DEF SweepTxn
<1>6. sweep' \in SweepTxn BY <1>1, <1>3, <1>4 DEF SweepTxn
<1>7. SweepRowsHold'
  BY <1>3, <1>5 DEF SweepRowsHold, SweepSelectFollowup, IInv, LockedRowsHold
<1>8. \A t \in SweepHolds' : t \notin SweepHolds => \A w \in Workers : t \notin DrainHolds(w)
  BY <1>3, <1>5 DEF SweepHolds
<1>9. /\ UNCHANGED <<rows, people, patches, wanted, swept, drains, bounces>>
      /\ budget' \in Nat
  BY DEF SweepSelectFollowup, IInv, TypeOK
<1> QED BY <1>6, <1>7, <1>8, <1>9, SweepQuietInv

LEMMA SweepFailsInv == ASSUME IInv, SweepFails PROVE IInv'
<1>1. sweep' = IdleSweep BY DEF SweepFails
<1>2. sweep' \in SweepTxn /\ SweepHolds' = {} /\ SweepRowsHold'
  BY <1>1 DEF IdleSweep, SweepTxn, SweepHolds, SweepRowsHold
<1>3. /\ UNCHANGED <<rows, people, patches, wanted, swept, drains, bounces>>
      /\ budget' \in Nat
  BY DEF SweepFails, Spend, IInv, TypeOK
<1> QED BY <1>2, <1>3, SweepQuietInv

LEMMA SweptRowGood ==
  ASSUME IInv, NEW t \in Tickets
  PROVE  /\ SweptRow(t) \in Row /\ Coherent(SweptRow(t))
         /\ t \notin SweepHolds => SweptRow(t) = rows[t]
<1>1. rows[t] \in Row /\ Coherent(rows[t]) /\ rows[t].assignee \in Owners /\ Bot \in Owners
  BY DEF IInv, TypeOK, TimerCoherent, Row, Owners
<1>2. t \in sweep.requeue => rows[t].status = "IN_FOLLOWUP"
  BY DEF IInv, LockedRowsHold, SweepRowsHold
<1>3. t \notin SweepHolds => SweptRow(t) = rows[t] BY DEF SweptRow, SweepHolds
<1> QED BY <1>1, <1>2, <1>3, WriterTypes, WritersCoherent DEF SweptRow

LEMMA SweepCommitInv == ASSUME IInv, SweepCommit PROVE IInv'
<1>1. /\ rows' = [t \in Tickets |-> SweptRow(t)] /\ sweep' = IdleSweep
      /\ UNCHANGED <<people, patches, wanted, swept, drains, bounces, budget>>
  BY DEF SweepCommit
<1>2. sweep' \in SweepTxn /\ SweepHolds' = {} /\ SweepRowsHold'
  BY <1>1 DEF IdleSweep, SweepTxn, SweepHolds, SweepRowsHold
<1>3. \A t \in Tickets : /\ rows'[t] \in Row /\ Coherent(rows'[t])
                         /\ t \notin SweepHolds => rows'[t] = rows[t]
  BY <1>1, SweptRowGood
<1>4. TypeOK' BY <1>1, <1>2, <1>3 DEF IInv, TypeOK, people
<1>5. TimerCoherent' BY <1>3 DEF TimerCoherent
<1>6. \A w \in Workers : drains[w].phase \in {"followup", "pull"} =>
         drains[w].ticket \in Tickets /\ rows'[drains[w].ticket] = rows[drains[w].ticket]
  BY <1>3 DEF IInv, DrainsHoldTickets, LocksExclusive, DrainHolds
<1>7. DrainsHoldTickets' BY <1>1 DEF IInv, DrainsHoldTickets
<1>8. ASSUME NEW w \in Workers PROVE DrainRowHolds(w)'
  BY <1>1, <1>6 DEF IInv, LockedRowsHold, DrainRowHolds, Queued
<1>9. LocksExclusive'
  BY <1>1, <1>2, <1>6 DEF IInv, LocksExclusive, DrainHolds
<1> QED BY <1>2, <1>4, <1>5, <1>7, <1>8, <1>9 DEF IInv, LockedRowsHold
----------------------------------------------------------------------------
(* The bounce and the crash.                                               *)

LEMMA BounceReadInv == ASSUME IInv, NEW b \in bounces, BounceRead(b) PROVE IInv'
<1> DEFINE ids == {t \in Tickets : rows[t].assignee = b.agent /\ rows[t].status = "OPEN"}
<1>1. [b EXCEPT !.phase = "read", !.ids = ids] \in BounceTxn
  BY DEF IInv, TypeOK, BounceTxn
<1>2. bounces' \subseteq BounceTxn BY <1>1 DEF BounceRead, IInv, TypeOK
<1>3. TypeOK' BY <1>2 DEF BounceRead, IInv, TypeOK, people
<1>4. UNCHANGED <<rows, drains, sweep>> BY DEF BounceRead
<1> QED BY <1>3, <1>4, LocksUndisturbed DEF IInv, TimerCoherent

LEMMA BounceWriteInv == ASSUME IInv, NEW b \in bounces, BounceWrite(b) PROVE IInv'
<1>1. rows' = [t \in Tickets |-> IF t \in b.ids THEN Assigned(rows[t], Bot) ELSE rows[t]]
  BY DEF BounceWrite
<1>2. \A t \in Tickets : /\ rows'[t] \in Row /\ Coherent(rows'[t])
                         /\ t \notin b.ids => rows'[t] = rows[t]
  BY <1>1, WriterTypes, WritersCoherent DEF IInv, TypeOK, TimerCoherent, Owners
<1>3. TypeOK' BY <1>1, <1>2 DEF BounceWrite, IInv, TypeOK, people
<1>4. TimerCoherent' BY <1>2 DEF TimerCoherent
<1>5. \A t \in Tickets : Locked(t) => rows'[t] = rows[t] BY <1>2 DEF BounceWrite
<1>6. UNCHANGED <<drains, sweep>> BY DEF BounceWrite
<1> QED BY <1>3, <1>4, <1>5, <1>6, LocksUndisturbed DEF IInv

LEMMA CrashInv == ASSUME IInv, Crash PROVE IInv'
<1>1. /\ drains' = [w \in Workers |-> IdleDrain] /\ sweep' = IdleSweep /\ rows' = rows
  BY DEF Crash
<1>2. TypeOK'
  BY <1>1, IdleDrainType DEF Crash, IInv, TypeOK, Spend, IdleSweep, SweepTxn
<1>3. \A w \in Workers : drains'[w].phase = "idle" BY <1>1, IdleDrainType
<1>4. DrainsHoldTickets' /\ LockedRowsHold' /\ LocksExclusive'
  BY <1>1, <1>3 DEF DrainsHoldTickets, LockedRowsHold, SweepRowsHold, DrainRowHolds,
                    LocksExclusive, DrainHolds, SweepHolds, IdleSweep
<1> QED BY <1>1, <1>2, <1>4 DEF IInv, TimerCoherent
----------------------------------------------------------------------------
LEMMA NextInv == IInv /\ [Next]_vars => IInv'
<1> SUFFICES ASSUME IInv, [Next]_vars PROVE IInv' OBVIOUS
<1>1. CASE Environment
  BY <1>1, ElapseInv, PatchReadInv, PeopleInv, DrainTxnFailsInv, SweepFailsInv, CrashInv
     DEF Environment
<1>2. CASE RequestStep BY <1>2, PatchWriteInv, PeopleInv DEF RequestStep
<1>3. CASE TimerSweep
  BY <1>3, SweepSelectWaitingInv, SweepSelectFollowupInv, SweepCommitInv DEF TimerSweep
<1>4. CASE CapacitySweep BY <1>4, JobStartInv
<1>5. CASE \E w \in Workers : HookStep(w) \/ DrainStep(w)
  BY <1>5, JobStartInv, DrainTxnStartInv, DrainTxnLockInv, DrainTxnCommitInv DEF DrainStep
<1>6. CASE BounceStep BY <1>6, BounceReadInv, BounceWriteInv DEF BounceStep
<1>7. CASE UNCHANGED vars
  <2>1. TypeOK' /\ TimerCoherent' BY <1>7 DEF IInv, TypeOK, TimerCoherent, vars
  <2> QED BY <1>7, <2>1, LocksUndisturbed DEF IInv, vars
<1> QED BY <1>1, <1>2, <1>3, <1>4, <1>5, <1>6, <1>7 DEF Next

(* The invariant holds in every reachable state.                           *)
THEOREM Invariance == Spec => []IInv
BY InitInv, NextInv, PTL DEF Spec

(* Every variable stays in the set its column or local ranges over.        *)
THEOREM TypeCorrect == Spec => []TypeOK
<1>1. IInv => TypeOK BY DEF IInv
<1> QED BY <1>1, Invariance, PTL

(* A ticket has a timer exactly while it is paused, and an action for it   *)
(* exactly while it is WAITING, in whatever order the sweeps, drains,      *)
(* bounces and stale PATCHes commit.                                       *)
THEOREM TimersCoherent == Spec => []TimerCoherent
<1>1. IInv => TimerCoherent BY DEF IInv
<1> QED BY <1>1, Invariance, PTL

(* A row stays as its lock's holder selected it, and has one holder.       *)
THEOREM LocksSound == Spec => []LocksHold
<1>1. IInv => LocksHold BY DEF IInv, LocksHold
<1> QED BY <1>1, Invariance, PTL
----------------------------------------------------------------------------
(* All that can happen to a ticket in one step.                            *)
Moves(t) ==
  \/ rows'[t] = rows[t]
  \/ rows'[t] = [rows[t] EXCEPT !.resume_at = "ripe"]
  \/ \E p \in patches : p.ticket = t /\ PatchWrite(p)
  \/ rows'[t] = Assigned(rows[t], Bot)
  \/ Queued(t) /\ \E o \in Owners : rows'[t] = Assigned(rows[t], o)
  \/ /\ RipeFollowup(t)
     /\ rows'[t] \in {FollowupWoken(rows[t]), FollowupRequeued(rows[t])}
  \/ /\ rows[t].status = "WAITING" /\ rows[t].resume_at = "ripe"
     /\ \/ rows[t].waiting_action # "REOPEN" /\ rows'[t] = TimerResolved(rows[t])
        \/ /\ rows[t].waiting_action = "REOPEN"
           /\ rows'[t] \in {TimerReopened(rows[t], rows[t].assignee),
                            TimerReopened(rows[t], Bot)}

LEMMA DrainTxnCommitMoves ==
  ASSUME IInv, NEW t \in Tickets, NEW w \in Workers, DrainTxnCommit(w) PROVE Moves(t)
<1> DEFINE d == drains[w]
<1>1. CASE t # d.ticket BY <1>1 DEF DrainTxnCommit, IInv, TypeOK, Moves
<1>2. CASE t = d.ticket
  <2>1. d.agent \in Owners /\ DrainRowHolds(w)
    BY DEF IInv, TypeOK, LockedRowsHold, DrainTxn
  <2>2. CASE d.phase = "followup"
    <3>1. rows'[t] = FollowupWoken(rows[t]) BY <1>2, <2>2 DEF DrainTxnCommit, IInv, TypeOK
    <3> QED BY <1>2, <2>1, <2>2, <3>1 DEF DrainRowHolds, Moves, RipeFollowup
  <2>3. CASE d.phase = "pull"
    <3>1. rows'[t] = Assigned(rows[t], d.agent)
      BY <1>2, <2>3 DEF DrainTxnCommit, IInv, TypeOK
    <3> QED BY <1>2, <2>1, <2>3, <3>1 DEF DrainRowHolds, Moves
  <2> QED BY <2>2, <2>3 DEF DrainTxnCommit
<1> QED BY <1>1, <1>2

LEMMA SweepCommitMoves ==
  ASSUME IInv, NEW t \in Tickets, SweepCommit PROVE Moves(t)
<1>1. rows'[t] = SweptRow(t) BY DEF SweepCommit
<1>2. SweepRowsHold BY DEF IInv, LockedRowsHold
<1> QED BY <1>1, <1>2 DEF SweptRow, SweepRowsHold, Moves, RipeFollowup

LEMMA NextMoves == ASSUME IInv, [Next]_vars, NEW t \in Tickets PROVE Moves(t)
<1>1. CASE UNCHANGED rows BY <1>1 DEF Moves
<1>2. ASSUME NEW u \in Tickets, Elapse(u) PROVE Moves(t)
  BY <1>2 DEF Elapse, IInv, TypeOK, Moves
<1>3. ASSUME NEW p \in patches, PatchWrite(p) PROVE Moves(t)
  <2>1. CASE p.ticket = t BY <1>3, <2>1 DEF Moves
  <2>2. CASE p.ticket # t BY <1>3, <2>2 DEF PatchWrite, IInv, TypeOK, Moves
  <2> QED BY <2>1, <2>2
<1>4. ASSUME NEW b \in bounces, BounceWrite(b) PROVE Moves(t)
  BY <1>4 DEF BounceWrite, Moves
<1>5. CASE Environment
  BY <1>1, <1>2, <1>5 DEF Environment, PatchRead, SetAway, Deactivate, Reactivate, StatusRead,
                          DrainTxnFails, SweepFails, Crash
<1>6. CASE RequestStep BY <1>1, <1>3, <1>6 DEF RequestStep, StatusWrite
<1>7. CASE TimerSweep
  BY <1>1, <1>7, SweepCommitMoves DEF TimerSweep, SweepSelectWaiting, SweepSelectFollowup
<1>8. CASE CapacitySweep
  BY <1>1, <1>8 DEF CapacitySweep, CapacitySweepStart, SweeperVisits
<1>9. CASE \E w \in Workers : HookStep(w) \/ DrainStep(w)
  BY <1>1, <1>9, DrainTxnCommitMoves DEF HookStep, HookBegins, DrainStep, DrainTxnStart, DrainTxnLock
<1>10. CASE BounceStep BY <1>1, <1>4, <1>10 DEF BounceStep, BounceRead
<1>11. CASE UNCHANGED vars BY <1>1, <1>11 DEF vars
<1> QED BY <1>5, <1>6, <1>7, <1>8, <1>9, <1>10, <1>11 DEF Next

(* Only a PATCH ends a pause before its timer, or against its action.      *)
THEOREM TimersKept == Spec => TimersAreKept
<1>1. ASSUME IInv, [Next]_vars, NEW t \in Tickets,
             rows[t].status \in PausedStatus, rows'[t].status # rows[t].status, ~PatchLands(t)
      PROVE  /\ rows[t].resume_at = "ripe"
             /\ rows'[t].status = IF rows[t].waiting_action = "AUTO_RESOLVE"
                                  THEN "RESOLVED" ELSE "OPEN"
  <2>1. rows[t] \in Row /\ Coherent(rows[t]) BY <1>1 DEF IInv, TypeOK, TimerCoherent
  <2>2. ~ \E p \in patches : p.ticket = t /\ PatchWrite(p)
    BY <1>1 DEF PatchLands, PatchWrite
  <2>3. Moves(t) BY <1>1, NextMoves
  <2> QED BY <1>1, <2>1, <2>2, <2>3
       DEF Moves, Row, Coherent, PausedStatus, WaitingAction, Assigned, FollowupWoken,
           FollowupRequeued, TimerResolved, TimerReopened, Queued, RipeFollowup
<1>2. IInv /\ [Next]_vars => [\A t \in Tickets : PauseEndsDuly(t)]_vars
  BY <1>1 DEF PauseEndsDuly
<1> QED BY <1>2, Invariance, PTL DEF Spec, TimersAreKept

(* No automated step hands a ticket from one human to another.             *)
THEOREM HumansKeepTickets == Spec => QueueBetweenHumans
<1>1. ASSUME IInv, [Next]_vars, NEW t \in Tickets,
             rows[t].assignee \in Agents, rows'[t].assignee \in Agents \ {rows[t].assignee}
      PROVE  \E p \in patches \ patches' : p.ticket = t /\ p.dto.assignee = rows'[t].assignee
  <2>1. rows[t] \in Row BY <1>1 DEF IInv, TypeOK
  <2>2. Moves(t) BY <1>1, NextMoves
  <2>3. \E p \in patches : p.ticket = t /\ PatchWrite(p)
    BY <1>1, <2>1, <2>2, BotAssumption
       DEF Moves, Row, Assigned, FollowupWoken, FollowupRequeued, TimerResolved, TimerReopened,
           Queued
  <2>4. PICK p \in patches : p.ticket = t /\ PatchWrite(p) BY <2>3
  <2>5. p \notin patches' BY <2>4 DEF PatchWrite
  <2>6. rows'[t] = Patched(rows[t], p.read, p.dto)
    BY <1>1, <2>4 DEF PatchWrite, IInv, TypeOK
  <2>7. rows'[t].assignee = p.dto.assignee BY <1>1, <2>1, <2>6 DEF Patched, Row
  <2> QED BY <2>4, <2>5, <2>7
<1>2. IInv /\ [Next]_vars => [\A t \in Tickets : HandedOverByPatch(t)]_vars
  BY <1>1 DEF HandedOverByPatch
<1> QED BY <1>2, Invariance, PTL DEF Spec, QueueBetweenHumans
----------------------------------------------------------------------------
(* TicketLifecycle implements TicketContract: what the contract sees of a  *)
(* state is a ticket of its own, and every step is one of its steps.       *)
LEMMA PromisedTicket ==
  ASSUME NEW row \in Row, Coherent(row) PROVE Promised(row) \in Contract!Ticket
BY DEF Row, Coherent, Promised, Contract!Ticket, Contract!Owners, Contract!Paused, Owners,
       TicketStatus, PausedStatus, WaitingAction

LEMMA InitPromised == Init => Contract!Init
<1> SUFFICES ASSUME Init, NEW t \in Tickets PROVE Promised(rows[t]) \in Contract!Ticket
  BY DEF Contract!Init
<1> QED BY InitInv, PromisedTicket DEF IInv, TypeOK, TimerCoherent

LEMMA RowsAlonePromised == UNCHANGED rows => Contract!PausesEnd
BY DEF Contract!PausesEnd

LEMMA ElapsePromised ==
  ASSUME IInv, NEW t \in Tickets, Elapse(t) PROVE Contract!TimerElapses(t)
BY DEF Elapse, IInv, TypeOK, Row, Promised, Contract!TimerElapses, Contract!Only

LEMMA PatchPromised ==
  ASSUME IInv, IInv', NEW p \in patches, PatchWrite(p) PROVE Contract!AgentActs(p.ticket)
<1> DEFINE t == p.ticket
<1>1. t \in Tickets /\ p.read \in Row BY DEF IInv, TypeOK, PatchTxn
<1>2. rows' = [rows EXCEPT ![t] = Patched(rows[t], p.read, p.dto)] BY DEF PatchWrite
<1>3. Promised(rows'[t]) \in Contract!Ticket
  BY <1>1, PromisedTicket DEF IInv, TypeOK, TimerCoherent
<1>4. p \in patches /\ p \notin patches' BY DEF PatchWrite
<1>5. {q \in patches' : q.ticket = t} # {q \in patches : q.ticket = t} BY <1>4
<1>6. rows[t] \in Row /\ rows'[t] = Patched(rows[t], p.read, p.dto)
  BY <1>1, <1>2 DEF IInv, TypeOK
<1>7. \/ Promised(rows'[t]) = [Promised(rows[t]) EXCEPT !.owner = Promised(rows'[t]).owner]
      \/ Promised(rows'[t]).timer # "ripe"
  BY <1>6 DEF Patched, Promised, Row
<1>8. \A u \in Tickets \ {t} : rows'[u] = rows[u] BY <1>2 DEF IInv, TypeOK
<1> QED BY <1>1, <1>3, <1>5, <1>7, <1>8
        DEF Contract!AgentActs, Contract!Only, Contract!Same

LEMMA DrainPromised ==
  ASSUME IInv, NEW w \in Workers, DrainTxnCommit(w)
  PROVE  Contract!PausesEnd \/ \E t \in Tickets : Contract!Pulled(t)
<1> DEFINE d == drains[w]
           t == d.ticket
<1>1. /\ t \in Tickets /\ d.agent \in Owners /\ DrainRowHolds(w)
      /\ rows[t] \in Row /\ Coherent(rows[t])
  BY DEF DrainTxnCommit, IInv, TypeOK, DrainsHoldTickets, LockedRowsHold, TimerCoherent, DrainTxn
<1>2. CASE d.phase = "followup"
  <2>1. rows' = [rows EXCEPT ![t] = FollowupWoken(rows[t])] BY <1>2 DEF DrainTxnCommit
  <2>2. Promised(rows[t]).timer = "ripe" /\ Promised(rows[t]).action = "null"
    BY <1>1, <1>2 DEF DrainRowHolds, Coherent, Promised
  <2>3. Promised(rows'[t]) = Contract!Idle("OPEN", Promised(rows[t]).owner)
    BY <1>1, <1>2, <2>1, <2>2 DEF FollowupWoken, Promised, Row, Contract!Idle, IInv, TypeOK
  <2>4. \A u \in Tickets \ {t} : rows'[u] = rows[u] BY <2>1 DEF IInv, TypeOK
  <2> QED BY <1>1, <2>2, <2>3, <2>4 DEF Contract!PausesEnd, Contract!PauseEnds
<1>3. CASE d.phase = "pull"
  <2>1. rows' = [rows EXCEPT ![t] = Assigned(rows[t], d.agent)] BY <1>3 DEF DrainTxnCommit
  <2>2. rows[t].status = "OPEN" /\ rows[t].assignee = Bot
    BY <1>1, <1>3 DEF DrainRowHolds, Queued
  <2>3. Promised(rows'[t]) = [Promised(rows[t]) EXCEPT !.owner = d.agent]
    BY <1>1, <2>1 DEF Assigned, Promised, Row, IInv, TypeOK
  <2>4. \A u \in Tickets \ {t} : rows'[u] = rows[u] BY <2>1 DEF IInv, TypeOK
  <2>5. Contract!Pulled(t)
    BY <1>1, <2>2, <2>3, <2>4 DEF Contract!Pulled, Contract!Only, Contract!Owners, Owners, Promised
  <2> QED BY <1>1, <2>5
<1> QED BY <1>2, <1>3 DEF DrainTxnCommit

LEMMA SweepPromised == ASSUME IInv, SweepCommit PROVE Contract!PausesEnd
<1> SUFFICES ASSUME NEW t \in Tickets
             PROVE  \/ Promised(rows'[t]) = Promised(rows[t])
                    \/ /\ Promised(rows[t]).timer = "ripe"
                       /\ \E o \in {Promised(rows[t]).owner, Bot} :
                            Promised(rows'[t]) =
                              Contract!Idle(IF Promised(rows[t]).action = "AUTO_RESOLVE"
                                            THEN "RESOLVED" ELSE "OPEN", o)
  BY DEF Contract!PausesEnd, Contract!PauseEnds
<1>1. rows'[t] = SweptRow(t) BY DEF SweepCommit
<1>2. rows[t] \in Row /\ Coherent(rows[t]) /\ SweepRowsHold
  BY DEF IInv, TypeOK, TimerCoherent, LockedRowsHold
<1>3. CASE t \in sweep.resolve
  <2>1. rows'[t] = TimerResolved(rows[t]) BY <1>1, <1>3 DEF SweptRow
  <2>2. rows[t].resume_at = "ripe" /\ rows[t].waiting_action = "AUTO_RESOLVE"
    BY <1>2, <1>3 DEF SweepRowsHold, Coherent, Row, WaitingAction
  <2> QED BY <1>2, <2>1, <2>2 DEF TimerResolved, Promised, Row, Contract!Idle
<1>4. CASE t \notin sweep.resolve /\ t \in sweep.keep \cup sweep.toBot
  <2>1. \E o \in {rows[t].assignee, Bot} : rows'[t] = TimerReopened(rows[t], o)
    BY <1>1, <1>4 DEF SweptRow
  <2>2. rows[t].resume_at = "ripe" /\ rows[t].waiting_action = "REOPEN"
    BY <1>2, <1>4 DEF SweepRowsHold
  <2> QED BY <1>2, <2>1, <2>2 DEF TimerReopened, Promised, Row, Contract!Idle
<1>5. CASE t \notin sweep.resolve \cup sweep.keep \cup sweep.toBot /\ t \in sweep.requeue
  <2>1. rows'[t] = FollowupRequeued(rows[t]) BY <1>1, <1>5 DEF SweptRow
  <2>2. rows[t].resume_at = "ripe" /\ rows[t].waiting_action = "null"
    BY <1>2, <1>5 DEF SweepRowsHold, Coherent
  <2> QED BY <1>2, <2>1, <2>2 DEF FollowupRequeued, Promised, Row, Contract!Idle
<1>6. CASE t \notin sweep.resolve \cup sweep.keep \cup sweep.toBot \cup sweep.requeue
  BY <1>1, <1>6 DEF SweptRow
<1> QED BY <1>3, <1>4, <1>5, <1>6

LEMMA BouncePromised ==
  ASSUME IInv, NEW b \in bounces, BounceWrite(b) PROVE Contract!Bounced
<1>1. \A t \in Tickets : rows[t] \in Row /\ rows'[t] \in {rows[t], Assigned(rows[t], Bot)}
  BY DEF BounceWrite, IInv, TypeOK
<1> QED BY <1>1 DEF Contract!Bounced, Assigned, Promised, Row

LEMMA StepPromised == ASSUME IInv, IInv', [Next]_vars PROVE Contract!Next
<1>1. CASE UNCHANGED rows BY <1>1, RowsAlonePromised DEF Contract!Next
<1>2. ASSUME NEW t \in Tickets, Elapse(t) PROVE Contract!Next
  BY <1>2, ElapsePromised DEF Contract!Next
<1>3. ASSUME NEW p \in patches, PatchWrite(p) PROVE Contract!Next
  <2>1. p.ticket \in Tickets BY DEF IInv, TypeOK, PatchTxn
  <2> QED BY <1>3, <2>1, PatchPromised DEF Contract!Next
<1>4. ASSUME NEW w \in Workers, DrainTxnCommit(w) PROVE Contract!Next
  BY <1>4, DrainPromised DEF Contract!Next
<1>5. CASE SweepCommit BY <1>5, SweepPromised DEF Contract!Next
<1>6. ASSUME NEW b \in bounces, BounceWrite(b) PROVE Contract!Next
  BY <1>6, BouncePromised DEF Contract!Next
<1>7. CASE Environment
  BY <1>1, <1>2, <1>7 DEF Environment, PatchRead, SetAway, Deactivate, Reactivate, StatusRead,
                          DrainTxnFails, SweepFails, Crash
<1>8. CASE RequestStep BY <1>1, <1>3, <1>8 DEF RequestStep, StatusWrite
<1>9. CASE TimerSweep
  BY <1>1, <1>5, <1>9 DEF TimerSweep, SweepSelectWaiting, SweepSelectFollowup
<1>10. CASE CapacitySweep
  BY <1>1, <1>10 DEF CapacitySweep, CapacitySweepStart, SweeperVisits
<1>11. CASE \E w \in Workers : HookStep(w) \/ DrainStep(w)
  BY <1>1, <1>4, <1>11 DEF HookStep, HookBegins, DrainStep, DrainTxnStart, DrainTxnLock
<1>12. CASE BounceStep BY <1>1, <1>6, <1>12 DEF BounceStep, BounceRead
<1>13. CASE UNCHANGED vars BY <1>1, <1>13 DEF vars
<1> QED BY <1>7, <1>8, <1>9, <1>10, <1>11, <1>12, <1>13 DEF Next

(* The refinement: for any set of tickets, agents and workers, every       *)
(* behaviour of the sweeps, drains, bounces, PATCHes and restarts is one   *)
(* of the contract's.                                                      *)
THEOREM ContractKept == Spec => KeepsContract
<1>1. Init => Contract!Init BY InitPromised
<1>2. IInv /\ IInv' /\ [Next]_vars => [Contract!Next]_(Contract!promises) BY StepPromised
<1> QED BY <1>1, <1>2, Invariance, PTL DEF Spec, KeepsContract, Contract!Spec
----------------------------------------------------------------------------
(* How far racing drains overshoot the cap.  A pause that ends or a PATCH  *)
(* that names an owner hands out a ticket whatever the cap is, so the      *)
(* bound is on what the drains do: agents only resolve tickets or give     *)
(* them back to the queue.                                                 *)
PullsAlone ==
  /\ IsFiniteSet(Tickets) /\ IsFiniteSet(HookWorkers)
  /\ \A dto \in Dtos : /\ dto.status \in {"RESOLVED", "keep"}
                       /\ dto.assignee \in {Bot, "keep"} /\ dto.team = "keep"

(* Drains of an agent that have found room in a team, or taken a ticket of *)
(* it, and have not committed.                                             *)
Racing(a, tm) ==
  {w \in Workers : /\ drains[w].agent = a
                   /\ \/ drains[w].phase = "scanned" /\ \E c \in drains[w].cands : c[2] = tm
                      \/ drains[w].phase = "pull" /\ rows[drains[w].ticket].team = tm}

NonePaused == \A t \in Tickets : rows[t].status \notin PausedStatus

(* A drain races only if there was room when it scanned, and gives its     *)
(* place in the race up for the ticket it takes.                           *)
RaceBounded ==
  \A a \in Agents, tm \in Teams :
    Cardinality(OpenOf(a, tm)) + Cardinality(Racing(a, tm)) <= Cap + Cardinality(Workers) - 1

LEMMA FiniteCounts ==
  ASSUME PullsAlone
  PROVE  /\ Cardinality(Workers) \in Nat \ {0}
         /\ \A a, tm : /\ IsFiniteSet(OpenOf(a, tm)) /\ Cardinality(OpenOf(a, tm)) \in Nat
                       /\ IsFiniteSet(Racing(a, tm)) /\ Cardinality(Racing(a, tm)) \in Nat
                       /\ Cardinality(Racing(a, tm)) <= Cardinality(Workers)
<1>1. IsFiniteSet(Workers)
  BY FS_AddElement DEF PullsAlone, Workers
<1>2. Cardinality(Workers) \in Nat BY <1>1, FS_CardinalityType
<1>3. Cardinality(Workers) # 0
  <2>1. Sweeper \in Workers BY DEF Workers
  <2> QED BY <1>1, <2>1, FS_EmptySet
<1>4. ASSUME NEW a, NEW tm
      PROVE  /\ IsFiniteSet(OpenOf(a, tm)) /\ Cardinality(OpenOf(a, tm)) \in Nat
             /\ IsFiniteSet(Racing(a, tm)) /\ Cardinality(Racing(a, tm)) \in Nat
             /\ Cardinality(Racing(a, tm)) <= Cardinality(Workers)
  <2>1. OpenOf(a, tm) \subseteq Tickets BY DEF OpenOf
  <2>2. Racing(a, tm) \subseteq Workers BY DEF Racing
  <2>3. IsFiniteSet(Tickets) BY DEF PullsAlone
  <2>4. IsFiniteSet(OpenOf(a, tm)) BY <2>1, <2>3, FS_Subset
  <2>5. IsFiniteSet(Racing(a, tm)) /\ Cardinality(Racing(a, tm)) <= Cardinality(Workers)
    BY <1>1, <2>2, FS_Subset
  <2> QED BY <2>4, <2>5, FS_CardinalityType
<1> QED BY <1>2, <1>3, <1>4

(* A step that opens no ticket for an agent, and lets a drain into a race  *)
(* only where there is room, keeps the bound.                              *)
LEMMA RaceKept ==
  ASSUME PullsAlone, RaceBounded,
         \A a \in Agents, tm \in Teams :
            /\ OpenOf(a, tm)' \subseteq OpenOf(a, tm)
            /\ \/ Racing(a, tm)' \subseteq Racing(a, tm)
               \/ Cardinality(OpenOf(a, tm)) < Cap
  PROVE  RaceBounded'
<1> SUFFICES ASSUME NEW a \in Agents, NEW tm \in Teams
             PROVE  Cardinality(OpenOf(a, tm)') + Cardinality(Racing(a, tm)')
                      <= Cap + Cardinality(Workers) - 1
  BY DEF RaceBounded
<1> DEFINE O == OpenOf(a, tm)
           R == Racing(a, tm)
           NO == OpenOf(a, tm)'
           NR == Racing(a, tm)'
<1>1. /\ IsFiniteSet(O) /\ IsFiniteSet(R) /\ Cardinality(O) \in Nat /\ Cardinality(R) \in Nat
      /\ Cardinality(Workers) \in Nat \ {0} /\ Cap \in Nat
  BY FiniteCounts, NumbersAssumption
<1>2. NR \subseteq Workers BY DEF Racing
<1>3. IsFiniteSet(Workers) BY FS_AddElement DEF PullsAlone, Workers
<1>4. NO \subseteq O /\ (NR \subseteq R \/ Cardinality(O) < Cap) OBVIOUS
<1>5. Cardinality(O) + Cardinality(R) <= Cap + Cardinality(Workers) - 1 BY DEF RaceBounded
<1> HIDE DEF O, R, NO, NR
<1>6. Cardinality(NO) \in Nat /\ Cardinality(NO) <= Cardinality(O)
  BY <1>1, <1>4, FS_Subset, FS_CardinalityType
<1>7. Cardinality(NR) \in Nat /\ Cardinality(NR) <= Cardinality(Workers)
  BY <1>2, <1>3, FS_Subset, FS_CardinalityType
<1>8. CASE NR \subseteq R
  <2>1. Cardinality(NR) <= Cardinality(R) BY <1>1, <1>8, FS_Subset
  <2> QED BY <1>1, <1>5, <1>6, <1>7, <2>1 DEF NO, NR
<1>9. CASE Cardinality(O) < Cap
  BY <1>1, <1>6, <1>7, <1>9 DEF NO, NR
<1> QED BY <1>4, <1>8, <1>9

(* A row that leaves the table as the drains count it no fuller.           *)
Eases(t) ==
  /\ rows'[t].status \notin PausedStatus /\ rows'[t].team = rows[t].team
  /\ rows'[t].status = "OPEN" /\ rows'[t].assignee \in Agents
       => rows[t].status = "OPEN" /\ rows[t].assignee = rows'[t].assignee

LEMMA RowsEase ==
  ASSUME PullsAlone, IInv, NonePaused, RaceBounded, UNCHANGED drains,
         \A t \in Tickets : Eases(t)
  PROVE  NonePaused' /\ RaceBounded'
<1>1. NonePaused' BY DEF NonePaused, Eases
<1>2. \A a \in Agents, tm \in Teams : OpenOf(a, tm)' \subseteq OpenOf(a, tm)
  BY DEF OpenOf, Eases
<1>3. \A a \in Agents, tm \in Teams : Racing(a, tm)' \subseteq Racing(a, tm)
  BY DEF Racing, Eases, IInv, DrainsHoldTickets
<1> QED BY <1>1, <1>2, <1>3, RaceKept

LEMMA PatchEases ==
  ASSUME PullsAlone, IInv, NonePaused, NEW p \in patches, PatchWrite(p), NEW t \in Tickets
  PROVE  Eases(t)
<1>1. /\ p.ticket \in Tickets /\ p.read \in Row /\ p.dto \in Dtos
      /\ rows[t] \in Row /\ rows[t].status \notin PausedStatus
  BY DEF IInv, TypeOK, PatchTxn, NonePaused
<1>2. CASE t # p.ticket
  BY <1>1, <1>2 DEF PatchWrite, IInv, TypeOK, Eases
<1>3. CASE t = p.ticket
  <2>1. rows'[t] = Patched(rows[t], p.read, p.dto)
    BY <1>1, <1>3 DEF PatchWrite, IInv, TypeOK
  <2>2. /\ p.dto.status \in {"RESOLVED", "keep"} /\ p.dto.assignee \in {Bot, "keep"}
        /\ p.dto.team = "keep"
    BY <1>1 DEF PullsAlone
  <2>3. /\ rows'[t].team = rows[t].team /\ rows'[t].assignee \in {rows[t].assignee, Bot}
        /\ rows'[t].status \in {rows[t].status, "RESOLVED"}
    BY <1>1, <2>1, <2>2
       DEF Patched, ChangesStatus, ChangesAssignee, ChangesTeam, Row
  <2> QED BY <1>1, <2>3, BotAssumption DEF Eases, PausedStatus
<1> QED BY <1>2, <1>3

LEMMA RowsStepRace ==
  ASSUME PullsAlone, IInv, NonePaused, RaceBounded,
         \/ \E t \in Tickets : Elapse(t)
         \/ \E p \in patches : PatchWrite(p)
         \/ SweepCommit
         \/ \E b \in bounces : BounceWrite(b)
  PROVE  NonePaused' /\ RaceBounded'
<1>1. \A t \in Tickets : rows[t] \in Row /\ rows[t].status \notin PausedStatus
  BY DEF IInv, TypeOK, NonePaused
<1>2. UNCHANGED drains BY DEF Elapse, PatchWrite, SweepCommit, BounceWrite, jobs
<1>3. ASSUME NEW u \in Tickets, Elapse(u), NEW t \in Tickets PROVE Eases(t)
  BY <1>1, <1>3 DEF Elapse, IInv, TypeOK, Eases, Row
<1>4. ASSUME SweepCommit, NEW t \in Tickets PROVE Eases(t)
  <2>1. t \notin SweepHolds
    BY <1>1 DEF IInv, LockedRowsHold, SweepRowsHold, SweepHolds, PausedStatus
  <2>2. rows'[t] = rows[t] BY <1>4, <2>1 DEF SweepCommit, SweptRow, SweepHolds
  <2> QED BY <1>1, <2>2 DEF Eases
<1>5. ASSUME NEW b \in bounces, BounceWrite(b), NEW t \in Tickets PROVE Eases(t)
  <2>1. rows'[t] \in {rows[t], Assigned(rows[t], Bot)} BY <1>5 DEF BounceWrite
  <2> QED BY <1>1, <2>1, BotAssumption DEF Eases, Assigned, Row
<1>6. \A t \in Tickets : Eases(t) BY <1>3, <1>4, <1>5, PatchEases
<1> QED BY <1>2, <1>6, RowsEase

(* A drain that starts, stops or fails leaves its race; one that scans     *)
(* enters only where there is room.                                        *)
LEMMA AdvanceRace ==
  ASSUME PullsAlone, IInv, NonePaused, RaceBounded, UNCHANGED rows,
         NEW w \in Workers, NEW txn, Advance(w, txn),
         \A a \in Agents, tm \in Teams :
            \/ Cardinality(OpenOf(a, tm)) < Cap
            \/ w \in Racing(a, tm)
            \/ ~ /\ txn.agent = a
                 /\ \/ txn.phase = "scanned" /\ \E c \in txn.cands : c[2] = tm
                    \/ txn.phase = "pull" /\ rows[txn.ticket].team = tm
  PROVE  NonePaused' /\ RaceBounded'
<1>1. NonePaused' BY DEF NonePaused
<1>2. \A a \in Agents, tm \in Teams : OpenOf(a, tm)' = OpenOf(a, tm) BY DEF OpenOf
<1>3. drains'[w] = txn /\ \A v \in Workers \ {w} : drains'[v] = drains[v]
  BY DEF Advance, IInv, TypeOK
<1>4. ASSUME NEW a \in Agents, NEW tm \in Teams, ~(Cardinality(OpenOf(a, tm)) < Cap)
      PROVE  Racing(a, tm)' \subseteq Racing(a, tm)
  BY <1>3, <1>4 DEF Racing
<1> QED BY <1>1, <1>2, <1>4, RaceKept

LEMMA DrainStepRace ==
  ASSUME PullsAlone, IInv, NonePaused, RaceBounded, NEW w \in Workers,
         \/ DrainTxnStart(w) \/ DrainTxnLock(w) \/ DrainTxnFails(w)
         \/ \E a \in Agents : HookBegins(w, a)
         \/ w = Sweeper /\ \E a \in Agents : SweeperVisits(a)
  PROVE  NonePaused' /\ RaceBounded'
<1>1. UNCHANGED rows
  BY DEF DrainTxnStart, DrainTxnLock, DrainTxnFails, HookBegins, SweeperVisits
<1>2. ASSUME NEW txn, Advance(w, txn), txn.phase \in {"idle", "begin", "followup"}
      PROVE  NonePaused' /\ RaceBounded'
  BY <1>1, <1>2, AdvanceRace
<1>3. drains[w] \in DrainTxn BY DEF IInv, TypeOK
<1>4. ASSUME NEW a \in Agents,
             Advance(w, [IdleDrain EXCEPT !.agent = a, !.phase = "begin"])
      PROVE  NonePaused' /\ RaceBounded'
  BY <1>2, <1>4, BeginType DEF Owners
<1>5. CASE Advance(w, IdleDrain) BY <1>2, <1>5, IdleDrainType
<1>6. ASSUME NEW t, Advance(w, [drains[w] EXCEPT !.phase = "followup", !.ticket = t])
      PROVE  NonePaused' /\ RaceBounded'
  <2> DEFINE txn == [drains[w] EXCEPT !.phase = "followup", !.ticket = t]
  <2>1. txn.phase = "followup" BY <1>3 DEF DrainTxn
  <2> HIDE DEF txn
  <2> QED BY <1>2, <1>6, <2>1 DEF txn
<1>7. ASSUME Advance(w, [drains[w] EXCEPT !.phase = "scanned",
                                          !.cands = Candidates(drains[w].agent)])
      PROVE  NonePaused' /\ RaceBounded'
  <2> DEFINE txn == [drains[w] EXCEPT !.phase = "scanned", !.cands = Candidates(drains[w].agent)]
  <2>1. /\ txn.phase = "scanned" /\ txn.agent = drains[w].agent
        /\ txn.cands = Candidates(drains[w].agent)
    BY <1>3 DEF DrainTxn
  <2> HIDE DEF txn
  <2>2. Advance(w, txn) BY <1>7 DEF txn
  <2>3. \A tm \in Teams, c \in txn.cands :
          c[2] = tm => Cardinality(OpenOf(txn.agent, tm)) < Cap
    BY <2>1 DEF Candidates
  <2> QED BY <1>1, <2>1, <2>2, <2>3, AdvanceRace
<1>8. ASSUME NEW c \in drains[w].cands, Lockable(c), drains[w].phase = "scanned",
             Advance(w, [drains[w] EXCEPT !.phase = "pull", !.ticket = c[1], !.cands = {}])
      PROVE  NonePaused' /\ RaceBounded'
  <2> DEFINE txn == [drains[w] EXCEPT !.phase = "pull", !.ticket = c[1], !.cands = {}]
  <2>1. txn.phase = "pull" /\ txn.agent = drains[w].agent /\ txn.ticket = c[1]
    BY <1>3 DEF DrainTxn
  <2> HIDE DEF txn
  <2>2. Advance(w, txn) BY <1>8 DEF txn
  <2>3. rows[txn.ticket].team = c[2] BY <1>8, <2>1 DEF Lockable
  <2>4. \A a \in Agents, tm \in Teams :
          txn.agent = a /\ rows[txn.ticket].team = tm => w \in Racing(a, tm)
    BY <1>8, <2>1, <2>3 DEF Racing
  <2> QED BY <1>1, <2>1, <2>2, <2>4, AdvanceRace
<1>9. CASE DrainTxnStart(w) BY <1>5, <1>6, <1>7, <1>9 DEF DrainTxnStart
<1>10. CASE DrainTxnLock(w) BY <1>5, <1>8, <1>10 DEF DrainTxnLock
<1>11. CASE DrainTxnFails(w) BY <1>5, <1>11 DEF DrainTxnFails
<1>12. CASE \E a \in Agents : HookBegins(w, a) BY <1>4, <1>12 DEF HookBegins
<1>13. CASE w = Sweeper /\ \E a \in Agents : SweeperVisits(a)
  BY <1>4, <1>13 DEF SweeperVisits
<1> QED BY <1>9, <1>10, <1>11, <1>12, <1>13

(* A pull that commits opens one ticket more and has one racer less.       *)
LEMMA PullRace ==
  ASSUME PullsAlone, IInv, NonePaused, RaceBounded, NEW w \in Workers, DrainTxnCommit(w)
  PROVE  NonePaused' /\ RaceBounded'
<1> DEFINE d == drains[w]
           u == d.ticket
<1>1. u \in Tickets /\ d \in DrainTxn /\ DrainRowHolds(w) /\ d.phase \in {"followup", "pull"}
  BY DEF DrainTxnCommit, IInv, TypeOK, DrainsHoldTickets, LockedRowsHold
<1>2. d.phase = "pull" /\ Queued(u)
  BY <1>1 DEF DrainRowHolds, NonePaused, PausedStatus
<1>3. rows' = [rows EXCEPT ![u] = Assigned(rows[u], d.agent)] BY <1>2 DEF DrainTxnCommit
<1>4. rows[u] \in Row /\ rows \in [Tickets -> Row] BY <1>1 DEF IInv, TypeOK
<1>5. /\ rows'[u].status = "OPEN" /\ rows'[u].assignee = d.agent
      /\ rows'[u].team = rows[u].team
      /\ \A t \in Tickets \ {u} : rows'[t] = rows[t]
  BY <1>1, <1>2, <1>3, <1>4 DEF Assigned, Row, Queued
<1>6. NonePaused' BY <1>1, <1>5 DEF NonePaused, PausedStatus
<1>7. /\ drains'[w].phase = "begin" /\ \A v \in Workers \ {w} : drains'[v] = drains[v]
  BY <1>1, BeginType DEF DrainTxnCommit, Advance, IInv, TypeOK, DrainTxn
<1>8. \A v \in Workers : drains[v].phase = "pull" =>
         rows'[drains[v].ticket].team = rows[drains[v].ticket].team
  BY <1>5 DEF IInv, DrainsHoldTickets
<1>9. \A a \in Agents, tm \in Teams : Racing(a, tm)' \subseteq Racing(a, tm) \ {w}
  BY <1>7, <1>8 DEF Racing
<1>10. \A a \in Agents, tm \in Teams :
         \/ OpenOf(a, tm)' \subseteq OpenOf(a, tm)
         \/ a = d.agent /\ tm = rows[u].team /\ OpenOf(a, tm)' = OpenOf(a, tm) \cup {u}
  BY <1>1, <1>2, <1>5 DEF OpenOf
<1>11. ASSUME NEW a \in Agents, NEW tm \in Teams
       PROVE  Cardinality(OpenOf(a, tm)') + Cardinality(Racing(a, tm)')
                <= Cap + Cardinality(Workers) - 1
  <2> DEFINE O == OpenOf(a, tm)
             R == Racing(a, tm)
             NO == OpenOf(a, tm)'
             NR == Racing(a, tm)'
  <2>1. /\ IsFiniteSet(O) /\ IsFiniteSet(R) /\ Cardinality(O) \in Nat /\ Cardinality(R) \in Nat
        /\ Cardinality(Workers) \in Nat /\ Cap \in Nat
    BY FiniteCounts, NumbersAssumption
  <2>2. Cardinality(O) + Cardinality(R) <= Cap + Cardinality(Workers) - 1 BY DEF RaceBounded
  <2>3. NR \subseteq R \ {w} BY <1>9
  <2>4. NO \subseteq O \/ (w \in R /\ NO = O \cup {u})
    BY <1>2, <1>10 DEF Racing
  <2> HIDE DEF O, R, NO, NR
  <2>5. Cardinality(NR) \in Nat /\ Cardinality(NR) <= Cardinality(R)
    <3>1. NR \subseteq R BY <2>3
    <3> QED BY <2>1, <3>1, FS_Subset, FS_CardinalityType
  <2>6. CASE NO \subseteq O
    <3>1. Cardinality(NO) \in Nat /\ Cardinality(NO) <= Cardinality(O)
      BY <2>1, <2>6, FS_Subset, FS_CardinalityType
    <3> QED BY <2>1, <2>2, <2>5, <3>1 DEF NO, NR
  <2>7. CASE w \in R /\ NO = O \cup {u}
    <3>1. IsFiniteSet(R \ {w}) /\ Cardinality(R \ {w}) = Cardinality(R) - 1
      BY <2>1, <2>7, FS_RemoveElement
    <3>2. Cardinality(NR) <= Cardinality(R) - 1 BY <2>3, <3>1, FS_Subset
    <3>3. Cardinality(O \cup {u}) \in {Cardinality(O), Cardinality(O) + 1}
      BY <2>1, FS_AddElement
    <3> QED BY <2>1, <2>2, <2>5, <2>7, <3>2, <3>3 DEF NO, NR
  <2> QED BY <2>4, <2>6, <2>7
<1> QED BY <1>6, <1>11 DEF RaceBounded

LEMMA CrashRace ==
  ASSUME PullsAlone, NonePaused, RaceBounded, Crash PROVE NonePaused' /\ RaceBounded'
<1>1. UNCHANGED rows BY DEF Crash
<1>2. \A w \in Workers : drains'[w].phase = "idle" BY IdleDrainType DEF Crash
<1>3. \A a \in Agents, tm \in Teams : OpenOf(a, tm)' = OpenOf(a, tm) BY <1>1 DEF OpenOf
<1>4. \A a \in Agents, tm \in Teams : Racing(a, tm)' = {} BY <1>2 DEF Racing
<1> QED BY <1>1, <1>3, <1>4, RaceKept DEF NonePaused

LEMMA IdleStepRace ==
  ASSUME PullsAlone, NonePaused, RaceBounded, UNCHANGED <<rows, drains>>
  PROVE  NonePaused' /\ RaceBounded'
<1>1. \A a \in Agents, tm \in Teams :
        OpenOf(a, tm)' = OpenOf(a, tm) /\ Racing(a, tm)' = Racing(a, tm)
  BY DEF OpenOf, Racing
<1> QED BY <1>1, RaceKept DEF NonePaused

LEMMA InitRace == PullsAlone /\ Init => NonePaused /\ RaceBounded
<1> SUFFICES ASSUME PullsAlone, Init PROVE NonePaused /\ RaceBounded OBVIOUS
<1>1. NonePaused
  <2>1. \A t \in Tickets : rows[t] \in {FreshRow(o, tm) : o \in InitOwners, tm \in Teams}
    BY DEF Init
  <2> QED BY <2>1 DEF FreshRow, NonePaused, PausedStatus
<1>2. ASSUME NEW a \in Agents, NEW tm \in Teams
      PROVE  Cardinality(OpenOf(a, tm)) + Cardinality(Racing(a, tm))
               <= Cap + Cardinality(Workers) - 1
  <2>1. Racing(a, tm) = {} BY IdleDrainType DEF Init, Racing
  <2>2. Cardinality(OpenOf(a, tm)) <= Cap BY DEF Init
  <2> QED BY <2>1, <2>2, FiniteCounts, NumbersAssumption, FS_EmptySet
<1> QED BY <1>1, <1>2 DEF RaceBounded

LEMMA NextRace ==
  ASSUME PullsAlone, IInv, NonePaused, RaceBounded, [Next]_vars
  PROVE  NonePaused' /\ RaceBounded'
<1>1. CASE Environment
  <2>1. CASE UNCHANGED <<rows, drains>> BY <2>1, IdleStepRace
  <2> QED BY <1>1, <2>1, RowsStepRace, DrainStepRace, CrashRace
          DEF Environment, PatchRead, SetAway, Deactivate, Reactivate, StatusRead, SweepFails, jobs
<1>2. CASE RequestStep BY <1>2, RowsStepRace, IdleStepRace DEF RequestStep, StatusWrite
<1>3. CASE TimerSweep
  BY <1>3, RowsStepRace, IdleStepRace DEF TimerSweep, SweepSelectWaiting, SweepSelectFollowup
<1>4. CASE CapacitySweep
  BY <1>4, IdleStepRace, DrainStepRace DEF CapacitySweep, CapacitySweepStart, Workers
<1>5. CASE \E w \in Workers : HookStep(w) \/ DrainStep(w)
  BY <1>5, DrainStepRace, PullRace DEF HookStep, DrainStep
<1>6. CASE BounceStep BY <1>6, RowsStepRace, IdleStepRace DEF BounceStep, BounceRead
<1>7. CASE UNCHANGED vars BY <1>7, IdleStepRace DEF vars
<1> QED BY <1>1, <1>2, <1>3, <1>4, <1>5, <1>6, <1>7 DEF Next

(* However many drains race for an agent's free slots, and wherever they   *)
(* fail or the process restarts, an agent never ends up with more tickets  *)
(* of a team than the cap and one for every racer but one.                 *)
THEOREM OvershootIsBounded ==
  ASSUME PullsAlone PROVE Spec => []OvershootBounded
<1>1. Init => NonePaused /\ RaceBounded BY InitRace
<1>2. IInv /\ (NonePaused /\ RaceBounded) /\ [Next]_vars => (NonePaused /\ RaceBounded)'
  BY NextRace
<1>3. RaceBounded => OvershootBounded
  <2> SUFFICES ASSUME RaceBounded, NEW a \in Agents, NEW tm \in Teams
               PROVE  Cardinality(OpenOf(a, tm)) <= Cap + Cardinality(Workers) - 1
    BY DEF OvershootBounded
  <2> QED BY FiniteCounts, NumbersAssumption DEF RaceBounded
<1> QED BY <1>1, <1>2, <1>3, Invariance, PTL DEF Spec
=============================================================================
