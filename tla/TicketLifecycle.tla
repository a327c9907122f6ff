--------------------------- MODULE TicketLifecycle ---------------------------
(***************************************************************************)
(* The automated life of a ticket and everything that races with it: the   *)
(* timer sweep, the capacity hook (event-driven and swept), the EMERGENCY  *)
(* bounce, presence changes and the agents' own PATCH requests             *)
(* (ticket-lifecycle.service.ts, presence.service.ts, users.service.ts and *)
(* TicketsService.update).                                                 *)
(*                                                                         *)
(* The database is PostgreSQL at READ COMMITTED.  `rows' is the committed  *)
(* ticket table; a transaction in flight is a record of what it has read   *)
(* and which rows it has locked, and its writes land in one step when it   *)
(* commits.  One SQL statement is one step, except that a SELECT with      *)
(* ORDER BY ... LIMIT 1 FOR UPDATE SKIP LOCKED over a join is two: the     *)
(* scan, on the statement's snapshot, and then the locking of the joined   *)
(* rows, which rechecks the ticket's columns but not the counting          *)
(* subquery.                                                               *)
(***************************************************************************)
EXTENDS TicketRow, FiniteSets

CONSTANTS
  Tickets,      \* ids in order of createdAt
  Admins,       \* agents with role ADMIN, which the capacity sweep leaves out
  Pullable,     \* pairs <<agent, team>>: a member not paused in a team not paused
  Cap,          \* max_concurrent_tickets of a membership
  SweepBatch,   \* SWEEP_BATCH
  HookWorkers,  \* drains the event hooks may run at the same time
  Sweeper,      \* the drain loop of the capacity sweep
  InitOwners,   \* owners a ticket may be created with
  InitOnline,   \* agents ONLINE at the start
  Dtos,         \* PATCH bodies the agents send
  MaxPatches, MaxReqs,  \* PATCH and status requests in flight at once
  MaxEvents     \* requests, outages and restarts in a behaviour

ASSUME TicketsAssumption == Tickets \subseteq Nat \ {0}
ASSUME AgentsAssumption  == /\ Admins \subseteq Agents /\ InitOnline \subseteq Agents
                            /\ InitOwners \subseteq Owners
                            /\ Pullable \subseteq Agents \X Teams
ASSUME NumbersAssumption == Cap \in Nat /\ SweepBatch \in Nat /\ MaxPatches \in Nat
                            /\ MaxReqs \in Nat /\ MaxEvents \in Nat
ASSUME DtosAssumption    ==
  /\ Dtos \subseteq PatchDto
  /\ \A dto \in Dtos : dto.status = "WAITING" <=> dto.waiting_action # "null"
ASSUME SweeperAssumption == Sweeper \notin HookWorkers

NoTicket == 0
Workers  == HookWorkers \cup {Sweeper}

VARIABLES
  rows,     \* the committed ticket table
  pres,     \* user.status; MEETING, BREAK and OFFLINE behave alike: AWAY
  active,   \* user.deactivatedAt IS NULL
  reqs,     \* status changes between reading the previous status and writing
  patches,  \* PATCH transactions between their read and their write
  wanted,   \* agents for whom an event hook is to run onCapacityFreed
  swept,    \* agents the capacity sweep still has to visit in this pass
  drains,   \* onCapacityFreed loops, by worker
  sweep,    \* the timer sweep's transaction (an advisory lock: at most one)
  bounces,  \* bounceOnEmergency calls
  budget    \* requests, outages and restarts left

vars   == <<rows, pres, active, reqs, patches, wanted, swept, drains, sweep, bounces, budget>>
people == <<pres, active, reqs>>
jobs   == <<wanted, swept, drains, sweep, bounces>>

Presence == {"ONLINE", "AWAY", "EMERGENCY"}
StatusReq == [agent: Agents, next: {"ONLINE", "EMERGENCY"}, prev: Presence]
PatchTxn  == [ticket: Tickets, dto: Dtos, read: Row]
DrainTxn  == [agent: Owners, phase: {"idle", "begin", "scanned", "followup", "pull"},
              ticket: Tickets \cup {NoTicket}, cands: SUBSET (Tickets \X Teams)]
SweepTxn  == [phase: {"idle", "waiting", "locked"}, resolve: SUBSET Tickets,
              keep: SUBSET Tickets, toBot: SUBSET Tickets, requeue: SUBSET Tickets,
              leave: SUBSET Tickets]
BounceTxn == [agent: Agents, phase: {"pending", "read"}, ids: SUBSET Tickets]

IdleDrain == [agent |-> Bot, phase |-> "idle", ticket |-> NoTicket, cands |-> {}]
IdleSweep == [phase |-> "idle", resolve |-> {}, keep |-> {}, toBot |-> {},
              requeue |-> {}, leave |-> {}]

(* isAssignable: ONLINE and not deactivated.                               *)
Assignable(a) == a \in Agents /\ pres[a] = "ONLINE" /\ active[a]

(* isAssignable as both sweeps' queries see it: they select id and status  *)
(* only, so deactivatedAt is undefined and never excludes anybody.         *)
AssignableToSweep(a) == a \in Agents /\ pres[a] = "ONLINE"

(* Row locks follow from the transactions in flight.                       *)
DrainHolds(w)  == IF drains[w].phase \in {"followup", "pull"} THEN {drains[w].ticket} ELSE {}
SweepHolds     == sweep.resolve \cup sweep.keep \cup sweep.toBot
                    \cup sweep.requeue \cup sweep.leave
Locked(t)      == t \in SweepHolds \/ \E w \in Workers : t \in DrainHolds(w)

(* FOR UPDATE over the pull's join locks the team row as well.             *)
TeamLocked(tm) == \E w \in Workers : /\ drains[w].phase = "pull"
                                     /\ rows[drains[w].ticket].team = tm

OpenOf(a, tm) == {t \in Tickets : /\ rows[t].status = "OPEN"
                                  /\ rows[t].assignee = a /\ rows[t].team = tm}

Queued(t) == rows[t].status = "OPEN" /\ rows[t].assignee = Bot

Spend == budget > 0 /\ budget' = budget - 1
----------------------------------------------------------------------------
Init ==
  /\ rows \in [Tickets -> {FreshRow(o, tm) : o \in InitOwners, tm \in Teams}]
  /\ \A a \in Agents, tm \in Teams : Cardinality(OpenOf(a, tm)) <= Cap
  /\ pres = [a \in Agents |-> IF a \in InitOnline THEN "ONLINE" ELSE "AWAY"]
  /\ active = [a \in Agents |-> TRUE]
  /\ reqs = {} /\ patches = {} /\ wanted = {} /\ swept = {} /\ bounces = {}
  /\ drains = [w \in Workers |-> IdleDrain]
  /\ sweep = IdleSweep
  /\ budget = MaxEvents

(* NOW() passes a ticket's resume_at.                                      *)
Elapse(t) ==
  /\ rows[t].resume_at = "pending"
  /\ rows' = [rows EXCEPT ![t].resume_at = "ripe"]
  /\ UNCHANGED <<people, patches, jobs, budget>>
----------------------------------------------------------------------------
(* PATCH /users/me/status                                                  *)

SetAway(a) ==
  /\ active[a] /\ pres[a] # "AWAY" /\ Spend
  /\ pres' = [pres EXCEPT ![a] = "AWAY"]
  /\ UNCHANGED <<rows, active, reqs, patches, jobs>>

StatusRead(a, next) ==
  /\ active[a] /\ Cardinality(reqs) < MaxReqs /\ Spend
  /\ reqs' = reqs \cup {[agent |-> a, next |-> next, prev |-> pres[a]]}
  /\ UNCHANGED <<rows, pres, active, patches, jobs>>

StatusWrite(r) ==
  LET changed == r.prev # r.next IN
  /\ reqs' = reqs \ {r}
  /\ pres' = [pres EXCEPT ![r.agent] = r.next]
  /\ wanted' = IF changed /\ r.next = "ONLINE" THEN wanted \cup {r.agent} ELSE wanted
  /\ bounces' = IF changed /\ r.next = "EMERGENCY"
                THEN bounces \cup {[agent |-> r.agent, phase |-> "pending", ids |-> {}]}
                ELSE bounces
  /\ UNCHANGED <<rows, active, patches, swept, drains, sweep, budget>>

(* An admin (de)activates an account; tickets and status stay as they are. *)
Deactivate(a) ==
  /\ active[a] /\ Spend
  /\ active' = [active EXCEPT ![a] = FALSE]
  /\ UNCHANGED <<rows, pres, reqs, patches, jobs>>

Reactivate(a) ==
  /\ ~active[a] /\ Spend
  /\ active' = [active EXCEPT ![a] = TRUE]
  /\ UNCHANGED <<rows, pres, reqs, patches, jobs>>
----------------------------------------------------------------------------
(* PATCH /tickets/:id: a read without a lock, and an UPDATE by id that     *)
(* waits for the row's lock.                                               *)

PatchRead(t, dto) ==
  /\ Cardinality(patches) < MaxPatches /\ Spend
  /\ ~Refused(rows[t], dto)
  /\ patches' = patches \cup {[ticket |-> t, dto |-> dto, read |-> rows[t]]}
  /\ UNCHANGED <<rows, people, jobs>>

(* Mutant: the UPDATE does not wait for the row's lock.                    *)
PatchWriteUnlocked(p) ==
  /\ rows' = [rows EXCEPT ![p.ticket] = Patched(@, p.read, p.dto)]
  /\ patches' = patches \ {p}
  /\ wanted' = wanted \cup Freed(p.read, p.dto)
  /\ UNCHANGED <<people, swept, drains, sweep, bounces, budget>>

PatchWrite(p) ==
  /\ ~Locked(p.ticket)
  /\ rows' = [rows EXCEPT ![p.ticket] = Patched(@, p.read, p.dto)]
  /\ patches' = patches \ {p}
  /\ wanted' = wanted \cup Freed(p.read, p.dto)
  /\ UNCHANGED <<people, swept, drains, sweep, bounces, budget>>
----------------------------------------------------------------------------
(* onCapacityFreed: a loop of transactions, each moving at most one ticket *)

Advance(w, txn) == drains' = [drains EXCEPT ![w] = txn]

HookBegins(w, a) ==
  /\ w \in HookWorkers /\ drains[w].phase = "idle" /\ a \in wanted
  /\ wanted' = wanted \ {a}
  /\ Advance(w, [IdleDrain EXCEPT !.agent = a, !.phase = "begin"])
  /\ UNCHANGED <<rows, people, patches, swept, sweep, bounces, budget>>

(* Mutant: the wrong role.                                                 *)
OnlineAdmins == {a \in Admins : pres[a] = "ONLINE" /\ active[a]}

OnlineMembers == {a \in Agents \ Admins : pres[a] = "ONLINE" /\ active[a]}

CapacitySweepStart ==
  /\ drains[Sweeper].phase = "idle" /\ swept = {}
  /\ OnlineMembers # {}
  /\ swept' = OnlineMembers
  /\ UNCHANGED <<rows, people, patches, wanted, drains, sweep, bounces, budget>>

SweeperVisits(a) ==
  /\ drains[Sweeper].phase = "idle" /\ a \in swept
  /\ swept' = swept \ {a}
  /\ Advance(Sweeper, [IdleDrain EXCEPT !.agent = a, !.phase = "begin"])
  /\ UNCHANGED <<rows, people, patches, wanted, sweep, bounces, budget>>

(* Mutant: the timer is not looked at.                                     *)
AllFollowups(a) ==
  {t \in Tickets : rows[t].status = "IN_FOLLOWUP" /\ rows[t].assignee = a /\ ~Locked(t)}

RipeFollowups(a) ==
  {t \in Tickets : /\ rows[t].status = "IN_FOLLOWUP" /\ rows[t].resume_at = "ripe"
                   /\ rows[t].assignee = a /\ ~Locked(t)}

(* Mutant: one ticket too many.                                            *)
CandidatesAtCap(a) ==
  {c \in Tickets \X Teams :
     /\ Queued(c[1]) /\ rows[c[1]].team = c[2] /\ <<a, c[2]>> \in Pullable
     /\ Cardinality(OpenOf(a, c[2])) <= Cap}

(* The pull's scan: queued tickets of the agent's teams that have room.    *)
Candidates(a) ==
  {c \in Tickets \X Teams :
     /\ Queued(c[1]) /\ rows[c[1]].team = c[2] /\ <<a, c[2]>> \in Pullable
     /\ Cardinality(OpenOf(a, c[2])) < Cap}

(* Mutants: only the ticket row is locked; the locked row is not rechecked.*)
LockableTicketOnly(c) == ~Locked(c[1]) /\ Queued(c[1]) /\ rows[c[1]].team = c[2]
LockableUnchecked(c)  == ~Locked(c[1]) /\ ~TeamLocked(c[2])

(* A candidate that the locking pass still finds as it was scanned.        *)
Lockable(c) ==
  /\ ~Locked(c[1]) /\ ~TeamLocked(c[2])
  /\ Queued(c[1]) /\ rows[c[1]].team = c[2]

DrainTxnStart(w) ==
  LET a == drains[w].agent IN
  /\ drains[w].phase = "begin"
  /\ \/ /\ ~Assignable(a)
        /\ Advance(w, IdleDrain)
     \/ /\ Assignable(a)
        /\ \E t \in RipeFollowups(a) :
             Advance(w, [drains[w] EXCEPT !.phase = "followup", !.ticket = t])
     \/ /\ Assignable(a) /\ RipeFollowups(a) = {}
        /\ Advance(w, [drains[w] EXCEPT !.phase = "scanned", !.cands = Candidates(a)])
  /\ UNCHANGED <<rows, people, patches, wanted, swept, sweep, bounces, budget>>

DrainTxnLock(w) ==
  LET found == {c \in drains[w].cands : Lockable(c)} IN
  /\ drains[w].phase = "scanned"
  /\ \/ /\ found = {}
        /\ Advance(w, IdleDrain)
     \/ \E c \in found :
          /\ \A d \in found : c[1] <= d[1]
          /\ Advance(w, [drains[w] EXCEPT !.phase = "pull", !.ticket = c[1], !.cands = {}])
  /\ UNCHANGED <<rows, people, patches, wanted, swept, sweep, bounces, budget>>

DrainTxnCommit(w) ==
  LET d == drains[w] IN
  /\ \/ /\ d.phase = "followup"
        /\ rows' = [rows EXCEPT ![d.ticket] = FollowupWoken(@)]
     \/ /\ d.phase = "pull"
        /\ rows' = [rows EXCEPT ![d.ticket] = Assigned(@, d.agent)]
  /\ Advance(w, [IdleDrain EXCEPT !.agent = d.agent, !.phase = "begin"])
  /\ UNCHANGED <<people, patches, wanted, swept, sweep, bounces, budget>>

(* The transaction throws: it is swallowed, and the loop stops.            *)
DrainTxnFails(w) ==
  /\ drains[w].phase \in {"scanned", "followup", "pull"} /\ Spend
  /\ Advance(w, IdleDrain)
  /\ UNCHANGED <<rows, people, patches, wanted, swept, sweep, bounces>>
----------------------------------------------------------------------------
(* sweepTimers: one transaction per batch.  Each SELECT locks at most      *)
(* SWEEP_BATCH ripe rows, in no order, and is followed by the presence     *)
(* query that decides what happens to each of them.                        *)

RipeUnlocked(s) == {t \in Tickets : rows[t].status = s /\ rows[t].resume_at = "ripe"
                                      /\ ~Locked(t)}
Batches(S) == {B \in SUBSET S : \/ B = S /\ Cardinality(S) <= SweepBatch
                                \/ Cardinality(B) = SweepBatch}
Stays(t) == AssignableToSweep(rows[t].assignee)

(* Mutant: the sweep returns early when no WAITING ticket is ripe.         *)
SweepSelectWaitingOnly ==
  /\ sweep.phase = "idle" /\ RipeUnlocked("WAITING") # {}
  /\ \E B \in Batches(RipeUnlocked("WAITING")) :
       sweep' = [IdleSweep EXCEPT !.phase = "waiting",
                   !.resolve = {t \in B : rows[t].waiting_action # "REOPEN"}]
  /\ UNCHANGED <<rows, people, patches, wanted, swept, drains, bounces, budget>>

SweepSelectWaiting ==
  /\ sweep.phase = "idle"
  /\ RipeUnlocked("WAITING") \cup RipeUnlocked("IN_FOLLOWUP") # {}
  /\ \E B \in Batches(RipeUnlocked("WAITING")) :
       LET reopen == {t \in B : rows[t].waiting_action = "REOPEN"} IN
       sweep' = [IdleSweep EXCEPT !.phase = "waiting", !.resolve = B \ reopen,
                   !.keep = {t \in reopen : Stays(t)},
                   !.toBot = {t \in reopen : ~Stays(t)}]
  /\ UNCHANGED <<rows, people, patches, wanted, swept, drains, bounces, budget>>

SweepSelectFollowup ==
  /\ sweep.phase = "waiting"
  /\ \E B \in Batches(RipeUnlocked("IN_FOLLOWUP")) :
       sweep' = [sweep EXCEPT !.phase = "locked",
                   !.requeue = {t \in B : ~Stays(t)}, !.leave = {t \in B : Stays(t)}]
  /\ UNCHANGED <<rows, people, patches, wanted, swept, drains, bounces, budget>>

(* Mutant: the resolving UPDATE is missing.                                *)
SweptRowUnresolved(t) ==
  IF t \in sweep.keep THEN TimerReopened(rows[t], rows[t].assignee)
  ELSE IF t \in sweep.toBot THEN TimerReopened(rows[t], Bot)
  ELSE IF t \in sweep.requeue THEN FollowupRequeued(rows[t])
  ELSE rows[t]

SweptRow(t) ==
  IF t \in sweep.resolve THEN TimerResolved(rows[t])
  ELSE IF t \in sweep.keep THEN TimerReopened(rows[t], rows[t].assignee)
  ELSE IF t \in sweep.toBot THEN TimerReopened(rows[t], Bot)
  ELSE IF t \in sweep.requeue THEN FollowupRequeued(rows[t])
  ELSE rows[t]

SweepCommit ==
  /\ sweep.phase = "locked"
  /\ rows' = [t \in Tickets |-> SweptRow(t)]
  /\ sweep' = IdleSweep
  /\ UNCHANGED <<people, patches, wanted, swept, drains, bounces, budget>>

SweepFails ==
  /\ sweep.phase # "idle" /\ Spend
  /\ sweep' = IdleSweep
  /\ UNCHANGED <<rows, people, patches, wanted, swept, drains, bounces>>
----------------------------------------------------------------------------
(* bounceOnEmergency: reads the agent's OPEN ids without a lock, then      *)
(* updates them by id.                                                     *)

BounceRead(b) ==
  LET ids == {t \in Tickets : rows[t].assignee = b.agent /\ rows[t].status = "OPEN"} IN
  /\ b.phase = "pending"
  /\ bounces' = (bounces \ {b}) \cup
                  IF ids = {} THEN {} ELSE {[b EXCEPT !.phase = "read", !.ids = ids]}
  /\ UNCHANGED <<rows, people, patches, wanted, swept, drains, sweep, budget>>

BounceWrite(b) ==
  /\ b.phase = "read"
  /\ \A t \in b.ids : ~Locked(t)
  /\ rows' = [t \in Tickets |-> IF t \in b.ids THEN Assigned(rows[t], Bot) ELSE rows[t]]
  /\ bounces' = bounces \ {b}
  /\ UNCHANGED <<people, patches, wanted, swept, drains, sweep, budget>>
----------------------------------------------------------------------------
(* The process dies: its transactions roll back, and every hook that was   *)
(* waiting in memory is gone.                                              *)
Crash ==
  /\ Spend
  /\ reqs' = {} /\ patches' = {} /\ wanted' = {} /\ swept' = {} /\ bounces' = {}
  /\ drains' = [w \in Workers |-> IdleDrain]
  /\ sweep' = IdleSweep
  /\ UNCHANGED <<rows, pres, active>>

TimerSweep    == SweepSelectWaiting \/ SweepSelectFollowup \/ SweepCommit
CapacitySweep == CapacitySweepStart \/ \E a \in Agents : SweeperVisits(a)
DrainStep(w)  == DrainTxnStart(w) \/ DrainTxnLock(w) \/ DrainTxnCommit(w)
HookStep(w)   == \E a \in Agents : HookBegins(w, a)
BounceStep    == \E b \in bounces : BounceRead(b) \/ BounceWrite(b)
RequestStep   == \/ \E p \in patches : PatchWrite(p)
                 \/ \E r \in reqs : StatusWrite(r)

Environment ==
  \/ \E t \in Tickets : Elapse(t)
  \/ \E t \in Tickets, dto \in Dtos : PatchRead(t, dto)
  \/ \E a \in Agents : SetAway(a) \/ Deactivate(a) \/ Reactivate(a)
  \/ \E a \in Agents, next \in {"ONLINE", "EMERGENCY"} : StatusRead(a, next)
  \/ \E w \in Workers : DrainTxnFails(w)
  \/ SweepFails
  \/ Crash

Next ==
  \/ Environment
  \/ RequestStep
  \/ TimerSweep
  \/ CapacitySweep
  \/ \E w \in Workers : HookStep(w) \/ DrainStep(w)
  \/ BounceStep

Spec == Init /\ [][Next]_vars

(* setInterval keeps firing, the event loop serves every hook it was given *)
(* and every statement returns; requests, timers and outages owe nothing.  *)
Fairness ==
  /\ WF_vars(RequestStep) /\ WF_vars(TimerSweep) /\ WF_vars(CapacitySweep)
  /\ WF_vars(BounceStep)
  /\ \A w \in Workers : WF_vars(HookStep(w)) /\ WF_vars(DrainStep(w))

LiveSpec == Spec /\ Fairness
----------------------------------------------------------------------------
(* The variables stay in the sets the code's columns and locals range over *)
(* (ticket.entity.ts, user.entity.ts and the locals of the handlers).      *)
TypeOK ==
  /\ rows \in [Tickets -> Row]
  /\ pres \in [Agents -> Presence] /\ active \in [Agents -> BOOLEAN]
  /\ reqs \subseteq StatusReq /\ patches \subseteq PatchTxn
  /\ wanted \subseteq Agents /\ swept \subseteq Agents
  /\ drains \in [Workers -> DrainTxn] /\ sweep \in SweepTxn
  /\ bounces \subseteq BounceTxn /\ budget \in Nat

Contract == INSTANCE TicketContract WITH
              tickets <- [t \in Tickets |-> Promised(rows[t])],
              asked <- [t \in Tickets |-> {p \in patches : p.ticket = t}],
              heard <- [t \in Tickets |-> {}]

(* The sweeps, drains, bounces, PATCHes and crashes, in any order, change  *)
(* tickets as TicketContract says: stale reads and lost transactions never *)
(* show in what a step does to a ticket.                                   *)
KeepsContract == Contract!Spec

Coherent(row) ==
  /\ row.resume_at # "null" <=> row.status \in PausedStatus
  /\ row.waiting_action # "null" <=> row.status = "WAITING"
  /\ row.status = "RESOLVED" => row.resolved_at # "null"

(* Whatever order stale PATCHes, sweeps, drains and bounces commit in, a   *)
(* ticket has a timer exactly while it is paused, an action for the timer  *)
(* exactly while it is WAITING, and a resolution stamp once RESOLVED: the  *)
(* three columns the sweep and the reopen window rely on                   *)
(* (ticket.entity.ts 69-101), written by six different statements.         *)
TimerCoherent == \A t \in Tickets : Coherent(rows[t])

DrainRowHolds(w) ==
  LET d == drains[w] IN
  /\ d.phase = "followup" => /\ rows[d.ticket].status = "IN_FOLLOWUP"
                             /\ rows[d.ticket].resume_at = "ripe"
                             /\ rows[d.ticket].assignee = d.agent
  /\ d.phase = "pull" => Queued(d.ticket)

SweepRowsHold ==
  /\ \A t \in sweep.resolve : /\ rows[t].status = "WAITING" /\ rows[t].resume_at = "ripe"
                              /\ rows[t].waiting_action # "REOPEN"
  /\ \A t \in sweep.keep \cup sweep.toBot :
        /\ rows[t].status = "WAITING" /\ rows[t].resume_at = "ripe"
        /\ rows[t].waiting_action = "REOPEN"
  /\ \A t \in sweep.requeue \cup sweep.leave :
        rows[t].status = "IN_FOLLOWUP" /\ rows[t].resume_at = "ripe"

(* Until its transaction ends, a locked row is still what the locking      *)
(* SELECT of the sweep or of the drain returned, so that the UPDATE by id  *)
(* that follows it acts on the ticket it was decided for.                  *)
LockedRowsHold == SweepRowsHold /\ \A w \in Workers : DrainRowHolds(w)

(* No ticket is in the hands of two transactions at once, and no two pulls *)
(* hold the same team: FOR UPDATE SKIP LOCKED in both sweeps and both      *)
(* drain queries.                                                          *)
LocksExclusive ==
  /\ \A w \in Workers : DrainHolds(w) \cap SweepHolds = {}
  /\ \A v, w \in Workers : v # w =>
       /\ DrainHolds(v) \cap DrainHolds(w) = {}
       /\ ~ /\ drains[v].phase = "pull" /\ drains[w].phase = "pull"
            /\ rows[drains[v].ticket].team = rows[drains[w].ticket].team

(* Locks do what the code takes them for: nobody shares a row, and nobody   *)
(* changes one that another transaction holds.                             *)
LocksHold == LocksExclusive /\ LockedRowsHold

PatchLands(t) == \E p \in patches \ patches' : p.ticket = t

PauseEndsDuly(t) ==
  rows[t].status \in PausedStatus /\ rows'[t].status # rows[t].status /\ ~PatchLands(t)
  => /\ rows[t].resume_at = "ripe"
     /\ rows'[t].status = IF rows[t].waiting_action = "AUTO_RESOLVE" THEN "RESOLVED" ELSE "OPEN"

(* Nothing but an agent's own PATCH ends a pause early or against the      *)
(* action chosen for it: the sweep and the hook only act on a timer that   *)
(* has run out, resolve only what asked for AUTO_RESOLVE and put only      *)
(* REOPEN and followup tickets back to work.                               *)
TimersAreKept == [][\A t \in Tickets : PauseEndsDuly(t)]_vars

HandedOverByPatch(t) ==
  rows[t].assignee \in Agents /\ rows'[t].assignee \in Agents \ {rows[t].assignee}
  => \E p \in patches \ patches' : p.ticket = t /\ p.dto.assignee = rows'[t].assignee

(* A ticket passes from one human to another only by a PATCH that names    *)
(* the new owner; every automated step goes through the BOT queue, so no   *)
(* drain can take a ticket a teammate already has.                         *)
QueueBetweenHumans == [][\A t \in Tickets : HandedOverByPatch(t)]_vars

(* Racing drains of one agent can overshoot the cap (each scans before it  *)
(* locks), but by no more than one ticket per racer: a drain that starts   *)
(* after the overshoot sees it and stops.                                  *)
OvershootBounded ==
  \A a \in Agents, tm \in Teams :
    Cardinality(OpenOf(a, tm)) <= Cap + Cardinality(Workers) - 1

(* A WAITING ticket whose timer has run out leaves that state, whatever    *)
(* crashes, failed sweeps and PATCHes come between (sweepTimers).          *)
WaitingEnds ==
  \A t \in Tickets :
    rows[t].status = "WAITING" /\ rows[t].resume_at = "ripe"
      ~> ~(rows[t].status = "WAITING" /\ rows[t].resume_at = "ripe")

RipeFollowup(t) == rows[t].status = "IN_FOLLOWUP" /\ rows[t].resume_at = "ripe"

(* A followup that falls due while its agent is not ONLINE does not wait   *)
(* for the agent: the sweep queues it again (ticket #1436).                *)
OrphanFollowupRequeued ==
  \A t \in Tickets :
    RipeFollowup(t) /\ ~AssignableToSweep(rows[t].assignee)
      ~> ~RipeFollowup(t) \/ AssignableToSweep(rows[t].assignee)

(* Pauses end when their time comes, whoever has to see to it.             *)
TimersServed == WaitingEnds /\ OrphanFollowupRequeued

CanPull(a, t) ==
  /\ Queued(t) /\ Assignable(a) /\ a \notin Admins
  /\ <<a, rows[t].team>> \in Pullable
  /\ Cardinality(OpenOf(a, rows[t].team)) < Cap

(* A queued ticket and an idle member who may take it do not stay apart,   *)
(* even if the hook that should have joined them was lost in a restart or  *)
(* its transaction failed: the capacity sweep is the backstop.             *)
QueueDrains ==
  \A a \in Agents, t \in Tickets : CanPull(a, t) ~> ~CanPull(a, t)

(* No ticket waits for ever for a sweep or a drain that could serve it     *)
(* (the two intervals and the hooks of TicketLifecycleService).            *)
TicketsMoveOn == TimersServed /\ QueueDrains
----------------------------------------------------------------------------
(* What comments of the code promise and the code does not keep.           *)

(* A deactivated user is not assignable (presence-helpers.ts 18-21), so a  *)
(* ripe followup of theirs is queued again.                                *)
DeactivatedFollowupRequeued ==
  \A t \in Tickets :
    RipeFollowup(t) /\ ~Assignable(rows[t].assignee)
      ~> ~RipeFollowup(t) \/ Assignable(rows[t].assignee)
=============================================================================
