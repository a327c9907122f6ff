------------------------------ MODULE TicketRow ------------------------------
(***************************************************************************)
(* One row of the ticket table and what each writer of the code does to    *)
(* it.  No state lives here: the transaction that reads a row and the one  *)
(* that writes it are steps of the modules that extend this one.           *)
(*                                                                         *)
(* Time is kept as far as the code can tell it apart: a timer (resume_at)  *)
(* is absent, still ahead, or past NOW(); the resolution stamp             *)
(* (resolved_at) is absent, inside the reopen window, or older than it.    *)
(***************************************************************************)
EXTENDS Naturals

CONSTANTS Agents,   \* human users (roles MEMBER and ADMIN)
          Bot,      \* the seeded BOT user: owning a ticket means queueing it
          Teams

ASSUME BotAssumption == Bot \notin Agents

Owners       == Agents \cup {Bot}
TicketStatus == {"OPEN", "IN_FOLLOWUP", "WAITING", "RESOLVED"}
PausedStatus == {"WAITING", "IN_FOLLOWUP"}
WaitingAction == {"AUTO_RESOLVE", "REOPEN"}

Row == [status: TicketStatus, assignee: Owners, team: Teams,
        resume_at: {"null", "pending", "ripe"},
        waiting_action: WaitingAction \cup {"null"},
        resolved_at: {"null", "recent", "old"}]

FreshRow(owner, tm) ==
  [status |-> "OPEN", assignee |-> owner, team |-> tm, resume_at |-> "null",
   waiting_action |-> "null", resolved_at |-> "null"]

(* A table with one more row, of the next id.                              *)
WithRow(table, id, row) ==
  [t \in DOMAIN table \cup {id} |-> IF t = id THEN row ELSE table[t]]

(* What TicketContract knows of a row.                                     *)
Promised(row) == [status |-> row.status, owner |-> row.assignee,
                  timer |-> row.resume_at, action |-> row.waiting_action]

Ripe(row) == row.status \in PausedStatus /\ row.resume_at = "ripe"

----------------------------------------------------------------------------
(* Writes of the two sweeps, the capacity hook and the EMERGENCY bounce.   *)

TimerResolved(row) ==
  [row EXCEPT !.status = "RESOLVED", !.resume_at = "null",
              !.waiting_action = "null", !.resolved_at = "recent"]

TimerReopened(row, owner) ==
  [row EXCEPT !.status = "OPEN", !.resume_at = "null",
              !.waiting_action = "null", !.assignee = owner]

FollowupRequeued(row) ==
  [row EXCEPT !.status = "OPEN", !.resume_at = "null", !.assignee = Bot]

FollowupWoken(row) == [row EXCEPT !.status = "OPEN", !.resume_at = "null"]

Assigned(row, owner) == [row EXCEPT !.assignee = owner]

----------------------------------------------------------------------------
(* PATCH /tickets/:id.  "keep" is a field the request leaves out; the      *)
(* handler decides every column from the row it READ, and writes it on the *)
(* row it FINDS.                                                           *)

PatchDto == [status: TicketStatus \cup {"keep"}, assignee: Owners \cup {"keep"},
             team: Teams \cup {"keep"}, waiting_action: WaitingAction \cup {"null"}]

ChangesStatus(read, dto)   == dto.status \notin {"keep", read.status}
ChangesAssignee(read, dto) == dto.assignee \notin {"keep", read.assignee}
ChangesTeam(read, dto)     == dto.team \notin {"keep", read.team}

(* A paused status comes with resumeAtHours, which the handler refuses     *)
(* (400) when the ticket already has that status.                          *)
Refused(read, dto) == dto.status \in PausedStatus /\ dto.status = read.status

PatchedResolvedAt(cur, read, dto) ==
  IF dto.status = "RESOLVED" THEN "recent"
  ELSE IF read.status = "RESOLVED" THEN "null" ELSE cur.resolved_at

(* Mutant: the timer is only ever set, never cleared.                      *)
PatchedKeepingTimer(cur, read, dto) ==
  IF ChangesStatus(read, dto)
  THEN [cur EXCEPT !.status = dto.status,
                   !.resume_at = IF dto.status \in PausedStatus THEN "pending" ELSE @,
                   !.waiting_action = IF dto.status = "WAITING" THEN dto.waiting_action ELSE "null",
                   !.resolved_at = PatchedResolvedAt(cur, read, dto)]
  ELSE cur

Patched(cur, read, dto) ==
  LET owner == IF ChangesAssignee(read, dto) THEN dto.assignee ELSE cur.assignee
      tm    == IF ChangesTeam(read, dto) THEN dto.team ELSE cur.team
  IN  IF ChangesStatus(read, dto)
      THEN [status |-> dto.status, assignee |-> owner, team |-> tm,
            resume_at |-> IF dto.status \in PausedStatus THEN "pending" ELSE "null",
            waiting_action |-> IF dto.status = "WAITING" THEN dto.waiting_action ELSE "null",
            resolved_at |-> PatchedResolvedAt(cur, read, dto)]
      ELSE [cur EXCEPT !.assignee = owner, !.team = tm]

(* Mutant: the BOT queue counts as an owner with a slot to free.           *)
FreedOfAnyone(read, dto) ==
  IF read.status = "OPEN" /\ (ChangesAssignee(read, dto) \/ ChangesStatus(read, dto))
  THEN {read.assignee} ELSE {}

(* The agent whose slot the PATCH frees: the human owner of a ticket read  *)
(* as OPEN that is handed on or leaves OPEN.                               *)
Freed(read, dto) ==
  IF /\ read.status = "OPEN" /\ read.assignee \in Agents
     /\ \/ ChangesAssignee(read, dto)
        \/ ChangesStatus(read, dto)
  THEN {read.assignee} ELSE {}
=============================================================================
