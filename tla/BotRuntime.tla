----------------------------- MODULE BotRuntime -----------------------------
(***************************************************************************)
(* The bot session of one ticket (bot-runtime.service.ts): started by a    *)
(* trigger, moved on by customer replies and by the delay sweep, each      *)
(* running the tick loop over the steps of a flow until one blocks or ends *)
(* the session.                                                            *)
(*                                                                         *)
(* Nothing serialises these calls.  Each loads the session row into an     *)
(* entity of its own, changes that and saves it whole, so a step of a call *)
(* is what lies between two saves, and a save may overwrite what another   *)
(* call has written since.                                                 *)
(***************************************************************************)
EXTENDS Naturals, FiniteSets

CONSTANTS
  Steps,     \* bot_step rows of the flow
  Kind,      \* their type; "draft" is a step whose config is unfinished
  Nexts,     \* the steps each may lead to, by option, outcome, arm or wire
  First,     \* flow.first_step_id
  End,       \* current_step_id = null
  MaxTicks,  \* MAX_TICKS
  Calls,     \* runtime calls that may be in flight at once
  MaxEvents  \* failures, restarts and edits in a behaviour

Kinds == {"tell", "ask", "function", "branch", "delay", "handoff", "resolve", "draft"}

ASSUME FlowAssumption ==
  /\ End \notin Steps /\ First \in Steps
  /\ Kind \in [Steps -> Kinds]
  /\ Nexts \in [Steps -> SUBSET (Steps \cup {End})]
ASSUME BoundsAssumption == MaxTicks \in Nat /\ MaxEvents \in Nat

VARIABLES
  row,         \* the bot_session row of the ticket
  calls,       \* calls between two saves, each with its entity
  resolved,    \* the ticket's status is RESOLVED
  removed,     \* steps an admin has removed from the flow
  clean,       \* no call has died and no step was removed so far
  overlapped,  \* two calls have held the session at the same time
  budget

vars == <<row, calls, resolved, removed, clean, overlapped, budget>>

Position == Steps \cup {End}
Session  == [status: {"ABSENT", "ACTIVE", "COMPLETED", "HANDOFF", "FAILED"},
             at: Position, wake: {"none", "pending", "due"}]
Call     == [phase: {"idle", "start", "reply", "sweep", "tick", "resolve"},
             me: Session, left: Nat, seen: BOOLEAN]

Absent   == [status |-> "ABSENT", at |-> End, wake |-> "none"]
Fresh    == [status |-> "ACTIVE", at |-> First, wake |-> "none"]
IdleCall == [phase |-> "idle", me |-> Absent, left |-> 0, seen |-> FALSE]
Ticking(s) == [IdleCall EXCEPT !.phase = "tick", !.me = s, !.left = MaxTicks]

InFlight(c) == calls[c].phase # "idle"
Has(s)      == s \in Steps \ removed
Asks(s)     == s \in Steps /\ Kind[s] = "ask"
(* The foreign key on current_step_id.                                     *)
Savable(s)  == s.at = End \/ Has(s.at)

Init ==
  /\ row = Absent
  /\ calls = [c \in Calls |-> IdleCall]
  /\ resolved = FALSE /\ removed = {}
  /\ clean = TRUE /\ overlapped = FALSE /\ budget = MaxEvents

Goto(c, k) == calls' = [calls EXCEPT ![c] = k]

(* A call takes the session up.                                            *)
Begins(c, k) ==
  /\ ~InFlight(c) /\ Goto(c, k)
  /\ overlapped' = (overlapped \/ \E d \in Calls : InFlight(d))

(* repository.save(session), after which the call is k.  The foreign key   *)
(* may refuse it: the call throws, and its caller swallows that.           *)
Saves(c, s, k) ==
  \/ Savable(s) /\ row' = s /\ Goto(c, k) /\ UNCHANGED clean
  \/ ~Savable(s) /\ clean' = FALSE /\ Goto(c, IdleCall) /\ UNCHANGED row
----------------------------------------------------------------------------
(* startSession: any session of the ticket, live or ended, makes it return *)
(* and the unique ticket_id makes the insert of a second start throw.      *)
StartReads(c) ==
  /\ row = Absent /\ Has(First)
  /\ Begins(c, [IdleCall EXCEPT !.phase = "start"])
  /\ UNCHANGED <<row, resolved, removed, clean, budget>>

StartInserts(c) ==
  /\ calls[c].phase = "start"
  /\ \/ row = Absent /\ Saves(c, Fresh, Ticking(Fresh))
     \/ row # Absent /\ Goto(c, IdleCall) /\ UNCHANGED <<row, clean>>
  /\ UNCHANGED <<resolved, removed, overlapped, budget>>

(* Mutants of ReplyReads: without the status, without the look at wake_at. *)
ReplyReadsAnyStatus(c) ==
  /\ row.status # "ABSENT" /\ row.at # End /\ row.wake = "none"
  /\ Begins(c, [IdleCall EXCEPT !.phase = "reply", !.me = row])
  /\ UNCHANGED <<row, resolved, removed, clean, budget>>

ReplyReadsAsleep(c) ==
  /\ row.status = "ACTIVE" /\ row.at # End
  /\ Begins(c, [IdleCall EXCEPT !.phase = "reply", !.me = row])
  /\ UNCHANGED <<row, resolved, removed, clean, budget>>

(* handleCustomerReply: nothing to do for an ended or a sleeping session.  *)
ReplyReads(c) ==
  /\ row.status = "ACTIVE" /\ row.at # End /\ row.wake = "none"
  /\ Begins(c, [IdleCall EXCEPT !.phase = "reply", !.me = row])
  /\ UNCHANGED <<row, resolved, removed, clean, budget>>

(* The reply picks an option of any question of the flow: of this one by   *)
(* label or button, of an earlier one by a late tap.                       *)
Answers == UNION {Nexts[s] : s \in {q \in Steps : Has(q) /\ Asks(q)}}

ReplyAnswers(c) ==
  LET me == calls[c].me IN
  /\ calls[c].phase = "reply" /\ Has(me.at) /\ Asks(me.at)
  /\ \E n \in Answers :
       LET s == [me EXCEPT !.at = n] IN Saves(c, s, Ticking(s))
  /\ UNCHANGED <<resolved, removed, overlapped, budget>>

(* No question is open, or no option fits and the question is sent again.  *)
ReplyChangesNothing(c) ==
  /\ calls[c].phase = "reply" /\ Goto(c, IdleCall)
  /\ UNCHANGED <<row, resolved, removed, clean, overlapped, budget>>

(* Mutant of SweepReads: a session that sleeps at the end of its flow is   *)
(* skipped.                                                                *)
SweepReadsSteps(c) ==
  /\ row.status = "ACTIVE" /\ row.wake = "due" /\ row.at # End
  /\ Begins(c, [IdleCall EXCEPT !.phase = "sweep", !.me = row])
  /\ UNCHANGED <<row, resolved, removed, clean, budget>>

(* sweepDelayedSessions                                                    *)
SweepReads(c) ==
  /\ row.status = "ACTIVE" /\ row.wake = "due"
  /\ Begins(c, [IdleCall EXCEPT !.phase = "sweep", !.me = row])
  /\ UNCHANGED <<row, resolved, removed, clean, budget>>

SweepClears(c) ==
  LET s == [calls[c].me EXCEPT !.wake = "none"] IN
  /\ calls[c].phase = "sweep"
  /\ Saves(c, s, Ticking(s))
  /\ UNCHANGED <<resolved, removed, overlapped, budget>>
----------------------------------------------------------------------------
(* tick: one turn of the loop.  The turns are counted.                     *)
At(c)   == calls[c].me.at
(* Mutant of Turn: the loop guard is gone.                                 *)
TurnUnguarded(c) == calls[c].phase = "tick"

Turn(c) == calls[c].phase = "tick" /\ calls[c].left > 0
OnStep(c, kinds) == Turn(c) /\ Has(At(c)) /\ Kind[At(c)] \in kinds

Moved(c, n) == [calls[c].me EXCEPT !.at = n]
(* Mutant of NextTurn: the turns are not counted.                          *)
NextTurnUncounted(c, s) == [calls[c] EXCEPT !.me = s]

NextTurn(c, s) == [calls[c] EXCEPT !.me = s, !.left = @ - 1]
Ended(c, status, n) == [calls[c].me EXCEPT !.status = status, !.at = n]
EndsAs(c, status, n) == Saves(c, Ended(c, status, n), IdleCall)

(* The loop guard, the end of the flow, a step that is gone, one that is   *)
(* not finished, a function that throws.                                   *)
TickFinishes(c) ==
  /\ \/ calls[c].phase = "tick" /\ calls[c].left = 0 /\ EndsAs(c, "FAILED", At(c))
     \/ Turn(c) /\ At(c) = End /\ EndsAs(c, "COMPLETED", End)
     \/ Turn(c) /\ At(c) \in removed /\ EndsAs(c, "FAILED", End)
     \/ OnStep(c, {"draft", "function"}) /\ EndsAs(c, "FAILED", At(c))
     \/ OnStep(c, {"handoff"}) /\ EndsAs(c, "HANDOFF", End)
  /\ UNCHANGED <<resolved, removed, overlapped, budget>>

TickMovesOn(c) ==
  /\ OnStep(c, {"tell", "function", "branch"})
  /\ \E n \in Nexts[At(c)] :
       Saves(c, Moved(c, n), NextTurn(c, Moved(c, n)))
  /\ UNCHANGED <<resolved, removed, overlapped, budget>>

(* A question is sent; the customer's answer moves on.                     *)
TickAsks(c) ==
  /\ OnStep(c, {"ask"}) /\ Goto(c, IdleCall)
  /\ UNCHANGED <<row, resolved, removed, clean, overlapped, budget>>

(* Mutant of TickSleeps: the timer is not saved.                           *)
TickSleepsForgetful(c) ==
  /\ OnStep(c, {"delay"})
  /\ \E n \in Nexts[At(c)] : Saves(c, Moved(c, n), IdleCall)
  /\ UNCHANGED <<resolved, removed, overlapped, budget>>

TickSleeps(c) ==
  /\ OnStep(c, {"delay"})
  /\ \E n \in Nexts[At(c)] :
       Saves(c, [Moved(c, n) EXCEPT !.wake = "pending"], IdleCall)
  /\ UNCHANGED <<resolved, removed, overlapped, budget>>

(* applyResolve: the ticket is read before the transaction that closes it. *)
ResolveReads(c) ==
  /\ OnStep(c, {"resolve"})
  /\ Goto(c, [calls[c] EXCEPT !.phase = "resolve", !.seen = resolved])
  /\ UNCHANGED <<row, resolved, removed, clean, overlapped, budget>>

ResolveCommits(c) ==
  /\ calls[c].phase = "resolve"
  /\ EndsAs(c, "COMPLETED", End)
  /\ resolved' = (resolved \/ ~calls[c].seen)
  /\ UNCHANGED <<removed, overlapped, budget>>
----------------------------------------------------------------------------
(* The rest of the world.                                                  *)
Elapse ==
  /\ row.wake = "pending" /\ row' = [row EXCEPT !.wake = "due"]
  /\ UNCHANGED <<calls, resolved, removed, clean, overlapped, budget>>

Spend == budget > 0 /\ budget' = budget - 1

(* Agents resolve and reopen the ticket meanwhile.                         *)
AgentMoves ==
  /\ Spend /\ resolved' = ~resolved
  /\ UNCHANGED <<row, calls, removed, clean, overlapped>>

(* FlowsService.removeStep; the foreign key empties current_step_id.       *)
RemoveStep(s) ==
  /\ Has(s) /\ Spend /\ removed' = removed \cup {s}
  /\ row' = IF row.at = s THEN [row EXCEPT !.at = End] ELSE row
  /\ clean' = FALSE
  /\ UNCHANGED <<calls, resolved, overlapped>>

(* A query of the call throws; nobody takes the session up again.          *)
Throws(c) ==
  /\ InFlight(c) /\ Spend /\ Goto(c, IdleCall) /\ clean' = FALSE
  /\ UNCHANGED <<row, resolved, removed, overlapped>>

Restart ==
  /\ Spend /\ calls' = [c \in Calls |-> IdleCall]
  /\ clean' = (clean /\ \A c \in Calls : ~InFlight(c))
  /\ UNCHANGED <<row, resolved, removed, overlapped>>
----------------------------------------------------------------------------
CallStep(c) ==
  \/ StartInserts(c) \/ ReplyAnswers(c) \/ ReplyChangesNothing(c) \/ SweepClears(c)
  \/ TickFinishes(c) \/ TickMovesOn(c) \/ TickAsks(c) \/ TickSleeps(c)
  \/ ResolveReads(c) \/ ResolveCommits(c)

Sweep == \E c \in Calls : SweepReads(c)

Next ==
  \/ \E c \in Calls : StartReads(c) \/ ReplyReads(c) \/ CallStep(c) \/ Throws(c)
  \/ Sweep
  \/ Elapse \/ AgentMoves \/ Restart
  \/ \E s \in Steps : RemoveStep(s)

Spec == Init /\ [][Next]_vars

(* Awaits return, and the sweep runs every ten seconds.                    *)
Fairness == WF_vars(Sweep) /\ \A c \in Calls : WF_vars(CallStep(c))
LiveSpec == Spec /\ Fairness
----------------------------------------------------------------------------
(* The type of every variable.                                             *)
TypeOK ==
  /\ row \in Session /\ calls \in [Calls -> Call]
  /\ resolved \in BOOLEAN /\ removed \subseteq Steps
  /\ clean \in BOOLEAN /\ overlapped \in BOOLEAN /\ budget \in Nat

(* Something will take the session up: a reply to its question, or the     *)
(* sweep after its delay.                                                  *)
Parked == Asks(row.at) \/ row.wake # "none"

(* The resumability the tick loop is written for: when no call is at work, *)
(* an ACTIVE session waits for a reply or for its timer, whatever calls    *)
(* overlapped before and however often they overwrote each other.  Only a  *)
(* call that died, or a step removed under it, leaves a session that       *)
(* nobody will move.                                                       *)
NeverAdrift ==
  clean /\ row.status = "ACTIVE" /\ (\A c \in Calls : ~InFlight(c)) => Parked

(* A session that has ended (handed off, resolved, failed) is not brought  *)
(* back, by a late tap on an old button or otherwise, as long as calls do  *)
(* not overlap.  (When they do, an older save does it.)                    *)
EndedStaysEnded ==
  [][row.status \in {"COMPLETED", "HANDOFF", "FAILED"} =>
       row'.status = row.status \/ overlapped]_vars

(* A customer who writes during a delay does not bypass it: until its      *)
(* timer is due, a sleeping session stays where it is, as long as calls do *)
(* not overlap and nobody removes the step it sleeps before.               *)
DelayStands ==
  [][row.wake = "pending" =>
       row' \in {row, [row EXCEPT !.wake = "due"]} \/ overlapped \/ ~clean']_vars

(* Whatever cycles the flow has, a call comes to its end.                  *)
CallsEnd == \A c \in Calls : InFlight(c) ~> ~InFlight(c)

(* A delay that is over is noticed, also across restarts and failures of   *)
(* the sweep.                                                              *)
SleepersWake == (row.status = "ACTIVE" /\ row.wake = "due") ~> (row.wake # "due")

\* What the sessions owe each other in time: no call keeps a session from the
\* next one for ever, and no delay that fell due goes unnoticed.
SessionsMoveOn == CallsEnd /\ SleepersWake
=============================================================================
