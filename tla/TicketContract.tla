--------------------------- MODULE TicketContract ---------------------------
(***************************************************************************)
(* What the backend promises of a ticket to those who work with it, with   *)
(* no transaction, lock, sweep or hook in sight: who owns it, what status  *)
(* it has, whether its timer runs and what the timer's end will do.  Every *)
(* change is one atomic step and is decided on the ticket as it is.        *)
(* TicketLifecycle and EmailIngest implement it.                           *)
(***************************************************************************)
CONSTANTS Agents, Bot

VARIABLES
  tickets,  \* the tickets there are, by id
  asked,    \* what agents have asked of each, in any form
  heard     \* what customers have written to each, in any form

promises == <<tickets, asked, heard>>

Owners == Agents \cup {Bot}
Paused == {"WAITING", "IN_FOLLOWUP"}

(* A timer runs exactly while the ticket is paused; only WAITING says what *)
(* its end does, a followup goes back to work.                             *)
Ticket ==
  {k \in [status: {"OPEN", "RESOLVED"} \cup Paused, owner: Owners,
          timer: {"null", "pending", "ripe"}, action: {"null", "AUTO_RESOLVE", "REOPEN"}] :
     /\ k.timer # "null" <=> k.status \in Paused
     /\ k.action # "null" <=> k.status = "WAITING"}

Idle(status, owner) == [status |-> status, owner |-> owner, timer |-> "null", action |-> "null"]

Same(k, n) == n = [k EXCEPT !.owner = n.owner]

Init == \A t \in DOMAIN tickets : tickets[t] \in Ticket

Only(t) == /\ DOMAIN tickets' = DOMAIN tickets
           /\ \A u \in DOMAIN tickets \ {t} : tickets'[u] = tickets[u]

(* A customer's first message: a ticket in the BOT's queue.                *)
Opens ==
  \E t \in DOMAIN tickets' \ DOMAIN tickets :
    /\ DOMAIN tickets' = DOMAIN tickets \cup {t}
    /\ \A u \in DOMAIN tickets : tickets'[u] = tickets[u]
    /\ tickets'[t] = Idle("OPEN", Bot)

(* A later one reopens a RESOLVED ticket and ends a WAITING, never a       *)
(* followup; it may pass the ticket on.                                    *)
CustomerWrites(t) ==
  /\ Only(t) /\ heard'[t] # heard[t]
  /\ tickets'[t] \in Ticket
  /\ \/ Same(tickets[t], tickets'[t])
     \/ tickets[t].status \in {"RESOLVED", "WAITING"} /\ tickets'[t].status = "OPEN"

(* An agent may hand the ticket on, and set a status with a timer of its   *)
(* own.                                                                    *)
AgentActs(t) ==
  /\ Only(t) /\ asked'[t] # asked[t]
  /\ tickets'[t] \in Ticket
  /\ Same(tickets[t], tickets'[t]) \/ tickets'[t].timer # "ripe"

TimerElapses(t) ==
  /\ Only(t) /\ tickets[t].timer = "pending"
  /\ tickets'[t] = [tickets[t] EXCEPT !.timer = "ripe"]

(* An agent with room gets a ticket of the queue, and no other.            *)
Pulled(t) ==
  /\ Only(t) /\ tickets[t].status = "OPEN" /\ tickets[t].owner = Bot
  /\ \E o \in Owners : tickets'[t] = [tickets[t] EXCEPT !.owner = o]

(* Pauses end when their timers have, as they were set to, with the owner  *)
(* or in the queue.                                                        *)
PauseEnds(t) ==
  LET k == tickets[t]
      after == IF k.action = "AUTO_RESOLVE" THEN "RESOLVED" ELSE "OPEN" IN
  k.timer = "ripe" /\ \E o \in {k.owner, Bot} : tickets'[t] = Idle(after, o)

PausesEnd ==
  /\ DOMAIN tickets' = DOMAIN tickets
  /\ \A t \in DOMAIN tickets : tickets'[t] = tickets[t] \/ PauseEnds(t)

(* What an agent who has an emergency worked on goes to the queue.         *)
Bounced ==
  /\ DOMAIN tickets' = DOMAIN tickets
  /\ \A t \in DOMAIN tickets : tickets'[t] \in {tickets[t], [tickets[t] EXCEPT !.owner = Bot]}

Next ==
  \/ PausesEnd \/ Bounced \/ Opens
  \/ \E t \in DOMAIN tickets : \/ CustomerWrites(t) \/ AgentActs(t)
                               \/ TimerElapses(t) \/ Pulled(t)

(* What is asked and heard comes and goes as it will; what happens to a    *)
(* ticket with neither is the doing of the clock, the queue and the bounce.*)
Spec == Init /\ [][Next]_promises
=============================================================================
