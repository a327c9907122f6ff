-------------------------- MODULE MCTicketLifecycle --------------------------
(* Values of the constants for the TLC runs of TicketLifecycle.            *)
EXTENDS TicketLifecycle, TLC

CONSTANTS a1, a2, bot, tm1, tm2, h1, h2, cs

Pause(action)  == [status |-> "WAITING", assignee |-> "keep", team |-> "keep",
                   waiting_action |-> action]
To(s)          == [status |-> s, assignee |-> "keep", team |-> "keep",
                   waiting_action |-> "null"]
Give(a)        == [status |-> "keep", assignee |-> a, team |-> "keep",
                   waiting_action |-> "null"]

OneAgent      == {a1}
TwoAgents     == {a1, a2}
BothOwners    == {a1, bot}
OnlyBot       == {bot}
OneTeam       == {tm1}
AllPull       == Agents \X Teams
NoAgents      == {}
OneHook       == {h1}
TwoHooks      == {h1, h2}
NoHook        == {}

PairDtos      == {Pause("AUTO_RESOLVE"), To("IN_FOLLOWUP"), Give(a2)}
StaleDtos     == {Pause("AUTO_RESOLVE"), Pause("REOPEN"), To("IN_FOLLOWUP"), To("RESOLVED")}
ResolveDtos   == {To("RESOLVED")}
FollowupDtos  == {To("IN_FOLLOWUP")}
LiveDtos      == {Pause("AUTO_RESOLVE"), To("IN_FOLLOWUP")}

OneTicket    == 1..1
TwoTickets   == 1..2
FourTickets  == 1..4
=============================================================================
