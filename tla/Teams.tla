------------------------------- MODULE Teams -------------------------------
(***************************************************************************)
(* Teams, their members and routing rules, and the tickets routed to them  *)
(* (TeamsService, RulesService, RoutingService). The database keeps the    *)
(* references: a member and a rule of a deleted team go or are cleared     *)
(* with it, a ticket's team may not be deleted (NO ACTION), so removal     *)
(* first moves the tickets to the default team. Nothing spans the steps.   *)
(***************************************************************************)
EXTENDS Naturals, FiniteSets, SequencesExt

CONSTANTS TeamIds, DefaultTeam,
          Agents, Bot,
          Rules, Facts,
          Matches,      \* the <<rule, facts>> the evaluator says match
          Orders        \* [request -> the ids a reorder names]

ASSUME TeamsAssumption ==
  DefaultTeam \in TeamIds /\ Bot \notin Agents /\ Matches \subseteq Rules \X Facts

NoTeam == "no team"

VARIABLES teams,    \* the teams there are
          priority, \* [TeamIds -> Nat]
          members,  \* [TeamIds -> SUBSET of agents and the bot]
          rules,    \* [Rules -> [team, active]], with team = NoTeam or "absent"
          tickets,  \* [Facts -> the ticket's team, NoTeam before it is saved]
          asks,     \* the phase of each request [op, team, on] that comes
          memo,     \* what it remembers
          raced     \* requests during which another one wrote

teamVars == <<teams, priority, members, rules, tickets, asks, memo, raced>>
stored == <<teams, priority, members, rules, tickets>>

TeamEnded == {"done", "refused", "failed"}
Pending(q) == asks[q] \notin TeamEnded \cup {"ready"}

Turns(q, phase, m) == asks' = [asks EXCEPT ![q] = phase] /\ memo' = [memo EXCEPT ![q] = m]
Races(q) == raced' = raced \cup {p \in DOMAIN asks : p # q /\ Pending(p)}
Looks(q, phase, m) == Turns(q, phase, m) /\ UNCHANGED <<stored, raced>>
AskEnds(q, phase) == Looks(q, phase, memo[q])

(***************************************************************************)
(* Routing: the first team in priority with an active rule that matches,   *)
(* the default team never by rule but when no rule does.                   *)
(***************************************************************************)
Routable(f) ==
  {t \in teams \ {DefaultTeam} :
     \E r \in Rules : rules[r].team = t /\ rules[r].active /\ <<r, f>> \in Matches}
First(ts) == {t \in ts : \A u \in ts : priority[t] <= priority[u]}  \* ties go by age: left open
RouteFacts(f) == IF Routable(f) = {} THEN {DefaultTeam} ELSE First(Routable(f))

Arrive(q) ==
  /\ q.op = "ticket" /\ asks[q] = "ready"
  /\ \E t \in RouteFacts(q.on) : Looks(q, "routed", t)

(* The insert, which the foreign key refuses once the team is gone.        *)
Insert(q) ==
  /\ q.op = "ticket" /\ asks[q] = "routed"
  /\ IF memo[q] \notin teams THEN AskEnds(q, "failed")
     ELSE /\ tickets' = [tickets EXCEPT ![q.on] = memo[q]]
          /\ Turns(q, "done", memo[q]) /\ Races(q)
          /\ UNCHANGED <<teams, priority, members, rules>>

(***************************************************************************)
(* Teams                                                                   *)
(***************************************************************************)
(* The row, then the BOT as its member in a write of its own.              *)
CreateTeam(q) ==
  /\ q.op = "create" /\ asks[q] = "ready"
  /\ IF q.team \in teams THEN AskEnds(q, "refused")  \* the name is taken
     ELSE /\ teams' = teams \cup {q.team}
          /\ Turns(q, "created", 0) /\ Races(q)
          /\ UNCHANGED <<priority, members, rules, tickets>>

AutoAddBot(q) ==
  /\ q.op = "create" /\ asks[q] = "created"
  /\ IF q.team \notin teams THEN AskEnds(q, "failed")
     ELSE /\ members' = [members EXCEPT ![q.team] = @ \cup {Bot}]
          /\ Turns(q, "done", 0) /\ Races(q)
          /\ UNCHANGED <<teams, priority, rules, tickets>>

(* The process stops before the BOT has joined.                            *)
CreateDies(q) == q.op = "create" /\ asks[q] = "created" /\ AskEnds(q, "failed")

RemoveFinds(q) ==
  /\ q.op = "remove" /\ asks[q] = "ready"
  /\ AskEnds(q, IF q.team \in teams \ {DefaultTeam} THEN "found" ELSE "refused")

MovedNone(t) == [f \in Facts |-> tickets[f]]

Moved(t) == [f \in Facts |-> IF tickets[f] = t THEN DefaultTeam ELSE tickets[f]]
RemoveMoves(q) ==
  /\ q.op = "remove" /\ asks[q] = "found"
  /\ tickets' = Moved(q.team) /\ Turns(q, "moved", 0) /\ Races(q)
  /\ UNCHANGED <<teams, priority, members, rules>>

ClearedNone(t) == rules
Cleared(t) == [r \in Rules |-> IF rules[r].team = t THEN [rules[r] EXCEPT !.team = NoTeam] ELSE rules[r]]

(* DELETE FROM team: NO ACTION for tickets, CASCADE for members, SET NULL  *)
(* for rules.                                                              *)
RemoveDeletes(q) ==
  /\ q.op = "remove" /\ asks[q] = "moved"
  /\ IF \E f \in Facts : tickets[f] = q.team THEN AskEnds(q, "failed")
     ELSE /\ teams' = teams \ {q.team}
          /\ members' = [members EXCEPT ![q.team] = {}]
          /\ rules' = Cleared(q.team)
          /\ Turns(q, "done", 0) /\ Races(q) /\ UNCHANGED <<priority, tickets>>

(* One UPDATE per id the request names that was a team when it began, in   *)
(* the order it names them: `left' are their places, `next' the number.    *)
ReorderReads(q) ==
  LET known == {k \in DOMAIN Orders[q] : Orders[q][k] \in teams} IN
  /\ q.op = "reorder" /\ asks[q] = "ready"
  /\ Looks(q, IF known = {} THEN "done" ELSE "sorting", [left |-> known, next |-> 0])

Numbered(team, n) == IF team \in teams THEN [priority EXCEPT ![team] = n] ELSE priority
ReorderWrites(q) ==
  /\ q.op = "reorder" /\ asks[q] = "sorting"
  /\ \E k \in memo[q].left :
       LET rest == memo[q].left \ {k} IN
       /\ \A j \in rest : k < j
       /\ priority' = Numbered(Orders[q][k], memo[q].next)
       /\ Turns(q, IF rest = {} THEN "done" ELSE "sorting", [left |-> rest, next |-> memo[q].next + 1])
       /\ Races(q) /\ UNCHANGED <<teams, members, rules, tickets>>

AddMemberFinds(q) ==
  /\ q.op = "join" /\ asks[q] = "ready"
  /\ AskEnds(q, IF q.team \in teams THEN "found" ELSE "refused")

AddMemberSaves(q) ==
  /\ q.op = "join" /\ asks[q] = "found"
  /\ IF q.team \notin teams THEN AskEnds(q, "failed")
     ELSE /\ members' = [members EXCEPT ![q.team] = @ \cup {q.on}]
          /\ Turns(q, "done", 0) /\ Races(q) /\ UNCHANGED <<teams, priority, rules, tickets>>

AnyoneMayLeave(a) == TRUE

(* assertNotBot, then the delete.                                          *)
MayLeave(a) == a # Bot
RemoveMember(q) ==
  /\ q.op = "leave" /\ asks[q] = "ready"
  /\ IF ~MayLeave(q.on) \/ q.on \notin members[q.team] THEN AskEnds(q, "refused")
     ELSE /\ members' = [members EXCEPT ![q.team] = @ \ {q.on}]
          /\ Turns(q, "done", 0) /\ Races(q) /\ UNCHANGED <<teams, priority, rules, tickets>>

(***************************************************************************)
(* Rules: the team is looked up, then the rule is written.                 *)
(***************************************************************************)
RuleFinds(q) ==
  /\ q.op = "rule" /\ asks[q] = "ready"
  /\ AskEnds(q, IF q.team = NoTeam \/ q.team \in teams THEN "found" ELSE "refused")

RuleWrites(q) ==
  /\ q.op = "rule" /\ asks[q] = "found"
  /\ IF q.team \notin teams \cup {NoTeam} THEN AskEnds(q, "failed")
     ELSE /\ rules' = [rules EXCEPT ![q.on] = [team |-> q.team, active |-> TRUE]]
          /\ Turns(q, "done", 0) /\ Races(q) /\ UNCHANGED <<teams, priority, members, tickets>>

RuleRemoved(q) ==
  /\ q.op = "unrule" /\ asks[q] = "ready"
  /\ IF rules[q.on].team = "absent" THEN AskEnds(q, "refused")
     ELSE /\ rules' = [rules EXCEPT ![q.on] = [team |-> "absent", active |-> FALSE]]
          /\ Turns(q, "done", 0) /\ Races(q) /\ UNCHANGED <<teams, priority, members, tickets>>

(* The requests that can come, and the teams and rules there can be.       *)
TeamRequest(q) ==
  /\ q.op \in {"create", "remove", "reorder", "join", "leave"} => q.team \in TeamIds
  /\ q.op = "join" => q.on \in Agents \cup {Bot}
  /\ q.op = "ticket" => q.on \in Facts
  /\ q.op \in {"rule", "unrule"} => q.on \in Rules
  /\ q.op = "reorder" => Orders[q] \in Seq(TeamIds)
TeamRows(there, ruled) ==
  /\ DefaultTeam \in there /\ there \subseteq TeamIds
  /\ \A r \in DOMAIN ruled : ruled[r] \in there \cup {NoTeam}

TeamsInit(there, ruled, comes) ==
  /\ teams = there /\ priority = [t \in TeamIds |-> 0]
  /\ members = [t \in TeamIds |-> IF t \in there THEN {Bot} ELSE {}]
  /\ rules = [r \in Rules |-> IF r \in DOMAIN ruled THEN [team |-> ruled[r], active |-> TRUE]
                                ELSE [team |-> "absent", active |-> FALSE]]
  /\ tickets = [f \in Facts |-> NoTeam]
  /\ asks = [q \in comes |-> "ready"]
  /\ memo = [q \in comes |-> 0] /\ raced = {}

TeamsNext ==
  \E q \in DOMAIN asks :
    \/ Arrive(q) \/ Insert(q) \/ CreateTeam(q) \/ AutoAddBot(q) \/ CreateDies(q)
    \/ RemoveFinds(q) \/ RemoveMoves(q) \/ RemoveDeletes(q) \/ ReorderReads(q) \/ ReorderWrites(q)
    \/ AddMemberFinds(q) \/ AddMemberSaves(q) \/ RemoveMember(q)
    \/ RuleFinds(q) \/ RuleWrites(q) \/ RuleRemoved(q)

(* Types, and the references the database keeps.                           *)
TeamsTypeOK ==
  /\ DefaultTeam \in teams /\ teams \subseteq TeamIds
  /\ priority \in [TeamIds -> Nat]
  /\ members \in [TeamIds -> SUBSET (Agents \cup {Bot})]
  /\ \A t \in TeamIds \ teams : members[t] = {}
  /\ \A r \in Rules : rules[r].team \in teams \cup {NoTeam, "absent"}
  /\ \A f \in Facts : tickets[f] \in teams \cup {NoTeam}

(* The tickets move first, so that the delete goes through (TeamDeleteFks):*)
(* a removal that the foreign key stops was overtaken by another request.  *)
RemovalStopsOnlyByRace ==
  \A q \in DOMAIN asks : q.op = "remove" /\ asks[q] = "failed" => q \in raced

(* "BOT is a required last-resort assignee on every team" (teams.service   *)
(* assertNotBot): a team is without it only while, or after, its creation  *)
(* was cut off between the row and the membership.                         *)
BotEverywhere ==
  \A t \in teams : Bot \in members[t] \/ \E q \in DOMAIN asks : /\ q.op = "create" /\ q.team = t
                                                                  /\ asks[q] \in {"created", "failed"}

(* A reorder that nothing overlapped leaves the teams it named, each once, *)
(* in the order it named them, until a team is made or another request is  *)
(* through (teams.service reorder).                                        *)
Settled == \A q \in DOMAIN asks : ~Pending(q)
ReorderKept ==
  \A q \in DOMAIN asks :
    /\ q.op = "reorder" /\ asks[q] = "done" /\ Settled /\ q \notin raced
    /\ IsInjective(Orders[q])
    /\ \A p \in DOMAIN asks \ {q} : /\ asks[p] # "done"
                                    /\ p.op = "create" => asks[p] # "failed"
    => \A i, j \in DOMAIN Orders[q] :
         i < j /\ {Orders[q][i], Orders[q][j]} \subseteq teams
           => priority[Orders[q][i]] < priority[Orders[q][j]]
=============================================================================
