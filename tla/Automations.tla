---------------------------- MODULE Automations ----------------------------
(***************************************************************************)
(* Webhooks, agents and customers raise events; rules answer them. The     *)
(* receivers and the engine run in one process, with what happens around   *)
(* them: posts, agents' patches, messages, rules turned on and off.        *)
(***************************************************************************)
EXTENDS WebhookReceivers

CONSTANT AutomationsCases  \* [rules, due, breaks]: the rules saved, what is to come, the failures at most

(* The rules were saved through the validator; posts have an identity.     *)
Action == [type: STRING, arg: STRING]
RuleSaved(r) ==
  /\ r.cases \in Seq(Range(r.cases)) /\ r.else \in Seq(Action)
  /\ \A j \in DOMAIN r.cases : r.cases[j].acts \in Seq(Action)
  /\ CasesValid(r.cases, r.else)
AutomationsCaseOK(c) ==
  /\ c.breaks \in Nat
  /\ c.rules \in Seq(Range(c.rules)) /\ \A k \in DOMAIN c.rules : RuleSaved(c.rules[k])
  /\ \A p, q \in c.due.posts : p.id = q.id => p = q
  /\ \A p \in c.due.patches : p.tags \subseteq STRING /\ IsFiniteSet(p.tags) /\ p.status \in {"OPEN", "RESOLVED"}
ASSUME AutomationsAssumption == Tries \in Nat /\ \A c \in AutomationsCases : AutomationsCaseOK(c)

VARIABLES due  \* what is still to come: [posts, patches, turns, messages]

automationVars == <<allVars, due>>

Rests == UNCHANGED receiverVars
Comes ==
  \/ \E p \in due.patches : due' = [due EXCEPT !.patches = @ \ {p}] /\ AgentPatches(p.tags, p.status) /\ Rests
  \/ \E n \in due.messages : due' = [due EXCEPT !.messages = @ \ {n}] /\ CustomerWrites(n) /\ Rests
  \/ \E k \in due.turns : due' = [due EXCEPT !.turns = @ \ {k}] /\ RuleTurned(k) /\ Rests
  \/ \E h \in All : due' = due /\ Arrives(h)
  \/ Crash /\ due' = due

UnderWay == {h \in All : try[h].phase \notin {"none", "over"}}
Works ==
  /\ due' = due
  /\ \/ \E i \in DOMAIN evals : EngineStep(i) /\ Rests
     \/ \E h \in UnderWay : HookStep(h)

AutomationsInit(rs, coming, breaks) ==
  /\ rules = rs /\ enabled = [k \in DOMAIN rs |-> TRUE]
  /\ ticket = [tags |-> {}, status |-> "OPEN", team |-> "t1", owner |-> "a1"]
  /\ evals = <<>> /\ sends = <<>> /\ optedOut = {}
  /\ try = [h \in coming.posts \X (1..Tries) |-> [phase |-> "none", body |-> h[1].body]]
  /\ hookRows = {} /\ raised = {} /\ answer = [h \in DOMAIN try |-> "none"] /\ hookFaults = breaks /\ unraised = {}
  /\ due = coming

AutomationsNext == Comes \/ Works

AutomationsStart == \E c \in AutomationsCases : AutomationsInit(c.rules, c.due, c.breaks)
AutomationsSpec == AutomationsStart /\ [][AutomationsNext]_automationVars

(* The event loop keeps turning, and every await ends: the oldest          *)
(* evaluation goes on, and so does some post under way.                    *)
AutomationsFairness ==
  /\ WF_automationVars(due' = due /\ evals # <<>> /\ EngineStep(1) /\ Rests)
  /\ WF_automationVars(due' = due /\ \E h \in UnderWay : HookStep(h))

AutomationsTypeOK ==
  /\ ticket.tags \subseteq STRING /\ ticket.status \in {"OPEN", "RESOLVED"}
  /\ \A i \in DOMAIN evals : evals[i].phase \in {"new", "eval", "written"}
  /\ \A r \in hookRows, s \in hookRows : r.key = s.key => r = s
  /\ \A h \in All : try[h].phase \in {"none", "enriching", "saving", "saved", "asking", "over"}

(***************************************************************************)
(* Posts and events                                                        *)
(***************************************************************************)
(* A post raises an event once, however often and however close together   *)
(* it is sent, and whatever the look-ups answered (the receivers' handle). *)
RaisedOnce == \A e, f \in raised : e.post = f.post /\ e.event = f.event => e = f

(* The row shows what the rules were given: the phone and the enrichments  *)
(* of the post that raised the event (handle stores, then dispatches).     *)
RaisedAsSaved ==
  \A e \in raised : \E r \in hookRows :
    /\ r.key = e.key /\ r.body.image = e.image
    /\ r.phone = e.phone \/ e.event = "shopify.fulfillment_order.split"

(* A row saved has had its event raised, if its payload stands for one,    *)
(* unless the process stopped in between: the posts that follow are taken  *)
(* for duplicates.                                                         *)
RaisedFor(h) == \A e \in EventsOf(h[1], try[h].body) : \E f \in raised : f.key = EventKey(h) /\ f.event = e.event
SavedIsRaised ==
  \A r \in hookRows : \E h \in All :
    HookRow(h) = r /\ (try[h].phase = "saved" \/ r.key \in unraised \/ RaisedFor(h))

(* A post answered with 202 is in the table.                               *)
AcceptedIsSaved == \A h \in All : answer[h] \in {"accepted", "deduped"} => Known(EventKey(h))

(* A post under way is answered, unless the process stops.                 *)
PostsAnswered == []<>(UnderWay = {})

(***************************************************************************)
(* Rules                                                                   *)
(***************************************************************************)
(* A post has each action of a rule carried out once, however often it     *)
(* comes, and never both a case's and else's (evaluateRule's anyMatched).  *)
SentOnce ==
  \A i, j \in DOMAIN sends :
    sends[i].key # <<>> /\ sends[i].key = sends[j].key /\ sends[i].at[1] = sends[j].at[1]
    => (i # j => sends[i].at # sends[j].at) /\ (IsElse(sends[i].at) <=> IsElse(sends[j].at))

(* add_tag writes the tags of the event's ticket and its own: a tag it     *)
(* takes off was put on after the event (TicketsService.update replaces).  *)
RulesKeepTags ==
  [][\A i \in DOMAIN evals :
       /\ Len(evals') = Len(evals) /\ evals'[i].phase = "written" /\ evals[i].phase = "eval"
       /\ Head(evals[i].acts).type = "add_tag"
       => ticket.tags \ ticket'.tags \subseteq evals[i].later]_automationVars

(* detectTagLoops warns of the rules that can keep each other going, and   *)
(* the handlers' early returns stop those that only add: rules it does not *)
(* warn of come to rest. Rules that reopen, and cases that name no tag,    *)
(* are outside of what it looks at.                                        *)
AllActs == UNION {{rules[k].else} \cup {rules[k].cases[j].acts : j \in DOMAIN rules[k].cases} : k \in DOMAIN rules}
Doing(type, arg) == \E acts \in AllActs : \E i \in DOMAIN acts : acts[i].type = type /\ arg \in {"", acts[i].arg}
Named == \A k \in OnTags : rules[k].else = <<>> /\ \A j \in DOMAIN rules[k].cases :
           rules[k].cases[j].match = "all" /\ \E i \in DOMAIN rules[k].cases[j].conds :
             rules[k].cases[j].conds[i].field = "event.tagName" /\ rules[k].cases[j].conds[i].op \in {"equals", "in"}
Restful == ~Doing("set_status", "OPEN") /\ (~Doing("remove_tag", "") \/ (~Warned /\ Named))
CascadesEnd == (<>[]Restful) => <>[]Quiet

(* A post is accepted when its row is saved, raises its event once and as  *)
(* saved, and has a rule's actions carried out once, however often it      *)
(* comes (the receivers' handle, the engine and the send handlers).        *)
EventsSound ==
  AutomationsTypeOK /\ RaisedOnce /\ RaisedAsSaved /\ SavedIsRaised /\ AcceptedIsSaved /\ SentOnce
=============================================================================
