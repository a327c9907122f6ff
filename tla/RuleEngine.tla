----------------------------- MODULE RuleEngine -----------------------------
(***************************************************************************)
(* The automation engine: an event starts an evaluation of its own, which  *)
(* reads the enabled rules of the event, goes through their cases in order *)
(* and carries out the actions of those that match, one after the other.   *)
(* Actions work from the ticket as the event showed it; their writes raise *)
(* events in turn. One ticket; an event without one carries no channel.    *)
(***************************************************************************)
EXTENDS Naturals, Sequences, FiniteSets, SequencesExt, FiniteSetsExt, Relation

CONSTANTS Templates   \* [name -> [approved, image, fallback]]

VARIABLES rules,   \* the saved rules, in the order find returns them
          enabled, \* [rule -> BOOLEAN]
          ticket,  \* [tags, status, team, owner]
          evals,    \* evaluations under way, a sequence
          sends,   \* outcomes of actions that leave the program
          optedOut \* phones

engineVars == <<rules, enabled, ticket, evals, sends, optedOut>>

NoTicketId == [tags |-> {}, status |-> "OPEN", team |-> "", owner |-> "", channel |-> "none"]

(***************************************************************************)
(* The events                                                              *)
(***************************************************************************)
TicketNames == {"ticket.created", "message.received", "tag.applied", "ticket.resolved", "ticket.reopened", "bot.handoff"}
OrderNames == {"shopify.order.confirmed", "shopify.order.fulfilled", "shopify.order.cancelled",
               "shopify.fulfillment_order.split"}
ShipmentNames == {"shopify.fulfillment.created", "shopify.fulfillment.updated", "shopify.order.partially_fulfilled"}
ReturnNames == {"return_prime.request.created", "return_prime.request.refunded"}
LensNames == {"lens.ndr", "lens.npr", "lens.rto"}
DeliveredNames == {"clickpost.order_delivered", "clickpost.return_delivered"}
ClickpostNames ==
  DeliveredNames \cup {"clickpost.out_for_delivery_customer", "clickpost.out_for_delivery_warehouse",
                       "clickpost.out_for_pickup_from_warehouse", "clickpost.out_for_pickup_from_customer",
                       "clickpost.picked_up_from_warehouse", "clickpost.picked_up_from_customer"}
EventNames ==
  TicketNames \cup {"webhook.custom", "whatsapp.button_reply"} \cup OrderNames \cup ShipmentNames \cup ReturnNames
  \cup LensNames \cup ClickpostNames

HasTicket(e) == e.event \in TicketNames \cup {"whatsapp.button_reply"}

(* What rules look at in the payload, by its event.                        *)
Carries(name) ==
  CASE name = "tag.applied" -> {"tagName"}
    [] name \in TicketNames \ {"tag.applied"} -> {"hourIst"}
    [] OTHER -> {"customerPhone"}

(***************************************************************************)
(* Predicates                                                              *)
(***************************************************************************)
(* Values: <<"text", v>>, <<"number", n>>, <<"list", set>>, <<"none">>, and *)
(* <<"range", n, n>>. A text contains itself alone; <<"digits", n>> is a    *)
(* text that reads as n.                                                    *)
Field(path, e) ==
  CASE path = "event.tagName" /\ "tagName" \in Carries(e.event) -> <<"text", e.tag>>
    [] path = "event.customerPhone" /\ "customerPhone" \in Carries(e.event) -> <<"text", e.phone>>
    [] path = "event.hourIst" /\ "hourIst" \in Carries(e.event) -> <<"number", e.hour>>
    [] path = "ticket.tags" -> <<"list", e.ticket.tags>>
    [] path = "ticket.status" -> <<"text", e.ticket.status>>
    [] OTHER -> <<"none">>

Kind(v) == v[1]
Both(v, w, kind) == Kind(v) = kind /\ Kind(w) = kind
Blank(v) == Kind(v) = "none" \/ (Kind(v) = "text" /\ v[2] = "") \/ (Kind(v) = "list" /\ v[2] = {})
Coerced(v, w) == IF Kind(v) = "number" /\ Kind(w) = "digits" THEN <<"number", w[2]>> ELSE w
Same(v, w) == Kind(v) = Kind(w) /\ v = w
In(v, w) == Kind(v) = "text" /\ v[2] \in w[2]

(* No operator throws; one that does not suit the value's kind is false,   *)
(* the negative ones included.                                             *)
Holds(p, e) ==
  LET v == Field(p.field, e)
      w == p.value IN
  CASE p.op = "equals" -> Kind(v) # "list" /\ Same(v, Coerced(v, w))
    [] p.op = "not_equals" -> Kind(v) = "list" \/ ~Same(v, Coerced(v, w))
    [] p.op \in {"contains", "starts_with", "ends_with"} ->
         \/ Both(v, w, "text") /\ Same(v, w)
         \/ p.op = "contains" /\ Kind(v) = "list" /\ In(w, v)
    [] p.op = "not_contains" -> (Both(v, w, "text") /\ ~Same(v, w)) \/ (Kind(v) = "list" /\ ~In(w, v))
    [] p.op = "in" -> Kind(w) = "list" /\ In(v, w)
    [] p.op = "not_in" -> Kind(w) = "list" /\ ~In(v, w)
    [] p.op \in {"gt", "gte"} -> Both(v, w, "number") /\ (v[2] > w[2] \/ (p.op = "gte" /\ v[2] = w[2]))
    [] p.op \in {"lt", "lte"} -> Both(v, w, "number") /\ (v[2] < w[2] \/ (p.op = "lte" /\ v[2] = w[2]))
    [] p.op = "between" -> Kind(v) = "number" /\ Kind(w) = "range" /\ v[2] \in w[2] .. w[3]
    [] p.op = "is_empty" -> Blank(v)
    [] OTHER -> ~Blank(v)

AllHold(ps, e) == \A i \in DOMAIN ps : Holds(ps[i], e)
AnyHolds(ps, e) == \E i \in DOMAIN ps : Holds(ps[i], e)
Matches(c, e) == IF c.match = "any" THEN AnyHolds(c.conds, e) ELSE AllHold(c.conds, e)

(***************************************************************************)
(* What AutomationsService accepts, and the loops it warns of              *)
(***************************************************************************)
Operators == {"equals", "not_equals", "contains", "not_contains", "starts_with", "ends_with", "in", "not_in",
              "gt", "gte", "lt", "lte", "between", "is_empty", "is_not_empty"}
Paths == {"event.tagName", "event.customerPhone", "event.hourIst", "ticket.tags", "ticket.status", "event.other", "ticket.other"}
PredicateValid(p) ==
  /\ p.field \in Paths
  /\ p.op \in Operators
  /\ (p.op \in {"is_empty", "is_not_empty"}) <=> (p.value = <<"none">>)
  /\ p.op \in {"in", "not_in"} => Kind(p.value) = "list"
  /\ p.op = "between" => Kind(p.value) = "range"
ActionValid(a) ==
  CASE a.type \in {"add_tag", "remove_tag"} -> a.arg # ""
    [] a.type = "set_status" -> a.arg \in {"OPEN", "RESOLVED"}
    [] a.type = "set_team" -> a.arg # ""
    [] a.type \in {"send_whatsapp_template", "send_email_template", "call_webhook"} -> a.arg # ""
    [] OTHER -> a.type \in {"set_assignee", "opt_out_customer"}
CasesValid(cases, else) ==
  /\ \A i \in DOMAIN cases :
       /\ \A j \in DOMAIN cases[i].conds : PredicateValid(cases[i].conds[j])
       /\ cases[i].acts # <<>>
       /\ \A j \in DOMAIN cases[i].acts : ActionValid(cases[i].acts[j])
  /\ \A i \in DOMAIN else : ActionValid(else[i])

(* detectTagLoops: from the tags a case names to the tags it adds.         *)
TriggersEquals(conds) ==
  {conds[i].value[2] : i \in {j \in DOMAIN conds :
     conds[j].field = "event.tagName" /\ conds[j].op = "equals" /\ Kind(conds[j].value) = "text"}}

Triggers(conds) ==
  UNION {IF conds[i].op = "equals" /\ Kind(conds[i].value) = "text" THEN {conds[i].value[2]}
         ELSE IF conds[i].op = "in" /\ Kind(conds[i].value) = "list" THEN conds[i].value[2] ELSE {}
         : i \in {j \in DOMAIN conds : conds[j].field = "event.tagName"}}
Adds(acts) == {acts[i].arg : i \in {j \in DOMAIN acts : acts[j].type = "add_tag"}}
OnTags == {i \in DOMAIN rules : enabled[i] /\ rules[i].on = "tag.applied"}
TagEdges ==
  UNION {UNION {Triggers(rules[i].cases[j].conds) \X Adds(rules[i].cases[j].acts) : j \in DOMAIN rules[i].cases}
         : i \in OnTags}
(* findCycles: a tag is on a cycle when it can be reached from itself.     *)
Nodes == {e[1] : e \in TagEdges} \cup {e[2] : e \in TagEdges}
Warned == LET leads == TransitiveClosure([e \in Nodes \X Nodes |-> e \in TagEdges], Nodes) IN
          \E x \in Nodes : leads[x, x]

(***************************************************************************)
(* Evaluation                                                              *)
(***************************************************************************)
Run(e) == [e |-> e, phase |-> "new", todo |-> {}, at |-> <<0, 0>>, acts |-> <<>>,
           added |-> {}, moved |-> "none", later |-> {}]
Emit(rs, es) == rs \o [i \in DOMAIN es |-> Run(es[i])]

(* What a rule's evaluation goes through: its cases in order, then else. A *)
(* place is <<rule, case>>; else comes after the last case.                *)
Places(k) == {k} \X (1 .. Len(rules[k].cases) + 1)
IsElse(p) == p[2] > Len(rules[p[1]].cases)
ActsAt(p) == IF IsElse(p) THEN rules[p[1]].else ELSE rules[p[1]].cases[p[2]].acts
Before(p, q) == p[1] < q[1] \/ (p[1] = q[1] /\ p[2] < q[2])

FiresBoth(r, p) == IF IsElse(p) THEN rules[p[1]].else # <<>> ELSE Matches(rules[p[1]].cases[p[2]], r.e)

(* Every case that matches acts, not the first alone; else when none did.  *)
Fires(r, p) ==
  IF IsElse(p) THEN rules[p[1]].else # <<>> /\ r.at[1] # p[1] ELSE Matches(rules[p[1]].cases[p[2]], r.e)
Firing(r) == {p \in r.todo : Fires(r, p)}
TakesUp(r, p) == [r EXCEPT !.todo = {q \in @ : Before(p, q)}, !.acts = ActsAt(p), !.at = p]

(* The cases are matched without a pause up to the next that acts.         *)
GoesOn(i, r, events) ==
  \E s \in {r} : \E firing \in {Firing(s)} :
    \/ s.acts # <<>> /\ evals' = Emit([evals EXCEPT ![i] = s], events)
    \/ s.acts = <<>> /\ firing = {} /\ evals' = Emit(RemoveAt(evals, i), events)
    \/ s.acts = <<>> /\ \E p \in firing :
         (\A q \in firing \ {p} : Before(p, q)) /\ evals' = Emit([evals EXCEPT ![i] = TakesUp(s, p)], events)

(* rules.find: the enabled rules of the event, in the channel's scope.     *)
Applies(k, e) ==
  enabled[k] /\ rules[k].on = e.event /\ (e.ticket.channel # "none" => e.ticket.channel \in rules[k].scope)
Looks(i) ==
  /\ evals[i].phase = "new"
  /\ LET own == {k \in DOMAIN rules : Applies(k, evals[i].e)} IN
     GoesOn(i, [evals[i] EXCEPT !.phase = "eval", !.todo = UNION {Places(k) : k \in own}], <<>>)
  /\ UNCHANGED <<rules, enabled, ticket, sends, optedOut>>

(***************************************************************************)
(* Actions on the ticket                                                   *)
(***************************************************************************)
TicketActs == {"add_tag", "remove_tag", "set_status", "set_team", "set_assignee"}
(* The handlers: the rows they may write, none when there is nothing to    *)
(* do. They look at the event's ticket, and write to the one there is now. *)
AddTag(a, seen, row) == IF a.arg \in seen.tags THEN {} ELSE {[row EXCEPT !.tags = seen.tags \cup {a.arg}]}
RemoveTag(a, seen, row) == IF a.arg \notin seen.tags THEN {} ELSE {[row EXCEPT !.tags = seen.tags \ {a.arg}]}
SetStatus(a, seen, row) == IF a.arg = seen.status THEN {} ELSE {[row EXCEPT !.status = a.arg]}
SetTeam(a, seen, row) == IF a.arg = seen.team THEN {} ELSE {[row EXCEPT !.team = a.arg]}
SetAssignee(a, seen, row) == IF a.arg = seen.owner THEN {} ELSE {[row EXCEPT !.owner = a.arg]}
Writes(a, seen, row) ==
  CASE a.type = "add_tag"    -> AddTag(a, seen, row)
    [] a.type = "remove_tag" -> RemoveTag(a, seen, row)
    [] a.type = "set_status" -> SetStatus(a, seen, row)
    [] a.type = "set_team"   -> SetTeam(a, seen, row)
    [] OTHER                 -> SetAssignee(a, seen, row)

RefreshedNever(a, seen) == seen

(* add_tag and remove_tag bring the event's tags up to date, so that the   *)
(* next action builds on them; status, team and owner stay as they were.   *)
Refreshed(a, seen) ==
  IF a.type \in {"add_tag", "remove_tag"} /\ Writes(a, seen, seen) # {}
    THEN CHOOSE row \in Writes(a, seen, seen) : TRUE ELSE seen

MovedFrom(row, new) == IF new.status = row.status THEN "none" ELSE row.status
Others(i, rs, tags) == [j \in DOMAIN rs |-> IF j = i THEN rs[j] ELSE [rs[j] EXCEPT !.later = @ \cup tags]]

(* tickets.update, as in TicketConsole; without a ticket it finds none. It *)
(* is not called when the BOT, the team or the new owner is gone, and may  *)
(* refuse: the handler logs and goes on, with the tags as they were.       *)
Written(a, e) == IF HasTicket(e) THEN Writes(a, e.ticket, ticket) ELSE {}
Acts(i) ==
  /\ evals[i].phase = "eval" /\ evals[i].acts # <<>> /\ Head(evals[i].acts).type \in TicketActs
  /\ LET a == Head(evals[i].acts)
         e == evals[i].e
         written == Written(a, e) IN
     \/ GoesOn(i, [evals[i] EXCEPT !.acts = Tail(@)], <<>>) /\ UNCHANGED ticket
     \/ \E new \in written :
          /\ ticket' = new
          /\ evals' = Others(i, [evals EXCEPT ![i].phase = "written", ![i].added = new.tags \ ticket.tags,
                                           ![i].moved = MovedFrom(ticket, new)],
                           new.tags \ ticket.tags)
  /\ UNCHANGED <<rules, enabled, sends, optedOut>>

TicketEvent(row, name, tag) ==
  [event |-> name, tag |-> tag, phone |-> "", hour |-> 10, image |-> FALSE, key |-> <<>>,
   ticket |-> [tags |-> row.tags, status |-> row.status, team |-> row.team, owner |-> row.owner,
               channel |-> "WHATSAPP"]]
Applied(row, tags) == LET ts == SetToSeq(tags) IN [k \in DOMAIN ts |-> TicketEvent(row, "tag.applied", ts[k])]
Moved(row, from) ==
  IF from = "none" THEN <<>>
  ELSE IF row.status = "RESOLVED" THEN <<TicketEvent(row, "ticket.resolved", "")>>
  ELSE IF from = "RESOLVED" THEN <<TicketEvent(row, "ticket.reopened", "")>> ELSE <<>>

(* After the commit the ticket is read again and the events are raised     *)
(* with it.                                                                *)
Speaks(i) ==
  /\ evals[i].phase = "written"
  /\ LET r == evals[i]
         next == [r EXCEPT !.phase = "eval", !.acts = Tail(@), !.added = {}, !.moved = "none",
                           !.e.ticket = Refreshed(Head(r.acts), @)] IN
     GoesOn(i, next, Applied(ticket, r.added) \o Moved(ticket, r.moved))
  /\ UNCHANGED <<rules, enabled, ticket, sends, optedOut>>

(***************************************************************************)
(* Actions that leave the program                                          *)
(***************************************************************************)
Direct ==
  ({"webhook.custom"} \cup OrderNames \cup ShipmentNames \cup LensNames \cup ReturnNames \cup DeliveredNames)
  \ {"shopify.order.partially_fulfilled"}
DirectRouted == Direct \cup ClickpostNames

(* executeWebhookPath: what an event without a ticket needs to be sent.    *)
HeaderFound(t, e) == t.image => e.image \/ t.fallback
DirectSent(a, e) ==
  LET t == Templates[a.arg] IN e.event \in Direct /\ t.approved /\ HeaderFound(t, e) /\ e.phone # ""

TicketSent(a, e) == HasTicket(e) /\ Templates[a.arg].approved
Sent(a, e) == IF e.event \in DirectRouted THEN DirectSent(a, e) ELSE TicketSent(a, e)

(* Which events give call_webhook its payload.                             *)
Carried == (Direct \ DeliveredNames) \cup {"whatsapp.button_reply"}

OptOutPhone(e) ==
  IF e.event \in {"message.received", "ticket.created", "webhook.custom", "shopify.order.confirmed",
                  "shopify.order.fulfilled", "shopify.fulfillment.created", "shopify.fulfillment.updated"}
    THEN e.phone ELSE ""

Outcome(a, e) ==
  CASE a.type = "send_whatsapp_template" -> IF Sent(a, e) THEN "sent" ELSE "none"
    [] a.type = "send_email_template" -> IF HasTicket(e) THEN "mailed" ELSE "none"
    [] a.type = "call_webhook" -> IF e.event \in Carried THEN "called" ELSE "called bare"
    [] OTHER -> "none"

Done(r, outcome) ==
  [key |-> r.e.key, at |-> <<r.at[1], r.at[2], Len(r.acts)>>, act |-> Head(r.acts), outcome |-> outcome]
Calls(i) ==
  /\ evals[i].phase = "eval" /\ evals[i].acts # <<>> /\ Head(evals[i].acts).type \notin TicketActs
  /\ LET a == Head(evals[i].acts)
         e == evals[i].e IN
     /\ \E o \in {Outcome(a, e), "none"} :  \* Meta, the mail server or the other end may refuse
          sends' = IF o = "none" THEN sends ELSE Append(sends, Done(evals[i], o))
     /\ optedOut' = IF a.type = "opt_out_customer" THEN optedOut \cup ({OptOutPhone(e)} \ {""}) ELSE optedOut
  /\ GoesOn(i, [evals[i] EXCEPT !.acts = Tail(@)], <<>>)
  /\ UNCHANGED <<rules, enabled, ticket>>

(***************************************************************************)
(* The others                                                              *)
(***************************************************************************)
(* An agent's patch of the tags and the status, in one step.               *)
AgentPatches(tags, status) ==
  LET new == [ticket EXCEPT !.tags = tags, !.status = status]
      given == tags \ ticket.tags IN
  /\ new # ticket /\ ticket' = new
  /\ evals' = Emit(Others(0, evals, given), Applied(new, given) \o Moved(new, MovedFrom(ticket, new)))
  /\ UNCHANGED <<rules, enabled, sends, optedOut>>

(* A customer writes: the ingest raises message.received.                  *)
CustomerWrites(phone) ==
  /\ evals' = Emit(evals, <<[TicketEvent(ticket, "message.received", "") EXCEPT !.phone = phone]>>)
  /\ UNCHANGED <<rules, enabled, ticket, sends, optedOut>>

(* AutomationsService.update: a rule is turned on or off while others run. *)
RuleTurned(k) ==
  /\ rules[k].on \in EventNames /\ CasesValid(rules[k].cases, rules[k].else)
  /\ enabled' = [enabled EXCEPT ![k] = ~@]
  /\ UNCHANGED <<rules, ticket, evals, sends, optedOut>>

EngineStep(i) == Looks(i) \/ Acts(i) \/ Speaks(i) \/ Calls(i)
Quiet == evals = <<>>
=============================================================================
