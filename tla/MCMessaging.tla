----------------------------- MODULE MCMessaging -----------------------------
(* What goes out to customers and comes in from outside, in one run:       *)
(* broadcasts and uploads, webhooks with the rules, and the WhatsApp       *)
(* threads. They share no rows, so a behaviour is that of one of them,     *)
(* from its own cases, while nothing comes to the others: the run          *)
(* explores the union of their state spaces, not the product.              *)
EXTENDS Outreach, WhatsappIngest, Automations

(* Uploads and broadcasts: one file of four lines, with a bad phone and a  *)
(* duplicate, and two customers known before it or not.                   *)
CONSTANTS p1, p2, u1, r1, r2

AllPhones  == {p1, p2}
TheOptOuts == {<<"o1", p2>>}
OneUpload  == {u1}
Line(p, n) == [phone |-> p, name |-> n]
TheFile    == [u \in Uploads |-> <<Line(p1, "null"), Line(p1, "known"), Line("bad", "null"),
                                   Line(p2, "known")>>]
TwoStarts  == {<<"s1", u1>>, <<"s2", u1>>}
TwoRuns    == {r1, r2}
TheRequests == {<<"q1", "start">>, <<"q2", "start">>, <<"q3", "cancel">>}
ComesOutreach(k, o, s, q, f) == [known |-> k, optouts |-> o, starts |-> s, requests |-> q, faults |-> f]
SomeScenarios ==
  {ComesOutreach({p1}, TheOptOuts, TwoStarts, {}, 1),
   ComesOutreach(AllPhones, TheOptOuts, {<<"s1", u1>>}, {}, 0),
   ComesOutreach({}, {}, {<<"s1", u1>>}, {<<"q1", "start">>}, 0),
   ComesOutreach(AllPhones, TheOptOuts, {}, {<<"q1", "start">>, <<"q3", "cancel">>}, 1),
   ComesOutreach(AllPhones, {}, {}, {<<"q1", "start">>, <<"q2", "start">>}, 0),
   ComesOutreach({p1}, {}, {}, TheRequests, 1)}
----------------------------------------------------------------------------
(* Threads: two customers, the first of whom may already have a ticket.    *)
CONSTANTS a1, tm1, tm2, c1, c2, m1, m2, m3, h1, h2

OneAgent == {a1}
TwoTeams == {tm1, tm2}
Paused   == {tm2}
AllMembers == {<<a1, tm1>>}
OneCustomer == {c1}
AllMessages == {m1, m2, m3}
FromOne  == [m \in Messages |-> c1]
Bodies   == {<<m1, m2>>, <<m2>>, <<m3>>, <<>>}
TwoHandlers == {h1, h2}

Of(state, resume, action, stamp) ==
  [status |-> state, assignee |-> a1, team |-> tm1, resume_at |-> resume,
   waiting_action |-> action, resolved_at |-> stamp]
SomeRows == {Of("OPEN", "null", "null", "null"), Of("WAITING", "pending", "REOPEN", "null"),
             Of("RESOLVED", "null", "null", "recent")}

Keep == [status |-> "keep", assignee |-> "keep", team |-> "keep", waiting_action |-> "null"]
SomeDtos == {[Keep EXCEPT !.status = "RESOLVED"],
             [Keep EXCEPT !.status = "WAITING", !.waiting_action = "REOPEN"]}
----------------------------------------------------------------------------
(* Webhooks and rules: posts sent twice with their look-ups failing or    *)
(* not, and rules on one ticket.                                           *)
Body == [named |-> TRUE, numbered |-> TRUE, customer |-> "", shipping |-> "", billing |-> "", phone |-> "",
         destination |-> "", email |-> FALSE, sku |-> FALSE, image |-> FALSE, status |-> <<0>>, lines |-> <<>>,
         wrapped |-> FALSE, topic |-> "", state |-> ""]
Ids(d) == [delivery |-> d, waybill |-> "", code |-> "", at |-> "", request |-> ""]
Post(id, src, topic, ids, body) ==
  [id |-> id, src |-> src, topic |-> topic, ids |-> ids, body |-> body, context |-> [split |-> TRUE, final |-> FALSE]]

Order     == Post(1, "shopify", "orders/create", Ids("d1"), [Body EXCEPT !.shipping = "p1", !.sku = TRUE])
Shipment  == Post(2, "shopify", "fulfillments/create", Ids("d2"), [Body EXCEPT !.destination = "p1"])
MailOrder == Post(3, "shopify", "orders/cancelled", Ids("d3"), [Body EXCEPT !.email = TRUE])
Nobody    == Post(4, "shopify", "orders/fulfilled", Ids("d4"), Body)
Split     == Post(5, "shopify", "fulfillment_orders/split", Ids("d5"), Body)
Update    == Post(6, "shopify", "fulfillments/update", Ids("d6"), [Body EXCEPT !.destination = "p2"])
Delivered == Post(7, "clickpost", "", [Ids("") EXCEPT !.waybill = "w", !.code = "8", !.at = "1"],
                  [Body EXCEPT !.status = <<<<8, 6>>, FALSE>>, !.phone = "masked", !.customer = "p1"])
(* The same scan, with another bucket and direction: a duplicate.          *)
SameScan  == [Delivered EXCEPT !.id = 12, !.body.status = <<<<8, 6>>, TRUE>>]
OnTheWay  == Post(8, "clickpost", "", Ids(""), [Body EXCEPT !.status = <<<<6, 4>>, FALSE>>, !.phone = "masked", !.customer = "p1"])
Created   == Post(9, "return_prime", "", [Ids("") EXCEPT !.request = "r", !.at = "1"],
                  [Body EXCEPT !.customer = "p1", !.state = "requested"])
Refunded  == Post(10, "return_prime", "", [Ids("") EXCEPT !.request = "r", !.at = "2"],
                  [Body EXCEPT !.customer = "p1", !.lines = <<[refunded |-> TRUE, amount |-> "9"]>>])
Ndr       == Post(11, "lens", "ndr", Ids("l1"), [Body EXCEPT !.phone = "p1"])

Act(type, arg) == [type |-> type, arg |-> arg]
Case1(conds, acts) == [match |-> "all", conds |-> conds, acts |-> acts]
Rule(on, cases, else) == [on |-> on, scope |-> {"WHATSAPP"}, cases |-> cases, else |-> else]
Cond(field, op, value) == [field |-> field, op |-> op, value |-> value]
Tagged(t) == <<Cond("event.tagName", "equals", <<"text", t>>)>>
TaggedIn(ts) == <<Cond("event.tagName", "in", <<"list", ts>>)>>
OnTag(t, acts) == Rule("tag.applied", <<Case1(Tagged(t), acts)>>, <<>>)
OnTagIn(ts, acts) == Rule("tag.applied", <<Case1(TaggedIn(ts), acts)>>, <<>>)
Add(t) == Act("add_tag", t)
Drop(t) == Act("remove_tag", t)
Send(t) == Act("send_whatsapp_template", t)
HasPhone == <<Cond("event.customerPhone", "is_not_empty", <<"none">>)>>

AllTemplates == [t \in {"plain", "image", "pending"} |->
                   [approved |-> t # "pending", image |-> t = "image", fallback |-> FALSE]]

SendRules(name) == Rule(name, <<Case1(HasPhone, <<Send("plain"), Send("image")>>)>>, <<Send("plain"), Act("opt_out_customer", "")>>)
Orders == <<SendRules("shopify.order.confirmed"), Rule("shopify.order.confirmed", <<Case1(<<>>, <<Add("x"), Act("opt_out_customer", "")>>)>>, <<>>)>>
Shipments == <<SendRules("shopify.fulfillment.created"), SendRules("shopify.order.partially_fulfilled")>>
Parcels == <<SendRules("clickpost.order_delivered"), SendRules("clickpost.out_for_delivery_customer")>>
Returns == <<SendRules("return_prime.request.created"), SendRules("return_prime.request.refunded")>>
Chain == <<OnTag("a", <<Add("b")>>), OnTagIn({"b", "c"}, <<Add("a"), Add("c")>>),
           Rule("message.received", <<Case1(<<Cond("event.hourIst", "lt", <<"number", 12>>)>>,
                <<Add("a"), Act("set_team", "t2"), Send("pending"), Act("send_email_template", "m")>>)>>, <<>>)>>
Swap == <<OnTagIn({"a"}, <<Drop("a"), Add("b")>>), OnTagIn({"b"}, <<Drop("b"), Add("a")>>)>>
Relay == <<OnTag("a", <<Drop("a"), Add("b"), Act("set_status", "RESOLVED")>>),
           Rule("ticket.resolved", <<Case1(<<Cond("ticket.tags", "contains", <<"text", "b">>)>>, <<Drop("b"), Act("set_assignee", "a2")>>)>>,
                <<Add("c")>>),
           Rule("ticket.reopened", <<[Case1(Tagged("z"), <<Add("z")>>) EXCEPT !.match = "any"]>>,
                <<Act("call_webhook", "u")>>)>>

Patch(id, tags, to) == [id |-> id, tags |-> tags, status |-> to]
TagsA == Patch(1, {"a"}, "OPEN")
TagsD == Patch(2, {"d"}, "OPEN")
Closes == Patch(3, {"b"}, "RESOLVED")
Opens == Patch(4, {}, "OPEN")

Coming(rs, posts, breaks) ==
  [rules |-> rs, breaks |-> breaks, due |-> [posts |-> posts, patches |-> {}, turns |-> {}, messages |-> {}]]
OnTicket(rs, patches, turns, incoming) ==
  [rules |-> rs, breaks |-> 0, due |-> [posts |-> {}, patches |-> patches, turns |-> turns, messages |-> incoming]]
SomeAutomations ==
  {Coming(Orders, {Order}, 1), Coming(Orders, {MailOrder, Nobody}, 0), Coming(Shipments, {Shipment}, 1),
   Coming(Shipments, {Split, Update}, 0), Coming(Parcels, {Delivered}, 1), Coming(Parcels, {OnTheWay}, 1), Coming(Parcels, {Delivered, SameScan}, 0),
   Coming(Returns, {Created, Refunded}, 0), Coming(Returns, {Refunded}, 1), Coming(Returns, {Ndr}, 1),
   OnTicket(Chain, {TagsD}, {}, {"p1"}), OnTicket(Chain, {}, {2}, {"p1"}), OnTicket(Chain, {TagsA}, {}, {"p1"}),
   OnTicket(Swap, {TagsA}, {}, {}), OnTicket(Relay, {TagsA, Opens}, {}, {}), OnTicket(Relay, {Closes, Opens}, {}, {})}
----------------------------------------------------------------------------
VARIABLE desk  \* the part that moves

OutreachRests    == OutreachCase(ComesOutreach({}, {}, {}, {}, 0))
AutomationsRest  == AutomationsInit(<<>>, [posts |-> {}, patches |-> {}, turns |-> {}, messages |-> {}], 0)
ThreadsRest      == ThreadsInit /\ ~channel

Init ==
  \/ desk = "outreach" /\ OutreachInit /\ AutomationsRest /\ ThreadsRest
  \/ desk = "automations" /\ AutomationsStart /\ OutreachRests /\ ThreadsRest
  \/ desk = "threads" /\ ThreadsInit /\ OutreachRests /\ AutomationsRest

Next ==
  \/ desk = "outreach" /\ OutreachNext /\ UNCHANGED <<automationVars, threadVars, desk>>
  \/ desk = "automations" /\ AutomationsNext /\ UNCHANGED <<outreachVars, threadVars, desk>>
  \/ desk = "threads" /\ ThreadsNext /\ UNCHANGED <<outreachVars, automationVars, desk>>

Spec ==
  Init /\ [][Next]_<<outreachVars, automationVars, threadVars, desk>>
  /\ OutreachFairness /\ AutomationsFairness /\ ThreadsFairness

(* Whatever is under way ends: broadcast runs, posts, cascades of rules    *)
(* that are not warned of, webhook requests; and the queue moves.          *)
MessagingSettles == RunsEnd /\ PostsAnswered /\ CascadesEnd /\ RequestsEnd /\ QueueMoves
=============================================================================
