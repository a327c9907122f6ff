------------------------- MODULE WebhookReceivers -------------------------
(***************************************************************************)
(* The webhook receivers of Shopify, Clickpost, Return Prime and Lens, and *)
(* the rule engine behind them. A post is answered after its row is saved; *)
(* its sender posts again when the answer does not come, or comes late. A  *)
(* row's key is unique, and the event is raised by the post that saved it. *)
(***************************************************************************)
EXTENDS RuleEngine, Naturals, Sequences, FiniteSets, SequencesExt, FiniteSetsExt

(***************************************************************************)
(* What is read in a payload: its identity, its phone, and the automation  *)
(* event it stands for, if any. A payload is a record of the fields they   *)
(* look at; a text is a model value, "" when missing.                      *)
(*                                                                         *)
(* A post is [src, topic, header, ids, body]. Events carry no ticket.      *)
(***************************************************************************)
FirstOf(texts) == LET found == {i \in DOMAIN texts : texts[i] # ""} IN IF found = {} THEN "" ELSE texts[Min(found)]
None == {}
Event(name, phone, body) == {[event |-> name, phone |-> phone, image |-> body.image]}

(***************************************************************************)
(* Shopify                                                                 *)
(***************************************************************************)
(* The phone of an order: customer, shipping, billing, order.              *)
OrderPhone(body) == FirstOf(<<body.customer, body.shipping, body.billing, body.phone>>)
OrderFields(body) == IF ~body.named THEN None ELSE {[phone |-> OrderPhone(body), email |-> body.email]}

(* The phone of a shipment is its destination's.                           *)
FulfillmentFields(body) ==
  IF ~body.numbered THEN None ELSE {[phone |-> body.destination, email |-> body.email]}

ShopifyPhone(topic, body) ==
  CASE topic \in {"fulfillments/create", "fulfillments/update"} -> body.destination
    [] topic = "fulfillment_orders/split" -> ""
    [] OTHER -> IF body.named THEN OrderPhone(body) ELSE ""

Reached(fields) == {f \in fields : f.phone # "" \/ f.email}
Told(name, fields, body) == UNION {Event(name, f.phone, body) : f \in Reached(fields)}
Confirmed(body) == Told("shopify.order.confirmed", OrderFields(body), body)
Fulfilled(body) == Told("shopify.order.fulfilled", OrderFields(body), body)
Cancelled(body) == Told("shopify.order.cancelled", OrderFields(body), body)
OrderSplit(body) == IF body.numbered THEN Event("shopify.fulfillment_order.split", "", body) ELSE None
Shipped(name, body) == Told(name, FulfillmentFields(body), body)

ShopifyEvents(topic, body) ==
  CASE topic = "orders/create" -> Confirmed(body)
    [] topic = "orders/fulfilled" -> Fulfilled(body)
    [] topic = "orders/cancelled" -> Cancelled(body)
    [] topic = "fulfillment_orders/split" -> OrderSplit(body)
    [] topic = "fulfillments/create" -> Shipped("shopify.fulfillment.created", body)
    [] topic = "fulfillments/update" -> Shipped("shopify.fulfillment.updated", body)
    [] OTHER -> None

(* A shipment asks for its context when it can be named and its customer   *)
(* reached; it is partial when the order is split and more is to come.     *)
AsksContext(topic, body) == topic = "fulfillments/create" /\ body.named /\ Reached(FulfillmentFields(body)) # {}
Partial(body, context) ==
  IF context.split /\ ~context.final
    THEN Told("shopify.order.partially_fulfilled", FulfillmentFields(body), body) ELSE None

(* The image of the first line item, looked up by its sku.                 *)
LooksUpImage(topic, body) == topic = "orders/create" /\ body.sku
WithImage(body, answer) == IF answer = "found" THEN [body EXCEPT !.image = TRUE] ELSE body

(***************************************************************************)
(* Clickpost                                                               *)
(***************************************************************************)
(* <<status code, bucket, is a return>> of the statuses with a rule.       *)
ClickpostTable ==
  [k \in {<<8, 6>>, <<6, 4>>, <<25, 1>>, <<4, 2>>} \X BOOLEAN |->
     CASE k[1] = <<8, 6>>  -> IF k[2] THEN "clickpost.return_delivered" ELSE "clickpost.order_delivered"
       [] k[1] = <<6, 4>>  -> IF k[2] THEN "clickpost.out_for_delivery_warehouse"
                              ELSE "clickpost.out_for_delivery_customer"
       [] k[1] = <<25, 1>> -> IF k[2] THEN "clickpost.out_for_pickup_from_customer"
                              ELSE "clickpost.out_for_pickup_from_warehouse"
       [] OTHER -> IF k[2] THEN "clickpost.picked_up_from_customer"
                   ELSE "clickpost.picked_up_from_warehouse"]
ClickpostStatus(body) == IF body.status \in DOMAIN ClickpostTable THEN ClickpostTable[body.status] ELSE "raw"
Unmasked(phone) == IF phone = "masked" THEN "" ELSE phone

(* surma-ops answers with the contact: it replaces the masked one.         *)
AsksContact(body) == body.named
WithContact(body, answer) == IF answer = "found" THEN [body EXCEPT !.phone = body.customer, !.image = TRUE] ELSE body
ClickpostEvents(body) ==
  IF ClickpostStatus(body) = "raw" THEN None ELSE Event(ClickpostStatus(body), Unmasked(body.phone), body)
(***************************************************************************)
(* Return Prime and Lens                                                   *)
(***************************************************************************)
(* The topic: a header's, else the body's, else told from the lines and    *)
(* the status of an unwrapped request.                                     *)
Inferred(body) ==
  IF body.wrapped THEN ""
  ELSE IF \E i \in DOMAIN body.lines : body.lines[i].refunded THEN "request/refunded"
  ELSE IF body.state = "requested" THEN "request/created" ELSE body.state
ReturnTopic(header, body) == FirstOf(<<header, body.topic, Inferred(body), "unknown">>)
Refund(body) ==
  LET done == SelectSeq(body.lines, LAMBDA l : l.refunded) IN IF done = <<>> THEN "" ELSE done[1].amount
ReturnEvents(topic, body) ==
  CASE topic = "request/created" -> Event("return_prime.request.created", body.customer, body)
    [] topic = "request/refunded" -> Event("return_prime.request.refunded", body.customer, body)
    [] OTHER -> None

LensName(topic) == CASE topic = "ndr" -> "lens.ndr" [] topic = "npr" -> "lens.npr" [] OTHER -> "lens.rto"
LensEvents(topic, body) == Event(LensName(topic), body.phone, body)

(***************************************************************************)
(* Any source                                                              *)
(***************************************************************************)
TopicOf(post) == IF post.src = "return_prime" THEN ReturnTopic(post.topic, post.body) ELSE post.topic
EventsOf(post, body) ==
  CASE post.src = "shopify" -> ShopifyEvents(TopicOf(post), body)
    [] post.src = "clickpost" -> ClickpostEvents(body)
    [] post.src = "return_prime" -> ReturnEvents(TopicOf(post), body)
    [] OTHER -> LensEvents(TopicOf(post), body)

RowPhone(post, body) ==
  CASE post.src = "shopify" -> ShopifyPhone(TopicOf(post), body)
    [] post.src = "clickpost" -> Unmasked(body.phone)
    [] post.src = "return_prime" -> body.customer
    [] OTHER -> body.phone

(* deriveWebhookId: Shopify and Lens name the delivery; Clickpost is named *)
(* by its waybill, the code at the root and its time, Return Prime by its  *)
(* request and the time it changed. What lacks them is named by a hash of  *)
(* the payload.                                                            *)
ClickpostKey(ids, body) ==
  IF "" \notin {ids.waybill, ids.code, ids.at} THEN <<ids.waybill, ids.code, ids.at>> ELSE <<"hash", ids, body>>
ReturnKey(topic, ids, body) == IF ids.request # "" THEN <<topic, ids.request, ids.at>> ELSE <<topic, "hash", ids, body>>
KeyOf(post) ==
  CASE post.src = "clickpost" -> ClickpostKey(post.ids, post.body)
    [] post.src = "return_prime" -> ReturnKey(TopicOf(post), post.ids, post.body)
    [] OTHER -> <<post.src, post.ids.delivery>>
----------------------------------------------------------------------------
(* The receivers.                                                          *)
CONSTANT Tries  \* a post is sent at most so many times

VARIABLES try,    \* <<post, try>> -> [phase, body], of the posts [id, src, topic, ids, body, context] that come
          hookRows, \* saved rows [key, phone, body]
          raised, \* events raised [post, key, event, phone, image, try]
          answer, \* <<post, try>> -> the answer
          hookFaults, unraised  \* failures left; keys of rows whose process stopped before it raised

receiverVars == <<try, hookRows, raised, answer, hookFaults, unraised>>
allVars == <<engineVars, receiverVars>>

All == DOMAIN try
EngineRests == UNCHANGED engineVars
Moves(h, phase) == try' = [try EXCEPT ![h].phase = phase]

(* The sender posts, or posts again after a while.                         *)
Arrives(h) ==
  /\ try[h].phase = "none" /\ (h[2] > 1 => try[<<h[1], h[2] - 1>>].phase # "none")
  /\ Moves(h, "enriching")
  /\ EngineRests /\ UNCHANGED <<hookRows, raised, answer, hookFaults, unraised>>

(* The look-up at surma-ops ends within two seconds, one way or another;   *)
(* the post goes on without it.                                            *)
LooksUp(p) == (p.src = "shopify" /\ LooksUpImage(p.topic, p.body)) \/ (p.src = "clickpost" /\ AsksContact(p.body))
Enriched(p, result) == IF p.src = "shopify" THEN WithImage(p.body, result) ELSE WithContact(p.body, result)
Enriches(h) ==
  /\ try[h].phase = "enriching"
  /\ \E result \in IF LooksUp(h[1]) THEN {"found", "failed"} ELSE {"none"} :
       try' = [try EXCEPT ![h].phase = "saving", ![h].body = IF result = "none" THEN @ ELSE Enriched(h[1], result)]
  /\ EngineRests /\ UNCHANGED <<hookRows, raised, answer, hookFaults, unraised>>

EventKey(h) == KeyOf(h[1])
Known(key) == \E r \in hookRows : r.key = key
RowUnread(h) == [key |-> EventKey(h), phone |-> RowPhone(h[1], h[1].body), body |-> h[1].body]

HookRow(h) == [key |-> EventKey(h), phone |-> RowPhone(h[1], try[h].body), body |-> try[h].body]
Answers(h, word) == answer' = [answer EXCEPT ![h] = word]

(* INSERT: 23505 on the key is a post seen before.                         *)
Seen(h) == Known(EventKey(h))
HookSaves(h) ==
  /\ try[h].phase = "saving"
  /\ IF Seen(h) THEN Moves(h, "over") /\ Answers(h, "deduped") /\ UNCHANGED hookRows
     ELSE Moves(h, "saved") /\ hookRows' = hookRows \cup {HookRow(h)} /\ UNCHANGED answer
  /\ EngineRests /\ UNCHANGED <<raised, hookFaults, unraised>>

(* Any other error of the insert is thrown: 500, and nothing is raised.     *)
ErrorAnswer(h) == "failed"
SaveFails(h) ==
  /\ try[h].phase = "saving" /\ hookFaults > 0 /\ hookFaults' = hookFaults - 1
  /\ Moves(h, "over") /\ Answers(h, ErrorAnswer(h))
  /\ EngineRests /\ UNCHANGED <<hookRows, raised, unraised>>

Ticketless(h, e) ==
  [event |-> e.event, tag |-> "", phone |-> e.phone, hour |-> 10, image |-> e.image, key |-> EventKey(h), ticket |-> NoTicketId]
Raises(h, events) ==
  /\ raised' = raised \cup {[post |-> h[1].id, key |-> EventKey(h), event |-> e.event, phone |-> e.phone,
                             image |-> e.image, try |-> h[2]] : e \in events}
  /\ evals' = Emit(evals, SetToSeq({Ticketless(h, e) : e \in events}))
  /\ UNCHANGED <<rules, enabled, ticket, sends, optedOut>>

(* dispatchByTopic, then 202; a shipment's context is asked for meanwhile. *)
AfterDispatch(h) == IF h[1].src = "shopify" /\ AsksContext(h[1].topic, try[h].body) THEN "asking" ELSE "over"
Dispatches(h) ==
  /\ try[h].phase = "saved"
  /\ Raises(h, EventsOf(h[1], try[h].body))
  /\ Moves(h, AfterDispatch(h)) /\ Answers(h, "accepted")
  /\ UNCHANGED <<hookRows, hookFaults, unraised>>

(* maybeEmitPartiallyFulfilled: a 404, an error or a timeout ends it.      *)
Contexts(p) == {p.context, [split |-> FALSE, final |-> FALSE]}
HearsContext(h) ==
  /\ try[h].phase = "asking" /\ Moves(h, "over")
  /\ \E c \in Contexts(h[1]) : Raises(h, Partial(try[h].body, c))
  /\ UNCHANGED <<hookRows, answer, hookFaults, unraised>>

(* The process stops: posts under way are cut off, evaluations are gone.   *)
Crash ==
  /\ hookFaults > 0 /\ hookFaults' = hookFaults - 1
  /\ unraised' = unraised \cup {EventKey(h) : h \in {g \in All : try[g].phase = "saved"}}
  /\ try' = [h \in All |-> IF try[h].phase = "none" THEN try[h] ELSE [try[h] EXCEPT !.phase = "over"]]
  /\ evals' = <<>>
  /\ UNCHANGED <<rules, enabled, ticket, sends, optedOut, hookRows, raised, answer>>

HookStep(h) == Enriches(h) \/ HookSaves(h) \/ SaveFails(h) \/ Dispatches(h) \/ HearsContext(h)
=============================================================================
