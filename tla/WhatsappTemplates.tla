------------------------- MODULE WhatsappTemplates -------------------------
(***************************************************************************)
(* WhatsApp templates: an author submits one to Meta and keeps a row with  *)
(* its named variables; a sync copies Meta's list over the rows; an admin  *)
(* edits a row's bindings; and tickets, broadcasts, webhooks and the test  *)
(* fill the variables of an approved one and post it.                      *)
(*                                                                         *)
(* A body is the sequence of its placeholders, names or positions ("1");   *)
(* a variable that resolves has its own name as its value, "" is no value  *)
(* and "null" no fallback.                                                 *)
(***************************************************************************)
EXTENDS Naturals, Sequences, FiniteSets, SequencesExt, FiniteSetsExt, Functions, TemplateVariables, WhatsappSender

CONSTANTS Keys,      \* names of templates, each in one language of one channel
          Contexts,  \* what the resolver may find of a ticket or a phone
          Events,    \* what an automation event brings to a send
          TemplateCases  \* [registered, coming, breaks]

VARIABLES meta,   \* what Meta has registered under each name
          templateRows,   \* whatsapp_template
          templateCalls,  \* requests under way
          due,    \* requests still to come
          templateFaults, \* failures of Meta or the database still to come
          lost,   \* names registered by a create that kept no row
          sent    \* the last send

templateVars == <<meta, templateRows, templateCalls, due, templateFaults, lost, sent>>

NoTemplate == [status |-> "none"]
NoSend     == [path |-> "none"]
Positions  == <<"1", "2", "3">>

(* A variable has a name, and "null" is none; a body has no more of them   *)
(* than there are positions here.                                          *)
TemplateDtoOK(dto) ==
  /\ dto.body \in Seq(STRING) /\ ToSet(dto.body) \cap {"", "null"} = {}
  /\ Cardinality(ToSet(dto.body)) <= Len(Positions)
  /\ dto.buttons \in Seq([type: STRING, var: STRING])
  /\ \A i \in DOMAIN dto.buttons : dto.buttons[i].var # "null"
(* What is at Meta without us has no bid cap.                              *)
TemplateCaseOK(c) ==
  /\ c.breaks \in Nat
  /\ c.registered \in [Keys -> {NoTemplate} \cup [status: STRING, category: STRING, body: Seq(STRING), bid: {FALSE}]]
  /\ \A q \in c.coming :
       /\ q.kind \in {"create", "bind", "review"} => q.key \in Keys
       /\ q.kind = "create" => TemplateDtoOK(q.dto)
ASSUME TemplatesAssumption == \A c \in TemplateCases : TemplateCaseOK(c)
----------------------------------------------------------------------------
(* Variables, as Meta has them                                             *)
SegmentSafe == {"first_name", "last_name", "email"}

Positional(body) == [i \in DOMAIN body |-> Positions[At(References(body), body[i])]]
CountVariables(body) == Max({0} \cup {k \in DOMAIN Positions : Positions[k] \in ToSet(body)})
UrlNames(buttons) == [i \in DOMAIN buttons |-> IF buttons[i].type = "URL" THEN buttons[i].var ELSE ""]

(* renderTemplateBody                                                      *)
RenderPositional(body, values) ==
  [i \in DOMAIN body |-> IF At(Positions, body[i]) <= Len(values)
                           THEN values[At(Positions, body[i])] ELSE ""]

----------------------------------------------------------------------------
(* create: what is refused, and the row it makes                           *)

RefsUrlFirst(dto) == References(UrlNames(dto.buttons) \o dto.body)
Refs(dto) == References(dto.body \o UrlNames(dto.buttons))

Given(dto, n) == IF n \in DOMAIN dto.given THEN dto.given[n] ELSE [fallback |-> "null", path |-> "null"]
MayMiss(n) == n \in DOMAIN Nullable /\ "WHATSAPP" \in Nullable[n]
HeaderOk(dto) == dto.header \in {"NONE", "TEXT with its text", "IMAGE with its sample"}
ButtonsOk(dto) ==
  /\ \A i \in DOMAIN dto.buttons : dto.buttons[i].type # "URL without url"
  /\ Len(SelectSeq(dto.buttons, LAMBDA b : b.type = "PHONE_NUMBER")) <= 1

Acceptable(dto) ==
  /\ dto.category = "MARKETING" => ToSet(Refs(dto)) \subseteq SegmentSafe
  /\ \A n \in ToSet(Refs(dto)) : MayMiss(n) => ~Null(Given(dto, n).fallback)
  /\ HeaderOk(dto) /\ ButtonsOk(dto) /\ ~dto.price

(* A known variable that cannot be missing keeps no fallback.              *)
Entry(dto, n) ==
  [name |-> n, path |-> Given(dto, n).path,
   fallback |-> IF n \in DOMAIN Nullable /\ ~MayMiss(n) THEN "null" ELSE Given(dto, n).fallback]
Mapping(dto) == [i \in DOMAIN Refs(dto) |-> Entry(dto, Refs(dto)[i])]
NamesOf(row) == [i \in DOMAIN row.mapping |-> row.mapping[i].name]

Submitted(dto) ==
  [status |-> "PENDING", category |-> dto.category, body |-> Positional(dto.body),
   bid |-> dto.category = "MARKETING"]

(* mapMetaStatus and mapMetaCategory                                       *)
StatusOf(s) == IF s \in {"APPROVED", "REJECTED", "PAUSED", "DISABLED"} THEN s ELSE "PENDING"
Category(c) == IF c \in {"UTILITY", "MARKETING", "AUTHENTICATION"} THEN c ELSE "null"

(* The bid cap goes by Meta's category.                                    *)
AuthoredByAnswer(dto, answer) ==
  [status |-> StatusOf(answer.status), body |-> dto.body, mapping |-> Mapping(dto), count |-> Len(Refs(dto)),
   category |-> IF Null(Category(answer.category)) THEN dto.category ELSE answer.category,
   bid |-> answer.category = "MARKETING", image |-> dto.header = "IMAGE with its sample", buttons |-> dto.buttons]

Authored(dto, answer) ==
  [status |-> StatusOf(answer.status), body |-> dto.body, mapping |-> Mapping(dto), count |-> Len(Refs(dto)),
   category |-> IF Null(Category(answer.category)) THEN dto.category ELSE answer.category,
   bid |-> dto.category = "MARKETING", image |-> dto.header = "IMAGE with its sample", buttons |-> dto.buttons]

CallEnds(c) == templateCalls' = templateCalls \ {c}
GoesOnAs(c, d) == templateCalls' = (templateCalls \ {c}) \cup {d}
CallArrives(q, phase) == templateCalls' = templateCalls \cup {[req |-> q, phase |-> phase, seen |-> NoTemplate, todo |-> {}]}
Leaves(q) == due' = due \ {q}

CreateLooks(q) ==
  /\ q.kind = "create" /\ Leaves(q)
  /\ IF templateRows[q.key] = NoTemplate /\ Acceptable(q.dto) THEN CallArrives(q, "post") ELSE UNCHANGED templateCalls
  /\ UNCHANGED <<meta, templateRows, templateFaults, lost, sent>>

(* Meta refuses a name it has. It may give the template another category,  *)
(* and its answer may not arrive.                                          *)
CreatePosts(c) ==
  /\ c.req.kind = "create" /\ c.phase = "post"
  /\ LET k == c.req.key IN
     \/ meta[k] # NoTemplate /\ CallEnds(c) /\ UNCHANGED <<meta, templateFaults, lost>>
     \/ /\ meta[k] = NoTemplate /\ templateFaults > 0 /\ templateFaults' = templateFaults - 1 /\ CallEnds(c)
        /\ meta' = [meta EXCEPT ![k] = Submitted(c.req.dto)] /\ lost' = lost \cup {k}
     \/ /\ meta[k] = NoTemplate
        /\ \E category \in {c.req.dto.category, "MARKETING"} :
             /\ meta' = [meta EXCEPT ![k] = [Submitted(c.req.dto) EXCEPT !.category = category]]
             /\ GoesOnAs(c, [c EXCEPT !.phase = "save", !.seen = Authored(c.req.dto, meta'[k])])
        /\ UNCHANGED <<templateFaults, lost>>
  /\ UNCHANGED <<templateRows, due, sent>>

(* The row's name is unique: a sync that listed the template first wins.   *)
CreateSaves(c) ==
  /\ c.req.kind = "create" /\ c.phase = "save" /\ CallEnds(c)
  /\ IF templateRows[c.req.key] = NoTemplate
       THEN templateRows' = [templateRows EXCEPT ![c.req.key] = c.seen] /\ UNCHANGED lost
       ELSE lost' = lost \cup {c.req.key} /\ UNCHANGED templateRows
  /\ UNCHANGED <<meta, due, templateFaults, sent>>
----------------------------------------------------------------------------
(* sync: Meta's list, then row by row                                      *)

Imported(t) ==
  [status |-> StatusOf(t.status), body |-> t.body, mapping |-> <<>>, count |-> CountVariables(t.body),
   category |-> t.category, bid |-> FALSE, image |-> FALSE, buttons |-> <<>>]

SyncedOver(row, t) ==
  [row EXCEPT !.status = StatusOf(t.status), !.category = t.category, !.body = t.body, !.count = CountVariables(t.body)]

(* A row that was written here keeps its body.                             *)
Synced(row, t) ==
  IF row.mapping = <<>> THEN [row EXCEPT !.status = StatusOf(t.status), !.category = t.category, !.body = t.body,
                                         !.count = CountVariables(t.body)]
  ELSE [row EXCEPT !.status = StatusOf(t.status), !.category = t.category]

SyncLists(q) ==
  /\ q.kind = "sync" /\ Leaves(q)
  /\ \/ templateFaults > 0 /\ templateFaults' = templateFaults - 1 /\ UNCHANGED templateCalls
     \/ /\ UNCHANGED templateFaults
        /\ templateCalls' = templateCalls \cup {[req |-> q, phase |-> "list", seen |-> meta,
                                 todo |-> {k \in Keys : meta[k] # NoTemplate /\ ~Null(Category(meta[k].category))}]}
  /\ UNCHANGED <<meta, templateRows, lost, sent>>

SyncFinds(c) ==
  /\ c.req.kind = "sync" /\ c.phase = "list"
  /\ \/ c.todo = {} /\ CallEnds(c)
     \/ \E k \in c.todo :
          GoesOnAs(c, [req |-> c.req, phase |-> "save", seen |-> c.seen, todo |-> c.todo, at |-> k, row |-> templateRows[k]])
  /\ UNCHANGED <<meta, templateRows, due, templateFaults, lost, sent>>

SavesRetrying(c) ==
  /\ c.req.kind = "sync" /\ c.phase = "save"
  /\ IF c.row = NoTemplate /\ templateRows[c.at] # NoTemplate THEN UNCHANGED <<templateRows, templateCalls>>
     ELSE /\ templateRows' = [templateRows EXCEPT ![c.at] = IF c.row = NoTemplate THEN Imported(c.seen[c.at]) ELSE Synced(c.row, c.seen[c.at])]
          /\ GoesOnAs(c, [req |-> c.req, phase |-> "list", seen |-> c.seen, todo |-> c.todo \ {c.at}])
  /\ UNCHANGED <<meta, due, templateFaults, lost, sent>>

(* The row found is saved whole; a name that came meanwhile ends the sync. *)
SyncSaves(c) ==
  /\ c.req.kind = "sync" /\ c.phase = "save"
  /\ IF c.row = NoTemplate /\ templateRows[c.at] # NoTemplate THEN CallEnds(c) /\ UNCHANGED templateRows
     ELSE /\ templateRows' = [templateRows EXCEPT ![c.at] = IF c.row = NoTemplate THEN Imported(c.seen[c.at]) ELSE Synced(c.row, c.seen[c.at])]
          /\ GoesOnAs(c, [req |-> c.req, phase |-> "list", seen |-> c.seen, todo |-> c.todo \ {c.at}])
  /\ UNCHANGED <<meta, due, templateFaults, lost, sent>>
----------------------------------------------------------------------------
(* updateBindings: the row is read, the entry changed, the row saved whole *)

Kept(new, old) == IF new = "keep" THEN old ELSE new
BoundEntry(e, b) ==
  IF e.name # b.name THEN e
  ELSE [name |-> e.name, path |-> Kept(b.path, e.path), fallback |-> Kept(b.fallback, e.fallback)]
Bound(row, b) == [row EXCEPT !.mapping = [i \in DOMAIN row.mapping |-> BoundEntry(row.mapping[i], b)]]

BindReads(q) ==
  /\ q.kind = "bind" /\ Leaves(q)
  /\ IF templateRows[q.key] # NoTemplate /\ q.dto.name \in ToSet(NamesOf(templateRows[q.key]))
       THEN templateCalls' = templateCalls \cup {[req |-> q, phase |-> "save", seen |-> Bound(templateRows[q.key], q.dto), todo |-> {}]}
       ELSE UNCHANGED templateCalls
  /\ UNCHANGED <<meta, templateRows, templateFaults, lost, sent>>

BindSaves(c) ==
  /\ c.req.kind = "bind" /\ CallEnds(c)
  /\ templateRows' = [templateRows EXCEPT ![c.req.key] = c.seen]
  /\ UNCHANGED <<meta, due, templateFaults, lost, sent>>

(* Meta reviews, pauses or files a template anew.                          *)
MetaReviews(q) ==
  /\ q.kind = "review" /\ meta[q.key] # NoTemplate /\ Leaves(q)
  /\ meta' = [meta EXCEPT ![q.key].status = q.dto]
  /\ UNCHANGED <<templateRows, templateCalls, templateFaults, lost, sent>>
----------------------------------------------------------------------------
(* Sends: the values of the variables, in the order of the mapping         *)

Replies(row) == Len(SelectSeq(row.buttons, LAMBDA b : b.type = "QUICK_REPLY"))
Posts(k, path, values, rendered, urls, replies) ==
  sent' = [path |-> path, key |-> k, row |-> templateRows[k], values |-> values, rendered |-> rendered, urls |-> urls,
           request |-> TemplateRequest(templateRows[k].image, Len(values), Len(urls), replies, templateRows[k].bid, "none")]
OrFallbackNever(value, entry) == value

OrFallback(value, entry) == IF value # "" THEN value ELSE entry.fallback
Filled(row, found(_)) == [i \in DOMAIN row.mapping |-> OrFallback(found(row.mapping[i].name), row.mapping[i])]
OrBlank(values) == [i \in DOMAIN values |-> IF Null(values[i]) THEN "" ELSE values[i]]
Padded(row, typed) == [i \in 1 .. row.count |-> IF i <= Len(typed) THEN typed[i] ELSE ""]
Approved(k) == templateRows[k].status = "APPROVED"

(* TicketsService.sendTemplate: a variable with no value and no fallback   *)
(* refuses the send; a row without names takes what the agent typed.       *)
TicketSends(k, t, typed) ==
  /\ Approved(k)
  /\ LET values == IF templateRows[k].mapping = <<>> THEN Padded(templateRows[k], typed)
                   ELSE Filled(templateRows[k], LAMBDA n : ResolvedForTicket(n, t)) IN
     /\ "null" \notin ToSet(values)
     /\ Posts(k, "ticket", values, IF templateRows[k].mapping = <<>> THEN RenderPositional(templateRows[k].body, values)
                                   ELSE RenderNamed(templateRows[k].body, NamesOf(templateRows[k]), values), <<>>, 0)

(* testSend: what the admin typed, then the resolver, then the fallback.   *)
TestSends(k, t, typed) ==
  /\ Approved(k)
  /\ LET values == IF templateRows[k].mapping = <<>> THEN Padded(templateRows[k], typed)
                   ELSE Filled(templateRows[k], LAMBDA n : IF n \in ToSet(typed) THEN n ELSE ResolvedForPhone(n, t)) IN
     /\ "null" \notin ToSet(values) /\ (templateRows[k].mapping = <<>> => "" \notin ToSet(values))
     /\ Posts(k, "test", values, <<>>, <<>>, 0)

(* executeWebhookPath: the rule's bindings over the template's, else the   *)
(* event's variables; a URL button gets the value of its variable.         *)
BoundNames(row, e) == {n \in ToSet(NamesOf(row)) : \E i \in DOMAIN row.mapping :
                         row.mapping[i].name = n /\ (~Null(row.mapping[i].path) \/ n \in e.bound)}
WebhookValues(row, e) ==
  IF BoundNames(row, e) # {} \/ e.bound # {}
    THEN OrBlank(Filled(row, LAMBDA n : IF n \in BoundNames(row, e) \cap e.resolves THEN n ELSE ""))
    ELSE OrBlank(Filled(row, LAMBDA n : IF n \in e.variables THEN n ELSE ""))
UrlParams(row, values) ==
  LET named == SelectSeq([i \in DOMAIN row.buttons |-> i], LAMBDA i :
        row.buttons[i].type = "URL" /\ row.buttons[i].var \in ToSet(NamesOf(row))
        /\ values[At(NamesOf(row), row.buttons[i].var)] # "") IN
  [j \in DOMAIN named |-> [index |-> named[j], value |-> values[At(NamesOf(row), row.buttons[named[j]].var)]]]
WebhookSends(k, e) ==
  /\ Approved(k)
  /\ BoundNames(templateRows[k], e) # {} \/ e.bound # {} => e.raw /\ templateRows[k].mapping # <<>>
  /\ templateRows[k].mapping = <<>> => templateRows[k].count = 0
  /\ LET values == WebhookValues(templateRows[k], e) IN
     Posts(k, "webhook", values, <<>>, UrlParams(templateRows[k], values), Replies(templateRows[k]))

(* A broadcast: its check of the segment's fields, the values kept at its  *)
(* creation, null where the customer has none, and the worker's blanks.    *)
Told(n, known) == IF n \in SegmentSafe \cap known THEN n ELSE "null"
BroadcastSends(k, mapped, known) ==
  /\ Approved(k) /\ templateRows[k].category = "MARKETING"
  /\ ToSet(References(templateRows[k].body)) \ ToSet(Positions) \subseteq mapped
  /\ Posts(k, "broadcast", OrBlank([i \in DOMAIN templateRows[k].mapping |-> Told(templateRows[k].mapping[i].name, known)]), <<>>, <<>>, 0)

SendsTemplate(k) ==
  /\ templateRows[k] # NoTemplate
  /\ \/ \E t \in Contexts, typed \in {<<>>, <<"1">>} : TicketSends(k, t, typed)
     \/ \E t \in Contexts, typed \in {<<>>, <<"first_name">>} : TestSends(k, t, typed)
     \/ \E e \in Events : WebhookSends(k, e)
     \/ \E known \in {SegmentSafe, {"email"}} : BroadcastSends(k, SegmentSafe, known)
  /\ UNCHANGED <<meta, templateRows, templateCalls, due, templateFaults, lost>>
----------------------------------------------------------------------------
CallSteps(c) == CreatePosts(c) \/ CreateSaves(c) \/ SyncFinds(c) \/ SyncSaves(c) \/ BindSaves(c)
Comes(q) == CreateLooks(q) \/ SyncLists(q) \/ BindReads(q) \/ MetaReviews(q)

TemplatesNext ==
  \/ \E q \in due : Comes(q)
  \/ \E c \in templateCalls : CallSteps(c)
  \/ \E k \in Keys : SendsTemplate(k)

TemplatesInit(c) ==
  /\ meta = c.registered /\ due = c.coming /\ templateFaults = c.breaks
  /\ templateRows = [k \in Keys |-> NoTemplate] /\ templateCalls = {} /\ lost = {} /\ sent = NoSend
TemplatesSpec == (\E c \in TemplateCases : TemplatesInit(c)) /\ [][TemplatesNext]_templateVars
----------------------------------------------------------------------------
TemplatesTypeOK ==
  /\ \A k \in Keys : templateRows[k] # NoTemplate =>
       /\ templateRows[k].status \in {"PENDING", "APPROVED", "REJECTED", "PAUSED", "DISABLED"}
       /\ templateRows[k].count = IF templateRows[k].mapping = <<>> THEN CountVariables(templateRows[k].body) ELSE Len(templateRows[k].mapping)
       /\ meta[k] # NoTemplate
  /\ lost \subseteq Keys /\ templateFaults \in Nat

(* "Don't clobber a locally-authored template's named body + mapping"      *)
(* (sync): a row written here keeps its text and the names of its          *)
(* variables, whatever syncs and edits overlap.                            *)
AuthoredStays ==
  [][\A k \in Keys : templateRows[k] # NoTemplate /\ templateRows[k].mapping # <<>> =>
       templateRows'[k].body = templateRows[k].body /\ NamesOf(templateRows'[k]) = NamesOf(templateRows[k])]_templateVars

(* A template filed with a bid cap is sent through the endpoint that       *)
(* accepts one, and no other is, even when Meta files it under another     *)
(* category; unless its create lost the row (create, sendTemplate).        *)
Creating(k) == \E c \in templateCalls : c.req.kind = "create" /\ c.req.key = k
BidKept ==
  \A k \in Keys : templateRows[k] # NoTemplate /\ k \notin lost /\ ~Creating(k) => templateRows[k].bid = meta[k].bid

(* The message kept on the ticket reads as what the customer got: Meta     *)
(* fills its numbered body with the values in their order, the agent's     *)
(* copy is filled by name (sendTemplate of TicketsService).                *)
RenderedAsSent ==
  sent.path = "ticket" => sent.rendered = RenderPositional(meta[sent.key].body, sent.values)

(* A value that was found goes where the body has its name, on every path. *)
InItsPlace ==
  sent.path # "none" /\ sent.row.mapping # <<>> =>
    \A i \in DOMAIN sent.row.body :
      LET n == sent.row.body[i]
          v == sent.values[At(Positions, meta[sent.key].body[i])] IN
      v = n \/ \E j \in DOMAIN sent.row.mapping : sent.row.mapping[j].name = n /\ v \in {sent.row.mapping[j].fallback, ""}

(* The author's fallback stands in for a value that is missing (the        *)
(* mapping's "used at SEND time when the resolver returns null").          *)
FallbackUsedOn(paths) ==
  sent.path \in paths => \A i \in DOMAIN sent.row.mapping :
    sent.values[i] = "" => sent.row.mapping[i].fallback \in {"", "null"}
FallbackUsed == FallbackUsedOn({"ticket", "test", "webhook"})

(* Every request comes to its end.                                         *)
CallsEnd == []<>(templateCalls = {})

(* A template's row stays what Meta has, and every send of it fills each   *)
(* place with the value named there, or with its fallback                  *)
(* (WhatsappTemplatesService, sendTemplate and its callers).               *)
TemplatesSound == TemplatesTypeOK /\ BidKept /\ RenderedAsSent /\ InItsPlace /\ FallbackUsed
=============================================================================
