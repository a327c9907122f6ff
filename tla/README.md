# Verification of the support-desk backend

A support desk: customers write by e-mail or WhatsApp, each conversation is a
*ticket*, tickets belong to teams and are handed to agents, agents pause and
resolve them, and background jobs, rules and a bot move them meanwhile.
Beside the tickets the program sends broadcasts to customers read from CSV
files, takes webhooks of the shop and its couriers, and keeps the records of
its own console. It is one NestJS process (TypeScript) on PostgreSQL; most of
what can go wrong comes from timers, event callbacks and HTTP requests that
change the same rows, and from what is only held in memory between two
`await`s.

This directory holds TLA+ models of it, the TLC runs that check them and TLAPS
proofs about them. Paths below are relative to `src/src`; `PROJECT.json` says,
for each definition, which lines it stands for.

## 1. Inventory

What each part keeps, what it does, with whom, and what makes it correct.
Parts in **bold** are modelled, those in *italics* in part; section 7 says what
is left out of them.

| Part | State | Operations | Interacts with | Correct when |
|---|---|---|---|---|
| **Ticket lifecycle** `tickets/ticket-lifecycle.service.ts` | `status, assignee, team_id, resume_at, waiting_action, resolved_at` of `ticket`; two 60 s intervals; an advisory lock | timer sweep, capacity sweep, `onCapacityFreed`, `bounceOnEmergency`, `wakeIfPaused` | presence, PATCH (slot freed), ingests (wake) | a timer exists exactly while a ticket is paused; a pause ends only by request or timer; no row has two owners; queued and ripe tickets move on |
| *Ticket PATCH, bulk, replies* `tickets/tickets.service.ts` | the same columns, tags; messages, activity | read without lock, check the tag policy, write by id, hooks and events after the commit; replies that go out before they are stored | lifecycle, automations, SMTP, Meta | a stale decision does no harm; a closed ticket has its tags; what went out is on record |
| *Inbox* `tickets/tickets.service.ts` | `ticket_read_state` | lists by page, counts, read marks | everybody who writes tickets and messages | what is new is unread; pages miss nothing that stood still |
| **Tag requirement** `tickets/tag-requirement.service.ts` | – | check before closing | PATCH, bulk | no ticket is closed without a required tag |
| *Orders beside a ticket* `tickets/customer-orders.service.ts` | the shop's database, read only | one snapshot of each order, pages, the latest order | templates | each order once, the one that can be followed |
| *Presence, users* `users/` | `user.status`, `role`, `deactivatedAt` | set status, deactivate, invite, roles, remove | lifecycle, sessions | an active admin remains |
| *Assignment picker* `users/assignment-picker.service.ts` | – | choose a member with room | ingests | cap and presence |
| **E-mail ingest** `email-inbox/email-inbox.service.ts` | `message`, `ticket` | stitch to a ticket by references, then subject; reopen, wake, continue, reroute | lifecycle, routing | one message is one row; a thread goes on in one ticket |
| **IMAP worker** `email-inbox/email-inbox.worker.ts`, `providers/` | map of connections, `lastUid` of each, the cursor columns | start and stop on events; connect, drain on EXISTS and by a poll; persist the cursor | channels, ingest | no mail is lost silently; exactly the CONNECTED channels are watched |
| **Mail templates** `email-inbox/email-templates.service.ts` | `email_template` | create, test, send on a ticket | rules, ingest of the Sent folder | nothing is left blank; an answer is threaded; what went out is on record |
| *Channels*, **Gmail OAuth and token cache** `channels/` | `channel`, cached and in-flight access tokens | status, consent round trip, refresh, remove | IMAP worker, SMTP | the worker follows; a token belongs to its channel |
| **WhatsApp ingest** `whatsapp-inbox/whatsapp-ingest.service.ts` | `whatsapp_message`, `ticket`, `channel` | one live thread per customer: reopen, archive and mint; drain by `setImmediate`; events and bot after the commit | lifecycle, bot, automations | a message counts once; a customer has one line of tickets; the queue moves |
| **WhatsApp sender and templates** `whatsapp-inbox/` | `whatsapp_template`, what Meta has | send a text, buttons, a list, media, a template; create, sync, bind, test | Meta, bot, tickets, broadcasts, webhooks | rows only of what was taken; a template reads as it was written |
| **Bot runtime and flows** `bot/` | `bot_session` (one per ticket), `bot_flow`, `bot_step` | start, reply, tick loop, delay sweep; the editor of flows | WhatsApp, lifecycle | no session is left with nobody to move it; a flow's steps and entry stay in order |
| *Automation engine* `automations/` | rules; tags, status, team, owner of tickets | event → rules → actions, which raise events | tickets, webhooks, templates | no tag is lost; a cascade ends |
| **Webhook receivers** `*-webhooks/`, `webhooks/` | one row per webhook | save, look up, raise an event, answer | automations, the shop | an event is raised once and agrees with its row |
| **Broadcasts** `outreach/broadcast*` | broadcast, recipients, counters | create, start, cancel; batches with retries | Meta, customers | no send past a cancel or an opt-out but those under way; counters agree |
| *Customers and uploads* `outreach/customer*` | customers, segments, upload rows and files | stage, start, work through a CSV; opt out | broadcasts, automations | an opt-out stays; counters add up |
| **Sessions** `auth/` | refresh token hash of a user, cookies | sign in, refresh, sign out | users | the cookie a browser has works |
| **Routing rules**, *teams and tags* `rules/`, `teams/`, `tags/` | rules, teams, members, priorities, tags | validate, match, overlap; create, reorder, remove | ingests | an answer to the admin is true; a team keeps its bot; removal leaves no ticket |
| **Settings** `settings/` | `app_setting` | windows, tag policy, webhook secret | everyone | the secret that was shown works |
| HTTP, storage, logging, health, configuration, migrations, scripts | – | – | – | – |

The hard behaviours are listed with their lines in `PROJECT.json`
(`hazards`): rows read before a lock, a transaction or an await and used after
it; drains that race; hooks and files that live in memory only; statements by id
that do not look again at what they overwrite; connections started and stopped
across awaits; a cursor shared by overlapping drains; unique ids and row locks
taken in different orders; entities saved whole from stale copies; messages that
have gone out and whose row fails; senders that post again; lists read in parts
while they move.

## 2. The modules

Tickets:

| Module | Models | Correspondence |
|---|---|---|
| `TicketContract` | what is promised of a ticket, with no transaction in sight | owner, status, timer, action; every change one atomic step |
| `TicketRow` | one row of `ticket` and what each writer does to it | `Patched(cur, read, dto)` takes the row the handler *finds* and the one it *read*, so a stale decision is visible |
| `TicketLifecycle` | sweeps, drains, bounce, presence, PATCH, restarts | `rows` is the committed table; `sweep, drains, bounces, patches, reqs` are in flight; `wanted`, `swept` are hooks and visits in memory |
| `EmailIngest` | `ingestInbound`, `ingestSent` by statement | `rows, prev, messages` are the tables; `txns` the transactions with what they see, lock and have inserted |
| `WhatsappIngest` | Meta's payloads, each message by statement | `rows, thread, prev, messages`; `handlers` are requests, `hooks` the scheduled drains; `announced, greeted` histories |
| `TicketConsole` | patch, bulk update, replies, template sends, tag removal | `ticket` has status and tags; `job` is how far a request is, `last` the last event told |
| `Inbox` | lists, counts, read marks | `inboxRows`, `inboxNotes` (messages with their times), `readAt`; `reading` is the list or the counts under way |
| `CustomerOrders` | the orders beside a ticket | `ops` are snapshots, `ordersRead` the pages so far |

Mail, WhatsApp, bot:

| Module | Models | Correspondence |
|---|---|---|
| `ImapWorker` | the worker's callbacks, connections, drains, cursor | `registered` is the map's entry, `conns` the objects; `handlers`, `drains` sit between two awaits; `floor` is what a first boot took as there |
| `MailboxAccess` | consent links, code exchange, token cache | `grant` the stored refresh token, `entry` the cached token, `calls` refreshes at Google |
| `TemplateVariables` | the variables, how they are named in a text and resolved | operators |
| `MailTemplates` | mail templates made, tried and sent | `mailRows, letters, repliedLog` are tables, `mailed` what SMTP took |
| `WhatsappTemplates` | templates written here, filed at Meta, synced, bound, sent by everyone | `meta` is Meta's list, `templateRows` ours, `templateCalls` requests across their awaits |
| `WhatsappSender` | each kind of send and what is made of Meta's answer | operators |
| `Sends` | what the bot and the agents say; with templates and mail templates, what goes out by itself; with orders and rules, what staff are shown | `said, taken, talkRows` count the messages |
| `BotRuntime` | the session of one ticket under starts, replies, sweeps | `row` is the session; `calls` the calls with their entities; `clean, overlapped` histories |
| `FlowEditor` | the editor of flows and the validation of configurations | `flows, steps`; `edits, notes` requests and what they read |

Rules and the outside:

| Module | Models | Correspondence |
|---|---|---|
| `WebhookReceivers` | what is read in a payload; the four receivers, with posts sent again | `hookRows` the saved rows, `raised` the events, `answer` what the sender got |
| `RuleEngine`, `Automations` | evaluations and actions; the engine with receivers, agents, messages | `evals` are the evaluations under way, with the event's snapshot |
| `RoutingRules` | validation, matching, "can never match", overlaps | `told` is the answer to the admin |
| `Customers`, `CustomerUpload`, `Broadcast`, `Outreach` | the customer table, uploads, broadcasts; the three together | `paths`, `workers`, `runs` are in memory; `strays, started, lost, launched` histories |

The console's records:

| Module | Models | Correspondence |
|---|---|---|
| `Accounts` | sign-in, refresh, sign-out, the admins' changes | `users`, `cookie`; `at, seen` requests and what they read, `during` who wrote meanwhile |
| `Teams`, `Settings` | teams, members, rules' references; settings and the webhook secret | tables; requests by read and write |
| `Office` | the four together | a behaviour is that of one of them |

`MC*` give the constants their values for TLC. The theorems are in
`TicketLifecycleProofs`, `EmailIngestProofs`, `IncomingProofs`,
`ImapWorkerProofs`, `BotRuntimeProofs`, `OutreachProofs`, `DeskProofs` and
`SendsProofs`. Where TLC
explores several parts in one run, a theorem is about one of them:
`ThreadsSpec`, `AutomationsSpec`, `OutreachSpec`, `OfficeSpec`, `EditorSpec`,
`ConsoleSpec`, `InboxSpec`, `SendsSpec` and `ShownSpec` are the behaviours of that part for any set of cases its assumption allows, and the
run's behaviours, seen through that part's variables, are among them.
Some modules contain definitions marked *Mutant* or placed just above their
original: a plausible bug (a dropped lock, a forgotten column), which
`PROJECT.json` pairs with the property that finds it. They are part of no
`Next`.

### Composition

`TicketLifecycle`, `EmailIngest` and `WhatsappIngest` share `TicketRow`: what an
ingest's environment does to a ticket is the same function of the row as in the
lifecycle. `Automations` is the receivers and the engine in one process,
`Outreach` the uploads, opt-outs and broadcasts on one customer table. `MCMessaging`
and `MCDesk` put parts that share *no* rows into one run: a behaviour is that
of one part while nothing comes to the others, so TLC explores the union of
their state spaces, not the product.

### What a step is

- **Database code.** PostgreSQL at READ COMMITTED, TypeORM's default: one SQL
  statement is one step and reads what is committed when it runs; a
  transaction's writes land when it commits; an UPDATE waits for the row's lock
  and then looks at the row again (`WHERE status = …`) or does not
  (`WHERE id = …`). Where a request only reads, checks and writes by id, a step
  is one of these.
- The pull of a drain (`ticket-lifecycle.service.ts` 915–940) is the exception:
  `ORDER BY … LIMIT 1 FOR UPDATE SKIP LOCKED` over a join with a counting
  subquery scans on a snapshot (`DrainTxnStart`) and locks afterwards
  (`DrainTxnLock`), when the ticket's columns are rechecked and the count is
  not. TypeORM's `pessimistic_write` without table names locks the joined team
  rows too, which `TeamLocked` shows.
- **Entities saved whole** (`BotRuntime`, `WhatsappTemplates`). `save()` writes
  what the call's entity says over the row, whatever the row says now. The
  foreign key on `current_step_id` refuses a save that names a removed step and
  empties the column when the step goes.
- **Event-loop code** (`ImapWorker`, `Broadcast`, `RuleEngine`). Node runs a
  callback until its next `await`; a step is that stretch.
- **Times of messages** (`Inbox`). `createdAt` is the start of the transaction
  that brings a message; readers see it when that commits.

### Data that is abstracted

`resume_at` is absent, pending or ripe; `resolved_at` absent, recent or old;
MEETING, BREAK and OFFLINE are one status, AWAY. A message is its id, its
references, its subject; a template's text is the sequence of its variables; a
telephone number, an address and a name are values that are equal or not. The
payload of a webhook is the fields the code looks at. Routing may name any team
in the ingests and follows rules in `Teams` and `RoutingRules`. Texts,
attachments, HTML and logs are left out, but for the "SKIPPING" line of a failed
ingest, which is all that remains of such a message.

## 3. The runs

Several properties are conjunctions of named parts, listed below; TLC reports
the conjunction.

| Run | Question | Instance |
|---|---|---|
| `lifecycle_pair` | Do row locks make sweeps and drains safe against everybody else, do pauses survive stale PATCHes, and is each step one the contract allows? | 2 queued tickets, 2 agents, hook and sweeper, 1 PATCH; or 1 ticket and 2 overlapping PATCHes; 3 events |
| `lifecycle_pulls` | How far can racing drains overshoot the cap? | 4 queued tickets, cap 1, 3 drains of one agent |
| `lifecycle_live` | Do ripe and queued tickets move on? | 2 tickets, 1 agent, 2 events incl. restart |
| `imap_loss` | Can the cursor pass a message nobody accounts for? | 2 connections, 2 overlapping callbacks, 2 overlapping drains, 2 messages, 2 events |
| `imap_live` | Does the worker follow the channel, and does mail arrive? | 2 connections, 1 handler, 1 drain, 2 messages, 3 events |
| `ingest_thread` | A thread against PATCHes, sweep and queue, and does each ingest end? | 3 mails (the last from the Sent folder), 2 ingests at once, 2 events |
| `bot_sessions` | Is a session ever left with nobody to move it, do ends and delays stand, do calls end? | 8 steps, one of each type, with cycles; 2 overlapping calls, loop bound 3, 2 events |
| `messaging` | Uploads, broadcasts, webhooks with rules, WhatsApp threads | 6 cases of `Outreach` (a file of 4 lines in batches of 2, 2 recipients, 2 runs), 16 of `Automations` (posts tried twice, one fault), 1 customer with 3 messages in 3 payloads for 2 handlers and 3 events |
| `desk` | The console's records, ticket requests, the inbox, orders, editors, templates | the cases of the `MC` modules: two to seven overlapping requests each |

| Property | Parts |
|---|---|
| `LocksHold` | a locked row stays as it was found; no row is locked twice |
| `TicketsMoveOn` | ripe WAITING tickets end, ripe followups of agents away are queued (`TimersServed`); a queued ticket reaches an idle member (`QueueDrains`) |
| `SessionsMoveOn` | calls end; a delay that is over is noticed |
| `KeepsContract` | every step is a step of `TicketContract` or changes nothing it knows of |
| `MailsKept`, `DecisionsHold` | one row per mail, coherent tickets; a customer's mail leaves a followup as it is, though a class comment says otherwise (section 5); only dead threads are continued |
| `UploadsSound` | an opt-out is kept; one worker per upload, unless two starts overlapped; COMPLETED only when all lines are in; counters add up |
| `BroadcastsSound` | COMPLETED with nothing PENDING; a cancel and an opt-out bound what still goes out; counters agree in the end |
| `EventsSound` | an event is raised once, as saved, for every row and answer; a template is sent once |
| `ThreadsSound` | a customer's tickets form one line; no ticket without a message; `resolved_at` follows the status |
| `MessagingSettles` | runs end, posts are answered, cascades end unless warned of, requests end, the queue moves |
| `AccountsSound` | the last admin stays, but for writes that overlapped; the cookie of a browser that was alone works; a token is spent once |
| `OfficeSound` | removing a team stops half-way only by a race; the bot is in every team whose creation was not cut off; priorities keep their order; one refresh per channel, tokens of their channel, consents in time; the secret shown works, unless another first reader overwrote it (section 5) |
| `ConsoleSound` | replies are on record or said to be missing, but for a second failure; a message is quoted once |
| `InboxSound` | unread is what came after the mark; tab numbers agree up to what moved; pages leave out nothing that stood still |
| `ShownSound` | pages cover what stood still; each order once, tracking not hidden, the latest order is the first (`OrdersSound`); "never matches" is never said wrongly where the code can know, overlaps are shared tickets (`AnswersTrue`) |
| `ConsoleStepsSound` | a ticket is closed with its tags; bulk updates keep tags; a change is told once |
| `EditorSound` | an entry is a step of its flow; configurations suit their type; positions are dense, but for edits that overlapped |
| `SendsSound` | `TemplatesSound` (what Meta charges is bid for, a template reads as it was written, each value in its place, fallbacks where they were given), rows only of messages taken, every choice fits its form, `MailsSound` (nothing left open, answers threaded, mails on record) |
| `DeskAnswers` | who waits for a token or for Meta is answered |

Three more runs, `v_deactivated`, `v_unwatched` and `v_fork`, each refute a
sentence of the repository (section 5).

Bounds. `MaxEvents` and the fault counters count requests, failures and
restarts, which nothing in the code limits; sweeps, drains, timers and commits
are not counted. Two or three events are what the known races need (one to
start an actor, one to interfere, one restart), and every mutant is found
within them. `Cap` is 1, `UploadBatch` 2, `BatchSize` 1 and `MaxTries` 2 of a
broadcast, `PageSize` and `OrdersLimit` 2, `MaxTicks` 3 (25): each of these
limits is met, and met again. `SweepBatch` is 2 (200 in the code) and is never
exceeded, for at most two tickets are ever ripe at once. It must not be for
`TicketsMoveOn`: a batch takes ripe followups in no order and leaves those of
ONLINE owners ripe for their drains, so a batch full of these may pass by the
orphans that `OrphanFollowupRequeued` is about for as long as they stay. `ONLINE_DRAIN_MAX` (50)
cannot be reached with so few tickets and is left out of the loop. Symmetry is
used in `imap_loss` over connections and drains, which are interchangeable; no
liveness run uses it. Deadlock is not checked: with the bounds used up and no
work left, each of these systems may stop.

`OvershootBounded` is about pulls: in its instance agents only resolve
tickets. Followups that fall due and PATCHes that hand a ticket over add to an
agent's load without any cap. `EndedStaysEnded` and `DelayStands` speak of
behaviours without overlapping calls, for with them an older save does both;
`NeverAdrift` and `SessionsMoveOn` hold with overlaps. Likewise several
parts above excuse requests that overlapped: the code takes no lock there, and
what is checked is that nothing *else* breaks them.

## 4. Fairness

`TicketLifecycle`: weak fairness of the two sweeps, of each drain's steps, of a
worker taking the next hook, of the bounce and of requests already begun. The
intervals keep firing (`setInterval`, 60 s), the event loop serves every
callback given to it, statements return, and `FOR UPDATE SKIP LOCKED` never
waits. Nobody has to send a request, no timer has to run out and nothing has
to fail.

`ImapWorker`: each handler and each drain, `Reconnects` (`idleLoop` tries again
for ever) and the poll (60 s). A connection *start* that fails is logged and not
tried again (`email-inbox.worker.ts` 72–75); its failures belong to `imap_loss`
only, since with them nothing promises that the channel is watched.

`BotRuntime`: each call's steps (awaits return; the adapter swallows its errors)
and the sweep, which runs every 10 s and at boot. No customer has to answer and
no delay has to run out.

`EmailIngest`, `WhatsappIngest`: a transaction's next statement, PostgreSQL's
deadlock detector among them; the capacity sweep for the queue.

`Outreach`: the steps of a worker and of a run already begun; nobody has to
start one. `Automations`: the next step of some evaluation and of some post's
handler; look-ups have a timeout. `Office`, `WhatsappTemplates`: a request to
Google or Meta returns, with an answer or without.

## 5. Where the code and its own words disagree

Each of these is a run that TLC must find violated.

- `v_deactivated` — `presence-helpers.ts` 18: a user is assignable if not
  deactivated and ONLINE. The sweep selects `{id, status}`
  (`ticket-lifecycle.service.ts` 450), so `deactivatedAt` is undefined and a
  deactivated user whose status is still ONLINE passes; the sweep leaves the
  ripe followup to the owner's drain, and the drain refuses deactivated users.
  The ticket stays ripe for ever.
- `v_unwatched` — `email-inbox.worker.ts` 35–36: connected starts, disconnected
  stops. A CONNECTED event during the logout of a stop finds the old map entry
  and does nothing; the stop then deletes the entry. `imap_live` shows the same
  property true when events do not overlap. The mirror image, DISCONNECTED
  during a start, comes from the same gap (160–173).
- `v_fork` — `email-inbox.service.ts` 172: a reply belongs to the ticket of a
  message of its chain. The oldest ancestor wins; once a continuation was
  minted for an old ticket, the next reply of the same thread finds the old,
  RESOLVED ticket first and opens another continuation.

Others were met while modelling. They follow from the same definitions (the
model does what the code does), but have no run of their own.

**Tickets.** The class comment of `ticket-lifecycle.service.ts` (94–97) says of
the customer reply wake "WAITING or IN_FOLLOWUP → OPEN; clears resume_at". A
reply to an IN_FOLLOWUP ticket neither opens it nor clears its timer:
`wakeIfPaused` returns unless the ticket is WAITING (564), its UPDATE says so
again, and the method's own comment (532–540) says that a followup is
deliberately not woken. `FollowupStands`, a part of `DecisionsHold`, checks what
the code does, which on this case is the opposite of the class comment. Line 912
of the file promises the pull respects the cap: two drains of one agent both scan before either commits
(`OvershootBounded` is what holds). 88–92 and 248 say followups are woken within
the cap; `drainRipeFollowup` (813) does not count. A ripe followup of an ONLINE
*admin* is left to a drain that the capacity sweep (208) never starts for admins.
`ticket.entity.ts` 97 says `resolved_at` is cleared on any transition away from
RESOLVED; a PATCH that read the row before another resolved it does not clear it
(`tickets.service.ts` 1087). The bounce (765) updates by id what it selected
before. RESOLVED and REOPENED events are lost when the process stops, or
`onCapacityFreed` throws, after the commit. PATCH with an empty list of tags on
a ticket that is RESOLVED already leaves it untagged. A bulk WAITING or
IN_FOLLOWUP fails on every ticket. The comment near 1331 on bulk tags speaks of
each ticket's own; they are read once for all.

**Inbox and orders.** `list-tickets.dto.ts` 25–29 says `latest` sorts by
`updatedAt`; the service sorts by the newest message. A message whose ingest
began before the reader's mark and committed after it is never unread.
`counts()` asks twice, so the Open tab (open less bot) may be negative for a
moment. Related tickets are "newest first, capped at 50", and the 50 lowest ids
are taken before sorting. The detail view's "monotonic" times over a chain of
tickets are not so when an older ticket gets a late message.
`customer-orders.service.ts` 211 ranks a snapshot by the URL of its first
fulfilment while `toCustomerOrder` shows that of any; pages of orders with equal
or no times may repeat or skip.

**Mail.** `imap-resume-store.service.ts` 17: a crash between persisting a
message and the cursor is covered; not before the cursor was written the first
time (the poll writes it within 60 s). `imap-connection.ts` 242 says a failing
message is retried; 310 advances past it. `email-inbox.service.ts` 275: if the
sweep resolves a ticket between look-up and wake, the reply joins a RESOLVED
ticket; 906 and 915: a deactivated owner keeps a reopened ticket; 1037: the
reroute writes an owner read earlier over a PATCH. `email-inbox.worker.ts` 72: a
start that fails is not tried again. `email-templates.service.ts` 391: the
preview "mirrors sendOnTicket exactly", without its refusals; the Sent folder's
copy of a template mail, ingested first, makes the send's own transaction fail
and loses the activity entry. Reconnecting a channel invalidates neither its
cached access token nor a refresh under way.

**WhatsApp.** "Errors swallowed — Meta has already received our 200": a message
that loses a race for a unique key is dropped and never comes again, and a
payload whose channel was made by another is dropped whole. The reopen by id
leaves `resume_at` and may end a followup. Body parameters of a template include
those of a URL button (`whatsapp-sender.service.ts` 723), and sends by ticket,
test or broadcast carry none for the button. A template that Meta moves to
MARKETING may hold variables outside the segment-safe set; a legacy one with
positions is broadcast with no values; the broadcast's fallback
(`broadcasts.service.ts` 220) is never used. `updateBindings` may take away a
required fallback, so what "shouldn't happen in practice" (`tickets.service.ts`
1971) does. A template registered at Meta whose row was lost comes back by the
sync with no mapping; a sync that races a create ends with an error or loses the
author's mapping; 198–201 says the sync overwrites the body, which an authored
row keeps. "We don't walk … customer-orders" in `testSend`: the resolver does.
A template sent on a ticket whose row fails leaves no activity entry.

**Bot.** `bot-runtime.service.ts` 645–650: the sweep checks and clears
`wake_at` "atomically via save()"; two sweeps tick one session twice. 660: a
crash between the save and the tick "can be re-driven by the next sweep"; the
timer is cleared by then. 177: an ended session stops every later start for the
ticket. Deleting the question a session waits at empties its step, and replies
pass it by. `applyResolve` (847) leaves `resume_at` and `waiting_action`. In the
editor, references to next steps are never checked, two removals that overlap
leave gaps, and a change of type racing a change of configuration stores one
that is invalid for its type.

**Rules and webhooks.** "This rule can never match" is told of rules that do
match (conditions of `neq` alone, some combinations of texts, fractional
bounds, an empty tag among those to choose from, a channel id that is no text). `loop-validator.ts` 123 trusts in idempotent handlers; two rules that
resolve and reopen loop undetected. Tags are written as the event's snapshot
plus or minus one. A Shopify event saved and not yet raised at a crash is a
duplicate when it comes again. A Return Prime key without `updated_at` merges
distinct changes. `send-whatsapp-template.handler.ts` 71–75 names events that
134–151 does not send directly. `call_webhook` lacks the payload of two kinds.
The catalog (150–154) offers an event no code raises.
`return-prime-webhooks.controller.ts` 30–32 says the receiver "always returns
202 for a well-formed request"; the service throws every error of the insert but
the unique key's, and the answer is 500 (`SaveFails`). A scan of Clickpost that
differs from an earlier one in bucket or direction only is taken for the same:
its key is the code at the root (`clickpost-webhooks.service.ts` 565), its event
that of `latest_status`.

**Outreach.** A cancelled broadcast can end COMPLETED, and a start past its
check turns CANCELLED back into SENDING; a message whose SENT mark fails goes
out again; a SENT recipient may become FAILED by an overlapping run;
`handleDeliveryUpdate` has no caller; "late template edits don't mutate" what a
run sends, which reads the template when it starts. An upload interrupted by a
restart stays PROCESSING, and a late second start marks a COMPLETED one FAILED.
`applyOptOut` keeps opt-outs, and its insert may lose a race and only be logged;
its save of the row it read may blank a name that an import has just filled.

**Console.** Two admins can deactivate each other. A refresh that has found its
user re-issues a session after a sign-out; two overlapping ones can leave a dead
cookie. A ticket that arrives between the move and the delete makes a team's
removal fail, and a process that stops between the two writes of a team leaves
it without the bot. `app-settings.service.ts` 124–127: the first read of the
webhook secret makes one, so that "call sites get a usable value immediately".
Two first readers make one each; the one who wrote first is shown a secret that
is overwritten, and `SecretShownWorks` excuses exactly that.

## 6. Proofs

Every theorem holds for every value of the constants that the named
assumptions allow: any sets of tickets, agents, teams, customers, mails,
connections, workers, requests and steps, any cap, batch size, number of tries,
of faults and of events.

`TicketLifecycleProofs`: `Spec => []IInv`, where

    IInv == TypeOK /\ DrainsHoldTickets /\ TimerCoherent /\ LockedRowsHold /\ LocksExclusive

- `TypeCorrect`: the type invariant.
- `TimersCoherent`: `TimerCoherent` needs `LockedRowsHold`: the sweep writes
  RESOLVED or OPEN by id and clears the timer without looking, and a drain wakes
  by id. The row is coherent afterwards only because it was what the
  transaction had read.
- `LocksSound`: `LockedRowsHold` and `LocksExclusive` support each other: a
  locked row holds because every other writer waits for the lock or skips it,
  and that needs the lock sets to be disjoint. `DrainsHoldTickets` says that a
  drain in a locking phase names a real ticket.
- `TimersKept` and `HumansKeepTickets` are action properties and follow from
  `IInv` by one step per action.
- `ContractKept`: `TicketLifecycle` implements `TicketContract`. The mapping
  hides transactions, locks and memory: a ticket is its owner, its status, the
  state of its timer and its action; what agents have asked is the requests and
  PATCHes in flight. The steps are sorted into kinds (a sweep's commit, a wake,
  a pull, a bounce, a PATCH, the clock, the rest), each shown to be a step of
  the contract or none, from `IInv`: the sweep ends *ripe* pauses because the
  locked row is still the one selected.
- `OvershootIsBounded`: while nothing but pulls adds to an agent's load
  (`PullsAlone`), his open tickets and the drains of his that have counted and
  not yet taken together number at most `Cap + Cardinality(Workers) - 1`
  (`RaceBounded`): a scan lets a drain race only when it counts less than the
  cap, a take moves one from the second set to the first, and a worker has one
  drain at a time.

`EmailIngestProofs`:

    IInv == TypeOK /\ Numbered /\ MailsKept /\ TxnsSound /\ Exclusive

- `TypeCorrect`, `MailsCorrect`: `MailsKept` (a mail is one row, no ticket
  without its mail). `TxnsSound` says what a transaction may still rely on: what
  it locked is as it was read, what it will insert nobody else has; `Exclusive`
  that a row is locked, and an id waited for, by one transaction. `Numbered`
  bounds the ids given out.
- `DecisionsCorrect` (`DecisionsHold`) follows from `IInv` by one step per
  action, and so does `ContractKept`: every commit is a step of
  `TicketContract`, or of its environment.

`IncomingProofs`. About `ThreadsSpec`: `ThreadsCorrect` (`ThreadsSound`) and
`AnnouncedCorrect` (`AnnouncedOnce`). The invariant adds that a handler's
ticket is what it found it to be, that no two hold the same row, that one
ticket at most carries a customer's live key (`OneLiveKey`, the unique index),
that what was announced is stored, and that ids are numbered. A handler that
loses a race for the key stores nothing.

About `AutomationsSpec`, with

    AutomationsInv == EngineInv /\ HookInv /\ DueSound

- `EventsCorrect`: `EventsSound`. `HookInv` is about posts and rows: a row saved
  has a *witness*, the one post that stored it and still has to raise its event,
  or has raised it; the unique index decides between two copies of a post, and
  what a copy raises is what the row says. `EngineInv` is about rules: two
  evaluations under way are never of the same post and event, and what was
  carried out for a post lies *behind* the place its evaluation has got to (of
  an earlier rule, an earlier case, or an earlier action of the same case), so
  an action still to come was not carried out. An else is taken up only when no
  case was, and after it there is no case.
- `RulesKeep`: `RulesKeepTags`. What the ticket has and the snapshot (or the
  row refreshed from it) lacks was put on after the event, `later`
  (`TagsFollowed`): every write that adds a tag notes it with every evaluation
  under way. The set an `add_tag` writes covers its snapshot's.

`OutreachProofs`, about `OutreachSpec`:

- `UploadsCorrect` (`UploadsSound`): one reader per file unless two starts
  overlapped, the lines counted are the lines read, and every valid line read
  has its customer in the segment; an applied opt-out stands.
- `BroadcastsCorrect` (`BroadcastsSound`): what is sent after a cancel is at
  most a batch of each run alive, because a run looks at the status between
  batches; what is posted to somebody opted out, with the posts still under way,
  is at most the runs that were started (`StraysBounded`, a count over
  finite sets); the counters agree once the last run wrote them.

`DeskProofs`. The parts share no rows, so each has an invariant of its own.
All rest on the same idea: the model keeps, for each request, who has written
since it looked, and *while nobody has, what it looked at holds still*.

- `AccountsCorrect` and `SignInsKept`: with an empty `during`, what a request has
  checked holds (`ChecksHold`); refresh tokens of different sessions differ
  (`TokensApart`) and spent ones are on no row.
- `OfficeCorrect`: for teams, what a request has in memory against the tables,
  and how far a reorder has sorted; for mailboxes, that a grant or a getter's
  token belongs to its channel; for settings, that every secret in hand is the
  stored one until one is overwritten.
- `EditorCorrect`: what an edit found stands until another edit crosses it, and
  the steps it named are its flow's still. A removal leaves dense positions
  because distinct positions at `0..N-1` less one, moved down, are those at
  `0..N-2`; a reorder because a list of all steps without repetition numbers
  them (both by counting, `DenseOnce` and `DenseSorted`).
- `ConsoleCorrect` (`ConsoleSound`) and `ConsoleStepsCorrect`
  (`ConsoleStepsSound`). `ReplyOK` counts a reply's failures by its phase.
  `Relies` is what an uncrossed patch depends on: its row is the ticket, the
  policy it was checked for is still satisfied, and the tags a bulk update read
  cover the ticket's. `InTune` relates the last event told to the ticket's
  status, but for the one commit that is still to be told.
- `InboxCorrect` (`InboxSound`): a mark is later than every message that was
  there or on its way and earlier than every one that begins afterwards
  (`MarksHold`), so comparing times tells new from old. A change moves one
  ticket on or off a tab, and the OPEN tickets are the bot's and the others', so
  between the two queries the numbers drift by no more than the changes
  (`CountsNear`). For the pages (`Paged`): while none leaves the list, a ticket
  that stands still only moves *down*, because others rise above it or enter; so
  what is shown covers every such ticket whose place is above the offset, and a
  page that is not full is the last. That a page is full, or reaches the end,
  needs the places above any ticket to be all filled, which is an induction over
  a finite set; it rests on every row and message having a time of its own
  (`TimesApart`).

`SendsProofs`, about `SendsSpec`, the templates of WhatsApp (`TemplatesSpec`),
those of mail and the talk, each with an invariant of its own:

- `AuthoredText` (`AuthoredStays`) and the first part of `SendsCorrect`
  (`SendsSound`). `TemplatesInv` says that a row *fits* what Meta has under its
  name (`RowsFit`): the body Meta holds is the row's with each name replaced by
  its position, and the mapping lists the names in that order. Meta never
  changes a body or a bid once it has them, and a row never changes its author
  (`Grows`), so what a request read before an await fits afterwards too, and a
  sync or a binding that saves an old row saves a fitting one. That positions
  and names fill a text alike needs what `extractVariableReferences` returns:
  each name once, in the order of first use (`FirstUse`, `Ranks`, `RefsNamed`,
  by counting), so that names of buttons come after those of the body
  (`RefsGrow`). `BidsFit` holds because a row is saved with the bid of the
  create that filed it, or found by a sync with none.
- The mail part: `MailsInv`. A row that `create` accepts has a fallback for
  every name that may be missing from a send of its kind, so no send leaves one
  open (`AcceptedRow`). The anchor of an answer is a letter of the ticket and
  letters only grow, so the references gathered after another await still hold
  it. Ids are apart, so a send's row is inserted once, or by the Sent copy.
- The talk: `TalkCounted`, rows, messages taken and messages tried; a case for
  each form the adapter chooses.
- `ShownCorrect` (`ShownSound`), about `ShownSpec`, the orders beside a ticket
  (`OrdersCorrect`) and the rules (`RulesTrue`). Every list the code can put
  together is one of all the customer's orders, each once, by its richest
  snapshot (`ListsAre`); when times tell the orders apart there is only one
  such list (`OrdersInv` then says that the pages so far are its beginning, and
  the last page that asked for one row too many tells whether it goes on). An
  answer about a rule is the one for the rules saved (`RulesInv`), so what is
  left is what the validator computes: if a ticket matches a group, then for
  each attribute its value shows that one is left to pick, the picked one
  satisfies all conditions on that attribute (`ValuePicked`, by the type:
  numbers, words, tags), and a condition looks at its own attribute only, so
  the values picked match the group together (`GroupMatched`). Two groups
  overlap when the conditions of both, in one group, can be matched
  (`TogetherHold`, `TogetherValid`).

`ImapWorkerProofs`:

    IInv == TypeOK /\ NoSilentLoss /\ LastUidsAccounted /\ DrainsAccounted /\ DrainsHaveConn

- `WorkerTypeCorrect`: the type invariant.
- `CursorSafe`: `NoSilentLoss`. The cursor is written from a number a drain
  carries, which came from a connection's `lastUid`; so both must be accounted
  for already (`LastUidsAccounted`, `DrainsAccounted`): a drain between fetch
  and commit has everything *below* its message accounted for, because it takes
  messages in order and passes over only what another drain has raised
  `lastUid` beyond. The accounted set only grows, so a late write of an old
  value is harmless.
- `WorkerServes`: `WorkerFollows`, with its own premises as the property states
  them: one callback of a channel at a time (`Serial`) and no start that
  fails. A handler under way is then the only one between the map and the
  channel's status.

`BotRuntimeProofs`:

    IInv == TypeOK /\ RemovedKnown /\ Tended /\ EntitiesLive /\ Alone /\ RowStands

- `SessionTypeCorrect`: the type invariant.
- `SessionsNeverAdrift`: `NeverAdrift`. `Tended` is the strengthening: an
  ACTIVE row that waits for nothing equals the entity of some call that is
  still in its loop, namely the last one that saved; a call leaves the loop
  without a save only at a question, and then the row it carries is parked.
- `EndsAreFinal` and `DelaysStand`: while calls have not overlapped there is at
  most one (`Alone`), and the row still is what it read (`RowStands`).

The assumptions are those named in the modules: constants are what they say;
`Bot` is no agent; the sweeper is no hook worker; a PATCH body has a
`waiting_action` exactly when it asks for WAITING, which the service demands;
sets of phones, runs and workers are finite where they are counted; requests
carry what their DTOs let through (`TokensAssumption`, `CasesAssumption`, `AutomationsAssumption`: rules the
validator saves,
`TeamsAssumption`, `MailAssumption`, `EditorAssumption`, `ConsoleAssumption`,
`InboxAssumption`, which also numbers messages by the order they begin in,
`TemplatesAssumption`, `MailCasesAssumption`, `SaysAssumption`, `OrdersAssumption`,
`TreesAssumption`); the tickets a rule is judged by are of the attributes' types
and include one like each sample the validator can make up (`SamplesAssumption`): a
step that is made gets an id nobody had (a uuid), and a flow starts in order,
as the editor leaves it. TLC evaluates each of them on the runs, and the parts
of every invariant were checked on the small instances before they were proved.

Proving changed the model where it had said too much or too little. The last
admin can be lost to two writes of *different* kinds (a role and a removal), not
only of the same; a sign-in needs a subject, which the code compares with the
stored one; a reorder is kept only of a list that names each team once; an edit
of a step looks it up in its flow (`flows.service.ts` 182, 217), not among all.

Only model-checked: all liveness properties (the prover does not do fairness
here), and `WatchedWhenConnected`, which overlapping callbacks break. Rules
whose conditions are about the texts of a sender or a subject are outside
`AnswersTrue`, in the runs as in the theorem: the validator puts one text
together and gives up when it does not fit, so it may say "never" of a rule that
can match, and `PickString` folds over the conditions.

## 7. Not modelled

- HTTP guards and validation, storage, logging, mail parsing, the bytes of SMTP
  and Meta requests, CSV parsing, migrations and scripts: no state that two
  actors share, or none of this program's.
- CRUD with no other actor: names and pictures of users, drafts and notes on
  tickets, names of tags and segments, mute lists, product pages, the
  statistics of an agent, previews, the detail view.
- The rows of an automation rule while it is edited: a rule is turned on and
  off, not changed, during a run. The picker's order among members with room:
  any of them may be picked.
- The Sent connection of a mailbox: it runs the code of the INBOX one on a
  cursor of its own.
- Assumed: the BOT user exists (the seed makes it), tickets are never deleted
  softly (`deletedAt` is read by the code but never set), one process runs (a
  second one would have its own maps and caches).

Next to be modelled: edits of automation rules, the bot among the writers of `TicketLifecycle`, and an abstract
session that `BotRuntime` implements while calls do not overlap.
