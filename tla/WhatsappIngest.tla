--------------------------- MODULE WhatsappIngest ---------------------------
(***************************************************************************)
(* WhatsappIngestService on one business number: Meta delivers payloads of *)
(* messages, more than once when it likes, and several at a time.  Each    *)
(* message is a transaction that finds, reopens, archives or mints the     *)
(* ticket of its sender's thread, stores the message and wakes a paused    *)
(* ticket; after the commit come the automation events and the bot.        *)
(*                                                                         *)
(* A step is a statement at READ COMMITTED, as in EmailIngest.  Unlike     *)
(* there the ticket is read without a lock and written by id alone; what   *)
(* keeps a customer to one thread is the unique (channel_id, thread_key).  *)
(***************************************************************************)
EXTENDS TicketRow, FiniteSets, Sequences

CONSTANTS
  Messages,    \* wamids
  Customers,
  From,        \* the sender of a message
  Payloads,    \* webhook bodies: sequences of messages
  Handlers,    \* webhook requests that may overlap
  FirstRows,   \* states of a ticket that may be there at the start
  DefaultTeam,
  Members,     \* pairs <<agent, team>>
  Cap,         \* max_concurrent_tickets
  BotPaused,   \* teams whose BOT membership is paused
  Dtos,        \* PATCH bodies
  MaxEvents

(* resolved_at goes with RESOLVED.                                         *)
Stamped(row) == row.resolved_at # "null" <=> row.status = "RESOLVED"

ASSUME MessagesAssumption ==
  From \in [Messages -> Customers] /\ Payloads \subseteq Seq(Messages) /\ Customers # {}
ASSUME TeamsAssumption == DefaultTeam \in Teams /\ Members \subseteq Agents \X Teams
ASSUME BoundsAssumption == Cap \in Nat /\ MaxEvents \in Nat
ASSUME ThreadRowsAssumption == FirstRows \subseteq {row \in Row : Stamped(row)}
ASSUME ThreadDtosAssumption ==
  /\ Dtos \subseteq PatchDto
  /\ \A dto \in Dtos : dto.status = "WAITING" <=> dto.waiting_action # "null"

NoTicket == 0

VARIABLES
  channel,    \* the channel row of this number exists
  rows,       \* the committed tickets 1, 2, ...
  thread,     \* thread_key: whose it is, and whether it is the live key
  prev,       \* previous_ticket_id
  messages,   \* whatsapp_message: the ticket of each stored message
  handlers,   \* webhook requests in flight
  hooks,      \* agents a setImmediate drain is scheduled for
  online,     \* agents ONLINE
  announced,  \* history: messages whose automation events were emitted
  greeted,    \* history: tickets the bot runtime was asked to start on
  budget

data == <<rows, thread, prev, messages>>
threadVars == <<channel, rows, thread, prev, messages, handlers, hooks, online, announced, greeted, budget>>

Tickets == DOMAIN rows
Phases  == {"idle", "channel", "create", "check", "find", "reopen", "archive", "insert",
            "save", "wake", "waking", "commit", "after"}
Handler == [todo: Seq(Messages), phase: Phases, ticket: Nat, prev: Nat, lock: Nat,
            row: Row, minted: BOOLEAN, saved: BOOLEAN, back: BOOLEAN]

AnyRow == FreshRow(Bot, DefaultTeam)
Ready(todo, p) == [todo |-> todo, phase |-> p, ticket |-> NoTicket, prev |-> NoTicket,
                   lock |-> NoTicket, row |-> AnyRow, minted |-> FALSE, saved |-> FALSE,
                   back |-> FALSE]
Rest == Ready(<<>>, "idle")

Mine(w)  == Head(handlers[w].todo)
Stored(m) == m \in DOMAIN messages
LiveOf(c) == {t \in Tickets : thread[t] = [who |-> c, live |-> TRUE]}
(* A transaction sees its own insert and its own uncommitted write.        *)
View(w)   == IF handlers[w].ticket \in {NoTicket, handlers[w].lock} THEN handlers[w].row
             ELSE rows[handlers[w].ticket]
Spend     == budget > 0 /\ budget' = budget - 1

(* The rest of a payload goes on after a message that is done or failed; a *)
(* body may hold no message at all.                                        *)
Begin(todo)    == IF todo = <<>> THEN Rest ELSE Ready(todo, "check")
NextMessage(w) == Begin(Tail(handlers[w].todo))
----------------------------------------------------------------------------
(* Locks: a row's writer; an uncommitted message on its ticket (KEY SHARE, *)
(* which a change of thread_key waits for); an uncommitted thread_key or   *)
(* wamid, which an insert of the same one waits for.                       *)

Holders(t) == {w \in Handlers : handlers[w].lock = t}
Sharers(t) == {w \in Handlers : handlers[w].saved /\ handlers[w].ticket = t}

Blockers(w) ==
  LET h == handlers[w] IN
  (CASE h.phase \in {"reopen", "waking"} -> Holders(h.ticket)
     [] h.phase = "archive" -> Holders(h.ticket) \cup Sharers(h.ticket)
     [] h.phase = "insert" ->
          {v \in Handlers : /\ handlers[v].phase # "after"
                            /\ handlers[v].minted \/ handlers[v].prev # NoTicket
                            /\ From[Mine(v)] = From[Mine(w)]}
     [] h.phase = "save" -> {v \in Handlers : handlers[v].saved /\ Mine(v) = Mine(w)}
     [] OTHER -> {}) \ {w}
----------------------------------------------------------------------------
ThreadsInit ==
  /\ channel \in BOOLEAN
  /\ rows \in IF channel THEN {<<>>} \cup [{1} -> FirstRows] ELSE {<<>>}
  /\ thread = [t \in DOMAIN rows |-> [who |-> CHOOSE c \in Customers : TRUE, live |-> TRUE]]
  /\ prev = [t \in DOMAIN rows |-> NoTicket]
  /\ messages = <<>>
  /\ handlers = [w \in Handlers |-> Rest]
  /\ hooks = {} /\ online = Agents /\ announced = {} /\ greeted = {} /\ budget = MaxEvents

(* POST /webhooks/whatsapp with a good signature, from Meta or again from  *)
(* Meta; whatever happens next the answer is 200.                          *)
Receives(w, p) ==
  /\ handlers[w].phase = "idle" /\ Spend
  /\ handlers' = [handlers EXCEPT ![w] = Ready(p, "channel")]
  /\ UNCHANGED <<channel, data, hooks, online, announced, greeted>>

FindsChannel(w) ==
  /\ handlers[w].phase = "channel"
  /\ handlers' = [handlers EXCEPT ![w] =
       IF channel THEN Begin(@.todo) ELSE [@ EXCEPT !.phase = "create"]]
  /\ UNCHANGED <<channel, data, hooks, online, announced, greeted, budget>>

(* The name of a created channel is unique: when another request created   *)
(* it first the insert throws out of ingest, and the payload is dropped.   *)
CreatesChannel(w) ==
  /\ handlers[w].phase = "create"
  /\ channel' = TRUE
  /\ handlers' = [handlers EXCEPT ![w] = IF channel THEN Rest ELSE Begin(@.todo)]
  /\ UNCHANGED <<data, hooks, online, announced, greeted, budget>>

(* The idempotency check; media are fetched before BEGIN and a failure to  *)
(* fetch leaves a message without them.                                    *)
Checks(w) ==
  /\ handlers[w].phase = "check"
  /\ handlers' = [handlers EXCEPT ![w] =
       IF Stored(Mine(w)) THEN NextMessage(w) ELSE [@ EXCEPT !.phase = "find"]]
  /\ UNCHANGED <<channel, data, hooks, online, announced, greeted, budget>>

(* The thread's ticket, unlocked; the reopen window is judged on it.       *)
Finds(w) ==
  LET live == LiveOf(From[Mine(w)]) IN
  /\ handlers[w].phase = "find"
  /\ handlers' = [handlers EXCEPT ![w] =
       IF live = {} THEN [@ EXCEPT !.phase = "insert"]
       ELSE LET t == CHOOSE u \in live : TRUE IN
            [@ EXCEPT !.ticket = t, !.phase =
               IF rows[t].status # "RESOLVED" THEN "save"
               ELSE IF rows[t].resolved_at = "recent" THEN "reopen" ELSE "archive"]]
  /\ UNCHANGED <<channel, data, hooks, online, announced, greeted, budget>>

(* Mutant: the stamp of the resolution stays.                              *)
ReopensKeepingStamp(w) ==
  /\ handlers[w].phase = "reopen" /\ Blockers(w) = {}
  /\ handlers' = [handlers EXCEPT ![w].phase = "save", ![w].lock = handlers[w].ticket,
                    ![w].row = [View(w) EXCEPT !.status = "OPEN"]]
  /\ UNCHANGED <<channel, data, hooks, online, announced, greeted, budget>>

(* UPDATE ticket SET status, is_reopened, resolved_at WHERE id: the timer  *)
(* columns stay as they are and the status is not looked at again.         *)
Reopens(w) ==
  /\ handlers[w].phase = "reopen" /\ Blockers(w) = {}
  /\ handlers' = [handlers EXCEPT ![w].phase = "save", ![w].lock = handlers[w].ticket,
                    ![w].row = [View(w) EXCEPT !.status = "OPEN", !.resolved_at = "null"]]
  /\ UNCHANGED <<channel, data, hooks, online, announced, greeted, budget>>

(* Past the window the key moves out of the way of the continuation.       *)
Archives(w) ==
  LET t == handlers[w].ticket IN
  /\ handlers[w].phase = "archive" /\ Blockers(w) = {}
  /\ handlers' = [handlers EXCEPT ![w].phase = "insert", ![w].lock = t, ![w].row = View(w),
                                  ![w].prev = t]
  /\ UNCHANGED <<channel, data, hooks, online, announced, greeted, budget>>

(* pickNextAssigneeForTeam: an ONLINE member under the cap, else the BOT,  *)
(* else it throws.                                                         *)
Load(a, tm)  == Cardinality({t \in Tickets : /\ rows[t].status = "OPEN"
                                             /\ rows[t].assignee = a /\ rows[t].team = tm})
Eligible(tm) == {a \in online : <<a, tm>> \in Members /\ Load(a, tm) < Cap}
Picks(tm)    == IF Eligible(tm) # {} THEN Eligible(tm)
                ELSE IF tm \in BotPaused THEN {} ELSE {Bot}

(* A routed team whose picker throws gives way to the default team, whose  *)
(* picker may throw too: the ticket is parked all the same.                *)
TargetTeam(tm) == IF Picks(tm) = {} THEN DefaultTeam ELSE tm

(* Mutant: a drain is scheduled for the BOT as well.                       *)
ScheduledForAnyone(a) == {a}

Scheduled(a) == {a} \ {Bot}

(* The unique key lets one insert of a thread through.                     *)
KeyTaken(w) == LiveOf(From[Mine(w)]) \ {handlers[w].prev} # {}

Minting(w, tm) ==
  /\ handlers' = [handlers EXCEPT ![w].phase = "save", ![w].minted = TRUE,
                    ![w].ticket = NoTicket, ![w].row = FreshRow(Bot, TargetTeam(tm))]
  /\ \E a \in IF Picks(TargetTeam(tm)) = {} THEN {Bot} ELSE Picks(TargetTeam(tm)) :
       hooks' = hooks \cup Scheduled(a)
  /\ UNCHANGED <<channel, data, online, announced, greeted, budget>>

(* Mutant: without the unique key two first messages both mint.            *)
MintsUnchecked(w, tm) == handlers[w].phase = "insert" /\ Blockers(w) = {} /\ Minting(w, tm)

(* INSERT of the ticket, parked on the BOT; the drain for the picked agent *)
(* is scheduled here, before the commit, and a rollback does not take it   *)
(* back.                                                                   *)
Mints(w, tm) ==
  handlers[w].phase = "insert" /\ Blockers(w) = {} /\ ~KeyTaken(w) /\ Minting(w, tm)

(* Mutant: only the check before BEGIN keeps a message from coming twice.  *)
SavesUnchecked(w) ==
  /\ handlers[w].phase = "save"
  /\ handlers' = [handlers EXCEPT ![w].saved = TRUE,
                    ![w].phase = IF handlers[w].minted THEN "commit" ELSE "wake"]
  /\ UNCHANGED <<channel, data, hooks, online, announced, greeted, budget>>

(* INSERT of the message: the wamid is unique.                             *)
Saves(w) ==
  /\ handlers[w].phase = "save" /\ Blockers(w) = {} /\ ~Stored(Mine(w))
  /\ handlers' = [handlers EXCEPT ![w].saved = TRUE,
                    ![w].phase = IF handlers[w].minted THEN "commit" ELSE "wake"]
  /\ UNCHANGED <<channel, data, hooks, online, announced, greeted, budget>>


(* Mutant: an insert that conflicts is tried again.                        *)
ConflictRetries(w) ==
  /\ \/ handlers[w].phase = "insert" /\ KeyTaken(w)
     \/ handlers[w].phase = "save" /\ Stored(Mine(w))
  /\ UNCHANGED threadVars

(* An insert that meets a committed key or wamid throws: the message is    *)
(* logged and dropped, and Meta is not told.                               *)
Conflicts(w) ==
  /\ \/ handlers[w].phase = "insert" /\ KeyTaken(w)
     \/ handlers[w].phase = "save" /\ Stored(Mine(w))
  /\ Blockers(w) = {}
  /\ handlers' = [handlers EXCEPT ![w] = NextMessage(w)]
  /\ UNCHANGED <<channel, data, hooks, online, announced, greeted, budget>>

FallsBack(row) == row.assignee \in Agents \ online

(* wakeIfPaused inside the transaction: status and owner are read ...      *)
WakeReads(w) ==
  /\ handlers[w].phase = "wake"
  /\ handlers' = [handlers EXCEPT ![w].back = View(w).status = "WAITING" /\ FallsBack(View(w)),
                    ![w].phase = IF View(w).status = "WAITING" THEN "waking" ELSE "commit"]
  /\ UNCHANGED <<channel, data, hooks, online, announced, greeted, budget>>

(* ... and UPDATE ... WHERE status = WAITING.                              *)
WakeWrites(w) ==
  LET row == View(w) IN
  /\ handlers[w].phase = "waking" /\ Blockers(w) = {}
  /\ handlers' = [handlers EXCEPT ![w] =
       IF row.status # "WAITING" THEN [@ EXCEPT !.phase = "commit"]
       ELSE [@ EXCEPT !.phase = "commit", !.lock = handlers[w].ticket,
                !.row = TimerReopened(row, IF handlers[w].back THEN Bot ELSE row.assignee)]]
  /\ UNCHANGED <<channel, data, hooks, online, announced, greeted, budget>>

(* Mutant: the message goes to the ticket that was found.                  *)
CommitsToFound(w) ==
  LET h == handlers[w]
      t == IF h.minted THEN Cardinality(Tickets) + 1 ELSE h.ticket
  IN
  /\ h.phase = "commit"
  /\ rows' = IF h.minted THEN WithRow(rows, t, h.row) ELSE [rows EXCEPT ![t] = View(w)]
  /\ prev' = IF h.minted THEN WithRow(prev, t, h.prev) ELSE prev
  /\ thread' = IF h.minted
               THEN WithRow([u \in Tickets |-> IF u = h.prev THEN [thread[u] EXCEPT !.live = FALSE]
                                                ELSE thread[u]],
                             t, [who |-> From[Mine(w)], live |-> TRUE])
               ELSE thread
  /\ messages' = WithRow(messages, Mine(w), IF h.prev # NoTicket THEN h.prev ELSE t)
  /\ handlers' = [handlers EXCEPT ![w] =
                    [Ready(h.todo, "after") EXCEPT !.ticket = t, !.minted = h.minted]]
  /\ UNCHANGED <<channel, hooks, online, announced, greeted, budget>>

(* The ticket's writes, its key and the message land together.             *)
Commits(w) ==
  LET h == handlers[w]
      t == IF h.minted THEN Cardinality(Tickets) + 1 ELSE h.ticket
  IN
  /\ h.phase = "commit"
  /\ rows' = IF h.minted THEN WithRow(rows, t, h.row) ELSE [rows EXCEPT ![t] = View(w)]
  /\ prev' = IF h.minted THEN WithRow(prev, t, h.prev) ELSE prev
  /\ thread' = IF h.minted
               THEN WithRow([u \in Tickets |-> IF u = h.prev THEN [thread[u] EXCEPT !.live = FALSE]
                                                ELSE thread[u]],
                             t, [who |-> From[Mine(w)], live |-> TRUE])
               ELSE thread
  /\ messages' = WithRow(messages, Mine(w), t)
  /\ handlers' = [handlers EXCEPT ![w] =
                    [Ready(h.todo, "after") EXCEPT !.ticket = t, !.minted = h.minted]]
  /\ UNCHANGED <<channel, hooks, online, announced, greeted, budget>>

(* After the commit: MESSAGE_RECEIVED and, for a new ticket, its creation  *)
(* are emitted, and the bot is started or told of the reply.               *)
Announces(w) ==
  /\ handlers[w].phase = "after"
  /\ announced' = announced \cup {Mine(w)}
  /\ greeted' = IF handlers[w].minted THEN greeted \cup {handlers[w].ticket} ELSE greeted
  /\ handlers' = [handlers EXCEPT ![w] = NextMessage(w)]
  /\ UNCHANGED <<channel, data, hooks, online, budget>>

(* A statement fails; the rest of the payload goes on.                     *)
Fails(w) ==
  /\ handlers[w].phase \notin {"idle", "after"} /\ Spend
  /\ handlers' = [handlers EXCEPT ![w] =
       IF @.phase \in {"channel", "create"} THEN Rest ELSE NextMessage(w)]
  /\ UNCHANGED <<channel, data, hooks, online, announced, greeted>>

(* Two deliveries of one message can wait for each other's rows.           *)
DeadlockDetected(w) ==
  /\ \E v \in Blockers(w) : w \in Blockers(v)
  /\ handlers' = [handlers EXCEPT ![w] = NextMessage(w)]
  /\ UNCHANGED <<channel, data, hooks, online, announced, greeted, budget>>

(* The process restarts: requests and scheduled drains are gone.           *)
Crashes ==
  /\ Spend /\ handlers' = [w \in Handlers |-> Rest] /\ hooks' = {}
  /\ UNCHANGED <<channel, data, online, announced, greeted>>
----------------------------------------------------------------------------
(* The rest of the desk, each a transaction in one step.                   *)

Queued(t) == rows[t].status = "OPEN" /\ rows[t].assignee = Bot
Gives(t, a) ==
  /\ Queued(t) /\ a \in Eligible(rows[t].team) /\ Holders(t) \cup Sharers(t) = {}
  /\ rows' = [rows EXCEPT ![t] = Assigned(@, a)]

(* The scheduled drain takes what is committed when it runs, maybe nothing.*)
Drains(a) ==
  /\ a \in hooks /\ hooks' = hooks \ {a}
  /\ \/ \E t \in Tickets : Gives(t, a)
     \/ rows' = rows /\ \A t \in Tickets : ~(Queued(t) /\ a \in Eligible(rows[t].team))
  /\ UNCHANGED <<channel, thread, prev, messages, handlers, online, announced, greeted, budget>>

(* Mutant: only drains that somebody scheduled hand out tickets.           *)
SweepsScheduled(t, a) ==
  /\ a \in hooks /\ Gives(t, a)
  /\ UNCHANGED <<channel, thread, prev, messages, handlers, hooks, online, announced, greeted, budget>>

(* The capacity sweep visits every ONLINE agent each minute.               *)
CapacitySweep(t, a) ==
  /\ Gives(t, a)
  /\ UNCHANGED <<channel, thread, prev, messages, handlers, hooks, online, announced, greeted, budget>>

Patches(t, dto) ==
  /\ Holders(t) = {} /\ ~Refused(rows[t], dto) /\ Spend
  /\ rows' = [rows EXCEPT ![t] = Patched(@, @, dto)]
  /\ UNCHANGED <<channel, thread, prev, messages, handlers, hooks, online, announced, greeted>>

WindowPasses(t) ==
  /\ rows[t].resolved_at = "recent" /\ Holders(t) = {}
  /\ rows' = [rows EXCEPT ![t].resolved_at = "old"]
  /\ UNCHANGED <<channel, thread, prev, messages, handlers, hooks, online, announced, greeted, budget>>

PresenceChanges(a) ==
  /\ Spend /\ online' = IF a \in online THEN online \ {a} ELSE online \cup {a}
  /\ UNCHANGED <<channel, data, handlers, hooks, announced, greeted>>

HandlerStep(w) ==
  \/ FindsChannel(w) \/ CreatesChannel(w) \/ Checks(w) \/ Finds(w) \/ Reopens(w) \/ Archives(w)
  \/ Saves(w) \/ Conflicts(w) \/ WakeReads(w) \/ WakeWrites(w) \/ Commits(w) \/ Announces(w)
  \/ DeadlockDetected(w)
  \/ \E tm \in Teams : Mints(w, tm)

Desk ==
  \/ \E t \in Tickets : \/ WindowPasses(t) \/ \E dto \in Dtos : Patches(t, dto)
                        \/ \E a \in Agents : CapacitySweep(t, a)
  \/ \E a \in Agents : Drains(a) \/ PresenceChanges(a)

ThreadsNext ==
  \/ \E w \in Handlers : HandlerStep(w) \/ Fails(w) \/ \E p \in Payloads : Receives(w, p)
  \/ Crashes \/ Desk

ThreadsSpec == ThreadsInit /\ [][ThreadsNext]_threadVars

(* Awaits resume and the one-minute sweep keeps coming; nobody has to      *)
(* write, to be online or to touch a ticket.                               *)
ThreadsFairness ==
  /\ \A w \in Handlers : WF_threadVars(HandlerStep(w))
  /\ WF_threadVars(\E t \in Tickets, a \in Agents : CapacitySweep(t, a))
----------------------------------------------------------------------------
(* The tables and the handlers' locals range over their columns.           *)
ThreadsTypeOK ==
  /\ channel \in BOOLEAN /\ rows \in [Tickets -> Row]
  /\ thread \in [Tickets -> [who: Customers, live: BOOLEAN]]
  /\ prev \in [Tickets -> Tickets \cup {NoTicket}]
  /\ DOMAIN messages \subseteq Messages /\ \A m \in DOMAIN messages : messages[m] \in Tickets
  /\ handlers \in [Handlers -> Handler]
  /\ hooks \subseteq Agents /\ online \subseteq Agents
  /\ announced \subseteq Messages /\ greeted \subseteq Tickets /\ budget \in Nat

(* A customer's tickets form one line: each continues another one of the   *)
(* same customer, no ticket is continued twice, and exactly the last one   *)
(* holds the live thread key, so the next message joins it - although the  *)
(* ticket is read without a lock and two messages may find it past its     *)
(* window at once (whatsapp-ingest.service.ts 577-638).                    *)
OneLinePerCustomer ==
  /\ \A t, u \in Tickets : t # u /\ thread[t].who = thread[u].who => prev[t] # prev[u]
  /\ \A t \in Tickets : prev[t] # NoTicket => thread[prev[t]].who = thread[t].who
  /\ \A t \in Tickets : thread[t].live <=> \A u \in Tickets : prev[u] # t

(* A message is stored on a ticket of its sender, and a minted ticket is   *)
(* never without the message that minted it                                *)
(* (whatsapp-ingest.service.ts 273-318).                                   *)
NoEmptyTicket ==
  /\ \A m \in DOMAIN messages : thread[messages[m]].who = From[m]
  /\ \A t \in Tickets : prev[t] # NoTicket => \E m \in DOMAIN messages : messages[m] = t

(* resolved_at is set exactly on RESOLVED tickets, also when a PATCH moves *)
(* the ticket between the ingest's read and its UPDATE by id               *)
(* (whatsapp-ingest.service.ts 592-599).                                   *)
StampFollowsStatus == \A t \in Tickets : Stamped(rows[t])

(* However often Meta delivers a message, its automation events are        *)
(* emitted once, and the bot is started once for a ticket                  *)
(* (whatsapp-ingest.service.ts 250-258, 340-368, 448).                     *)
AnnouncedOnce ==
  [][\A w \in Handlers :
       handlers[w].phase = "after" /\ handlers'[w] # handlers[w] /\ announced' \cup greeted' # {} =>
         \/ handlers' = [v \in Handlers |-> Rest]
         \/ Mine(w) \notin announced /\ (handlers[w].minted => handlers[w].ticket \notin greeted)]_threadVars

(* A webhook request comes to its answer, whatever rows it waits for.      *)
RequestsEnd == []<>(\A w \in Handlers : handlers[w].phase = "idle")

(* A minted ticket does not stay in the queue while a member has room,     *)
(* although the drain scheduled for it may run before its commit           *)
(* (whatsapp-ingest.service.ts 748).                                       *)
QueueMoves ==
  []<>(\A t \in Tickets : Queued(t) => Eligible(rows[t].team) = {})

(* A customer's messages form one line of tickets, each with its messages  *)
(* and its stamp (findOrCreateTicket, ingestMessage).                      *)
ThreadsSound == ThreadsTypeOK /\ OneLinePerCustomer /\ NoEmptyTicket /\ StampFollowsStatus
=============================================================================
