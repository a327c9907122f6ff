----------------------------- MODULE EmailIngest -----------------------------
(***************************************************************************)
(* EmailInboxService: what one channel's mail does to tickets.  An inbound *)
(* mail joins the ticket of an ancestor, reopens it, wakes it, or mints a  *)
(* ticket; a mail sent from Gmail joins or is dropped.  Several ingests    *)
(* run at once (the INBOX and Sent connections, overlapping drains), and   *)
(* agents, sweeps and the queue change the same tickets meanwhile.         *)
(*                                                                         *)
(* Each ingest is one PostgreSQL transaction at READ COMMITTED: a step is  *)
(* a statement, a read sees what is committed when it runs, and an UPDATE  *)
(* waits for the row's lock and decides again on the row it then finds.    *)
(* What the ingest only triggers after its commit (automations, the drain  *)
(* for the picked agent) is modelled elsewhere; here the queue hands out   *)
(* tickets in one step.                                                    *)
(***************************************************************************)
EXTENDS TicketRow, FiniteSets, Sequences

CONSTANTS
  Mails,      \* external_message_ids
  Sent,       \* those seen in the Sent Mail folder
  Refs,       \* References and then In-Reply-To of a mail, oldest first
  Subject,    \* normalised subject of a mail
  Members,    \* pairs <<agent, team>> of team_member
  Workers,    \* ingests that may overlap
  FirstMail,  \* the mail that opened ticket 1
  FirstRows,  \* states ticket 1 may be in at the start
  Dtos,       \* PATCH bodies
  MaxEvents   \* PATCHes, presence changes and failures in a behaviour

ASSUME MailsAssumption ==
  /\ Sent \subseteq Mails /\ FirstMail \in Mails \ Sent
  /\ Refs \in [Mails -> Seq(Mails)] /\ DOMAIN Subject = Mails
ASSUME DtosAssumption ==
  /\ Dtos \subseteq PatchDto
  /\ \A dto \in Dtos : dto.status = "WAITING" <=> dto.waiting_action # "null"
ASSUME MembersAssumption == Members \subseteq Agents \X Teams
ASSUME MaxAssumption == MaxEvents \in Nat

(* A row whose columns agree: a timer exactly while it is paused, an       *)
(* action for the timer's end exactly while it WAITs, a stamp exactly      *)
(* while it is RESOLVED.                                                   *)
Coherent(row) ==
  /\ row.resume_at # "null" <=> row.status \in PausedStatus
  /\ row.waiting_action # "null" <=> row.status = "WAITING"
  /\ row.resolved_at # "null" <=> row.status = "RESOLVED"

ASSUME RowsAssumption == FirstRows \subseteq {row \in Row : Coherent(row)}

NoTicket == 0

VARIABLES
  rows,      \* the committed tickets; ids are 1, 2, ...
  prev,      \* previous_ticket_id
  messages,  \* email_message, in order of createdAt
  pres,      \* user.status: ONLINE, or anything else
  active,    \* user.deactivatedAt IS NULL
  txns,      \* the ingests in flight
  budget

vars == <<rows, prev, messages, pres, active, txns, budget>>

Tickets == DOMAIN rows
Inbound == Mails \ Sent
Phases  == {"idle", "find", "lock", "reopen", "wake", "waking", "refresh", "save", "reroute", "commit"}

Txn == [mail: Mails, phase: Phases, ticket: Nat, prev: Nat, lock: Nat,
        mode: {"none", "for update", "update"},
        row: Row, seen: Row, back: BOOLEAN, saved: BOOLEAN]

AnyRow == FreshRow(Bot, CHOOSE tm \in Teams : TRUE)
Idle(m) == [mail |-> m, phase |-> "idle", ticket |-> NoTicket, prev |-> NoTicket,
            lock |-> NoTicket, mode |-> "none", row |-> AnyRow, seen |-> AnyRow,
            back |-> FALSE, saved |-> FALSE]

Stored(m) == \E i \in DOMAIN messages : messages[i].mail = m
Home(m)   == (CHOOSE e \in {messages[i] : i \in DOMAIN messages} : e.mail = m).ticket
Spend     == budget > 0 /\ budget' = budget - 1

(* A transaction reads its own uncommitted write of the row it has locked. *)
View(w, t) == IF txns[w].lock = t THEN txns[w].row ELSE rows[t]
To(w, p)   == [txns EXCEPT ![w].phase = p]

(* isAssignable over columns {id, status, role}: deactivatedAt is not      *)
(* selected.                                                               *)
FallsBack(row) == row.assignee \in Agents /\ pres[row.assignee] # "ONLINE"
----------------------------------------------------------------------------
(* Who a statement has to wait for.  FOR UPDATE also waits for the KEY     *)
(* SHARE lock that an uncommitted email_message holds on its ticket.       *)

Holders(t) == {w \in Workers : txns[w].lock = t}
Sharers(t) == {w \in Workers : txns[w].saved /\ txns[w].ticket = t}
Savers(m)  == {w \in Workers : txns[w].saved /\ txns[w].mail = m}

Blockers(w) ==
  LET t == txns[w].ticket IN
  (CASE txns[w].phase = "lock" -> Holders(t) \cup Sharers(t)
     [] txns[w].phase \in {"reopen", "waking", "reroute"} -> Holders(t)
     [] txns[w].phase = "save" ->
          Savers(txns[w].mail) \cup
          {v \in Workers : v \in Holders(t) /\ t # NoTicket /\ txns[v].mode = "for update"}
     [] OTHER -> {}) \ {w}

(* Locks nobody in flight holds: what FOR UPDATE SKIP LOCKED may take.     *)
Free(t) == Holders(t) \cup Sharers(t) = {}
----------------------------------------------------------------------------
Init ==
  /\ rows \in [{1} -> FirstRows] /\ prev = [t \in {1} |-> NoTicket]
  /\ messages = <<[mail |-> FirstMail, ticket |-> 1]>>
  /\ pres = [a \in Agents |-> "ONLINE"] /\ active = [a \in Agents |-> TRUE]
  /\ txns = [w \in Workers |-> Idle(FirstMail)]
  /\ budget = MaxEvents

(* The idempotency check, then BEGIN.  The gates that drop a mail come     *)
(* before it and change nothing.                                           *)
IngestBegins(w, m) ==
  /\ txns[w].phase = "idle" /\ ~Stored(m)
  /\ txns' = [txns EXCEPT ![w] = [Idle(m) EXCEPT !.phase = "find"]]
  /\ UNCHANGED <<rows, prev, messages, pres, active, budget>>

(* The oldest ancestor stored; else the newest inbound mail of the sender  *)
(* with this subject; else the ticket this very mail opened.               *)
ByReferences(m) ==
  LET hits == {i \in DOMAIN Refs[m] : Stored(Refs[m][i])} IN
  IF hits = {} THEN NoTicket
  ELSE Home(Refs[m][CHOOSE i \in hits : \A j \in hits : i <= j])

BySubject(m) ==
  LET hits == {i \in DOMAIN messages : /\ messages[i].mail \in Inbound
                                       /\ Subject[messages[i].mail] = Subject[m]} IN
  IF hits = {} THEN NoTicket
  ELSE messages[CHOOSE i \in hits : \A j \in hits : j <= i].ticket

Opened(m) ==
  LET own == {i \in DOMAIN messages : /\ messages[i].mail = m
                                      /\ \A j \in 1 .. i - 1 : messages[j].ticket # messages[i].ticket} IN
  IF own = {} THEN NoTicket ELSE messages[CHOOSE i \in own : TRUE].ticket

Found(m) ==
  LET byRefs == ByReferences(m) IN
  IF byRefs # NoTicket THEN byRefs
  ELSE IF m \in Sent THEN NoTicket
  ELSE IF BySubject(m) # NoTicket THEN BySubject(m) ELSE Opened(m)

(* Mutant: a RESOLVED ticket is judged as read, without the row lock.      *)
FindsUnlocked(w) ==
  LET m == txns[w].mail
      t == Found(m)
      next == IF t = NoTicket THEN "save"
              ELSE IF rows[t].status # "RESOLVED" THEN "wake"
              ELSE IF rows[t].resolved_at = "recent" THEN "reopen" ELSE "save"
  IN
  /\ txns[w].phase = "find" /\ m \in Inbound
  /\ txns' = [txns EXCEPT ![w].phase = next,
                ![w].ticket = IF next = "save" THEN NoTicket ELSE t,
                ![w].prev = IF next = "save" THEN t ELSE NoTicket,
                ![w].back = next = "reopen" /\ FallsBack(rows[t])]
  /\ UNCHANGED <<rows, prev, messages, pres, active, budget>>

Finds(w) ==
  LET m == txns[w].mail
      t == Found(m)
  IN
  /\ txns[w].phase = "find" /\ m \in Inbound
  /\ txns' = [txns EXCEPT ![w].ticket = t, ![w].phase =
                IF t = NoTicket THEN "save"
                ELSE IF rows[t].status = "RESOLVED" THEN "lock" ELSE "wake"]
  /\ UNCHANGED <<rows, prev, messages, pres, active, budget>>

(* ingestSent takes no lock, opens no ticket and wakes nobody.             *)
FindsSent(w) ==
  LET t == Found(txns[w].mail)
      dropped == t = NoTicket \/ (rows[t].status = "RESOLVED" /\ rows[t].resolved_at # "recent")
  IN
  /\ txns[w].phase = "find" /\ txns[w].mail \in Sent
  /\ txns' = [txns EXCEPT ![w] =
       IF dropped THEN Idle(FirstMail)
       ELSE IF rows[t].status = "RESOLVED"
            THEN [@ EXCEPT !.ticket = t, !.phase = "reopen", !.back = FallsBack(rows[t])]
            ELSE [@ EXCEPT !.ticket = t, !.phase = "save"]]
  /\ UNCHANGED <<rows, prev, messages, pres, active, budget>>
----------------------------------------------------------------------------
(* SELECT ... FOR UPDATE of a ticket read as RESOLVED, and the decision on *)
(* the row it returns; past the window the lock stays and a ticket that    *)
(* continues this one is minted.                                           *)
Locks(w) ==
  LET t == txns[w].ticket
      locked == [txns[w] EXCEPT !.lock = t, !.mode = "for update", !.row = rows[t]]
  IN
  /\ txns[w].phase = "lock" /\ Blockers(w) = {}
  /\ txns' = [txns EXCEPT ![w] =
       IF rows[t].status # "RESOLVED" THEN [locked EXCEPT !.phase = "wake"]
       ELSE IF rows[t].resolved_at = "recent"
            THEN [locked EXCEPT !.phase = "reopen", !.back = FallsBack(rows[t])]
            ELSE [locked EXCEPT !.phase = "save", !.prev = t, !.ticket = NoTicket]]
  /\ UNCHANGED <<rows, prev, messages, pres, active, budget>>

Written(w, row) == [txns[w] EXCEPT !.lock = txns[w].ticket, !.row = row,
                      !.mode = IF @ = "none" THEN "update" ELSE @]

Reopened(row, back) == [row EXCEPT !.status = "OPEN", !.resolved_at = "null",
                          !.assignee = IF back THEN Bot ELSE @]

(* reopenResolved: UPDATE ... WHERE status = RESOLVED.  When it hits no    *)
(* row an inbound mail mints, and a sent one joins the ticket all the same.*)
Reopens(w) ==
  LET t == txns[w].ticket
      row == View(w, t)
      isSent == txns[w].mail \in Sent
  IN
  /\ txns[w].phase = "reopen" /\ Blockers(w) = {}
  /\ txns' = [txns EXCEPT ![w] =
       IF row.status = "RESOLVED"
       THEN [Written(w, Reopened(row, txns[w].back)) EXCEPT
               !.phase = IF isSent THEN "save" ELSE "wake", !.back = FALSE]
       ELSE [@ EXCEPT !.phase = "save", !.back = FALSE, !.ticket = IF isSent THEN t ELSE NoTicket,
                      !.prev = IF isSent THEN NoTicket ELSE t]]
  /\ UNCHANGED <<rows, prev, messages, pres, active, budget>>

(* wakeIfPaused reads the status and the owner's presence ...              *)
WakeReads(w) ==
  LET row == View(w, txns[w].ticket) IN
  /\ txns[w].phase = "wake"
  /\ txns' = [txns EXCEPT ![w].phase = IF row.status = "WAITING" THEN "waking" ELSE "refresh",
                          ![w].back = row.status = "WAITING" /\ FallsBack(row)]
  /\ UNCHANGED <<rows, prev, messages, pres, active, budget>>

WokenIn(w) ==
  LET row == View(w, txns[w].ticket) IN
  TimerReopened(row, IF txns[w].back THEN Bot ELSE row.assignee)

(* Mutants: the UPDATE forgets the timer; it is by id alone.               *)
WakeWritesStatusOnly(w) ==
  /\ txns[w].phase = "waking" /\ Blockers(w) = {}
  /\ txns' = [txns EXCEPT ![w] =
       IF View(w, txns[w].ticket).status = "WAITING"
       THEN [Written(w, [View(w, txns[w].ticket) EXCEPT !.status = "OPEN"])
               EXCEPT !.phase = "refresh", !.back = FALSE]
       ELSE [@ EXCEPT !.phase = "refresh", !.back = FALSE]]
  /\ UNCHANGED <<rows, prev, messages, pres, active, budget>>

WakeWritesAnyStatus(w) ==
  /\ txns[w].phase = "waking" /\ Blockers(w) = {}
  /\ txns' = [txns EXCEPT ![w] =
       [Written(w, WokenIn(w)) EXCEPT !.phase = "refresh", !.back = FALSE]]
  /\ UNCHANGED <<rows, prev, messages, pres, active, budget>>

(* ... and then runs UPDATE ... WHERE status = WAITING.                    *)
WakeWrites(w) ==
  /\ txns[w].phase = "waking" /\ Blockers(w) = {}
  /\ txns' = [txns EXCEPT ![w] =
       IF View(w, txns[w].ticket).status = "WAITING"
       THEN [Written(w, WokenIn(w)) EXCEPT !.phase = "refresh", !.back = FALSE]
       ELSE [@ EXCEPT !.phase = "refresh", !.back = FALSE]]
  /\ UNCHANGED <<rows, prev, messages, pres, active, budget>>

(* The ticket is read again: the row the reroute will decide on.           *)
Refreshes(w) ==
  /\ txns[w].phase = "refresh"
  /\ txns' = [txns EXCEPT ![w].phase = "save", ![w].seen = View(w, txns[w].ticket)]
  /\ UNCHANGED <<rows, prev, messages, pres, active, budget>>
----------------------------------------------------------------------------
(* INSERT of the message, and of the ticket when there is none (team by    *)
(* routing rule, parked on the BOT).  Both are unique by external id: they *)
(* wait for another insert of it, and throw when it has committed.         *)

SavedAs(w, tm) ==
  [txns[w] EXCEPT !.saved = TRUE,
     !.phase = IF @ = "save" /\ txns[w].ticket # NoTicket /\ txns[w].mail \in Inbound
               THEN "reroute" ELSE "commit",
     !.seen = IF txns[w].ticket = NoTicket THEN FreshRow(Bot, tm) ELSE @]

(* Mutant: only the check before BEGIN keeps a mail from coming twice.     *)
SavesUnchecked(w, tm) ==
  /\ txns[w].phase = "save"
  /\ txns' = [txns EXCEPT ![w] = SavedAs(w, tm)]
  /\ UNCHANGED <<rows, prev, messages, pres, active, budget>>

Saves(w, tm) ==
  /\ txns[w].phase = "save" /\ Blockers(w) = {} /\ ~Stored(txns[w].mail)
  /\ txns' = [txns EXCEPT ![w] = SavedAs(w, tm)]
  /\ UNCHANGED <<rows, prev, messages, pres, active, budget>>

(* Mutant: an insert that conflicts is tried again.                        *)
SaveRetries(w) ==
  /\ txns[w].phase = "save" /\ Stored(txns[w].mail)
  /\ UNCHANGED vars

SaveConflicts(w) ==
  /\ txns[w].phase = "save" /\ Stored(txns[w].mail)
  /\ txns' = [txns EXCEPT ![w] = Idle(FirstMail)]
  /\ UNCHANGED <<rows, prev, messages, pres, active, budget>>

(* rerouteOnCustomerMessage: team and owner decided on the row as it was   *)
(* refreshed, and written by id.                                           *)
Reroutes(w, tm) ==
  LET seen  == txns[w].seen
      owner == IF seen.assignee = Bot \/ <<seen.assignee, tm>> \in Members
               THEN seen.assignee ELSE Bot
      row   == [View(w, txns[w].ticket) EXCEPT !.team = tm, !.assignee = owner]
  IN
  /\ txns[w].phase = "reroute"
  /\ \/ tm = seen.team /\ txns' = To(w, "commit")
     \/ /\ tm # seen.team /\ Blockers(w) = {}
        /\ txns' = [txns EXCEPT ![w] = [Written(w, row) EXCEPT !.phase = "commit"]]
  /\ UNCHANGED <<rows, prev, messages, pres, active, budget>>

Joins(w) == txns[w].ticket # NoTicket

(* Mutant: the message of a minted ticket does not get its id.             *)
CommitsUnlinked(w) ==
  LET x == txns[w]
      t == Cardinality(Tickets) + 1
  IN
  /\ x.phase = "commit"
  /\ rows' = IF Joins(w) THEN [rows EXCEPT ![x.ticket] = View(w, x.ticket)] ELSE WithRow(rows, t, x.seen)
  /\ prev' = IF Joins(w) THEN prev ELSE WithRow(prev, t, x.prev)
  /\ messages' = Append(messages, [mail |-> x.mail, ticket |-> x.ticket])
  /\ txns' = [txns EXCEPT ![w] = Idle(FirstMail)]
  /\ UNCHANGED <<pres, active, budget>>

Commits(w) ==
  LET x == txns[w]
      t == IF Joins(w) THEN x.ticket ELSE Cardinality(Tickets) + 1
  IN
  /\ x.phase = "commit"
  /\ rows' = IF Joins(w) THEN [rows EXCEPT ![t] = View(w, t)] ELSE WithRow(rows, t, x.seen)
  /\ prev' = IF Joins(w) THEN prev ELSE WithRow(prev, t, x.prev)
  /\ messages' = Append(messages, [mail |-> x.mail, ticket |-> t])
  /\ txns' = [txns EXCEPT ![w] = Idle(FirstMail)]
  /\ UNCHANGED <<pres, active, budget>>

(* A statement fails or the process dies: the transaction rolls back.      *)
Fails(w) ==
  /\ txns[w].phase # "idle" /\ Spend
  /\ txns' = [txns EXCEPT ![w] = Idle(FirstMail)]
  /\ UNCHANGED <<rows, prev, messages, pres, active>>

(* PostgreSQL ends a wait in a circle by failing one of the two.           *)
DeadlockDetected(w) ==
  /\ \E v \in Blockers(w) : w \in Blockers(v)
  /\ txns' = [txns EXCEPT ![w] = Idle(FirstMail)]
  /\ UNCHANGED <<rows, prev, messages, pres, active, budget>>
----------------------------------------------------------------------------
(* What else happens to the tickets, each a transaction in one step.       *)

SweepEnds(t) ==
  /\ Ripe(rows[t]) /\ rows[t].status = "WAITING" /\ Free(t)
  /\ rows' = [rows EXCEPT ![t] = IF @.waiting_action = "REOPEN"
                 THEN TimerReopened(@, IF FallsBack(@) THEN Bot ELSE @.assignee)
                 ELSE TimerResolved(@)]
  /\ UNCHANGED <<prev, messages, pres, active, txns, budget>>

QueueAssigns(t, a) ==
  /\ rows[t].status = "OPEN" /\ rows[t].assignee = Bot /\ Free(t)
  /\ pres[a] = "ONLINE" /\ active[a] /\ <<a, rows[t].team>> \in Members
  /\ rows' = [rows EXCEPT ![t] = Assigned(@, a)]
  /\ UNCHANGED <<prev, messages, pres, active, txns, budget>>

Patches(t, dto) ==
  /\ Holders(t) = {} /\ ~Refused(rows[t], dto) /\ Spend
  /\ rows' = [rows EXCEPT ![t] = Patched(@, @, dto)]
  /\ UNCHANGED <<prev, messages, pres, active, txns>>

TimePasses(t) ==
  /\ \/ rows[t].resume_at = "pending" /\ rows' = [rows EXCEPT ![t].resume_at = "ripe"]
     \/ rows[t].resolved_at = "recent" /\ rows' = [rows EXCEPT ![t].resolved_at = "old"]
  /\ Holders(t) = {}
  /\ UNCHANGED <<prev, messages, pres, active, txns, budget>>

PresenceChanges(a) ==
  /\ Spend
  /\ \/ pres' = [pres EXCEPT ![a] = IF @ = "ONLINE" THEN "AWAY" ELSE "ONLINE"] /\ UNCHANGED active
     \/ active' = [active EXCEPT ![a] = ~@] /\ UNCHANGED pres
  /\ UNCHANGED <<rows, prev, messages, txns>>

IngestStep(w) ==
  \/ Finds(w) \/ FindsSent(w) \/ Locks(w) \/ Reopens(w) \/ WakeReads(w) \/ WakeWrites(w)
  \/ Refreshes(w) \/ SaveConflicts(w) \/ Commits(w) \/ DeadlockDetected(w)
  \/ \E tm \in Teams : Saves(w, tm) \/ Reroutes(w, tm)

Others ==
  \/ \E t \in Tickets : \/ SweepEnds(t) \/ TimePasses(t)
                        \/ \E a \in Agents : QueueAssigns(t, a)
                        \/ \E dto \in Dtos : Patches(t, dto)
  \/ \E a \in Agents : PresenceChanges(a)

Next ==
  \/ \E w \in Workers : \/ IngestStep(w) \/ Fails(w)
                        \/ \E m \in Mails : IngestBegins(w, m)
  \/ Others

Spec == Init /\ [][Next]_vars

(* Statements return and awaits resume; nothing makes mail come.           *)
LiveSpec == Spec /\ \A w \in Workers : WF_vars(IngestStep(w))
----------------------------------------------------------------------------
(* The tables and the transactions' locals range over their columns.       *)
TypeOK ==
  /\ rows \in [Tickets -> Row] /\ prev \in [Tickets -> Tickets \cup {NoTicket}]
  /\ messages \in Seq([mail: Mails, ticket: Tickets])
  /\ pres \in [Agents -> {"ONLINE", "AWAY"}] /\ active \in [Agents -> BOOLEAN]
  /\ txns \in [Workers -> Txn] /\ budget \in Nat

(* A mail is stored once and opens at most one ticket, and no ticket is    *)
(* left without the mail that opened it, although the idempotency check    *)
(* runs before the transaction and drains overlap                          *)
(* (email-inbox.service.ts 76-79).                                         *)
EachMailOnce ==
  /\ \A i, j \in DOMAIN messages : messages[i].mail = messages[j].mail => i = j
  /\ \A t \in Tickets : \E i \in DOMAIN messages : messages[i].ticket = t

Contract == INSTANCE TicketContract WITH
              tickets <- [t \in Tickets |-> Promised(rows[t])],
              asked <- [t \in Tickets |-> budget],
              heard <- [t \in Tickets |-> {i \in DOMAIN messages : messages[i].ticket = t}]

(* What overlapping ingests, sweeps and PATCHes do to tickets is what      *)
(* TicketContract allows, one customer's message at a time, although an    *)
(* ingest decides on rows it read statements before it writes.             *)
KeepsContract == Contract!Spec

(* Reopening and waking leave a ticket's timer, its action and its         *)
(* resolution stamp in step with its status, whatever the sweep or a PATCH *)
(* does between their statements.                                          *)
TicketsCoherent == \A t \in Tickets : Coherent(rows[t])

(* However ingests overlap: each mail once, and tickets that make sense.   *)
MailsKept == EachMailOnce /\ TicketsCoherent

Ends(w) == txns[w].phase = "commit" /\ txns'[w].phase = "idle" /\ messages' # messages

(* A customer's mail never ends a followup pause, even when the ticket     *)
(* went into it after the ingest had read it as WAITING                    *)
(* (ticket-lifecycle.service.ts 532-548; the class comment, 94-97, says    *)
(* the opposite: a reply wakes WAITING or IN_FOLLOWUP).                    *)
FollowupStands ==
  \A w \in Workers : Ends(w) /\ Joins(w) =>
    LET t == txns[w].ticket IN
    rows[t].status = "IN_FOLLOWUP" =>
      rows'[t].status = "IN_FOLLOWUP" /\ rows'[t].resume_at = rows[t].resume_at

(* A ticket that continues another is minted only while that one is        *)
(* RESOLVED and past its window: no PATCH or other mail has reopened it    *)
(* since the decision (email-inbox.service.ts 213-229).                    *)
ContinuesResolved ==
  \A t \in DOMAIN rows' \ Tickets :
    prev'[t] # NoTicket => /\ rows[prev'[t]].status = "RESOLVED"
                           /\ rows[prev'[t]].resolved_at = "old"

(* What an ingest decided on a row it read is still so when it writes.     *)
DecisionsHold == [][FollowupStands /\ ContinuesResolved]_vars

(* Every ingest comes to its commit or its error: transactions that wait   *)
(* for each other's rows and messages do not wait for ever.                *)
IngestEnds == \A w \in Workers : txns[w].phase # "idle" ~> txns[w].phase = "idle"
----------------------------------------------------------------------------
(* What comments of the code promise and the code does not keep.           *)

Live(t) == rows[t].status # "RESOLVED"

(* The ticket a reply belongs to is one that holds a message of its chain  *)
(* (email-inbox.service.ts 171-175): no ticket is minted while one of      *)
(* those is still live.                                                    *)
MintsOnlyForDeadThreads ==
  [][\A w \in Workers : Ends(w) /\ ~Joins(w) =>
       \A i \in DOMAIN Refs[txns[w].mail] :
         Stored(Refs[txns[w].mail][i]) => ~Live(Home(Refs[txns[w].mail][i]))]_vars
=============================================================================
