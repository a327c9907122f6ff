------------------------------- MODULE Inbox -------------------------------
(***************************************************************************)
(* The inbox: the list by pages, the counts of its tabs and the unread     *)
(* numbers, read while messages come in and others work on the same        *)
(* tickets.                                                                *)
(*                                                                         *)
(* The createdAt of a row is the start of the transaction that brings it;  *)
(* readers see it when that commits. Every transaction has a time of its   *)
(* own.                                                                    *)
(***************************************************************************)
EXTENDS Naturals, FiniteSetsExt

CONSTANTS PageSize,   \* the limit of one list request
          InboxCases  \* [rows, notes, asks, now]

Readers == {"me", "you"}

(* Nothing that is there has the time of something else that is there,     *)
(* but for a ticket and the message that minted it.                        *)
TimesApart(rows, there, notes) ==
  /\ \A s, t \in there : rows[s].born = rows[t].born => s = t
  /\ \A m, n \in notes : m.at = n.at => m = n
  /\ \A m \in notes, t \in there : m.at = rows[t].born => m.t = t

InboxRequest(q, tickets) ==
  /\ q.op \in {"note", "row", "mark"} => q.t \in tickets
  /\ q.op = "row" => q.status # "none"
  /\ q.op = "mark" => q.by \in Readers
  /\ q.op \in {"list", "counts"} =>
       q.query = [scope |-> q.query.scope, text |-> q.query.text, statuses |-> q.query.statuses,
                  bot |-> q.query.bot, owners |-> q.query.owners, sort |-> q.query.sort]
InboxCaseOK(c) ==
  LET there == {t \in DOMAIN c.rows : c.rows[t].status # "none"} IN
  /\ IsFiniteSet(DOMAIN c.rows) /\ IsFiniteSet(c.notes) /\ c.now \in Nat
  /\ \A m \in c.notes : m.t \in there /\ m.at \in 1..c.now
  /\ \A t \in there : c.rows[t].born \in 1..c.now
  /\ TimesApart(c.rows, there, c.notes)
  /\ \A q \in c.asks : InboxRequest(q, DOMAIN c.rows)
ASSUME InboxAssumption == PageSize \in Nat \ {0} /\ \A c \in InboxCases : InboxCaseOK(c)

VARIABLES inboxRows,      \* ticket: [status, by, born]; status "none" is not there yet
          inboxNotes,     \* message rows: [t, at, inbound, words]
          arriving,       \* ingests and replies under way
          readAt,         \* ticket_read_state: <<user, ticket>> -> last_read_at
          whatWas,        \* what was there, or on its way, at that mark (a history)
          marking,        \* marks whose reader was found to be the assignee
          moment,         \* the database's clock
          asked,          \* what the reader asks for
          reading,        \* how far his list or his counts are
          inboxDue        \* what is still to come

inboxVars == <<inboxRows, inboxNotes, arriving, readAt, whatWas, marking, moment, asked, reading, inboxDue>>
InboxTickets == DOMAIN inboxRows
InTheInbox == {t \in InboxTickets : inboxRows[t].status # "none"}
----------------------------------------------------------------------------
(* What a list request asks for                                            *)

(* Search widens a member's own list to every ticket.                      *)
InScope(q, t) ==
  CASE q.scope = "mine"       -> q.text # "" \/ inboxRows[t].by = "me"
    [] q.scope = "unassigned" -> inboxRows[t].by = "bot"
    [] OTHER                  -> TRUE
Refused(q, role) == q.scope # "mine" /\ role # "ADMIN"
(* By the number of the ticket, or in the senders and subjects on it; a    *)
(* subject may name another ticket's number.                               *)
Searched(q, t) == q.text \in {"", t} \/ \E m \in inboxNotes : m.t = t /\ q.text \in m.words
HeldByBot(t) == inboxRows[t].by = "bot"
OfAHuman(q, t) == (q.bot = "true" => HeldByBot(t)) /\ (q.bot = "false" => inboxRows[t].by \in Readers)
OnTab(q, t) == (q.bot = "true" => HeldByBot(t)) /\ (q.bot = "false" => ~HeldByBot(t))
(* The filter by channel is a column more, of the form of the owners'.     *)
Matching(q) ==
  {t \in InTheInbox : /\ q.statuses # {} => inboxRows[t].status \in q.statuses
                      /\ q.owners # {} => inboxRows[t].by \in q.owners
                      /\ Searched(q, t) /\ OnTab(q, t) /\ InScope(q, t)}

(* The newest message of a ticket, or else the ticket.                     *)
TimesOf(t) ==
  LET ats == {m.at : m \in {n \in inboxNotes : n.t = t}} IN IF ats = {} THEN {inboxRows[t].born} ELSE ats
LatestAt(t) == Max(TimesOf(t))
SortKey(q, t) == IF q.sort = "created" THEN inboxRows[t].born ELSE LatestAt(t)
OldestFirst(q, s, t) == SortKey(q, s) < SortKey(q, t)
Above(q, s, t) == SortKey(q, s) > SortKey(q, t)
(* ORDER BY ... DESC LIMIT PageSize OFFSET offset.                         *)
Place(q, t) == Cardinality({s \in Matching(q) : Above(q, s, t)})
PageAt(q, offset) == {t \in Matching(q) : Place(q, t) \in offset..offset + PageSize - 1}

(* unreadCountsFor: a reader who never opened the ticket has all to read.  *)
Unread(a, t) ==
  {m \in inboxNotes : m.t = t /\ m.inbound /\ (readAt[<<a, t>>] = 0 \/ m.at > readAt[<<a, t>>])}
----------------------------------------------------------------------------
(* The readers' requests                                                   *)

Everything == [scope |-> "all", text |-> "", statuses |-> {}, bot |-> "any", owners |-> {}, sort |-> "latest"]
NotReading == [kind |-> "none"]
(* Tickets that a step takes off the list being read.                      *)
LeftList == Matching(asked) \ Matching(asked)'
(* What moves under a reader: the rows change, a message is committed.     *)
Noticed(left, bumped) ==
  reading' = CASE reading.kind = "list" ->
                    [reading EXCEPT !.left = @ \cup left, !.bumped = @ \cup bumped]
               [] reading.kind \in {"counts", "counted"} -> [reading EXCEPT !.changes = @ + 1]
               [] OTHER -> reading

Tables == <<inboxRows, inboxNotes, arriving, readAt, whatWas, marking, moment, inboxDue>>
ListStarts(q, role) ==
  /\ reading.kind = "none" /\ ~Refused(q, role)
  /\ asked' = q
  /\ reading' = [kind |-> "list", shown |-> {}, offset |-> 0, done |-> FALSE,
                 throughout |-> Matching(q), left |-> {}, bumped |-> {}]
  /\ UNCHANGED Tables
(* The next page, from the number of rows the reader has.                  *)
ListPages ==
  /\ reading.kind = "list" /\ ~reading.done
  /\ LET page == PageAt(asked, reading.offset)
         n    == Cardinality(page) IN
     reading' = [reading EXCEPT !.shown = @ \cup page, !.offset = @ + n, !.done = n < PageSize]
  /\ UNCHANGED asked /\ UNCHANGED Tables
ReadingEnds ==
  /\ reading.kind \in {"list", "counted"} /\ (reading.kind = "list" => reading.done) /\ reading' = NotReading
  /\ UNCHANGED asked /\ UNCHANGED Tables

(* counts: by status, then the bot's OPEN ones; no filter by status.       *)
CountsStart(q, role) ==
  /\ reading.kind = "none" /\ ~Refused(q, role)
  /\ LET all == Matching([q EXCEPT !.statuses = {}, !.bot = "any"]) IN
     /\ asked' = q
     /\ reading' = [kind |-> "counts", open |-> Cardinality({t \in all : inboxRows[t].status = "OPEN"}),
                    bot |-> 0, changes |-> 0]
  /\ UNCHANGED Tables
CountsEnd ==
  /\ reading.kind = "counts"
  /\ reading' = [reading EXCEPT !.kind = "counted",
                   !.bot = Cardinality(Matching([asked EXCEPT !.statuses = {"OPEN"}, !.bot = "true"]))]
  /\ UNCHANGED asked /\ UNCHANGED Tables

(* markRead: only for the assignee, only for him; he is looked up first,   *)
(* and may have lost the ticket when the row is written.                   *)
MarkLooks(q) ==
  /\ q.op = "mark" /\ inboxDue' = inboxDue \ {q}
  /\ marking' = IF inboxRows[q.t].status # "none" /\ inboxRows[q.t].by = q.by THEN marking \cup {q} ELSE marking
  /\ UNCHANGED <<inboxRows, inboxNotes, arriving, readAt, whatWas, moment, asked, reading>>
MarkForAll(a, t) == [k \in DOMAIN readAt |-> IF k[2] = t THEN moment + 1 ELSE readAt[k]]
MarkFor(a, t) == [k \in DOMAIN readAt |-> IF k = <<a, t>> THEN moment + 1 ELSE readAt[k]]
MarksRead(q) ==
  /\ marking' = marking \ {q} /\ moment' = moment + 1
  /\ readAt' = MarkFor(q.by, q.t) /\ whatWas' = [whatWas EXCEPT ![<<q.by, q.t>>] = inboxNotes \cup arriving]
  /\ UNCHANGED <<inboxRows, inboxNotes, arriving, asked, reading, inboxDue>>
----------------------------------------------------------------------------
(* What moves meanwhile                                                    *)

(* A customer's message, or a reply on a ticket there is.                  *)
NoteBegins(q) ==
  /\ q.op = "note" /\ (~q.inbound => q.t \in InTheInbox)
  /\ inboxDue' = inboxDue \ {q} /\ moment' = moment + 1
  /\ arriving' = arriving \cup {[t |-> q.t, at |-> moment + 1, inbound |-> q.inbound, words |-> q.words]}
  /\ UNCHANGED <<inboxRows, inboxNotes, readAt, whatWas, marking, asked, reading>>
(* Its transaction mints the ticket, in the bot's queue, or wakes or       *)
(* reopens it; the bot may get it back then (its owner is not online) or   *)
(* when it moves to a team its owner is no member of.                      *)
Received(n, row) ==
  IF row.status = "none" THEN {[status |-> "OPEN", by |-> "bot", born |-> n.at]}
  ELSE {[status |-> IF row.status \in {"WAITING", "RESOLVED"} THEN "OPEN" ELSE row.status, by |-> b, born |-> row.born] :
         b \in {row.by} \cup (IF row.by \in Readers THEN {"bot"} ELSE {})}
NoteCommits(n) ==
  /\ arriving' = arriving \ {n} /\ inboxNotes' = inboxNotes \cup {n}
  /\ \E row \in IF n.inbound THEN Received(n, inboxRows[n.t]) ELSE {inboxRows[n.t]} :
       inboxRows' = [inboxRows EXCEPT ![n.t] = row]
  /\ UNCHANGED <<readAt, whatWas, marking, moment, asked, inboxDue>>
  /\ Noticed(LeftList, {n.t})
(* An agent's PATCH, a drain, a sweep.                                     *)
RowChanges(q) ==
  /\ q.op = "row" /\ q.t \in InTheInbox /\ inboxDue' = inboxDue \ {q}
  /\ inboxRows' = [inboxRows EXCEPT ![q.t] = [status |-> q.status, by |-> q.by, born |-> @.born]]
  /\ UNCHANGED <<inboxNotes, arriving, readAt, whatWas, marking, moment, asked>>
  /\ Noticed(LeftList, {})

InboxInit(c) ==
  /\ inboxRows = c.rows /\ inboxNotes = c.notes /\ arriving = {} /\ marking = {}
  /\ readAt = [k \in Readers \X DOMAIN c.rows |-> 0] /\ whatWas = [k \in Readers \X DOMAIN c.rows |-> {}]
  /\ moment = c.now /\ asked = Everything /\ reading = NotReading /\ inboxDue = c.asks
InboxNext ==
  \/ \E q \in inboxDue : MarkLooks(q) \/ NoteBegins(q) \/ RowChanges(q)
  \/ \E q \in inboxDue : q.op = "list" /\ ListStarts(q.query, q.role)
  \/ \E q \in inboxDue : q.op = "counts" /\ CountsStart(q.query, q.role)
  \/ ListPages \/ ReadingEnds \/ CountsEnd
  \/ \E q \in marking : MarksRead(q)
  \/ \E n \in arriving : NoteCommits(n)
InboxSpec == (\E c \in InboxCases : InboxInit(c)) /\ [][InboxNext]_inboxVars
----------------------------------------------------------------------------
(* A customer's message that was not there when its reader marked the      *)
(* ticket read is counted, unless its transaction had begun by then; one   *)
(* that was there is not (markRead, unreadCountsFor).                      *)
UnreadShown ==
  \A a \in Readers, m \in inboxNotes :
    m.inbound => (m \in Unread(a, m.t) <=> m \notin whatWas[<<a, m.t>>])

(* The Open tab's number, open less bot, is the length of its list when    *)
(* nothing moved between the two queries, and off by no more than what     *)
(* moved (counts, list).                                                   *)
TabsAddUp ==
  reading.kind = "counted" =>
    LET real == Cardinality(Matching([asked EXCEPT !.statuses = {"OPEN"}, !.bot = "false"])) IN
    /\ reading.open <= real + reading.bot + reading.changes
    /\ real + reading.bot <= reading.open + reading.changes

(* A reader who pages to the end has had every ticket that was on the list *)
(* throughout and got no message, unless another left it meanwhile (list). *)
PagesCover ==
  reading.kind = "list" /\ reading.done /\ reading.left = {} => reading.throughout \ reading.bumped \subseteq reading.shown

(* The numbers a reader is shown, on tickets and tabs, are true but for    *)
(* what moved while they were read, and pages leave out nothing that stood *)
(* still (unreadCountsFor, counts, list).                                  *)
InboxSound == UnreadShown /\ TabsAddUp /\ PagesCover
=============================================================================
