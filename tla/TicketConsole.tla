--------------------------- MODULE TicketConsole ---------------------------
(***************************************************************************)
(* What an agent does to a ticket (TicketsService): patch its status and   *)
(* tags, one by one or in bulk, reply by e-mail or WhatsApp, send a        *)
(* template. Owners, timers and queues are those of TicketLifecycle and    *)
(* are left out here.                                                      *)
(*                                                                         *)
(* A patch is checked against the tag policy, reads the row in a           *)
(* transaction without a lock, writes by id, and speaks after the commit.  *)
(* A reply goes out before it is stored. Requests interleave in between.   *)
(***************************************************************************)
EXTENDS Naturals, Sequences, FiniteSets, SequencesExt

CONSTANTS Tickets,
          TagNames,  \* names a request may use
          NoTags,    \* the tags of a patch that leaves them alone
          ConsoleCases \* [tags, policy, comes, breaks]: what there is and what comes

Statuses == {"OPEN", "WAITING", "IN_FOLLOWUP", "RESOLVED"}
Patching == {"patch", "bulk"}
Replying == {"mail", "whatsapp", "template"}

(* What the DTOs let through.                                              *)
ConsoleRequest(a) ==
  /\ a.op \in Patching \cup Replying \cup {"untag"} /\ a.quote \in BOOLEAN
  /\ a.op \in Patching =>
       /\ a.t \in (IF a.op = "bulk" THEN Seq(Tickets) ELSE Tickets)
       /\ a.status \in Statuses \cup {"same"} /\ (a.tags = NoTags \/ a.tags \subseteq TagNames)

ASSUME ConsoleAssumption ==
  \A c \in ConsoleCases :
    /\ c.tags \in [Tickets -> SUBSET (TagNames \ {"unlisted"})] /\ c.breaks \in Nat
    /\ \A a \in c.comes : ConsoleRequest(a)

VARIABLES ticket,   \* [Tickets -> [status, tags]]
          known,    \* names in the tag table
          required, \* setting: a tag is needed to close
          window,   \* [Tickets -> whether the last inbound message is under a day old]
          last,     \* [Tickets -> the last status event emitted]
          job,      \* the progress of each request that comes:
                    \* [id, op, t, status, waiting, resume, tags, pieces, quote]
          overlap,  \* whether another request wrote while it was under way
          faults    \* failures left to happen

consoleVars == <<ticket, known, required, window, last, job, overlap, faults>>

Job == [phase |-> "ready", todo |-> <<>>, overlay |-> [t \in Tickets |-> {}],
        row |-> [status |-> "OPEN", tags |-> {}], out |-> <<>>, rows |-> 0, logged |-> FALSE, hits |-> 0]
Finished == {"done", "refused", "dead"}
Busy(a) == job[a].phase \notin Finished \cup {"ready"}

To(a, phase) == job' = [job EXCEPT ![a].phase = phase]
Marks(a) == overlap' = [b \in DOMAIN job |-> overlap[b] \/ (b # a /\ Busy(b))]
Else == UNCHANGED <<known, required, faults>>

(***************************************************************************)
(* Patches                                                                 *)
(***************************************************************************)
Current(a) == IF a.op = "bulk" THEN Head(job[a].todo) ELSE a.t
Wanted(a) == a.status

(* bulkUpdate reads the tags of all its tickets once.                      *)
BulkReads(a) ==
  /\ a.op = "bulk" /\ job[a].phase = "ready"
  /\ job' = [job EXCEPT ![a].phase = "asserting", ![a].todo = a.t,
                        ![a].overlay = [t \in Tickets |-> ticket[t].tags]]
  /\ Else /\ UNCHANGED <<ticket, window, last, overlap>>

MergedNew(a) == a.tags

Merged(a) == job[a].overlay[Current(a)] \cup a.tags
BodyTags(a) == IF a.op = "bulk" /\ a.tags # NoTags THEN Merged(a) ELSE a.tags

Closing(a) == a.status = "RESOLVED" \/ (a.status = "WAITING" /\ a.waiting = "AUTO_RESOLVE")

EffectiveOrRow(a, row) == IF a.tags \in {NoTags, {}} THEN row.tags ELSE BodyTags(a)

Effective(a, row) == IF a.tags = NoTags THEN row.tags ELSE BodyTags(a)

(* TagRequirementService.assertSatisfied, before the transaction.          *)
Begins(a) == \/ a.op = "patch" /\ job[a].phase = "ready"
             \/ a.op = "bulk" /\ job[a].phase = "asserting" /\ job[a].todo # <<>>
Stops(a) == IF a.op = "patch" THEN To(a, "refused")
            ELSE job' = [job EXCEPT ![a].phase = "asserting", ![a].todo = Tail(@)]

Asserts(a) ==
  /\ a.op \in Patching /\ Begins(a)
  /\ LET row == ticket[Current(a)] IN
     IF required /\ Closing(a) /\ row.status # a.status /\ Effective(a, row) = {}
       THEN Stops(a) ELSE To(a, "asserted")
  /\ Else /\ UNCHANGED <<ticket, window, last, overlap>>

MovesAnyway(a, row) == a.status # "same"

Moves(a, row) == a.status \notin {"same", row.status}
Added(a, row) == IF a.tags = NoTags THEN {} ELSE BodyTags(a) \ row.tags

ValidUntagged(a, row) ==
  /\ a.resume <=> (Moves(a, row) /\ a.status \in {"WAITING", "IN_FOLLOWUP"})
  /\ (a.waiting # "-") <=> (Moves(a, row) /\ a.status = "WAITING")

(* The rules of a transition: a pause says how long and what then, and     *)
(* nothing else does; a new tag is in the table.                           *)
Valid(a, row) ==
  /\ a.resume <=> (Moves(a, row) /\ a.status \in {"WAITING", "IN_FOLLOWUP"})
  /\ (a.waiting # "-") <=> (Moves(a, row) /\ a.status = "WAITING")
  /\ Added(a, row) \subseteq known
TxReads(a) ==
  /\ a.op \in Patching /\ job[a].phase = "asserted"
  /\ LET row == ticket[Current(a)] IN
     IF Valid(a, row) THEN job' = [job EXCEPT ![a].phase = "read", ![a].row = row] ELSE Stops(a)
  /\ Else /\ UNCHANGED <<ticket, window, last, overlap>>

(* UPDATE by id of the fields the patch found changed.                     *)
TxWrites(a) ==
  /\ a.op \in Patching /\ job[a].phase = "read"
  /\ LET t == Current(a)
         row == job[a].row IN
     ticket' = [ticket EXCEPT ![t] = [status |-> IF Moves(a, row) THEN a.status ELSE @.status,
                                      tags |-> IF a.tags = NoTags \/ BodyTags(a) = row.tags THEN @.tags
                                               ELSE BodyTags(a)]]
  /\ To(a, "written") /\ Marks(a) /\ Else /\ UNCHANGED <<window, last>>

Event(a, row) == IF ~Moves(a, row) THEN "none"
                 ELSE IF a.status = "RESOLVED" THEN "RESOLVED"
                 ELSE IF row.status = "RESOLVED" THEN "REOPENED" ELSE "none"

(* After the commit: the events, and the next ticket of a bulk update.     *)
Ends(a) == IF a.op = "patch" THEN To(a, "done") ELSE Stops(a)

Speaks(a) ==
  /\ a.op \in Patching /\ job[a].phase = "written"
  /\ LET e == Event(a, job[a].row) IN
     last' = IF e = "none" THEN last ELSE [last EXCEPT ![Current(a)] = e]
  /\ Ends(a) /\ Else /\ UNCHANGED <<ticket, window, overlap>>

(* onCapacityFreed or the read-back throws: committed, nothing emitted.    *)
SpeechLost(a) ==
  /\ a.op \in Patching /\ job[a].phase = "written"
  /\ faults > 0 /\ faults' = faults - 1
  /\ last' = [last EXCEPT ![Current(a)] = "unknown"]
  /\ Ends(a) /\ UNCHANGED <<ticket, known, required, window, overlap>>

BulkEnds(a) ==
  /\ a.op = "bulk" /\ job[a].phase = "asserting" /\ job[a].todo = <<>>
  /\ To(a, "done") /\ Else /\ UNCHANGED <<ticket, window, last, overlap>>

(***************************************************************************)
(* Replies                                                                 *)
(***************************************************************************)
(* reply, replyWhatsapp, sendTemplate: the looks before anything is sent.  *)
Sendable(a) ==
  /\ a.op # "template" => ticket[a.t].status # "RESOLVED"
  /\ a.op = "whatsapp" => window[a.t] /\ a.pieces # <<>>

ReplyLooks(a) ==
  /\ a.op \in Replying /\ job[a].phase = "ready"
  /\ IF Sendable(a) THEN job' = [job EXCEPT ![a].phase = "sending", ![a].todo = a.pieces]
     ELSE To(a, "refused")
  /\ Else /\ UNCHANGED <<ticket, window, last, overlap>>

(* The quote goes with the first piece that is sent.                       *)
QuotesEvery(a) == a.quote

Quotes(a) == a.quote /\ \A i \in 1..Len(job[a].out) : ~job[a].out[i]

Sends(a) ==
  /\ a.op \in Replying /\ job[a].phase = "sending"
  /\ job' = [job EXCEPT ![a].out = Append(@, Quotes(a)), ![a].todo = Tail(@),
                        ![a].phase = IF Len(job[a].todo) = 1 THEN "storing" ELSE "sending"]
  /\ Else /\ UNCHANGED <<ticket, window, last, overlap>>

(* A piece is refused: those before it have gone out and are stored.       *)
AfterRefusalGivesUp(a) == "refused"

AfterRefusal(a) == IF job[a].out = <<>> THEN "refused" ELSE "salvaging"

SendFails(a) ==
  /\ a.op \in Replying /\ job[a].phase = "sending"
  /\ faults > 0 /\ faults' = faults - 1
  /\ job' = [job EXCEPT ![a].phase = AfterRefusal(a), ![a].hits = @ + 1]
  /\ UNCHANGED <<ticket, known, required, window, last, overlap>>

(* One transaction for the messages, the attachments and the log entry.    *)
Stores(a) ==
  /\ job[a].phase \in {"storing", "salvaging"}
  /\ job' = [job EXCEPT ![a].rows = Len(job[a].out),
                        ![a].phase = IF @ = "storing" THEN "done" ELSE "refused"]
  /\ Else /\ UNCHANGED <<ticket, window, last, overlap>>

(* It fails: an activity entry says so instead; not for a template, nor    *)
(* for the pieces before a refused one.                                    *)
StoreFails(a) ==
  /\ job[a].phase \in {"storing", "salvaging"}
  /\ faults > 0 /\ faults' = faults - 1
  /\ job' = [job EXCEPT ![a].hits = @ + 1,
                        ![a].phase = IF @ = "storing" /\ a.op # "template" THEN "compensating" ELSE "refused"]
  /\ UNCHANGED <<ticket, known, required, window, last, overlap>>

Compensates(a) ==
  /\ job[a].phase = "compensating"
  /\ job' = [job EXCEPT ![a].phase = "refused", ![a].logged = TRUE]
  /\ Else /\ UNCHANGED <<ticket, window, last, overlap>>

CompensationFails(a) ==
  /\ job[a].phase = "compensating"
  /\ faults > 0 /\ faults' = faults - 1
  /\ job' = [job EXCEPT ![a].phase = "refused", ![a].hits = @ + 1]
  /\ UNCHANGED <<ticket, known, required, window, last, overlap>>

(* The process stops: what was committed and not yet spoken of stays so.   *)
Unspoken == {Current(a) : a \in {b \in DOMAIN job : job[b].phase = "written"}}

ConsoleCrash ==
  /\ faults > 0 /\ faults' = faults - 1
  /\ job' = [a \in DOMAIN job |-> IF Busy(a) THEN [job[a] EXCEPT !.phase = "dead"] ELSE job[a]]
  /\ last' = [t \in Tickets |-> IF t \in Unspoken THEN "unknown" ELSE last[t]]
  /\ UNCHANGED <<ticket, known, required, window, overlap>>

(* TagsService.remove: the name goes from the table, not from the tickets. *)
TagRemoved(a) ==
  /\ a.op = "untag" /\ job[a].phase = "ready" /\ known' = known \ a.tags /\ To(a, "done")
  /\ Marks(a) /\ UNCHANGED <<ticket, required, window, last, faults>>

WindowCloses(t) ==
  /\ window[t] /\ window' = [window EXCEPT ![t] = FALSE]
  /\ Else /\ UNCHANGED <<ticket, last, job, overlap>>

ConsoleInit(tags, policy, comes, breaks) ==
  /\ ticket = [t \in Tickets |-> [status |-> "OPEN", tags |-> tags[t]]]
  /\ known = TagNames \ {"unlisted"} /\ required = policy
  /\ window = [t \in Tickets |-> TRUE] /\ last = [t \in Tickets |-> "none"]
  /\ job = [a \in comes |-> [Job EXCEPT !.phase = "ready"]]
  /\ overlap = [a \in comes |-> FALSE] /\ faults = breaks

ConsoleNext ==
  \/ \E a \in DOMAIN job :
       \/ BulkReads(a) \/ Asserts(a) \/ TxReads(a) \/ TxWrites(a) \/ Speaks(a) \/ SpeechLost(a)
       \/ BulkEnds(a) \/ ReplyLooks(a) \/ Sends(a) \/ SendFails(a) \/ Stores(a) \/ StoreFails(a)
       \/ Compensates(a) \/ CompensationFails(a) \/ TagRemoved(a)
  \/ ConsoleCrash
  \/ \E t \in Tickets : WindowCloses(t)

ConsoleSpec ==
  /\ \E c \in ConsoleCases : ConsoleInit(c.tags, c.policy, c.comes, c.breaks)
  /\ [][ConsoleNext]_consoleVars

ConsoleTypeOK ==
  /\ \A t \in Tickets : ticket[t].status \in Statuses /\ ticket[t].tags \subseteq TagNames \ {"unlisted"}
  /\ known \subseteq TagNames /\ faults \in Nat

(* With the policy on, a ticket is resolved with a tag on it (TagRequire-  *)
(* mentService), unless the tags changed between the check and the write.  *)
ClosedTagged ==
  \A t \in Tickets :
    required /\ ticket[t].status # "RESOLVED" /\ ticket'[t].status = "RESOLVED"
      => ticket'[t].tags # {} \/ \E a \in DOMAIN job : job'[a].phase = "written" /\ overlap[a]

(* "A bulk operation should never silently erase per-ticket tags"          *)
(* (bulkUpdate): it loses only a tag that another request gave the ticket  *)
(* after the tags were read.                                               *)
BulkKeepsTags ==
  \A a \in DOMAIN job, t \in Tickets :
    /\ a.op = "bulk" /\ job[a].phase = "read" /\ job'[a].phase = "written" /\ t = Current(a)
    => ticket[t].tags \subseteq ticket'[t].tags \/ overlap[a]

(* Automations hear of each resolution and each reopening once: the same   *)
(* event twice in a row comes of requests that overlapped, or of one that  *)
(* committed and could not speak.                                          *)
SpokenOnce ==
  \A a \in DOMAIN job :
    /\ a.op \in Patching /\ job[a].phase = "written" /\ job'[a].phase # "written"
    /\ job'[a].phase # "dead" /\ Event(a, job[a].row) # "none"
    => \/ last[Current(a)] # Event(a, job[a].row)
       \/ \E b \in DOMAIN job : overlap[b]

(* What reached the customer is on the ticket, or an entry says that it is *)
(* missing. It takes a crash, or as many failures as follow, to lose it: a *)
(* template's one failed write, and elsewhere two failures.                *)
RepliesAccounted ==
  \A a \in DOMAIN job :
    /\ a.op \in Replying /\ job[a].phase \in {"done", "refused"} /\ job[a].out # <<>>
    => \/ job[a].rows = Len(job[a].out) \/ job[a].logged
       \/ job[a].hits >= 2 \/ (a.op = "template" /\ job[a].hits = 1)

(* A WhatsApp reply that quotes a message quotes it in its first piece and *)
(* in no other.                                                            *)
QuoteOnce ==
  \A a \in DOMAIN job : job[a].out # <<>> =>
    /\ job[a].out[1] = a.quote
    /\ \A i \in 2..Len(job[a].out) : ~job[a].out[i]

(* What a state of the console owes the customer: nothing that reached him *)
(* is missing from the ticket unsaid, and a quote is put once (the reply   *)
(* endpoints' loops and compensations).                                    *)
ConsoleSound == ConsoleTypeOK /\ RepliesAccounted /\ QuoteOnce

(* What no step of a PATCH, a bulk update or a tag's removal does: resolve *)
(* untagged, erase tags, or tell automations twice (update, bulkUpdate).   *)
ConsoleStepsSound == [][ClosedTagged /\ BulkKeepsTags /\ SpokenOnce]_consoleVars
=============================================================================
