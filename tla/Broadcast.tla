------------------------------ MODULE Broadcast ------------------------------
(***************************************************************************)
(* BroadcastsService and BroadcastWorkerService: a broadcast freezes its   *)
(* audience when it is created; a worker sends to it in batches, all of a  *)
(* batch at once, each recipient with retries, until none is PENDING or    *)
(* the broadcast is seen CANCELLED.  Requests read the row and write it by *)
(* id, so two starts, or a start and a cancel, may both pass their checks. *)
(***************************************************************************)
EXTENDS Customers, WhatsappSender, FiniteSetsExt

CONSTANTS
  Runs,       \* worker runs that may overlap
  Requests,   \* POST start and cancel: pairs <<id, "start" or "cancel">>
  BatchSize,
  MaxTries

ASSUME SizesAssumption == IsFiniteSet(Runs) /\ BatchSize \in Nat \ {0} /\ MaxTries \in Nat \ {0}

VARIABLES
  status,      \* of the broadcast row, "NONE" before create
  recipients,  \* broadcast_recipient: phone -> status
  counts,      \* the aggregate columns
  template,    \* the template row exists
  requests,    \* requests in flight
  runs,        \* worker runs: phase, the sends of the batch
  strays,      \* history: phone -> POSTs begun after the customer's opt-out
  started,     \* history: runs scheduled
  lost         \* history: a run was rejected, or the process ended

broadcastVars ==
  <<status, recipients, counts, template, requests, runs, strays, started, lost>>

Statuses  == {"NONE", "DRAFT", "SENDING", "COMPLETED", "CANCELLED", "FAILED"}
Tallied   == {"SENT", "FAILED"}
Audience  == DOMAIN recipients
InStatus(s) == {p \in Audience : recipients[p] = s}
(* Mutant: failures are left out of the aggregate.                         *)
TallySent == [s \in Tallied |-> IF s = "SENT" THEN Cardinality(InStatus(s)) ELSE 0]

Tally     == [s \in Tallied |-> Cardinality(InStatus(s))]
NoRun     == [phase |-> "none", sends |-> <<>>, tally |-> [s \in Tallied |-> 0], late |-> 0]
SendBegun(n) == [at |-> "check", tries |-> n]

(* getDetail's pending_count.                                              *)
PendingShown ==
  LET rest == Cardinality(Audience) - counts["SENT"] - counts["FAILED"] IN
  IF rest > 0 THEN rest ELSE 0

BroadcastInit(coming) ==
  /\ status = "NONE" /\ recipients = <<>> /\ counts = [s \in Tallied |-> 0]
  /\ template = TRUE
  /\ requests = [q \in Requests |-> IF q \in coming THEN "new" ELSE "done"]
  /\ runs = [r \in Runs |-> NoRun]
  /\ strays = <<>> /\ started = 0 /\ lost = FALSE

BroadcastTypeOK ==
  /\ status \in Statuses /\ recipients \in [Audience -> {"PENDING"} \cup Tallied]
  /\ counts \in [Tallied -> Nat] /\ template \in BOOLEAN
  /\ requests \in [Requests -> {"new", "write", "spawn", "done"}]
  /\ \A r \in Runs :
       /\ runs[r].phase \in {"none", "begin", "fetch", "batch", "loose", "tally", "look", "last", "finish"}
       /\ DOMAIN runs[r].sends \subseteq Audience /\ Cardinality(DOMAIN runs[r].sends) <= BatchSize
       /\ \A p \in DOMAIN runs[r].sends : /\ runs[r].sends[p].at \in {"check", "post", "sent", "failed", "done"}
                                          /\ runs[r].sends[p].tries \in 0 .. MaxTries
  /\ strays \in [Audience -> Nat]
----------------------------------------------------------------------------
(* create: the template is MARKETING and APPROVED and asks only for fields *)
(* the segment mapped; the audience is frozen in the same transaction.     *)
Create ==
  /\ status = "NONE" /\ template
  /\ status' = "DRAFT"
  /\ recipients' = [p \in Sendable |-> "PENDING"]
  /\ strays' = [p \in Sendable |-> 0]
  /\ UNCHANGED <<counts, template, requests, runs, started, lost>>

Op(q) == q[2]
Allows(q) == IF Op(q) = "start" THEN status = "DRAFT" ELSE status \in {"DRAFT", "SENDING"}

RequestReads(q) ==
  /\ requests[q] = "new" /\ status # "NONE"
  /\ requests' = [requests EXCEPT ![q] = IF Allows(q) THEN "write" ELSE "done"]
  /\ UNCHANGED <<status, recipients, counts, template, runs, strays, started, lost>>

RequestWrites(q) ==
  /\ requests[q] = "write"
  /\ status' = CASE Op(q) = "cancel" -> "CANCELLED"
                 [] Audience = {}    -> "COMPLETED"
                 [] OTHER            -> "SENDING"
  /\ requests' = [requests EXCEPT ![q] = IF status' = "SENDING" THEN "spawn" ELSE "done"]
  /\ UNCHANGED <<recipients, counts, template, runs, strays, started, lost>>

(* setImmediate: the run is on its own, the request answers.               *)
RequestSpawns(q, r) ==
  /\ requests[q] = "spawn" /\ runs[r].phase = "none"
  /\ requests' = [requests EXCEPT ![q] = "done"]
  /\ runs' = [runs EXCEPT ![r].phase = "begin"]
  /\ started' = started + 1
  /\ UNCHANGED <<status, recipients, counts, template, strays, lost>>

TemplateDeleted ==
  /\ template /\ status = "DRAFT" /\ template' = FALSE
  /\ UNCHANGED <<status, recipients, counts, requests, runs, strays, started, lost>>
----------------------------------------------------------------------------
(* run: the broadcast's template, then a batch of the PENDING, in an order *)
(* their equal creation times leave open.                                  *)
RunBegins(r) ==
  /\ runs[r].phase = "begin"
  /\ IF template
     THEN runs' = [runs EXCEPT ![r].phase = "fetch"] /\ UNCHANGED status
     ELSE runs' = [runs EXCEPT ![r] = NoRun] /\ status' = "FAILED"
  /\ UNCHANGED <<recipients, counts, template, requests, strays, started, lost>>

(* Mutant: no LIMIT on the query.                                          *)
BatchesUnlimited == {InStatus("PENDING")}

Batches == LET n == Cardinality(InStatus("PENDING")) IN
           kSubset(IF n < BatchSize THEN n ELSE BatchSize, InStatus("PENDING"))

RunFetches(r, batch) ==
  /\ runs[r].phase = "fetch"
  /\ runs' = [runs EXCEPT ![r] =
       IF batch = {} THEN [@ EXCEPT !.phase = "last", !.sends = <<>>]
       ELSE [@ EXCEPT !.phase = "batch", !.sends = [p \in batch |-> SendBegun(0)],
                      !.late = runs[r].late + (IF status = "CANCELLED" THEN 1 ELSE 0)]]
  /\ UNCHANGED <<status, recipients, counts, template, requests, strays, started, lost>>

Sending(r) == runs[r].phase \in {"batch", "loose"}
AllSent(r) == \A p \in DOMAIN runs[r].sends : runs[r].sends[p].at = "done"

(* Mutant: the snapshot's consent is enough.                               *)
ChecksNothing(r, p) ==
  /\ Sending(r) /\ runs[r].sends[p].at = "check"
  /\ runs' = [runs EXCEPT ![r].sends[p].at = "post"]
  /\ UNCHANGED <<status, recipients, counts, template, requests, strays, started, lost>>

(* sendOne: the opt-out is looked up before every attempt.                 *)
RunChecks(r, p) ==
  /\ Sending(r) /\ runs[r].sends[p].at = "check"
  /\ runs' = [runs EXCEPT ![r].sends[p].at = IF OptedOut(p) THEN "failed" ELSE "post"]
  /\ UNCHANGED <<status, recipients, counts, template, requests, strays, started, lost>>

(* Meta may take the message and the answer be lost: that is a failure and *)
(* is tried again, unless the tries or the retry window are used up.       *)
Posts(r, p, a) ==
  LET s == runs[r].sends[p]
      o == SendTemplate(TRUE, a)
  IN /\ Sending(r) /\ s.at = "post"
     /\ \E next \in IF o.result = "wamid" THEN {"sent"}
                    ELSE IF s.tries + 1 >= MaxTries THEN {"failed"} ELSE {"check", "failed"} :
          runs' = [runs EXCEPT ![r].sends[p] = [at |-> next, tries |-> @.tries + 1]]
     /\ strays' = IF OptedOut(p) THEN [strays EXCEPT ![p] = @ + 1] ELSE strays
     /\ UNCHANGED <<status, recipients, counts, template, requests, started, lost>>

(* Mutant: a recipient that failed stays PENDING.                          *)
MarksSent(r, p) ==
  LET s == runs[r].sends[p] IN
  /\ Sending(r) /\ s.at \in {"sent", "failed"}
  /\ recipients' = IF s.at = "sent" THEN [recipients EXCEPT ![p] = "SENT"] ELSE recipients
  /\ runs' = [runs EXCEPT ![r].sends[p].at = "done"]
  /\ UNCHANGED <<status, counts, template, requests, strays, started, lost>>

Marks(r, p) ==
  LET s == runs[r].sends[p] IN
  /\ Sending(r) /\ s.at \in {"sent", "failed"}
  /\ recipients' = [recipients EXCEPT ![p] = IF s.at = "sent" THEN "SENT" ELSE "FAILED"]
  /\ runs' = [runs EXCEPT ![r].sends[p].at = "done"]
  /\ UNCHANGED <<status, counts, template, requests, strays, started, lost>>

(* The update to SENT is inside the try: when it throws, the message that  *)
(* was sent counts as a failed attempt and goes out again.                 *)
SentMarkFails(r, p) ==
  LET s == runs[r].sends[p] IN
  /\ Sending(r) /\ s.at = "sent"
  /\ runs' = [runs EXCEPT ![r].sends[p].at = IF s.tries < MaxTries THEN "check" ELSE "failed"]
  /\ UNCHANGED <<status, recipients, counts, template, requests, strays, started, lost>>

(* Any other failing statement rejects the run and leaves the row SENDING; *)
(* the other sends of the batch go on behind it.                           *)
SendRejects(r, p) ==
  /\ Sending(r) /\ runs[r].sends[p].at # "done"
  /\ runs' = [runs EXCEPT ![r].phase = "loose", ![r].sends[p].at = "done"]
  /\ lost' = TRUE
  /\ UNCHANGED <<status, recipients, counts, template, requests, strays, started>>

RunRejects(r) ==
  /\ runs[r].phase \notin {"none", "batch", "loose"}
  /\ runs' = [runs EXCEPT ![r] = NoRun]
  /\ lost' = TRUE
  /\ UNCHANGED <<status, recipients, counts, template, requests, strays, started>>

LooseEnds(r) ==
  /\ runs[r].phase = "loose" /\ AllSent(r)
  /\ runs' = [runs EXCEPT ![r] = NoRun]
  /\ UNCHANGED <<status, recipients, counts, template, requests, strays, started, lost>>
----------------------------------------------------------------------------
RunCounts(r) ==
  /\ \/ runs[r].phase = "batch" /\ AllSent(r)
     \/ runs[r].phase = "last"
  /\ runs' = [runs EXCEPT ![r] =
       [@ EXCEPT !.phase = IF runs[r].phase = "last" THEN "finish" ELSE "tally",
                 !.sends = <<>>, !.tally = Tally]]
  /\ UNCHANGED <<status, recipients, counts, template, requests, strays, started, lost>>

RunWritesCounts(r) ==
  /\ runs[r].phase = "tally"
  /\ counts' = runs[r].tally
  /\ runs' = [runs EXCEPT ![r].phase = "look"]
  /\ UNCHANGED <<status, recipients, template, requests, strays, started, lost>>

(* Mutant: the row read when the run began is looked at.                   *)
RunLooksBack(r) ==
  /\ runs[r].phase = "look"
  /\ runs' = [runs EXCEPT ![r].phase = "fetch"]
  /\ UNCHANGED <<status, recipients, counts, template, requests, strays, started, lost>>

(* Mutant: the batch is taken for all there is.                            *)
RunLooksOnce(r) ==
  /\ runs[r].phase = "look"
  /\ runs' = [runs EXCEPT ![r] = IF status = "CANCELLED" THEN NoRun ELSE [@ EXCEPT !.phase = "last"]]
  /\ UNCHANGED <<status, recipients, counts, template, requests, strays, started, lost>>

(* The cancel is seen here, once per batch.                                *)
RunLooks(r) ==
  /\ runs[r].phase = "look"
  /\ runs' = [runs EXCEPT ![r] = IF status = "CANCELLED" THEN NoRun
                                 ELSE [@ EXCEPT !.phase = "fetch", !.late = 0]]
  /\ UNCHANGED <<status, recipients, counts, template, requests, strays, started, lost>>

(* The second reconcile and COMPLETED, whatever the row says by now.       *)
RunFinishes(r) ==
  /\ runs[r].phase = "finish"
  /\ counts' = runs[r].tally /\ status' = "COMPLETED"
  /\ runs' = [runs EXCEPT ![r] = NoRun]
  /\ UNCHANGED <<recipients, template, requests, strays, started, lost>>

(* A restart drops requests and runs; a SENDING row becomes FAILED.        *)
BroadcastCrash ==
  /\ requests' = [q \in Requests |-> IF requests[q] = "new" THEN "new" ELSE "done"]
  /\ runs' = [r \in Runs |-> NoRun]
  /\ status' = IF status = "SENDING" THEN "FAILED" ELSE status
  /\ lost' = TRUE
  /\ UNCHANGED <<recipients, counts, template, strays, started>>

RunStep(r) ==
  \/ RunBegins(r) \/ RunCounts(r) \/ RunWritesCounts(r) \/ RunLooks(r) \/ RunFinishes(r)
  \/ LooseEnds(r)
  \/ \E batch \in Batches : RunFetches(r, batch)
  \/ \E p \in DOMAIN runs[r].sends : \/ RunChecks(r, p) \/ Marks(r, p)
                                     \/ \E a \in MetaAnswers : Posts(r, p, a)

BroadcastNext ==
  \/ Create \/ TemplateDeleted
  \/ \E q \in Requests : \/ RequestReads(q) \/ RequestWrites(q)
                         \/ \E r \in Runs : RequestSpawns(q, r)
  \/ \E r \in Runs : RunStep(r)

BroadcastFault ==
  \E r \in Runs : \/ RunRejects(r)
                  \/ \E p \in DOMAIN runs[r].sends : SentMarkFails(r, p) \/ SendRejects(r, p)
----------------------------------------------------------------------------
(* Nobody is left PENDING in a COMPLETED broadcast, overlapping runs and   *)
(* cancels that came too late included.                                    *)
CompletedIsDone == status = "COMPLETED" => InStatus("PENDING") = {}

(* A run begins at most one batch after the row says CANCELLED: the one    *)
(* its delay had already ended for.                                        *)
CancelBoundsSends == \A r \in Runs : runs[r].late <= 1

(* After a customer's STOP is stored each run of the broadcast posts to    *)
(* him at most once more: the attempt that had passed its check.           *)
OptOutBoundsPosts == \A p \in Audience : strays[p] <= started

(* When the one run of a broadcast is over and nothing was lost, the       *)
(* counters the console shows are those of the recipients: the last batch  *)
(* is counted, a cancel between the last count and the end included.       *)
CountersSettle ==
  (started = 1 /\ status = "COMPLETED" /\ ~lost /\ \A r \in Runs : runs[r].phase = "none")
     => counts = Tally /\ PendingShown = 0
=============================================================================
