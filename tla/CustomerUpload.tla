--------------------------- MODULE CustomerUpload ---------------------------
(***************************************************************************)
(* CustomerUploadService: a CSV is staged (a row, and the file's path in   *)
(* the process's memory), started with a mapping and worked through in     *)
(* batches.  A step ends at an await, so two starts of one upload overlap. *)
(***************************************************************************)
EXTENDS Customers

CONSTANTS
  Uploads,     \* customer_upload ids
  Rows,        \* Rows[u]: the parsed lines of the file of u
  UploadBatch, \* UPSERT_BATCH_SIZE
  Starts       \* POST /start requests: pairs <<id, upload>>

ASSUME UploadBatchAssumption == UploadBatch \in Nat \ {0}
ASSUME RowsAssumption == Rows \in [Uploads -> Seq([phone: Phones \cup {"bad"}, name: Names])]
ASSUME StartsAssumption == \A s \in Starts : s[2] \in Uploads

VARIABLES
  uploads,  \* the rows: status, mapping, counters
  paths,    \* pendingFilePaths: uploads whose file is known to this process
  starts,   \* start requests in flight
  workers,  \* runWorker calls in flight: upload -> set of calls by progress
  launched  \* history: how often runWorker was scheduled for an upload

uploadVars == <<uploads, paths, starts, workers, launched>>

Zero     == [total |-> 0, processed |-> 0, succeeded |-> 0, skipped |-> 0, rejected |-> 0]
Counters == [total: Nat, processed: Nat, succeeded: Nat, skipped: Nat, rejected: Nat]
NewRow   == [status |-> "NONE", mapped |-> FALSE, counts |-> Zero]
Worker   == [at |-> "new", line |-> 1, batch |-> <<>>, counts |-> Zero]
NoWorker == [Worker EXCEPT !.at = "none"]

UploadInit(coming) ==
  /\ uploads = [u \in Uploads |-> NewRow]
  /\ paths = {}
  /\ starts = [s \in Starts |-> IF s \in coming THEN "new" ELSE "done"]
  /\ workers = [u \in Uploads |-> NoWorker]
  /\ launched = [u \in Uploads |-> 0]

UploadTypeOK ==
  /\ \A u \in Uploads :
       /\ uploads[u].status \in {"NONE", "PENDING", "PROCESSING", "COMPLETED", "FAILED"}
       /\ uploads[u].mapped \in BOOLEAN /\ uploads[u].counts \in Counters
       /\ workers[u].at \in {"none", "new", "reading", "members", "ending"}
       /\ workers[u].line \in 1 .. Len(Rows[u]) + 1 /\ workers[u].counts \in Counters
  /\ paths \subseteq Uploads
  /\ starts \in [Starts -> {"new", "take", "mapping", "spawn", "done"}]
  /\ launched \in [Uploads -> Nat]
----------------------------------------------------------------------------
Stage(u) ==
  /\ uploads[u].status = "NONE"
  /\ uploads' = [uploads EXCEPT ![u].status = "PENDING"]
  /\ paths' = paths \cup {u}
  /\ UNCHANGED <<starts, workers, launched>>

(* start: the row is read, then, without an await between, the path is     *)
(* looked up and forgotten.  A mapping on the row read refuses.            *)
StartReads(s) ==
  /\ starts[s] = "new" /\ uploads[s[2]].status # "NONE"
  /\ starts' = [starts EXCEPT ![s] = IF uploads[s[2]].mapped THEN "done" ELSE "take"]
  /\ UNCHANGED <<uploads, paths, workers, launched>>

(* Mutant: the path is forgotten when the worker is scheduled.             *)
StartTakesKeeping(s) ==
  LET u == s[2] IN
  /\ starts[s] = "take"
  /\ IF u \in paths
     THEN starts' = [starts EXCEPT ![s] = "mapping"] /\ UNCHANGED uploads
     ELSE /\ starts' = [starts EXCEPT ![s] = "done"]
          /\ uploads' = [uploads EXCEPT ![u].status = "FAILED"]
  /\ UNCHANGED <<paths, workers, launched>>

StartTakes(s) ==
  LET u == s[2] IN
  /\ starts[s] = "take"
  /\ IF u \in paths
     THEN starts' = [starts EXCEPT ![s] = "mapping"] /\ UNCHANGED uploads
     ELSE /\ starts' = [starts EXCEPT ![s] = "done"]
          /\ uploads' = [uploads EXCEPT ![u].status = "FAILED"]
  /\ paths' = paths \ {u}
  /\ UNCHANGED <<workers, launched>>

(* The mapping is stored, then the segment's mapped fields.                *)
StartStores(s) ==
  /\ starts[s] = "mapping"
  /\ uploads' = [uploads EXCEPT ![s[2]].mapped = TRUE]
  /\ starts' = [starts EXCEPT ![s] = "spawn"]
  /\ UNCHANGED <<paths, workers, launched>>

StartSpawns(s) ==
  LET u == s[2] IN
  /\ starts[s] = "spawn"
  /\ starts' = [starts EXCEPT ![s] = "done"]
  /\ launched' = [launched EXCEPT ![u] = @ + 1]
  /\ workers' = [workers EXCEPT ![u] = IF @.at = "none" THEN Worker ELSE @]
  /\ UNCHANGED <<uploads, paths>>
----------------------------------------------------------------------------
WorkerBegins(u) ==
  /\ workers[u].at = "new"
  /\ uploads' = [uploads EXCEPT ![u].status = "PROCESSING"]
  /\ workers' = [workers EXCEPT ![u].at = "reading"]
  /\ UNCHANGED <<paths, starts, launched>>

Full(w)    == Len(w.batch) >= UploadBatch
AtEnd(u)   == workers[u].line > Len(Rows[u])

(* Mutant: a rejected line does not count as processed.                    *)
WorkerParsesUncounted(u) ==
  LET w == workers[u]
      row == Rows[u][w.line]
      line == [w EXCEPT !.line = @ + 1, !.counts.total = @ + 1]
  IN /\ w.at = "reading" /\ ~AtEnd(u) /\ ~Full(w)
     /\ workers' = [workers EXCEPT ![u] =
          IF row.phone = "bad" THEN [line EXCEPT !.counts.rejected = @ + 1]
          ELSE [line EXCEPT !.batch = Append(@, row)]]
     /\ UNCHANGED <<uploads, paths, starts, launched>>

(* validateRow: a line without a phone of seven digits is rejected.        *)
WorkerParses(u) ==
  LET w == workers[u]
      row == Rows[u][w.line]
      line == [w EXCEPT !.line = @ + 1, !.counts.total = @ + 1]
  IN /\ w.at = "reading" /\ ~AtEnd(u) /\ ~Full(w)
     /\ workers' = [workers EXCEPT ![u] =
          IF row.phone = "bad"
          THEN [line EXCEPT !.counts.rejected = @ + 1, !.counts.processed = @ + 1]
          ELSE [line EXCEPT !.batch = Append(@, row)]]
     /\ UNCHANGED <<uploads, paths, starts, launched>>

(* flushBatch: the upsert and the counters, then the memberships.          *)
WorkerUpserts(u) ==
  LET w == workers[u]
      new == Inserted(w.batch)
  IN /\ w.at = "reading" /\ w.batch # <<>> /\ (Full(w) \/ AtEnd(u))
     /\ customers' = Upserted(w.batch)
     /\ workers' = [workers EXCEPT ![u] =
          [w EXCEPT !.at = "members", !.counts.succeeded = @ + new,
                    !.counts.skipped = @ + Len(w.batch) - new,
                    !.counts.processed = @ + Len(w.batch)]]
     /\ UNCHANGED <<uploads, paths, starts, launched, members, optouts, conflicts>>

WorkerAddsMembers(u) ==
  /\ workers[u].at = "members"
  /\ members' = members \cup PhonesOf(workers[u].batch)
  /\ workers' = [workers EXCEPT ![u].at = "reading", ![u].batch = <<>>]
  /\ UNCHANGED <<uploads, paths, starts, launched, customers, optouts, conflicts>>

(* persistCounters, every few batches and at the end.                      *)
WorkerPersists(u) ==
  /\ workers[u].at = "reading" /\ workers[u].batch = <<>>
  /\ uploads' = [uploads EXCEPT ![u].counts = workers[u].counts]
  /\ workers' = [workers EXCEPT ![u].at = IF AtEnd(u) THEN "ending" ELSE "reading"]
  /\ UNCHANGED <<paths, starts, launched>>

(* Mutant: the last, short batch is left behind.                           *)
WorkerCompletesEarly(u) ==
  /\ workers[u].at \in {"reading", "ending"} /\ AtEnd(u)
  /\ uploads' = [uploads EXCEPT ![u].status = "COMPLETED", ![u].counts = workers[u].counts]
  /\ workers' = [workers EXCEPT ![u] = NoWorker]
  /\ UNCHANGED <<paths, starts, launched>>

WorkerCompletes(u) ==
  /\ workers[u].at = "ending"
  /\ uploads' = [uploads EXCEPT ![u].status = "COMPLETED", ![u].counts = workers[u].counts]
  /\ workers' = [workers EXCEPT ![u] = NoWorker]
  /\ UNCHANGED <<paths, starts, launched>>

(* Any statement may fail: the counters reached are kept, FAILED.          *)
WorkerFails(u) ==
  /\ workers[u].at \in {"reading", "members", "ending"}
  /\ uploads' = [uploads EXCEPT ![u].status = "FAILED", ![u].counts = workers[u].counts]
  /\ workers' = [workers EXCEPT ![u] = NoWorker]
  /\ UNCHANGED <<paths, starts, launched>>

(* The process ends: requests, workers and paths are gone, rows stay.      *)
UploadsCrash ==
  /\ paths' = {}
  /\ starts' = [s \in Starts |-> IF starts[s] = "new" THEN "new" ELSE "done"]
  /\ workers' = [u \in Uploads |-> NoWorker]
  /\ UNCHANGED <<uploads, launched>>

WorkerStep(u) ==
  \/ (WorkerBegins(u) \/ WorkerParses(u) \/ WorkerPersists(u) \/ WorkerCompletes(u)) /\ UNCHANGED customerVars
  \/ WorkerUpserts(u) \/ WorkerAddsMembers(u)

UploadNext ==
  \/ \E u \in Uploads : Stage(u) /\ UNCHANGED customerVars
  \/ \E u \in Uploads : WorkerStep(u)
  \/ \E s \in Starts : /\ StartReads(s) \/ StartTakes(s) \/ StartStores(s) \/ StartSpawns(s)
                       /\ UNCHANGED customerVars

UploadFault == \E u \in Uploads : WorkerFails(u) /\ UNCHANGED customerVars
----------------------------------------------------------------------------
Valid(u) == {Rows[u][i].phone : i \in DOMAIN Rows[u]} \ {"bad"}

(* However many start requests overlap, one worker reads the file: the     *)
(* path is taken and forgotten between two awaits.                         *)
OneWorkerPerUpload == \A u \in Uploads : launched[u] <= 1

(* An upload shown COMPLETED put every valid line's customer into the      *)
(* segment, the last short batch included.                                 *)
CompletedIsComplete ==
  \A u \in Uploads : uploads[u].status = "COMPLETED" => Valid(u) \subseteq members

(* The counters of a COMPLETED upload add up, with duplicates inside a     *)
(* batch and rejected lines: nothing is lost from the total.               *)
CountersAddUp ==
  \A u \in Uploads : LET c == uploads[u].counts IN
    uploads[u].status = "COMPLETED" =>
      /\ c.total = Len(Rows[u]) /\ c.processed = c.total
      /\ c.succeeded + c.skipped + c.rejected = c.processed
=============================================================================
