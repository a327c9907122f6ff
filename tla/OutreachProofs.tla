--------------------------- MODULE OutreachProofs ---------------------------
(***************************************************************************)
(* UploadsSound and BroadcastsSound hold in every behaviour of uploads,    *)
(* opt-outs and a broadcast, for any customers, files, requests, runs,     *)
(* faults, and any batch sizes and number of tries.                        *)
(*                                                                         *)
(* The three share the customer table only: a step of an upload or of an   *)
(* opt-out concerns a broadcast through who has opted out, which only      *)
(* grows, and a step of the broadcast changes no customer.                 *)
(***************************************************************************)
EXTENDS Outreach, FiniteSetTheorems, SequenceTheorems, TLAPS

(***************************************************************************)
(* The inductive invariant                                                 *)
(***************************************************************************)
(* The opt-outs: who was found stays.                                      *)
FoundExists == \A o \in OptOuts : optouts[o] \in Names => Exists(o[2])

CustomersInv == CustomersTypeOK /\ FoundExists /\ OptOutKept

(* An upload and its worker.                                               *)
ValidRow == [phone: Phones, name: Names]
Upload   == [status: {"NONE", "PENDING", "PROCESSING", "COMPLETED", "FAILED"}, mapped: BOOLEAN, counts: Counters]
WorkerAt == {"none", "new", "reading", "members", "ending"}

UploadsFormed ==
  /\ uploads \in [Uploads -> Upload]
  /\ workers \in [Uploads -> [at: WorkerAt, line: Nat, batch: Seq(ValidRow), counts: Counters]]
  /\ \A u \in Uploads : workers[u].line \in 1 .. Len(Rows[u]) + 1

(* Who may still read the file of u: the map of paths, then one request,   *)
(* then the worker.                                                        *)
Holds(s) == starts[s] \in {"mapping", "spawn"}
OneReader(u) ==
  /\ uploads[u].status = "NONE" => u \notin paths
  /\ u \in paths => launched[u] = 0 /\ \A s \in Starts : s[2] = u => ~Holds(s)
  /\ \A s \in Starts : s[2] = u /\ Holds(s) => launched[u] = 0 /\ uploads[u].status # "NONE"
  /\ \A s, z \in Starts : s[2] = u /\ z[2] = u /\ Holds(s) /\ Holds(z) => s = z
  /\ launched[u] <= 1
  /\ launched[u] = 1 => uploads[u].status # "NONE"
  /\ workers[u].at # "none" => launched[u] = 1
  /\ \A s \in Starts : s[2] = u /\ starts[s] = "take" => uploads[u].status # "NONE"

(* The worker accounts for every line before its own: counted, and its     *)
(* customer in the segment or in the batch.                                *)
LinesCounted(u) ==
  LET w == workers[u] IN
  /\ w.counts.total = w.line - 1
  /\ w.counts.succeeded + w.counts.skipped + w.counts.rejected = w.counts.processed
  /\ w.counts.processed + (IF w.at = "members" THEN 0 ELSE Len(w.batch)) = w.line - 1
LinesKept(u) ==
  \A i \in 1 .. workers[u].line - 1 :
    Rows[u][i].phone # "bad" => Rows[u][i].phone \in members \cup PhonesOf(workers[u].batch)
(* Every phone of a batch has a last row in it.                            *)
HasLast(b) ==
  \A p \in PhonesOf(b) : \E i \in DOMAIN b :
    b[i].phone = p /\ \A j \in DOMAIN b : b[j].phone = p => j <= i
WorkerSound(u) ==
  /\ HasLast(workers[u].batch)
  /\ workers[u].at # "none" => LinesCounted(u) /\ LinesKept(u)
  /\ workers[u].at = "members" => PhonesOf(workers[u].batch) \subseteq DOMAIN customers
  /\ workers[u].at = "ending" => AtEnd(u) /\ workers[u].batch = <<>>

CompletedRests(u) ==
  uploads[u].status = "COMPLETED" =>
    /\ workers[u].at = "none" /\ launched[u] = 1
    /\ Valid(u) \subseteq members
    /\ uploads[u].counts.total = Len(Rows[u])
    /\ uploads[u].counts.processed = Len(Rows[u])
    /\ uploads[u].counts.succeeded + uploads[u].counts.skipped + uploads[u].counts.rejected = Len(Rows[u])

UploadsInv ==
  /\ UploadsFormed /\ paths \subseteq Uploads /\ launched \in [Uploads -> Nat]
  /\ starts \in [Starts -> {"new", "take", "mapping", "spawn", "done"}]
  /\ \A u \in Uploads : OneReader(u) /\ WorkerSound(u) /\ CompletedRests(u)

(* The broadcast: a send that may be tried again has tries left, and a run *)
(* that is not there remembers nothing.                                    *)
Phases == {"none", "begin", "fetch", "batch", "loose", "tally", "look", "last", "finish"}
OneSend == [at: {"check", "post", "sent", "failed", "done"}, tries: 0 .. MaxTries]
RunFormed(x) ==
  /\ x \in [phase: Phases, sends: {x.sends}, tally: [Tallied -> Nat], late: Nat]
  /\ x.phase = "none" => x = NoRun
  /\ x.sends \in [DOMAIN x.sends -> OneSend]
  /\ DOMAIN x.sends \subseteq Audience /\ Cardinality(DOMAIN x.sends) <= BatchSize
  /\ \A p \in DOMAIN x.sends : x.sends[p].at \in {"check", "post"} => x.sends[p].tries < MaxTries
BroadcastFormed ==
  /\ status \in Statuses /\ recipients \in [Audience -> {"PENDING"} \cup Tallied]
  /\ Audience \subseteq Phones
  /\ counts \in [Tallied -> Nat] /\ template \in BOOLEAN /\ lost \in BOOLEAN /\ started \in Nat
  /\ requests \in [Requests -> {"new", "write", "spawn", "done"}]
  /\ strays \in [Audience -> Nat]
  /\ runs = [r \in Runs |-> runs[r]]
  /\ \A r \in Runs : RunFormed(runs[r])

(* Before the broadcast is created nobody works on it, and who works on it *)
(* has somebody to send to.                                                *)
Alive == {r \in Runs : runs[r].phase # "none"}
NoneYet ==
  /\ status = "NONE" => Audience = {} /\ started = 0 /\ \A q \in Requests : requests[q] \in {"new", "done"}
  /\ (\E q \in Requests : requests[q] = "spawn") \/ started > 0 => Audience # {}
  /\ status = "COMPLETED" => started > 0 \/ Audience = {}

(* As many runs are there as were started, at most.                        *)
RunsStarted ==
  /\ Cardinality(Alive) <= started
  /\ started = 0 => Alive = {}
  /\ started = 1 => \A r, z \in Alive : r = z

(* A run that found nobody PENDING, or ended so, was right and stays so.   *)
EmptyFound == \A r \in Runs : runs[r].phase \in {"last", "finish"} => InStatus("PENDING") = {}

(* Posts past an opt-out, and those that may still become so.              *)
Posting(p) == {r \in Runs : p \in DOMAIN runs[r].sends /\ runs[r].phase # "none" /\ runs[r].sends[p].at = "post"}
StraysBounded ==
  \A p \in Audience : IF OptedOut(p) THEN strays[p] + Cardinality(Posting(p)) <= started ELSE strays[p] = 0

(* One batch begun too late, and none before the row was looked at again.  *)
LateOnce == \A r \in Runs : runs[r].late <= IF runs[r].phase \in {"none", "begin", "fetch"} THEN 0 ELSE 1

(* What the only run counts last is what there is.                         *)
LastCount ==
  started = 1 /\ ~lost =>
    /\ \A r \in Runs : runs[r].phase = "finish" => runs[r].tally = Tally
    /\ status = "COMPLETED" => Alive = {} /\ counts = Tally

BroadcastInv ==
  /\ BroadcastFormed /\ NoneYet /\ RunsStarted /\ EmptyFound /\ CompletedIsDone
  /\ StraysBounded /\ LateOnce /\ LastCount

IInv == CustomersInv /\ UploadsInv /\ BroadcastInv

-----------------------------------------------------------------------------
(***************************************************************************)
(* Customers                                                               *)
(***************************************************************************)
(* What every step leaves of the customers.                                *)
Grown ==
  /\ DOMAIN customers \subseteq DOMAIN customers' /\ members \subseteq members'
  /\ \A p : OptedOut(p) => OptedOut(p)'

LEMMA PhonesOfBatch ==
  ASSUME NEW b \in Seq(ValidRow)
  PROVE  /\ PhonesOf(b) \subseteq Phones
         /\ Cardinality(PhonesOf(b)) <= Len(b)
         /\ \A i \in 1 .. Len(b) : b[i] \in ValidRow /\ b[i].phone \in PhonesOf(b)
         /\ IsFiniteSet(PhonesOf(b))
<1>1. DOMAIN b = 1 .. Len(b) /\ Len(b) \in Nat /\ \A i \in 1 .. Len(b) : b[i] \in ValidRow
  BY ElementOfSeq, LenProperties
<1>2. PhonesOf(b) \subseteq Phones /\ \A i \in 1 .. Len(b) : b[i].phone \in PhonesOf(b)
  BY <1>1 DEF PhonesOf, ValidRow
<1>3. [i \in 1 .. Len(b) |-> b[i].phone] \in Surjection(1 .. Len(b), PhonesOf(b))
  BY <1>1, <1>2 DEF Surjection, PhonesOf
<1>4. Cardinality(PhonesOf(b)) <= Len(b)
  BY <1>1, <1>3, FS_SurjCardinalityBound DEF ExistsSurjection
<1> QED BY <1>1, <1>2, <1>4, FS_Subset, PhonesAssumption

(* The rows of a batch that is filled line by line have a last one for     *)
(* each phone, whose name the upsert takes.                                *)
LEMMA LastOfBatch ==
  ASSUME NEW b \in Seq(ValidRow), HasLast(b)
  PROVE  \A p \in PhonesOf(b) : LastOf(b, p).name \in Names
BY PhonesOfBatch, ElementOfSeq, LenProperties DEF HasLast, LastOf, ValidRow

LEMMA EmptyBatch == <<>> \in Seq(ValidRow) /\ PhonesOf(<<>>) = {} /\ HasLast(<<>>) /\ Len(<<>>) = 0
<1>1. <<>> \in Seq(ValidRow) /\ DOMAIN <<>> = {} /\ Len(<<>>) = 0 BY EmptySeq
<1>2. PhonesOf(<<>>) = {} BY <1>1 DEF PhonesOf
<1> QED BY <1>1, <1>2 DEF HasLast

LEMMA LongerBatch ==
  ASSUME NEW b \in Seq(ValidRow), HasLast(b), NEW r \in ValidRow
  PROVE  /\ Append(b, r) \in Seq(ValidRow) /\ HasLast(Append(b, r))
         /\ PhonesOf(Append(b, r)) = PhonesOf(b) \cup {r.phone}
         /\ Len(Append(b, r)) = Len(b) + 1
<1> DEFINE c == Append(b, r)
<1>1. /\ c \in Seq(ValidRow) /\ Len(c) = Len(b) + 1 /\ Len(b) \in Nat
      /\ DOMAIN b = 1 .. Len(b) /\ DOMAIN c = 1 .. Len(b) + 1
      /\ c[Len(b) + 1] = r /\ \A i \in 1 .. Len(b) : c[i] = b[i]
  BY AppendProperties, LenProperties
<1> HIDE DEF c
<1>2. PhonesOf(c) = PhonesOf(b) \cup {r.phone}
  <2>1. \A p : p \in PhonesOf(c) <=> \E i \in 1 .. Len(b) + 1 : c[i].phone = p BY <1>1 DEF PhonesOf
  <2>2. \A p : p \in PhonesOf(b) <=> \E i \in 1 .. Len(b) : b[i].phone = p BY <1>1 DEF PhonesOf
  <2> QED BY <1>1, <2>1, <2>2
<1>3. ASSUME NEW p \in PhonesOf(c)
      PROVE  \E i \in DOMAIN c : c[i].phone = p /\ \A j \in DOMAIN c : c[j].phone = p => j <= i
  <2>1. CASE p = r.phone BY <1>1, <2>1
  <2>2. CASE p # r.phone
    <3>1. PICK i \in DOMAIN b : b[i].phone = p /\ \A j \in DOMAIN b : b[j].phone = p => j <= i
      BY <1>2, <2>2 DEF HasLast
    <3>2. i \in DOMAIN c /\ c[i].phone = p BY <1>1, <3>1
    <3>3. \A j \in DOMAIN c : c[j].phone = p => j \in DOMAIN b /\ b[j].phone = p BY <1>1, <2>2
    <3> QED BY <3>1, <3>2, <3>3
  <2> QED BY <2>1, <2>2
<1> QED BY <1>1, <1>2, <1>3 DEF HasLast, c

(* Mixed into the table, a batch adds its phones and keeps every opt-out.  *)
LEMMA UpsertedKeeps ==
  ASSUME CustomersTypeOK, NEW b \in Seq(ValidRow), HasLast(b), customers' = Upserted(b)
  PROVE  /\ DOMAIN customers' = DOMAIN customers \cup PhonesOf(b)
         /\ customers' \in [DOMAIN customers' -> Customer] /\ DOMAIN customers' \subseteq Phones
         /\ \A p : OptedOut(p) => OptedOut(p)'
<1>1. /\ DOMAIN customers' = DOMAIN customers \cup PhonesOf(b) /\ DOMAIN customers' \subseteq Phones
      /\ customers' = [p \in DOMAIN customers' |-> customers'[p]]
  BY PhonesOfBatch DEF Upserted, CustomersTypeOK
<1>2. ASSUME NEW p \in DOMAIN customers'
      PROVE  customers'[p] \in Customer /\ (OptedOut(p) => OptedOut(p)')
  <2>1. CASE p \notin PhonesOf(b)
    <3>1. p \in DOMAIN customers /\ customers'[p] = customers[p] BY <1>1, <1>2, <2>1 DEF Upserted
    <3> QED BY <1>2, <3>1 DEF CustomersTypeOK, OptedOut, Exists
  <2>2. CASE p \in PhonesOf(b) /\ ~Exists(p)
    <3>1. customers'[p] = [name |-> LastOf(b, p).name, out |-> FALSE] BY <1>1, <1>2, <2>2 DEF Upserted
    <3> QED BY <2>2, <3>1, LastOfBatch DEF OptedOut, Customer
  <2>3. CASE p \in PhonesOf(b) /\ Exists(p)
    <3>1. customers[p] \in Customer BY <2>3 DEF CustomersTypeOK, Exists
    <3>2. \/ customers'[p] = customers[p]
          \/ customers'[p] = [customers[p] EXCEPT !.name = LastOf(b, p).name]
      BY <1>1, <1>2, <2>3 DEF Upserted
    <3>3. customers'[p] \in Customer /\ customers'[p].out = customers[p].out
      BY <2>3, <3>1, <3>2, LastOfBatch DEF Customer
    <3> QED BY <1>2, <3>3 DEF OptedOut, Exists
  <2> QED BY <2>1, <2>2, <2>3
<1> QED BY <1>1, <1>2 DEF OptedOut, Exists

(* A step that keeps customers and opt-outs, and touches no opt-out action.*)
LEMMA OthersKeepCustomers ==
  ASSUME CustomersInv, Grown, CustomersTypeOK', UNCHANGED <<optouts, conflicts>>
  PROVE  CustomersInv'
BY OptOutsAssumption DEF CustomersInv, Grown, FoundExists, OptOutKept, Exists, CustomersTypeOK

LEMMA CustomersKeep ==
  ASSUME CustomersInv, CustomersNext
  PROVE  CustomersInv' /\ Grown
<1> USE DEF CustomersInv
<1>1. PICK o \in OptOuts : OptOutReads(o) \/ OptOutSaves(o) \/ OptOutInserts(o) BY DEF CustomersNext
<1>2. o[2] \in Phones BY OptOutsAssumption
<1>3. CASE OptOutReads(o)
  <2>1. Exists(o[2]) => customers[o[2]].name \in Names BY DEF CustomersTypeOK, Exists, Customer
  <2>2. \E x : /\ optouts' = [optouts EXCEPT ![o] = x]
               /\ x \in Names \cup {"unknown", "done"} /\ (x \in Names => Exists(o[2]))
               /\ (x = "done" => OptedOut(o[2]))
    <3> DEFINE x == IF OptedOut(o[2]) THEN "done" ELSE IF Exists(o[2]) THEN customers[o[2]].name ELSE "unknown"
    <3>1. optouts' = [optouts EXCEPT ![o] = x] BY <1>3 DEF OptOutReads
    <3>2. x \in Names \cup {"unknown", "done"} /\ (x \in Names => Exists(o[2])) /\ (x = "done" => OptedOut(o[2]))
      BY <2>1 DEF OptedOut, Names
    <3> QED BY <3>1, <3>2
  <2>3. UNCHANGED <<customers, members, conflicts>> BY <1>3 DEF OptOutReads
  <2>4. Grown BY <2>3 DEF Grown, OptedOut, Exists
  <2>5. CustomersTypeOK' BY <2>2, <2>3 DEF CustomersTypeOK
  <2>6. FoundExists' /\ OptOutKept' BY <2>2, <2>3 DEF FoundExists, OptOutKept, OptedOut, Exists, CustomersTypeOK
  <2> QED BY <2>4, <2>5, <2>6
<1>4. CASE OptOutSaves(o)
  <2>1. Exists(o[2]) /\ optouts[o] \in Names /\ UNCHANGED <<members, conflicts>>
        /\ optouts' = [optouts EXCEPT ![o] = "done"]
    BY <1>4 DEF OptOutSaves, FoundExists
  <2>c. customers[o[2]] \in Customer BY <2>1 DEF CustomersTypeOK, Exists
  <2>n. PICK name \in Names : customers' = [customers EXCEPT ![o[2]] = [name |-> name, out |-> TRUE]]
    BY <1>4, <2>1, <2>c DEF OptOutSaves, Customer
  <2>2. DOMAIN customers' = DOMAIN customers /\ customers'[o[2]] = [name |-> name, out |-> TRUE]
        /\ \A p \in DOMAIN customers : p # o[2] => customers'[p] = customers[p]
    BY <2>1, <2>n DEF Exists
  <2>3. customers'[o[2]] \in Customer /\ customers'[o[2]].out BY <2>2 DEF Customer
  <2>4. customers' \in [DOMAIN customers' -> Customer] BY <2>2, <2>3, <2>n DEF CustomersTypeOK
  <2>5. \A p : OptedOut(p) => OptedOut(p)' BY <2>2, <2>3 DEF OptedOut, Exists
  <2>6. OptedOut(o[2])' BY <2>1, <2>2, <2>3 DEF OptedOut, Exists
  <2>7. CustomersTypeOK' /\ Grown BY <2>1, <2>2, <2>4, <2>5 DEF CustomersTypeOK, Grown
  <2>8. "done" \notin Names BY DEF Names
  <2> QED BY <2>1, <2>2, <2>5, <2>6, <2>7, <2>8 DEF FoundExists, OptOutKept, Exists, CustomersTypeOK
<1>5. CASE OptOutInserts(o)
  <2>1. CASE Exists(o[2])
    BY <1>5, <2>1 DEF OptOutInserts, CustomersTypeOK, FoundExists, OptOutKept, Grown, Exists, OptedOut
  <2>2. CASE ~Exists(o[2])
    <3>1. /\ DOMAIN customers' = DOMAIN customers \cup {o[2]}
          /\ customers' = [p \in DOMAIN customers' |-> customers'[p]]
          /\ customers'[o[2]] = [name |-> "null", out |-> TRUE]
          /\ \A p \in DOMAIN customers : customers'[p] = customers[p]
          /\ UNCHANGED <<members, conflicts>> /\ optouts' = [optouts EXCEPT ![o] = "done"]
      BY <1>5, <2>2 DEF OptOutInserts, Exists
    <3>2. customers'[o[2]] \in Customer /\ customers'[o[2]].out BY <3>1 DEF Customer, Names
    <3>3. customers' \in [DOMAIN customers' -> Customer] BY <3>1, <3>2 DEF CustomersTypeOK
    <3>4. \A p : OptedOut(p) => OptedOut(p)' BY <3>1 DEF OptedOut, Exists
    <3>5. OptedOut(o[2])' BY <3>1, <3>2 DEF OptedOut, Exists
    <3>6. CustomersTypeOK' /\ Grown BY <1>2, <3>1, <3>3, <3>4 DEF CustomersTypeOK, Grown
    <3> QED BY <3>1, <3>4, <3>5, <3>6 DEF FoundExists, OptOutKept, Exists, CustomersTypeOK
  <2> QED BY <2>1, <2>2
<1> QED BY <1>1, <1>3, <1>4, <1>5
-----------------------------------------------------------------------------
(***************************************************************************)
(* Uploads                                                                 *)
(***************************************************************************)
WorkerRow == [at: WorkerAt, line: Nat, batch: Seq(ValidRow), counts: Counters]

LEMMA NoWorkerFacts ==
  /\ NoWorker \in WorkerRow /\ NoWorker.at = "none" /\ NoWorker.batch = <<>> /\ NoWorker.line = 1
  /\ Worker \in WorkerRow /\ Worker.at = "new" /\ Worker.batch = <<>> /\ Worker.line = 1 /\ Worker.counts = Zero
BY EmptyBatch DEF NoWorker, Worker, WorkerRow, WorkerAt, Counters, Zero

(* How a line, a rejection and a batch count.                              *)
BatchCounted(c, k, m, n) == [c EXCEPT !.succeeded = k, !.skipped = m, !.processed = n]

LEMMA Counting ==
  ASSUME NEW c \in Counters
  PROVE  /\ c.total \in Nat /\ c.processed \in Nat /\ c.succeeded \in Nat /\ c.skipped \in Nat /\ c.rejected \in Nat
         /\ \A n \in Nat : LET d == [c EXCEPT !.total = n] IN
              /\ d \in Counters /\ d.total = n /\ d.rejected = c.rejected /\ d.processed = c.processed
              /\ d.succeeded = c.succeeded /\ d.skipped = c.skipped
         /\ \A m, n \in Nat : LET d == [c EXCEPT !.rejected = m, !.processed = n] IN
              /\ d \in Counters /\ d.total = c.total /\ d.rejected = m /\ d.processed = n
              /\ d.succeeded = c.succeeded /\ d.skipped = c.skipped
         /\ \A k, m, n \in Nat : LET d == BatchCounted(c, k, m, n) IN
              /\ d \in Counters /\ d.total = c.total /\ d.rejected = c.rejected /\ d.processed = n
              /\ d.succeeded = k /\ d.skipped = m
BY DEF Counters, BatchCounted

(* A line is read: rejected, or put into the batch.                        *)
Read(x)        == [x EXCEPT !.line = @ + 1, !.counts.total = @ + 1]
Rejected(x)    == [Read(x) EXCEPT !.counts.rejected = @ + 1, !.counts.processed = @ + 1]
Taken(x, row)  == [Read(x) EXCEPT !.batch = Append(@, row)]
Adds(x, n)     == /\ x.counts.total = x.line - 1
                  /\ x.counts.succeeded + x.counts.skipped + x.counts.rejected = x.counts.processed
                  /\ x.counts.processed + n = x.line - 1

LEMMA ReadFacts ==
  ASSUME NEW x \in WorkerRow, Adds(x, Len(x.batch))
  PROVE  /\ Rejected(x) \in WorkerRow /\ Rejected(x).at = x.at /\ Rejected(x).line = x.line + 1
         /\ Rejected(x).batch = x.batch /\ Adds(Rejected(x), Len(x.batch))
         /\ \A row \in ValidRow :
              /\ Taken(x, row) \in WorkerRow /\ Taken(x, row).at = x.at /\ Taken(x, row).line = x.line + 1
              /\ Taken(x, row).batch = Append(x.batch, row) /\ Adds(Taken(x, row), Len(x.batch) + 1)
<1> DEFINE c == x.counts
           d == [c EXCEPT !.total = c.total + 1]
           e == [d EXCEPT !.rejected = d.rejected + 1, !.processed = d.processed + 1]
           y == Read(x)
<1>1. /\ x \in [at: WorkerAt, line: Nat, batch: Seq(ValidRow), counts: Counters]
      /\ x.line \in Nat /\ x.line + 1 \in Nat /\ Len(x.batch) \in Nat /\ c \in Counters
  BY LenProperties DEF WorkerRow
<1>2. c.total + 1 \in Nat BY <1>1 DEF Counters
<1>3. /\ d \in Counters /\ d.total = c.total + 1 /\ d.rejected = c.rejected /\ d.processed = c.processed
      /\ d.succeeded = c.succeeded /\ d.skipped = c.skipped
  BY <1>1, <1>2 DEF Counters
<1>4. /\ y.counts = d /\ y.line = x.line + 1 /\ y.at = x.at /\ y.batch = x.batch
      /\ y \in [at: {y.at}, line: {y.line}, batch: {y.batch}, counts: {y.counts}]
  BY <1>1 DEF Read
<1> HIDE DEF d, y
<1>5. y \in WorkerRow BY <1>1, <1>3, <1>4 DEF WorkerRow
<1>6. d.rejected \in Nat /\ d.processed \in Nat BY <1>3 DEF Counters
<1>7. /\ e \in Counters /\ e.total = d.total /\ e.rejected = d.rejected + 1 /\ e.processed = d.processed + 1
      /\ e.succeeded = d.succeeded /\ e.skipped = d.skipped
  <2>1. d.rejected + 1 \in Nat /\ d.processed + 1 \in Nat /\ d \in Counters BY <1>3, <1>6
  <2>2. \A m, n \in Nat : LET f == [d EXCEPT !.rejected = m, !.processed = n] IN
          /\ f \in Counters /\ f.total = d.total /\ f.rejected = m /\ f.processed = n
          /\ f.succeeded = d.succeeded /\ f.skipped = d.skipped
    BY <2>1, Counting
  <2> QED BY <2>1, <2>2
<1>8. /\ Rejected(x).counts = e /\ Rejected(x).line = x.line + 1 /\ Rejected(x).at = x.at
      /\ Rejected(x).batch = x.batch /\ Rejected(x) \in WorkerRow
  <2>1. Rejected(x) = [y EXCEPT !.counts = e] BY <1>4, <1>5 DEF Rejected, WorkerRow, y
  <2>2. e \in Counters BY <1>7
  <2> HIDE DEF e
  <2> QED BY <1>4, <1>5, <2>1, <2>2 DEF WorkerRow
<1> HIDE DEF e
<1>9. c.rejected \in Nat /\ c.processed \in Nat /\ c.succeeded \in Nat /\ c.skipped \in Nat /\ c.total \in Nat
  BY <1>1 DEF Counters
<1> HIDE DEF c
<1>10. /\ c.total = x.line - 1 /\ c.succeeded + c.skipped + c.rejected = c.processed
       /\ c.processed + Len(x.batch) = x.line - 1
  BY DEF Adds, c
<1>11. Adds(Rejected(x), Len(x.batch))
  <2>1. e.total = (x.line + 1) - 1 BY <1>1, <1>3, <1>7, <1>10
  <2>2. e.succeeded + e.skipped + e.rejected = e.processed BY <1>3, <1>7, <1>9, <1>10
  <2>3. e.processed + Len(x.batch) = (x.line + 1) - 1 BY <1>1, <1>3, <1>7, <1>9, <1>10
  <2> QED BY <1>8, <2>1, <2>2, <2>3 DEF Adds
<1>12. ASSUME NEW row \in ValidRow
       PROVE  /\ Taken(x, row) \in WorkerRow /\ Taken(x, row).at = x.at /\ Taken(x, row).line = x.line + 1
              /\ Taken(x, row).batch = Append(x.batch, row) /\ Adds(Taken(x, row), Len(x.batch) + 1)
  <2> DEFINE z == Taken(x, row)
  <2>1. Append(x.batch, row) \in Seq(ValidRow) BY <1>1, AppendProperties
  <2>2. z = [y EXCEPT !.batch = Append(x.batch, row)] BY <1>4 DEF Taken, y
  <2>3. /\ z \in WorkerRow /\ z.at = x.at /\ z.line = x.line + 1
        /\ z.batch = Append(x.batch, row) /\ z.counts = d
    BY <1>4, <1>5, <2>1, <2>2 DEF WorkerRow
  <2>4. d.total = (x.line + 1) - 1 BY <1>1, <1>3, <1>10
  <2>5. d.succeeded + d.skipped + d.rejected = d.processed BY <1>3, <1>9, <1>10
  <2>6. d.processed + (Len(x.batch) + 1) = (x.line + 1) - 1 BY <1>1, <1>3, <1>9, <1>10
  <2> QED BY <2>3, <2>4, <2>5, <2>6 DEF Adds
<1> QED BY <1>8, <1>11, <1>12

LEMMA RowsFacts ==
  ASSUME NEW u \in Uploads
  PROVE  /\ Len(Rows[u]) \in Nat /\ DOMAIN Rows[u] = 1 .. Len(Rows[u])
         /\ \A i \in 1 .. Len(Rows[u]) :
              Rows[u][i] \in [phone: Phones \cup {"bad"}, name: Names]
         /\ \A i \in 1 .. Len(Rows[u]) : Rows[u][i].phone # "bad" => Rows[u][i] \in ValidRow
         /\ \A p : p \in Valid(u) <=> p # "bad" /\ \E i \in 1 .. Len(Rows[u]) : Rows[u][i].phone = p
<1>1. Rows[u] \in Seq([phone: Phones \cup {"bad"}, name: Names]) BY RowsAssumption
<1>2. /\ Len(Rows[u]) \in Nat /\ DOMAIN Rows[u] = 1 .. Len(Rows[u])
      /\ \A i \in 1 .. Len(Rows[u]) : Rows[u][i] \in [phone: Phones \cup {"bad"}, name: Names]
  BY <1>1, ElementOfSeq, LenProperties
<1>3. \A i \in 1 .. Len(Rows[u]) : Rows[u][i].phone # "bad" => Rows[u][i] \in ValidRow
  BY <1>2 DEF ValidRow
<1> QED BY <1>2, <1>3 DEF Valid

(* The upload u and its worker get new rows, the requests stay.            *)
Moves(u, y, w) ==
  /\ uploads' = [uploads EXCEPT ![u] = y] /\ workers' = [workers EXCEPT ![u] = w]
  /\ UNCHANGED <<paths, starts, launched>>

LEMMA WorkerMoves ==
  ASSUME UploadsInv, NEW u \in Uploads, NEW y \in Upload, NEW w \in WorkerRow, Moves(u, y, w), Grown,
         w.line \in 1 .. Len(Rows[u]) + 1, workers[u].at # "none", y.status # "NONE",
         WorkerSound(u)', CompletedRests(u)'
  PROVE  UploadsInv'
<1> USE DEF Moves
<1>1. UploadsFormed' BY DEF UploadsInv, UploadsFormed, WorkerRow
<1>2. /\ uploads'[u] = y /\ workers'[u] = w
      /\ \A v \in Uploads : v # u => uploads'[v] = uploads[v] /\ workers'[v] = workers[v]
  BY DEF UploadsInv, UploadsFormed
<1>3. ASSUME NEW v \in Uploads PROVE (OneReader(v) /\ WorkerSound(v) /\ CompletedRests(v))'
  <2>1. OneReader(v) /\ WorkerSound(v) /\ CompletedRests(v) BY DEF UploadsInv
  <2>2. OneReader(v)'
    <3>1. \A s : Holds(s)' <=> Holds(s) BY DEF Holds
    <3>2. CASE v = u BY <1>2, <2>1, <3>1, <3>2 DEF OneReader, UploadsInv, UploadsFormed
    <3>3. CASE v # u BY <1>2, <2>1, <3>1, <3>3 DEF OneReader
    <3> QED BY <3>2, <3>3
  <2>3. CASE v = u BY <2>2, <2>3
  <2>4. CASE v # u
    <3>1. WorkerSound(v)' BY <1>2, <2>1, <2>4 DEF WorkerSound, LinesCounted, LinesKept, AtEnd, Grown
    <3>2. CompletedRests(v)' BY <1>2, <2>1, <2>4 DEF CompletedRests, Grown
    <3> QED BY <2>2, <3>1, <3>2
  <2> QED BY <2>3, <2>4
<1> QED BY <1>1, <1>3 DEF UploadsInv

(* Only customers change, and grow.                                        *)
LEMMA OthersKeepUploads ==
  ASSUME UploadsInv, UNCHANGED uploadVars, Grown
  PROVE  UploadsInv'
<1>1. \A u \in Uploads : OneReader(u)' BY DEF UploadsInv, OneReader, uploadVars, Holds
<1>2. \A u \in Uploads : WorkerSound(u)'
  BY DEF UploadsInv, WorkerSound, LinesCounted, LinesKept, AtEnd, Grown, uploadVars
<1>3. \A u \in Uploads : CompletedRests(u)' BY DEF UploadsInv, CompletedRests, Grown, uploadVars
<1>4. UploadsFormed' BY DEF UploadsInv, UploadsFormed, uploadVars
<1> QED BY <1>1, <1>2, <1>3, <1>4 DEF UploadsInv, uploadVars

LEMMA Unchanged_Grown == ASSUME UNCHANGED customerVars PROVE Grown
BY DEF customerVars, Grown, OptedOut, Exists

LEMMA UploadFacts ==
  ASSUME UploadsInv, NEW u \in Uploads
  PROVE  /\ uploads[u] \in Upload /\ workers[u] \in WorkerRow
         /\ workers[u].line \in 1 .. Len(Rows[u]) + 1
         /\ OneReader(u) /\ WorkerSound(u) /\ CompletedRests(u)
         /\ [uploads EXCEPT ![u] = uploads[u]] = uploads /\ [workers EXCEPT ![u] = workers[u]] = workers
BY DEF UploadsInv, UploadsFormed, WorkerRow

(* One lemma per step of the worker.                                       *)
LEMMA Begins ==
  ASSUME UploadsInv, NEW u \in Uploads, WorkerBegins(u), UNCHANGED customerVars
  PROVE  UploadsInv'
<1> DEFINE y == [uploads[u] EXCEPT !.status = "PROCESSING"]
           w == [workers[u] EXCEPT !.at = "reading"]
<1>1. uploads[u] \in Upload /\ workers[u] \in WorkerRow /\ WorkerSound(u) /\ Grown
  BY UploadFacts, Unchanged_Grown
<1>2. y \in Upload /\ y.status = "PROCESSING" /\ w \in WorkerRow /\ w.at = "reading"
      /\ w.line = workers[u].line /\ w.batch = workers[u].batch /\ w.counts = workers[u].counts
  BY <1>1 DEF Upload, WorkerRow, WorkerAt
<1>3. Moves(u, y, w) /\ workers[u].at = "new"
  BY DEF WorkerBegins, Moves
<1>4. uploads'[u] = y /\ workers'[u] = w BY <1>3 DEF Moves, UploadsInv, UploadsFormed
<1> HIDE DEF y, w
<1>5. WorkerSound(u)'
  BY <1>1, <1>2, <1>3, <1>4 DEF WorkerSound, LinesCounted, LinesKept, customerVars
<1>6. CompletedRests(u)' BY <1>2, <1>4 DEF CompletedRests
<1> QED BY <1>1, <1>2, <1>3, <1>5, <1>6, UploadFacts, WorkerMoves

LEMMA Parses ==
  ASSUME UploadsInv, NEW u \in Uploads, WorkerParses(u), UNCHANGED customerVars
  PROVE  UploadsInv'
<1> DEFINE x == workers[u]
           row == Rows[u][x.line]
           w == IF row.phone = "bad" THEN Rejected(x) ELSE Taken(x, row)
<1>1. /\ uploads[u] \in Upload /\ x \in WorkerRow /\ x.line \in 1 .. Len(Rows[u]) + 1
      /\ WorkerSound(u) /\ OneReader(u) /\ CompletedRests(u) /\ Grown
  BY UploadFacts, Unchanged_Grown
<1>2. x.at = "reading" /\ x.line \in 1 .. Len(Rows[u]) /\ Len(Rows[u]) \in Nat
  BY <1>1, RowsFacts DEF WorkerParses, AtEnd
<1>3. workers' = [workers EXCEPT ![u] = w] /\ UNCHANGED <<uploads, paths, starts, launched>>
  BY DEF WorkerParses, Rejected, Taken, Read
<1>4. Moves(u, uploads[u], w) /\ workers'[u] = w /\ uploads'[u] = uploads[u]
  BY <1>3, UploadFacts DEF Moves, UploadsInv, UploadsFormed
<1>5. Adds(x, Len(x.batch)) /\ HasLast(x.batch) /\ x.batch \in Seq(ValidRow) /\ Len(x.batch) \in Nat
  BY <1>1, <1>2, LenProperties DEF WorkerSound, LinesCounted, Adds, WorkerRow
<1>6. \A i \in 1 .. x.line - 1 :
        Rows[u][i].phone # "bad" => Rows[u][i].phone \in members \cup PhonesOf(x.batch)
  BY <1>1, <1>2 DEF WorkerSound, LinesKept
<1>7. row.phone # "bad" => row \in ValidRow BY <1>2, RowsFacts
<1> HIDE DEF x
<1>8. /\ w \in WorkerRow /\ w.at = "reading" /\ w.line = x.line + 1
      /\ HasLast(w.batch) /\ Adds(w, Len(w.batch))
      /\ PhonesOf(w.batch) = IF row.phone = "bad" THEN PhonesOf(x.batch) ELSE PhonesOf(x.batch) \cup {row.phone}
  <2>1. CASE row.phone = "bad" BY <1>1, <1>2, <1>5, <2>1, ReadFacts
  <2>2. CASE row.phone # "bad" BY <1>1, <1>2, <1>5, <1>7, <2>2, ReadFacts, LongerBatch
  <2> QED BY <2>1, <2>2
<1> HIDE DEF w
<1>9. \A i \in 1 .. w.line - 1 :
        Rows[u][i].phone # "bad" => Rows[u][i].phone \in members \cup PhonesOf(w.batch)
  <2>1. SUFFICES ASSUME NEW i \in 1 .. w.line - 1, Rows[u][i].phone # "bad"
                 PROVE  Rows[u][i].phone \in members \cup PhonesOf(w.batch)
    OBVIOUS
  <2>2. i \in 1 .. x.line - 1 \/ i = x.line BY <1>2, <1>8
  <2> QED BY <1>6, <1>8, <2>1, <2>2
<1>10. WorkerSound(u)'
  BY <1>4, <1>8, <1>9 DEF WorkerSound, LinesCounted, LinesKept, customerVars, Adds
<1>11. CompletedRests(u)' BY <1>1, <1>2, <1>4 DEF CompletedRests, x
<1>12. uploads[u].status # "NONE" /\ workers[u].at # "none" BY <1>1, <1>2 DEF OneReader, x
<1>13. w.line \in 1 .. Len(Rows[u]) + 1 BY <1>2, <1>8
<1> QED BY <1>1, <1>4, <1>8, <1>10, <1>11, <1>12, <1>13, WorkerMoves

(* The statement that stores a batch also counts it.                       *)
Stored(x, new) ==
  [x EXCEPT !.at = "members", !.counts.succeeded = @ + new,
            !.counts.skipped = @ + Len(x.batch) - new, !.counts.processed = @ + Len(x.batch)]

LEMMA StoredFacts ==
  ASSUME NEW x \in WorkerRow, Adds(x, Len(x.batch)), NEW new \in 0 .. Len(x.batch)
  PROVE  /\ Stored(x, new) \in WorkerRow /\ Stored(x, new).at = "members" /\ Stored(x, new).line = x.line
         /\ Stored(x, new).batch = x.batch /\ Adds(Stored(x, new), 0)
<1> DEFINE c == x.counts
           n == Len(x.batch)
           e == [c EXCEPT !.succeeded = c.succeeded + new, !.skipped = c.skipped + n - new, !.processed = c.processed + n]
<1>1. /\ x \in [at: WorkerAt, line: Nat, batch: Seq(ValidRow), counts: Counters]
      /\ x.line \in Nat /\ n \in Nat /\ c \in Counters
  BY LenProperties DEF WorkerRow
<1>2. c.rejected \in Nat /\ c.processed \in Nat /\ c.succeeded \in Nat /\ c.skipped \in Nat /\ c.total \in Nat
  BY <1>1 DEF Counters
<1>3. /\ c.total = x.line - 1 /\ c.succeeded + c.skipped + c.rejected = c.processed
      /\ c.processed + n = x.line - 1
  BY DEF Adds
<1> HIDE DEF c, n
<1>4. c.succeeded + new \in Nat /\ c.skipped + n - new \in Nat /\ c.processed + n \in Nat BY <1>1, <1>2 DEF n
<1>5. /\ e \in Counters /\ e.total = c.total /\ e.rejected = c.rejected
      /\ e.succeeded = c.succeeded + new /\ e.skipped = c.skipped + n - new /\ e.processed = c.processed + n
  <2>1. \A k, m, l \in Nat : LET f == BatchCounted(c, k, m, l) IN
          /\ f \in Counters /\ f.total = c.total /\ f.rejected = c.rejected /\ f.processed = l
          /\ f.succeeded = k /\ f.skipped = m
    BY <1>1, Counting
  <2>2. e = BatchCounted(c, c.succeeded + new, c.skipped + n - new, c.processed + n) BY DEF BatchCounted
  <2> DEFINE k == c.succeeded + new
             m == c.skipped + n - new
             l == c.processed + n
             f == BatchCounted(c, k, m, l)
  <2>3. k \in Nat /\ m \in Nat /\ l \in Nat BY <1>4
  <2> HIDE DEF k, m, l
  <2>4. /\ f \in Counters /\ f.total = c.total /\ f.rejected = c.rejected /\ f.processed = l
        /\ f.succeeded = k /\ f.skipped = m
    BY <2>1, <2>3
  <2>5. e = f BY <2>2 DEF k, m, l
  <2> HIDE DEF e, f
  <2> QED BY <2>4, <2>5 DEF k, m, l
<1>6. Stored(x, new) = [x EXCEPT !.at = "members", !.counts = e]
  BY <1>1 DEF Stored, c, n, WorkerRow
<1> HIDE DEF e
<1>7. /\ Stored(x, new) \in WorkerRow /\ Stored(x, new).at = "members" /\ Stored(x, new).line = x.line
      /\ Stored(x, new).batch = x.batch /\ Stored(x, new).counts = e
  BY <1>1, <1>5, <1>6 DEF WorkerRow, WorkerAt
<1>8. e.succeeded + e.skipped + e.rejected = e.processed
  <2>1. new \in Nat /\ n \in Nat BY <1>1 DEF n
  <2> QED BY <1>2, <1>3, <1>5, <2>1
<1>9. e.processed + 0 = x.line - 1 BY <1>1, <1>2, <1>3, <1>5
<1> QED BY <1>3, <1>5, <1>7, <1>8, <1>9 DEF Adds

LEMMA Upserts ==
  ASSUME IInv, NEW u \in Uploads, WorkerUpserts(u)
  PROVE  UploadsInv' /\ CustomersInv' /\ Grown
<1> DEFINE x == workers[u]
           new == Inserted(x.batch)
           w == Stored(x, new)
<1>1. /\ UploadsInv /\ CustomersInv /\ uploads[u] \in Upload /\ x \in WorkerRow
      /\ x.line \in 1 .. Len(Rows[u]) + 1
      /\ WorkerSound(u) /\ OneReader(u) /\ CompletedRests(u)
  BY UploadFacts DEF IInv
<1>2. x.at = "reading" BY DEF WorkerUpserts
<1>3. workers' = [workers EXCEPT ![u] = w] /\ UNCHANGED <<uploads, paths, starts, launched>>
      /\ customers' = Upserted(x.batch) /\ UNCHANGED <<members, optouts, conflicts>>
  BY DEF WorkerUpserts, Stored
<1>4. Moves(u, uploads[u], w) /\ workers'[u] = w /\ uploads'[u] = uploads[u]
  BY <1>1, <1>3, UploadFacts DEF Moves, UploadsInv, UploadsFormed
<1>5. Adds(x, Len(x.batch)) /\ HasLast(x.batch) /\ x.batch \in Seq(ValidRow) /\ Len(x.batch) \in Nat
  BY <1>1, <1>2, LenProperties DEF WorkerSound, LinesCounted, Adds, WorkerRow
<1>6. \A i \in 1 .. x.line - 1 :
        Rows[u][i].phone # "bad" => Rows[u][i].phone \in members \cup PhonesOf(x.batch)
  BY <1>1, <1>2 DEF WorkerSound, LinesKept
<1> HIDE DEF x
<1>7. new \in 0 .. Len(x.batch)
  <2>1. /\ IsFiniteSet(PhonesOf(x.batch)) /\ Cardinality(PhonesOf(x.batch)) <= Len(x.batch)
        /\ Cardinality(PhonesOf(x.batch)) \in Nat
    BY <1>5, PhonesOfBatch, FS_CardinalityType
  <2>2. /\ Cardinality(PhonesOf(x.batch) \ DOMAIN customers) \in Nat
        /\ Cardinality(PhonesOf(x.batch) \ DOMAIN customers) <= Cardinality(PhonesOf(x.batch))
    BY <2>1, FS_Subset, FS_CardinalityType
  <2> QED BY <1>5, <2>1, <2>2 DEF Inserted
<1>8. /\ w \in WorkerRow /\ w.at = "members" /\ w.line = x.line /\ w.batch = x.batch /\ Adds(w, 0)
  BY <1>1, <1>5, <1>7, StoredFacts
<1> HIDE DEF w
<1>9. CustomersInv' /\ Grown /\ PhonesOf(x.batch) \subseteq DOMAIN customers'
  <2>1. CustomersTypeOK /\ DOMAIN customers \subseteq DOMAIN customers' BY <1>1, <1>3, <1>5, UpsertedKeeps DEF CustomersInv
  <2>2. /\ DOMAIN customers' = DOMAIN customers \cup PhonesOf(x.batch)
        /\ customers' \in [DOMAIN customers' -> Customer] /\ DOMAIN customers' \subseteq Phones
        /\ \A p : OptedOut(p) => OptedOut(p)'
    BY <1>3, <1>5, <2>1, UpsertedKeeps
  <2>3. CustomersTypeOK' /\ Grown BY <1>3, <2>1, <2>2 DEF CustomersTypeOK, Grown
  <2> QED BY <1>1, <1>3, <2>2, <2>3, OthersKeepCustomers
<1>10. WorkerSound(u)'
  BY <1>3, <1>4, <1>5, <1>6, <1>8, <1>9 DEF WorkerSound, LinesCounted, LinesKept, Adds
<1>11. CompletedRests(u)' BY <1>1, <1>2, <1>4 DEF CompletedRests, x
<1>12. uploads[u].status # "NONE" /\ workers[u].at # "none" BY <1>1, <1>2 DEF OneReader, x
<1>13. w.line \in 1 .. Len(Rows[u]) + 1 BY <1>1, <1>8
<1> QED BY <1>1, <1>4, <1>8, <1>9, <1>10, <1>11, <1>12, <1>13, WorkerMoves

LEMMA AddsMembers ==
  ASSUME IInv, NEW u \in Uploads, WorkerAddsMembers(u)
  PROVE  UploadsInv' /\ CustomersInv' /\ Grown
<1> DEFINE x == workers[u]
           w == [x EXCEPT !.at = "reading", !.batch = <<>>]
<1>1. /\ UploadsInv /\ CustomersInv /\ uploads[u] \in Upload /\ x \in WorkerRow
      /\ x.line \in 1 .. Len(Rows[u]) + 1
      /\ WorkerSound(u) /\ OneReader(u) /\ CompletedRests(u)
  BY UploadFacts DEF IInv
<1>2. /\ x.at = "members" /\ members' = members \cup PhonesOf(x.batch)
      /\ UNCHANGED <<uploads, paths, starts, launched, customers, optouts, conflicts>>
      /\ workers' = [workers EXCEPT ![u] = w]
  BY DEF WorkerAddsMembers
<1>3. Moves(u, uploads[u], w) /\ workers'[u] = w /\ uploads'[u] = uploads[u]
  BY <1>1, <1>2, UploadFacts DEF Moves, UploadsInv, UploadsFormed
<1>4. /\ w \in WorkerRow /\ w.at = "reading" /\ w.line = x.line /\ w.batch = <<>> /\ w.counts = x.counts
      /\ x.line \in Nat /\ x.counts \in Counters
  BY <1>1, EmptyBatch DEF WorkerRow, WorkerAt
<1>5. LinesCounted(u) /\ LinesKept(u) /\ PhonesOf(x.batch) \subseteq DOMAIN customers
  BY <1>1, <1>2 DEF WorkerSound
<1> HIDE DEF x, w
<1>6. CustomersInv' /\ Grown
  <2>1. Grown BY <1>2 DEF Grown, OptedOut, Exists
  <2>2. CustomersTypeOK' BY <1>1, <1>2, <1>5 DEF CustomersInv, CustomersTypeOK
  <2> QED BY <1>1, <1>2, <2>1, <2>2, OthersKeepCustomers
<1>7. LinesCounted(u)'
  <2>1. x.counts.processed + 0 = x.line - 1 /\ x.counts.total = x.line - 1
        /\ x.counts.succeeded + x.counts.skipped + x.counts.rejected = x.counts.processed
    BY <1>2, <1>5 DEF LinesCounted, x
  <2> QED BY <1>3, <1>4, <2>1, EmptyBatch DEF LinesCounted
<1>8. LinesKept(u)' BY <1>2, <1>3, <1>4, <1>5 DEF LinesKept, x
<1>9. WorkerSound(u)' BY <1>3, <1>4, <1>7, <1>8, EmptyBatch DEF WorkerSound
<1>10. CompletedRests(u)' BY <1>1, <1>2, <1>3 DEF CompletedRests, x
<1>11. uploads[u].status # "NONE" /\ workers[u].at # "none" BY <1>1, <1>2 DEF OneReader, x
<1>12. w.line \in 1 .. Len(Rows[u]) + 1 BY <1>1, <1>4
<1> QED BY <1>1, <1>3, <1>4, <1>6, <1>9, <1>10, <1>11, <1>12, WorkerMoves

LEMMA Persists ==
  ASSUME UploadsInv, NEW u \in Uploads, WorkerPersists(u), UNCHANGED customerVars
  PROVE  UploadsInv'
<1> DEFINE x == workers[u]
           y == [uploads[u] EXCEPT !.counts = x.counts]
           w == [x EXCEPT !.at = IF AtEnd(u) THEN "ending" ELSE "reading"]
<1>1. /\ uploads[u] \in Upload /\ x \in WorkerRow /\ x.line \in 1 .. Len(Rows[u]) + 1
      /\ WorkerSound(u) /\ OneReader(u) /\ CompletedRests(u) /\ Grown
  BY UploadFacts, Unchanged_Grown
<1>2. x.at = "reading" /\ x.batch = <<>> /\ Moves(u, y, w) BY DEF WorkerPersists, Moves
<1>3. uploads'[u] = y /\ workers'[u] = w BY <1>2 DEF Moves, UploadsInv, UploadsFormed
<1>4. /\ w \in WorkerRow /\ w.at = (IF AtEnd(u) THEN "ending" ELSE "reading")
      /\ w.line = x.line /\ w.batch = x.batch /\ w.counts = x.counts
      /\ y \in Upload /\ y.status = uploads[u].status
  BY <1>1 DEF WorkerRow, WorkerAt, Upload
<1>5. AtEnd(u)' <=> AtEnd(u) BY <1>3, <1>4 DEF AtEnd
<1>6. LinesCounted(u) /\ LinesKept(u) /\ HasLast(x.batch) BY <1>1, <1>2 DEF WorkerSound
<1>11. uploads[u].status # "NONE" /\ uploads[u].status # "COMPLETED" /\ workers[u].at # "none"
  BY <1>1, <1>2 DEF OneReader, CompletedRests
<1> HIDE DEF w, y
<1>7. LinesCounted(u)' BY <1>2, <1>3, <1>4, <1>6 DEF LinesCounted
<1>8. LinesKept(u)' BY <1>3, <1>4, <1>6 DEF LinesKept, customerVars
<1>9. WorkerSound(u)' BY <1>2, <1>3, <1>4, <1>5, <1>6, <1>7, <1>8 DEF WorkerSound
<1>10. CompletedRests(u)' BY <1>3, <1>4, <1>11 DEF CompletedRests
<1> QED BY <1>1, <1>2, <1>4, <1>9, <1>10, <1>11, WorkerMoves

LEMMA Completes ==
  ASSUME UploadsInv, NEW u \in Uploads, WorkerCompletes(u) \/ WorkerFails(u), UNCHANGED customerVars
  PROVE  UploadsInv'
<1> DEFINE x == workers[u]
           s == IF WorkerCompletes(u) THEN "COMPLETED" ELSE "FAILED"
           y == [uploads[u] EXCEPT !.status = s, !.counts = x.counts]
<1>1. /\ uploads[u] \in Upload /\ x \in WorkerRow /\ x.line \in 1 .. Len(Rows[u]) + 1
      /\ WorkerSound(u) /\ OneReader(u) /\ CompletedRests(u) /\ Grown
      /\ Len(Rows[u]) \in Nat
  BY UploadFacts, Unchanged_Grown, RowsFacts
<1>2. x.at # "none" /\ (WorkerCompletes(u) => x.at = "ending") BY DEF WorkerCompletes, WorkerFails
<1>3. Moves(u, y, NoWorker)
  <2>1. CASE WorkerCompletes(u) BY <2>1 DEF WorkerCompletes, Moves
  <2>2. CASE ~WorkerCompletes(u) BY <2>2 DEF WorkerFails, Moves
  <2> QED BY <2>1, <2>2
<1>4. uploads'[u] = y /\ workers'[u] = NoWorker BY <1>3 DEF Moves, UploadsInv, UploadsFormed
<1>5. y \in Upload /\ y.status = s /\ y.counts = x.counts BY <1>1 DEF Upload, WorkerRow
<1>6. s = "COMPLETED" =>
        /\ launched[u] = 1 /\ x.line = Len(Rows[u]) + 1 /\ x.batch = <<>>
        /\ LinesCounted(u) /\ LinesKept(u)
  BY <1>1, <1>2 DEF WorkerSound, OneReader, AtEnd
<1>7. s \in {"COMPLETED", "FAILED"} OBVIOUS
<1> HIDE DEF s, y
<1>8. CompletedRests(u)'
  <2>1. CASE s = "COMPLETED"
    <3>1. /\ x.counts.total = Len(Rows[u]) /\ x.counts.processed = Len(Rows[u])
          /\ x.counts.succeeded + x.counts.skipped + x.counts.rejected = Len(Rows[u])
      <4>1. /\ x.counts.total = x.line - 1 /\ x.counts.processed + 0 = x.line - 1
            /\ x.counts.succeeded + x.counts.skipped + x.counts.rejected = x.counts.processed
        BY <1>2, <1>6, <2>1, EmptyBatch DEF LinesCounted
      <4>2. x.counts.processed \in Nat BY <1>1 DEF WorkerRow, Counters
      <4> QED BY <1>1, <1>6, <2>1, <4>1, <4>2
    <3>2. Valid(u) \subseteq members'
      <4>1. \A i \in 1 .. Len(Rows[u]) : Rows[u][i].phone # "bad" => Rows[u][i].phone \in members
        BY <1>1, <1>6, <2>1, EmptyBatch DEF LinesKept
      <4> QED BY <4>1, RowsFacts DEF customerVars
    <3> QED BY <1>3, <1>4, <1>5, <1>6, <2>1, <3>1, <3>2, NoWorkerFacts DEF CompletedRests, Moves
  <2>2. CASE s = "FAILED" BY <1>4, <1>5, <2>2 DEF CompletedRests
  <2> QED BY <1>7, <2>1, <2>2
<1>9. WorkerSound(u)' BY <1>4, NoWorkerFacts, EmptyBatch DEF WorkerSound
<1> QED BY <1>1, <1>2, <1>3, <1>5, <1>7, <1>8, <1>9, NoWorkerFacts, WorkerMoves

(* A request moves while every worker stands.                              *)
LEMMA WorkersStand ==
  ASSUME UploadsInv, UNCHANGED <<workers, customers, members>>,
         UploadsFormed', paths' \subseteq Uploads, launched' \in [Uploads -> Nat],
         starts' \in [Starts -> {"new", "take", "mapping", "spawn", "done"}],
         \A u \in Uploads : OneReader(u)' /\ CompletedRests(u)'
  PROVE  UploadsInv'
BY DEF UploadsInv, WorkerSound, LinesCounted, LinesKept, AtEnd

LEMMA Stages ==
  ASSUME UploadsInv, NEW u \in Uploads, Stage(u), UNCHANGED customerVars
  PROVE  UploadsInv'
<1> USE DEF Stage, customerVars
<1>1. uploads[u] \in Upload /\ OneReader(u) BY UploadFacts
<1>2. UploadsFormed' /\ uploads'[u].status = "PENDING"
      /\ \A v \in Uploads : v # u => uploads'[v] = uploads[v]
  BY <1>1 DEF UploadsInv, UploadsFormed, Upload
<1>3. \A s : Holds(s)' <=> Holds(s) BY DEF Holds
<1>4. launched[u] = 0 /\ \A s \in Starts : s[2] = u => ~Holds(s)
  <2>1. launched[u] \in Nat /\ launched[u] <= 1 /\ launched[u] # 1 BY <1>1 DEF OneReader, UploadsInv
  <2> QED BY <1>1, <2>1 DEF OneReader
<1>5. ASSUME NEW v \in Uploads PROVE OneReader(v)' /\ CompletedRests(v)'
  <2>1. OneReader(v) /\ CompletedRests(v) BY DEF UploadsInv
  <2>2. CASE v = u BY <1>2, <1>3, <1>4, <2>1, <2>2 DEF OneReader, CompletedRests
  <2>3. CASE v # u
    <3>1. v \in paths' <=> v \in paths BY <2>3
    <3> QED BY <1>2, <1>3, <2>1, <2>3, <3>1 DEF OneReader, CompletedRests
  <2> QED BY <2>2, <2>3
<1> QED BY <1>2, <1>5, WorkersStand DEF UploadsInv

LEMMA Reads ==
  ASSUME UploadsInv, NEW s \in Starts, StartReads(s), UNCHANGED customerVars
  PROVE  UploadsInv'
<1> USE DEF StartReads, customerVars
<1>1. starts' \in [Starts -> {"new", "take", "mapping", "spawn", "done"}] /\ UploadsFormed'
  BY DEF UploadsInv, UploadsFormed
<1>2. \A z \in Starts : (Holds(z)' <=> Holds(z)) /\ (starts'[z] = "take" => starts[z] = "take" \/ z = s)
  BY DEF Holds, UploadsInv
<1>3. ASSUME NEW v \in Uploads PROVE OneReader(v)' /\ CompletedRests(v)'
  <2>1. OneReader(v) /\ CompletedRests(v) BY DEF UploadsInv
  <2> QED BY <1>2, <2>1 DEF OneReader, CompletedRests
<1> QED BY <1>1, <1>3, WorkersStand DEF UploadsInv

LEMMA Takes ==
  ASSUME UploadsInv, NEW s \in Starts, StartTakes(s), UNCHANGED customerVars
  PROVE  UploadsInv'
<1> DEFINE u == s[2]
<1>1. u \in Uploads /\ uploads[u] \in Upload /\ OneReader(u) BY UploadFacts, StartsAssumption
<1>2. uploads[u].status # "NONE" /\ starts[s] = "take" /\ ~Holds(s)
  BY <1>1 DEF OneReader, StartTakes, Holds
<1>3. /\ starts' \in [Starts -> {"new", "take", "mapping", "spawn", "done"}]
      /\ paths' = paths \ {u} /\ UNCHANGED <<workers, launched, customers, members>>
      /\ \A z \in Starts : z # s => starts'[z] = starts[z]
      /\ starts'[s] \in {"mapping", "done"} /\ (starts'[s] = "mapping" => u \in paths)
  BY DEF StartTakes, UploadsInv, customerVars
<1>4. UploadsFormed' /\ \A v \in Uploads : \/ uploads'[v] = uploads[v]
                                           \/ (v = u /\ uploads'[v].status = "FAILED")
  <2>1. CASE u \in paths BY <2>1 DEF StartTakes, UploadsInv, UploadsFormed, customerVars
  <2>2. CASE u \notin paths
    <3>1. [uploads[u] EXCEPT !.status = "FAILED"] \in Upload BY <1>1 DEF Upload
    <3>2. uploads' = [uploads EXCEPT ![u] = [uploads[u] EXCEPT !.status = "FAILED"]] /\ UNCHANGED workers
      BY <2>2 DEF StartTakes
    <3>3. uploads' \in [Uploads -> Upload] BY <3>1, <3>2 DEF UploadsInv, UploadsFormed
    <3>4. UploadsFormed' BY <3>2, <3>3 DEF UploadsInv, UploadsFormed
    <3>5. [uploads[u] EXCEPT !.status = "FAILED"].status = "FAILED" BY <1>1 DEF Upload
    <3> QED BY <1>1, <3>2, <3>4, <3>5 DEF UploadsInv, UploadsFormed
  <2> QED BY <2>1, <2>2
<1>5. \A z \in Starts : (Holds(z)' => Holds(z) \/ (z = s /\ u \in paths))
                        /\ (starts'[z] = "take" => starts[z] = "take")
  BY <1>2, <1>3 DEF Holds
<1>6. ASSUME NEW v \in Uploads PROVE OneReader(v)' /\ CompletedRests(v)'
  <2>1. OneReader(v) /\ CompletedRests(v) BY DEF UploadsInv
  <2>2. CompletedRests(v)' BY <1>3, <1>4, <2>1 DEF CompletedRests
  <2>3. (uploads[v].status # "NONE" => uploads'[v].status # "NONE") /\ (v \in paths' => v \in paths /\ v # u)
        /\ (uploads'[v].status = "NONE" => uploads[v].status = "NONE")
    BY <1>3, <1>4
  <2>4. CASE v = u
    <3>1. u \in paths => launched[u] = 0 /\ \A z \in Starts : z[2] = u => ~Holds(z)
      BY <1>1 DEF OneReader
    <3> QED BY <1>1, <1>2, <1>3, <1>5, <2>1, <2>2, <2>3, <2>4, <3>1 DEF OneReader
  <2>5. CASE v # u
    <3>1. \A z \in Starts : z[2] = v => (Holds(z)' => Holds(z)) BY <1>5, <2>5
    <3> QED BY <1>3, <1>5, <2>1, <2>2, <2>3, <2>5, <3>1 DEF OneReader
  <2> QED BY <2>4, <2>5
<1> QED BY <1>3, <1>4, <1>6, WorkersStand DEF UploadsInv

LEMMA Stores ==
  ASSUME UploadsInv, NEW s \in Starts, StartStores(s), UNCHANGED customerVars
  PROVE  UploadsInv'
<1> DEFINE u == s[2]
<1> USE DEF StartStores, customerVars
<1>1. u \in Uploads /\ uploads[u] \in Upload BY UploadFacts, StartsAssumption
<1>2. /\ UploadsFormed' /\ starts' \in [Starts -> {"new", "take", "mapping", "spawn", "done"}]
      /\ \A v \in Uploads : uploads'[v].status = uploads[v].status /\ uploads'[v].counts = uploads[v].counts
  BY <1>1 DEF UploadsInv, UploadsFormed, Upload
<1>3. \A z \in Starts : (Holds(z)' <=> Holds(z)) /\ (starts'[z] = "take" => starts[z] = "take")
  BY DEF Holds, UploadsInv
<1>4. ASSUME NEW v \in Uploads PROVE OneReader(v)' /\ CompletedRests(v)'
  <2>1. OneReader(v) /\ CompletedRests(v) BY DEF UploadsInv
  <2> QED BY <1>2, <1>3, <2>1 DEF OneReader, CompletedRests
<1> QED BY <1>2, <1>4, WorkersStand DEF UploadsInv

(* The one worker of an upload is scheduled.                               *)
LEMMA Spawns ==
  ASSUME UploadsInv, NEW s \in Starts, StartSpawns(s), UNCHANGED customerVars
  PROVE  UploadsInv'
<1> DEFINE u == s[2]
<1>1. u \in Uploads /\ uploads[u] \in Upload /\ OneReader(u) /\ CompletedRests(u) /\ workers[u] \in WorkerRow
  BY UploadFacts, StartsAssumption
<1>2. starts[s] = "spawn" /\ Holds(s) BY DEF StartSpawns, Holds
<1>3. /\ launched[u] = 0 /\ uploads[u].status # "NONE" /\ u \notin paths /\ workers[u].at = "none"
      /\ \A z \in Starts : z[2] = u /\ Holds(z) => z = s
  <2>1. launched[u] = 0 /\ uploads[u].status # "NONE" BY <1>1, <1>2 DEF OneReader
  <2>2. u \notin paths BY <1>1, <1>2 DEF OneReader
  <2>3. workers[u].at = "none" BY <1>1, <2>1 DEF OneReader
  <2>4. \A z \in Starts : z[2] = u /\ Holds(z) => z = s BY <1>1, <1>2 DEF OneReader
  <2> QED BY <2>1, <2>2, <2>3, <2>4
<1>4. /\ starts' = [starts EXCEPT ![s] = "done"] /\ launched' = [launched EXCEPT ![u] = 1]
      /\ workers' = [workers EXCEPT ![u] = Worker] /\ UNCHANGED <<uploads, paths, customers, members>>
  BY <1>1, <1>3 DEF StartSpawns, customerVars, UploadsInv, UploadsFormed
<1>5. /\ starts' \in [Starts -> {"new", "take", "mapping", "spawn", "done"}] /\ launched' \in [Uploads -> Nat]
      /\ launched'[u] = 1 /\ workers'[u] = Worker
      /\ \A v \in Uploads : v # u => launched'[v] = launched[v] /\ workers'[v] = workers[v]
      /\ \A z \in Starts : (Holds(z)' <=> Holds(z) /\ z # s) /\ (starts'[z] = "take" => starts[z] = "take")
  BY <1>1, <1>4 DEF Holds, UploadsInv, UploadsFormed
<1>6. UploadsFormed'
  <2>1. Worker \in WorkerRow /\ Worker.line = 1 /\ Len(Rows[u]) \in Nat BY <1>1, NoWorkerFacts, RowsFacts
  <2>2. workers' \in [Uploads -> WorkerRow] BY <1>4, <2>1 DEF UploadsInv, UploadsFormed, WorkerRow
  <2>3. ASSUME NEW v \in Uploads PROVE workers'[v].line \in 1 .. Len(Rows[v]) + 1
    <3>1. CASE v = u
      <4>1. workers'[v].line = 1 BY <1>5, <2>1, <3>1
      <4> QED BY <2>1, <3>1, <4>1
    <3>2. CASE v # u
      <4>1. workers'[v] = workers[v] BY <1>5, <3>2
      <4> QED BY <4>1 DEF UploadsInv, UploadsFormed
    <3> QED BY <3>1, <3>2
  <2> QED BY <1>4, <2>2, <2>3 DEF UploadsInv, UploadsFormed, WorkerRow
<1>7. ASSUME NEW v \in Uploads PROVE (OneReader(v) /\ WorkerSound(v) /\ CompletedRests(v))'
  <2>1. OneReader(v) /\ WorkerSound(v) /\ CompletedRests(v) BY DEF UploadsInv
  <2>2. CASE v = u
    <3>1. OneReader(u)' BY <1>1, <1>3, <1>4, <1>5 DEF OneReader
    <3>2. CompletedRests(u)' BY <1>1, <1>3, <1>4 DEF CompletedRests
    <3>3. LinesCounted(u)' BY <1>5, NoWorkerFacts, EmptyBatch DEF LinesCounted, Zero
    <3>4. LinesKept(u)' BY <1>5, NoWorkerFacts DEF LinesKept
    <3>5. WorkerSound(u)' BY <1>5, <3>3, <3>4, NoWorkerFacts, EmptyBatch DEF WorkerSound
    <3> QED BY <2>2, <3>1, <3>2, <3>5
  <2>3. CASE v # u
    <3>1. OneReader(v)'
      <4>1. \A z \in Starts : z[2] = v => (Holds(z)' <=> Holds(z)) BY <1>5, <2>3
      <4> QED BY <1>4, <1>5, <2>1, <2>3, <4>1 DEF OneReader
    <3>2. WorkerSound(v)' BY <1>4, <1>5, <2>1, <2>3 DEF WorkerSound, LinesCounted, LinesKept, AtEnd
    <3>3. CompletedRests(v)' BY <1>4, <1>5, <2>1, <2>3 DEF CompletedRests
    <3> QED BY <3>1, <3>2, <3>3
  <2> QED BY <2>2, <2>3
<1> QED BY <1>4, <1>5, <1>6, <1>7 DEF UploadsInv

LEMMA UploadsKeep ==
  ASSUME IInv, UploadNext
  PROVE  UploadsInv' /\ CustomersInv' /\ Grown
<1> USE DEF IInv
<1>1. ASSUME UNCHANGED customerVars PROVE CustomersInv' /\ Grown
  BY <1>1, Unchanged_Grown
     DEF CustomersInv, CustomersTypeOK, FoundExists, OptOutKept, OptedOut, Exists, customerVars
<1>2. CASE \E u \in Uploads : Stage(u) /\ UNCHANGED customerVars BY <1>1, <1>2, Stages
<1>3. CASE \E u \in Uploads : WorkerStep(u)
  <2>1. PICK u \in Uploads : WorkerStep(u) BY <1>3
  <2>2. CASE UNCHANGED customerVars /\ WorkerBegins(u) BY <1>1, <2>2, Begins
  <2>3. CASE UNCHANGED customerVars /\ WorkerParses(u) BY <1>1, <2>3, Parses
  <2>4. CASE UNCHANGED customerVars /\ WorkerPersists(u) BY <1>1, <2>4, Persists
  <2>5. CASE UNCHANGED customerVars /\ WorkerCompletes(u) BY <1>1, <2>5, Completes
  <2>6. CASE WorkerUpserts(u) BY <2>6, Upserts
  <2>7. CASE WorkerAddsMembers(u) BY <2>7, AddsMembers
  <2> QED BY <2>1, <2>2, <2>3, <2>4, <2>5, <2>6, <2>7 DEF WorkerStep
<1>4. CASE \E s \in Starts : (StartReads(s) \/ StartTakes(s) \/ StartStores(s) \/ StartSpawns(s))
                             /\ UNCHANGED customerVars
  BY <1>1, <1>4, Reads, Takes, Stores, Spawns
<1> QED BY <1>2, <1>3, <1>4 DEF UploadNext

LEMMA FaultKeepsUploads ==
  ASSUME IInv, UploadFault
  PROVE  UploadsInv' /\ CustomersInv' /\ Grown
<1>1. PICK u \in Uploads : WorkerFails(u) /\ UNCHANGED customerVars BY DEF UploadFault
<1>2. UploadsInv' BY <1>1, Completes DEF IInv
<1>3. CustomersInv' /\ Grown
  BY <1>1, Unchanged_Grown
     DEF IInv, CustomersInv, CustomersTypeOK, FoundExists, OptOutKept, OptedOut, Exists, customerVars
<1> QED BY <1>2, <1>3

LEMMA RestartKeepsUploads ==
  ASSUME IInv, Restarts
  PROVE  UploadsInv' /\ CustomersInv' /\ Grown
<1>1. /\ paths' = {} /\ workers' = [u \in Uploads |-> NoWorker] /\ UNCHANGED <<uploads, launched>>
      /\ starts' = [s \in Starts |-> IF starts[s] = "new" THEN "new" ELSE "done"]
      /\ UNCHANGED <<customers, members, conflicts>>
      /\ optouts' = [o \in OptOuts |-> IF optouts[o] \in Names \cup {"unknown"} THEN "lost" ELSE optouts[o]]
  BY DEF Restarts, UploadsCrash
<1>2. CustomersInv' /\ Grown
  <2>1. Grown BY <1>1 DEF Grown, OptedOut, Exists
  <2>2. CustomersTypeOK' BY <1>1 DEF IInv, CustomersInv, CustomersTypeOK
  <2>3. \A o \in OptOuts : optouts'[o] \notin Names /\ (optouts'[o] = "done" => optouts[o] = "done")
    BY <1>1 DEF IInv, CustomersInv, CustomersTypeOK, Names
  <2> QED BY <1>1, <2>1, <2>2, <2>3 DEF IInv, CustomersInv, FoundExists, OptOutKept, OptedOut, Exists
<1>3. starts' \in [Starts -> {"new", "take", "mapping", "spawn", "done"}]
      /\ \A s \in Starts : ~Holds(s)' /\ starts'[s] # "take"
  BY <1>1 DEF Holds
<1>4. UploadsFormed'
  <2>1. \A u \in Uploads : NoWorker.line \in 1 .. Len(Rows[u]) + 1 BY NoWorkerFacts, RowsFacts
  <2>2. workers' \in [Uploads -> WorkerRow] BY <1>1, NoWorkerFacts
  <2> QED BY <1>1, <2>1, <2>2 DEF IInv, UploadsInv, UploadsFormed, WorkerRow
<1>5. ASSUME NEW u \in Uploads PROVE (OneReader(u) /\ WorkerSound(u) /\ CompletedRests(u))'
  <2>1. OneReader(u) /\ CompletedRests(u) /\ workers'[u] = NoWorker BY <1>1 DEF IInv, UploadsInv
  <2>2. OneReader(u)' BY <1>1, <1>3, <2>1, NoWorkerFacts DEF OneReader
  <2>3. WorkerSound(u)' BY <2>1, NoWorkerFacts, EmptyBatch DEF WorkerSound
  <2>4. CompletedRests(u)' BY <1>1, <2>1, NoWorkerFacts DEF CompletedRests
  <2> QED BY <2>2, <2>3, <2>4
<1> QED BY <1>1, <1>2, <1>3, <1>4, <1>5 DEF IInv, UploadsInv
-----------------------------------------------------------------------------
(***************************************************************************)
(* The broadcast                                                           *)
(***************************************************************************)
LEMMA RunSets ==
  /\ IsFiniteSet(Alive) /\ Cardinality(Alive) \in Nat
  /\ \A p : /\ IsFiniteSet(Posting(p)) /\ Cardinality(Posting(p)) \in Nat
            /\ Posting(p) \subseteq Alive /\ Cardinality(Posting(p)) <= Cardinality(Alive)
<1>1. Alive \subseteq Runs /\ \A p : Posting(p) \subseteq Alive BY DEF Alive, Posting
<1>2. IsFiniteSet(Alive) /\ Cardinality(Alive) \in Nat
  BY <1>1, SizesAssumption, FS_Subset, FS_CardinalityType
<1> HIDE DEF Alive, Posting
<1>3. ASSUME NEW p
      PROVE  /\ IsFiniteSet(Posting(p)) /\ Cardinality(Posting(p)) \in Nat
             /\ Cardinality(Posting(p)) <= Cardinality(Alive)
  BY <1>1, <1>2, FS_Subset, FS_CardinalityType
<1> QED BY <1>1, <1>2, <1>3

(* Only customers change: who opts out now has had no stray post, and the  *)
(* runs that may post to him are not more than were started.               *)
LEMMA OthersKeepBroadcast ==
  ASSUME BroadcastInv, UNCHANGED broadcastVars, Grown
  PROVE  BroadcastInv'
<1> USE DEF broadcastVars
<1>1. BroadcastFormed' BY DEF BroadcastInv, BroadcastFormed, RunFormed, Audience
<1>2. /\ NoneYet' /\ EmptyFound' /\ CompletedIsDone' /\ LateOnce' /\ LastCount' /\ RunsStarted'
      /\ Alive' = Alive /\ \A p : Posting(p)' = Posting(p)
  BY DEF BroadcastInv, NoneYet, EmptyFound, CompletedIsDone, LateOnce, LastCount, RunsStarted, Alive, Posting,
         Audience, InStatus, Tally
<1>3. StraysBounded'
  <2>1. SUFFICES ASSUME NEW p \in Audience'
                 PROVE  IF OptedOut(p)' THEN strays'[p] + Cardinality(Posting(p)') <= started' ELSE strays'[p] = 0
    BY DEF StraysBounded
  <2>2. p \in Audience /\ (OptedOut(p) => OptedOut(p)') BY DEF Audience, Grown
  <2>3. IF OptedOut(p) THEN strays[p] + Cardinality(Posting(p)) <= started ELSE strays[p] = 0
    BY <2>2 DEF BroadcastInv, StraysBounded
  <2>4. Cardinality(Posting(p)) <= started /\ Cardinality(Posting(p)) \in Nat
    <3>1. Cardinality(Alive) <= started /\ started \in Nat BY DEF BroadcastInv, RunsStarted, BroadcastFormed
    <3> QED BY <3>1, RunSets
  <2> QED BY <1>2, <2>2, <2>3, <2>4
<1> QED BY <1>1, <1>2, <1>3 DEF BroadcastInv

(***************************************************************************)
(* A run r that is there takes a step and is x after it.  Recipients only  *)
(* leave PENDING, and a run begins to post only to who has not opted out.  *)
(***************************************************************************)
Posts1(x, p) == p \in DOMAIN x.sends /\ x.sends[p].at = "post"
RunGoes(r, x) ==
  /\ runs[r].phase # "none" /\ runs' = [runs EXCEPT ![r] = x]
  /\ UNCHANGED <<template, requests, started, customers>>
RecipientsLeave ==
  /\ Audience' = Audience /\ recipients' \in [Audience -> {"PENDING"} \cup Tallied]
  /\ InStatus("PENDING")' \subseteq InStatus("PENDING")
StraysCounted(r, x) ==
  /\ strays' \in [Audience -> Nat]
  /\ \A p \in Audience :
       \/ strays'[p] = strays[p] /\ (Posts1(x, p) => ~OptedOut(p) \/ r \in Posting(p))
       \/ OptedOut(p) /\ r \in Posting(p) /\ ~Posts1(x, p) /\ strays'[p] = strays[p] + 1

LEMMA RunMoves ==
  ASSUME BroadcastInv, NEW r \in Runs, NEW x, RunGoes(r, x), RunFormed(x), RecipientsLeave, StraysCounted(r, x),
         counts' \in [Tallied -> Nat], lost' \in BOOLEAN, lost => lost', status' \in Statuses \ {"NONE"},
         x.phase \in {"last", "finish"} => InStatus("PENDING")' = {},
         status' = "COMPLETED" => status = "COMPLETED" \/ InStatus("PENDING")' = {},
         x.late <= (IF x.phase \in {"none", "begin", "fetch"} THEN 0 ELSE 1),
         x.phase = "finish" => x.tally = Tally',
         \/ status' = status
         \/ status' = "COMPLETED" => x.phase = "none" /\ (started = 1 /\ ~lost' => counts' = Tally')
  PROVE  BroadcastInv'
<1> USE DEF RunGoes, RecipientsLeave
<1>1. /\ \A z \in Runs : RunFormed(runs[z])
      /\ runs = [z \in Runs |-> runs[z]]
      /\ started \in Nat /\ runs'[r] = x /\ \A z \in Runs : z # r => runs'[z] = runs[z]
      /\ runs' = [z \in Runs |-> runs'[z]]
  BY DEF BroadcastInv, BroadcastFormed
<1>2. r \in Alive /\ Alive' \subseteq Alive /\ (x.phase = "none" => r \notin Alive')
  BY <1>1 DEF Alive
<1>3. started > 0 /\ Audience # {} /\ status # "NONE"
  <2>1. started # 0 BY <1>2 DEF BroadcastInv, RunsStarted
  <2> QED BY <1>1, <2>1 DEF BroadcastInv, NoneYet
<1>4. BroadcastFormed'
  <2>1. ASSUME NEW z \in Runs PROVE RunFormed(runs[z])'
    <3>1. \A y : RunFormed(y) => RunFormed(y)' BY DEF RunFormed
    <3>2. RunFormed(runs'[z]) BY <1>1
    <3>3. \A y : y = runs'[z] => (RunFormed(y)' <=> RunFormed(runs[z])') BY DEF RunFormed
    <3> QED BY <3>1, <3>2, <3>3
  <2>2. started' = started /\ template' = template /\ requests' = requests OBVIOUS
  <2>3. status' \in Statuses OBVIOUS
  <2>4. strays' \in [Audience' -> Nat] BY DEF StraysCounted
  <2> QED BY <1>1, <2>1, <2>2, <2>3, <2>4 DEF BroadcastFormed, BroadcastInv
<1>5. NoneYet' BY <1>3 DEF NoneYet
<1>6. RunsStarted'
  <2>1. Cardinality(Alive') <= Cardinality(Alive) /\ Cardinality(Alive') \in Nat /\ Cardinality(Alive) \in Nat
    BY <1>2, RunSets, FS_Subset, FS_CardinalityType
  <2> QED BY <1>1, <1>2, <1>3, <2>1 DEF BroadcastInv, RunsStarted
<1>7. EmptyFound'
  <2>1. \A z \in Runs : runs[z].phase \in {"last", "finish"} => InStatus("PENDING")' = {}
    BY DEF BroadcastInv, EmptyFound
  <2> QED BY <1>1, <2>1 DEF EmptyFound
<1>8. CompletedIsDone' BY DEF BroadcastInv, CompletedIsDone
<1>9. LateOnce'
  <2>1. \A z \in Runs : runs[z].late <= IF runs[z].phase \in {"none", "begin", "fetch"} THEN 0 ELSE 1
    BY DEF BroadcastInv, LateOnce
  <2> QED BY <1>1, <2>1 DEF LateOnce
<1>10. LastCount'
  <2>1. SUFFICES ASSUME started = 1, ~lost'
                 PROVE  /\ \A z \in Runs : runs'[z].phase = "finish" => runs'[z].tally = Tally'
                        /\ status' = "COMPLETED" => Alive' = {} /\ counts' = Tally'
    BY DEF LastCount
  <2>2. \A z \in Alive : z = r BY <1>2, <2>1 DEF BroadcastInv, RunsStarted
  <2>3. \A z \in Runs : z # r => runs'[z].phase = "none" BY <1>1, <2>2 DEF Alive
  <2>4. status # "COMPLETED" BY <1>2, <2>1 DEF BroadcastInv, LastCount
  <2>5. status' = "COMPLETED" => Alive' = {} /\ counts' = Tally' BY <1>2, <2>1, <2>2, <2>4
  <2> QED BY <1>1, <2>3, <2>5
<1>11. StraysBounded'
  <2>1. SUFFICES ASSUME NEW p \in Audience
                 PROVE  IF OptedOut(p)' THEN strays'[p] + Cardinality(Posting(p)') <= started ELSE strays'[p] = 0
    BY DEF StraysBounded
  <2>2. /\ IF OptedOut(p) THEN strays[p] + Cardinality(Posting(p)) <= started ELSE strays[p] = 0
        /\ strays[p] \in Nat /\ strays'[p] \in Nat
    BY DEF BroadcastInv, StraysBounded, BroadcastFormed, StraysCounted
  <2>3. OptedOut(p)' <=> OptedOut(p) BY DEF OptedOut, Exists
  <2>4. \A z \in Posting(p)' : z \in Posting(p) \/ (z = r /\ Posts1(x, p))
    BY <1>1 DEF Posting, Posts1
  <2>5. CASE ~OptedOut(p) BY <2>2, <2>3, <2>5 DEF StraysCounted
  <2>6. CASE OptedOut(p) /\ strays'[p] = strays[p] /\ (Posts1(x, p) => r \in Posting(p))
    <3>1. Posting(p)' \subseteq Posting(p) BY <2>4, <2>6
    <3>2. Cardinality(Posting(p)') <= Cardinality(Posting(p)) /\ Cardinality(Posting(p)') \in Nat
          /\ Cardinality(Posting(p)) \in Nat
      BY <3>1, RunSets, FS_Subset, FS_CardinalityType
    <3> QED BY <1>1, <2>2, <2>3, <2>6, <3>2
  <2>7. CASE OptedOut(p) /\ r \in Posting(p) /\ ~Posts1(x, p) /\ strays'[p] = strays[p] + 1
    <3>1. Posting(p)' \subseteq Posting(p) \ {r}
      <4>1. r \notin Posting(p)' BY <1>1, <2>7 DEF Posting, Posts1
      <4> QED BY <2>4, <2>7, <4>1
    <3>2. /\ IsFiniteSet(Posting(p) \ {r}) /\ Cardinality(Posting(p) \ {r}) = Cardinality(Posting(p)) - 1
          /\ Cardinality(Posting(p)) \in Nat
      BY <2>7, RunSets, FS_RemoveElement
    <3>3. Cardinality(Posting(p)') <= Cardinality(Posting(p) \ {r}) /\ Cardinality(Posting(p)') \in Nat
      BY <3>1, <3>2, FS_Subset, FS_CardinalityType
    <3> QED BY <1>1, <2>2, <2>3, <2>7, <3>2, <3>3
  <2> QED BY <2>5, <2>6, <2>7 DEF StraysCounted
<1> QED BY <1>4, <1>5, <1>6, <1>7, <1>8, <1>9, <1>10, <1>11 DEF BroadcastInv

(* The run as it is edited.                                                *)
WithSend(y, p, s) == [y EXCEPT !.sends[p] = s]

LEMMA Tallies ==
  /\ IsFiniteSet(Phones) /\ Tallied = {"SENT", "FAILED"} /\ BatchSize \in Nat /\ BatchSize > 0
  /\ MaxTries \in Nat /\ MaxTries > 0
  /\ <<>> \in [{} -> OneSend] /\ DOMAIN <<>> = {}
  /\ Cardinality({}) = 0 /\ IsFiniteSet({})
<1>1. <<>> \in Seq({}) /\ Len(<<>>) = 0 /\ DOMAIN <<>> = {} BY EmptySeq
<1>2. <<>> = [p \in {} |-> <<>>[p]] BY SMT
<1>3. <<>> \in [{} -> OneSend] BY <1>1, <1>2
<1> QED BY <1>1, <1>3, PhonesAssumption, SizesAssumption, FS_EmptySet DEF Tallied

LEMMA NoRunFormed ==
  RunFormed(NoRun) /\ NoRun.phase = "none" /\ NoRun.late = 0 /\ NoRun.sends = <<>>
<1>1. /\ NoRun \in [phase: Phases, sends: {NoRun.sends}, tally: [Tallied -> Nat], late: Nat]
      /\ NoRun.phase = "none" /\ NoRun.late = 0 /\ NoRun.sends = <<>>
  BY DEF NoRun, Phases
<1>2. DOMAIN NoRun.sends = {} BY <1>1, Tallies
<1> QED BY <1>1, <1>2, Tallies DEF RunFormed

LEMMA Phased ==
  ASSUME NEW y, RunFormed(y), NEW ph \in Phases \ {"none"}
  PROVE  LET x == [y EXCEPT !.phase = ph] IN
         /\ RunFormed(x) /\ x.phase = ph /\ x.sends = y.sends /\ x.late = y.late /\ x.tally = y.tally
<1> DEFINE x == [y EXCEPT !.phase = ph]
<1>1. y \in [phase: Phases, sends: {y.sends}, tally: [Tallied -> Nat], late: Nat] BY DEF RunFormed
<1>2. x.phase = ph /\ x.sends = y.sends /\ x.late = y.late /\ x.tally = y.tally BY <1>1
<1>3. x \in [phase: Phases, sends: {x.sends}, tally: [Tallied -> Nat], late: Nat] BY <1>1, <1>2
<1> HIDE DEF x
<1> QED BY <1>2, <1>3 DEF RunFormed, x

LEMMA Sent ==
  ASSUME NEW y, RunFormed(y), y.phase # "none", NEW p \in DOMAIN y.sends, NEW s \in OneSend,
         s.at \in {"check", "post"} => s.tries < MaxTries
  PROVE  LET x == WithSend(y, p, s) IN
         /\ RunFormed(x) /\ x.phase = y.phase /\ x.late = y.late /\ x.tally = y.tally
         /\ DOMAIN x.sends = DOMAIN y.sends /\ x.sends[p] = s
         /\ \A o \in DOMAIN y.sends : o # p => x.sends[o] = y.sends[o]
<1> DEFINE x == WithSend(y, p, s)
<1>1. /\ y \in [phase: Phases, sends: {y.sends}, tally: [Tallied -> Nat], late: Nat]
      /\ y.sends \in [DOMAIN y.sends -> OneSend]
  BY DEF RunFormed
<1>2. /\ x.phase = y.phase /\ x.late = y.late /\ x.tally = y.tally
      /\ x.sends = [y.sends EXCEPT ![p] = s]
  BY <1>1 DEF WithSend
<1>3. x \in [phase: Phases, sends: {x.sends}, tally: [Tallied -> Nat], late: Nat]
  BY <1>1, <1>2 DEF WithSend
<1> HIDE DEF x
<1>4. /\ DOMAIN x.sends = DOMAIN y.sends /\ x.sends[p] = s /\ x.sends \in [DOMAIN x.sends -> OneSend]
      /\ \A o \in DOMAIN y.sends : o # p => x.sends[o] = y.sends[o]
  BY <1>1, <1>2
<1>5. RunFormed(x) BY <1>2, <1>3, <1>4 DEF RunFormed
<1> QED BY <1>2, <1>4, <1>5 DEF x

LEMMA RunFacts ==
  ASSUME BroadcastInv, NEW r \in Runs
  PROVE  /\ RunFormed(runs[r]) /\ runs[r].late \in Nat /\ runs[r].tally \in [Tallied -> Nat]
         /\ status \in Statuses /\ recipients \in [Audience -> {"PENDING"} \cup Tallied]
         /\ Audience \subseteq Phones /\ counts \in [Tallied -> Nat] /\ lost \in BOOLEAN
         /\ strays \in [Audience -> Nat]
         /\ runs[r].late <= IF runs[r].phase \in {"none", "begin", "fetch"} THEN 0 ELSE 1
         /\ runs[r].phase # "none" => status # "NONE"
         /\ runs[r].phase \in {"last", "finish"} => InStatus("PENDING") = {}
         /\ status = "COMPLETED" => InStatus("PENDING") = {}
<1>1. RunFormed(runs[r]) BY DEF BroadcastInv, BroadcastFormed
<1>2. runs[r].phase # "none" => status # "NONE"
  <2>1. runs[r].phase # "none" => Alive # {} BY DEF Alive
  <2> QED BY <2>1 DEF BroadcastInv, RunsStarted, NoneYet
<1> QED BY <1>1, <1>2 DEF BroadcastInv, BroadcastFormed, RunFormed, LateOnce, EmptyFound, CompletedIsDone

(* A step of a run that neither marks, nor posts, nor writes the row.      *)
LEMMA QuietMove ==
  ASSUME BroadcastInv, NEW r \in Runs, NEW x, RunGoes(r, x), RunFormed(x),
         UNCHANGED <<recipients, strays, counts, status>>, lost' \in BOOLEAN, lost => lost',
         \A p \in DOMAIN x.sends : x.sends[p].at = "post" => ~OptedOut(p) \/ Posts1(runs[r], p),
         x.phase \in {"last", "finish"} => InStatus("PENDING") = {},
         x.phase = "finish" => x.tally = Tally,
         x.late <= (IF x.phase \in {"none", "begin", "fetch"} THEN 0 ELSE 1)
  PROVE  BroadcastInv'
<1>1. RecipientsLeave BY RunFacts DEF RecipientsLeave, Audience, InStatus
<1>2. StraysCounted(r, x)
  BY RunFacts DEF StraysCounted, Posting, Posts1, RunGoes
<1>3. counts' \in [Tallied -> Nat] /\ status' \in Statuses \ {"NONE"} BY RunFacts DEF RunGoes
<1>4. InStatus("PENDING")' = InStatus("PENDING") /\ Tally' = Tally BY DEF InStatus, Tally, Audience
<1> QED BY <1>1, <1>2, <1>3, <1>4, RunMoves

LEMMA RunBegins_Inv ==
  ASSUME BroadcastInv, NEW r \in Runs, RunBegins(r), UNCHANGED customerVars
  PROVE  BroadcastInv'
<1> DEFINE y == runs[r]
<1>1. RunFormed(y) /\ y.phase = "begin" /\ y.late = 0 /\ y.late \in Nat BY RunFacts DEF RunBegins
<1>2. UNCHANGED <<recipients, counts, template, requests, strays, started, lost, customers>>
  BY DEF RunBegins, customerVars
<1>3. lost \in BOOLEAN /\ status # "NONE" BY <1>1, RunFacts
<1>4. CASE template
  <2> DEFINE x == [y EXCEPT !.phase = "fetch"]
  <2>1. RunFormed(x) /\ x.phase = "fetch" /\ x.sends = y.sends /\ x.late = y.late BY <1>1, Phased DEF Phases
  <2>2. RunGoes(r, x) /\ UNCHANGED status BY <1>1, <1>2, <1>4 DEF RunBegins, RunGoes
  <2> HIDE DEF x
  <2>3. \A p \in DOMAIN x.sends : x.sends[p].at = "post" => Posts1(runs[r], p) BY <2>1 DEF Posts1
  <2> QED BY <1>1, <1>2, <1>3, <2>1, <2>2, <2>3, QuietMove
<1>5. CASE ~template
  <2>1. RunGoes(r, NoRun) /\ status' = "FAILED" BY <1>1, <1>2, <1>5 DEF RunBegins, RunGoes
  <2>2. RecipientsLeave /\ counts' \in [Tallied -> Nat]
    BY <1>2, RunFacts DEF RecipientsLeave, Audience, InStatus
  <2>3. StraysCounted(r, NoRun)
    BY <1>2, RunFacts, NoRunFormed, Tallies DEF StraysCounted, Posts1
  <2> QED BY <1>2, <1>3, <2>1, <2>2, <2>3, RunMoves, NoRunFormed DEF Statuses
<1> QED BY <1>4, <1>5

LEMMA RunFetches_Inv ==
  ASSUME BroadcastInv, NEW r \in Runs, NEW batch \in Batches, RunFetches(r, batch), UNCHANGED customerVars
  PROVE  BroadcastInv'
<1> DEFINE y == runs[r]
           P == InStatus("PENDING")
           n == Cardinality(P)
<1>1. RunFormed(y) /\ y.phase = "fetch" /\ y.late = 0 /\ lost \in BOOLEAN BY RunFacts DEF RunFetches
<1>2. /\ UNCHANGED <<status, recipients, counts, template, requests, strays, started, lost, customers>>
  BY DEF RunFetches, customerVars
<1>3. /\ P \subseteq Audience /\ IsFiniteSet(P) /\ n \in Nat
  <2>1. P \subseteq Audience /\ P \subseteq Phones BY RunFacts DEF InStatus
  <2> QED BY <2>1, Tallies, FS_Subset, FS_CardinalityType
<1>4. batch \subseteq P /\ Cardinality(batch) = IF n < BatchSize THEN n ELSE BatchSize
  BY DEF Batches, kSubset
<1>5. Cardinality(batch) <= BatchSize /\ (batch = {} => P = {})
  <2>1. batch = {} => n = 0 BY <1>3, <1>4, Tallies
  <2> QED BY <1>3, <1>4, <2>1, Tallies, FS_EmptySet
<1> HIDE DEF P, n
<1>6. CASE batch = {}
  <2> DEFINE x == [y EXCEPT !.phase = "last", !.sends = <<>>]
  <2>1. RunGoes(r, x) BY <1>1, <1>2, <1>6 DEF RunFetches, RunGoes
  <2>2. y \in [phase: Phases, sends: {y.sends}, tally: [Tallied -> Nat], late: Nat] BY <1>1 DEF RunFormed
  <2>3. x.phase = "last" /\ x.sends = <<>> /\ x.late = 0
        /\ x \in [phase: Phases, sends: {x.sends}, tally: [Tallied -> Nat], late: Nat]
    BY <1>1, <2>2 DEF Phases
  <2> HIDE DEF x
  <2>4. DOMAIN x.sends = {} BY <2>3, Tallies
  <2>5. RunFormed(x) BY <2>3, <2>4, Tallies DEF RunFormed
  <2> QED BY <1>1, <1>2, <1>5, <1>6, <2>1, <2>3, <2>4, <2>5, QuietMove DEF P
<1>7. CASE batch # {}
  <2> DEFINE m == y.late + (IF status = "CANCELLED" THEN 1 ELSE 0)
             z == [p \in batch |-> SendBegun(0)]
             x == [y EXCEPT !.phase = "batch", !.sends = z, !.late = m]
  <2>7. runs' = [runs EXCEPT ![r] = IF batch = {} THEN [@ EXCEPT !.phase = "last", !.sends = <<>>] ELSE x]
    BY DEF RunFetches
  <2>8. runs' = [runs EXCEPT ![r] = x] BY <1>7, <2>7
  <2>1. RunGoes(r, x) BY <1>1, <1>2, <2>8 DEF RunGoes
  <2>2. y \in [phase: Phases, sends: {y.sends}, tally: [Tallied -> Nat], late: Nat] BY <1>1 DEF RunFormed
  <2>3. m \in Nat /\ m <= 1 BY <1>1
  <2>4. DOMAIN z = batch /\ z \in [DOMAIN z -> OneSend]
        /\ \A p \in DOMAIN z : z[p].at = "check" /\ z[p].tries = 0
    BY Tallies DEF SendBegun, OneSend
  <2> HIDE DEF z, m
  <2>5. x.phase = "batch" /\ x.sends = z /\ x.late = m
        /\ x \in [phase: Phases, sends: {x.sends}, tally: [Tallied -> Nat], late: Nat]
    BY <2>2, <2>3 DEF Phases
  <2> HIDE DEF x
  <2>6. RunFormed(x) BY <1>3, <1>4, <1>5, <2>4, <2>5, Tallies DEF RunFormed
  <2> QED BY <1>1, <1>2, <2>1, <2>3, <2>4, <2>5, <2>6, QuietMove
<1> QED BY <1>6, <1>7

(* One send of a batch is edited.                                          *)
LEMMA SendFacts ==
  ASSUME BroadcastInv, NEW r \in Runs, Sending(r), NEW p \in DOMAIN runs[r].sends
  PROVE  LET s == runs[r].sends[p] IN
         /\ s \in OneSend /\ s.tries \in 0 .. MaxTries /\ (s.at \in {"check", "post"} => s.tries < MaxTries)
         /\ runs[r].phase \in {"batch", "loose"} /\ runs[r].late <= 1
         /\ p \in Audience
         /\ \A v \in {"check", "post", "sent", "failed", "done"} :
              LET e == [s EXCEPT !.at = v] IN e \in OneSend /\ e.at = v /\ e.tries = s.tries
<1>1. RunFormed(runs[r]) /\ runs[r].late <= 1 /\ runs[r].phase \in {"batch", "loose"}
  BY RunFacts DEF Sending
<1>2. runs[r].sends[p] \in OneSend /\ p \in Audience BY <1>1 DEF RunFormed
<1>3. runs[r].sends[p].at \in {"check", "post"} => runs[r].sends[p].tries < MaxTries BY <1>1 DEF RunFormed
<1>4. ASSUME NEW v \in {"check", "post", "sent", "failed", "done"}
      PROVE  LET e == [runs[r].sends[p] EXCEPT !.at = v] IN
             e \in OneSend /\ e.at = v /\ e.tries = runs[r].sends[p].tries
  BY <1>2 DEF OneSend
<1> QED BY <1>1, <1>2, <1>3, <1>4 DEF OneSend

LEMMA RunChecks_Inv ==
  ASSUME BroadcastInv, NEW r \in Runs, NEW p \in DOMAIN runs[r].sends, RunChecks(r, p), UNCHANGED customerVars
  PROVE  BroadcastInv'
<1> DEFINE y == runs[r]
           v == IF OptedOut(p) THEN "failed" ELSE "post"
           e == [y.sends[p] EXCEPT !.at = v]
           x == WithSend(y, p, e)
<1>1. Sending(r) /\ y.sends[p].at = "check" /\ v \in {"failed", "post"} BY DEF RunChecks
<1>2. UNCHANGED <<status, recipients, counts, template, requests, strays, started, lost, customers>>
  BY DEF RunChecks, customerVars
<1>3. e \in OneSend /\ e.at = v /\ e.tries < MaxTries /\ y.late <= 1 /\ y.phase \in {"batch", "loose"}
      /\ runs' = [runs EXCEPT ![r] = x]
  <2>1. y.sends[p] \in OneSend /\ y.sends[p].tries < MaxTries /\ y.late <= 1 /\ y.phase \in {"batch", "loose"}
    BY <1>1, SendFacts
  <2>2. runs' = [runs EXCEPT ![r] = x] BY DEF RunChecks, WithSend
  <2> QED BY <1>1, <2>1, <2>2 DEF OneSend
<1>4. (v = "post" => ~OptedOut(p)) OBVIOUS
<1>5. RunFormed(y) /\ lost \in BOOLEAN BY RunFacts
<1> HIDE DEF e, v
<1>6. /\ RunFormed(x) /\ x.phase = y.phase /\ x.late = y.late
      /\ DOMAIN x.sends = DOMAIN y.sends /\ x.sends[p] = e
      /\ \A o \in DOMAIN y.sends : o # p => x.sends[o] = y.sends[o]
  BY <1>3, <1>5, Sent
<1> HIDE DEF x
<1>7. RunGoes(r, x) BY <1>2, <1>3 DEF RunGoes
<1>8. \A o \in DOMAIN x.sends : x.sends[o].at = "post" => ~OptedOut(o) \/ Posts1(runs[r], o)
  BY <1>3, <1>4, <1>6 DEF Posts1
<1>9. x.phase \notin {"none", "begin", "fetch", "last", "finish"} BY <1>3, <1>6
<1>10. lost' \in BOOLEAN /\ lost' = lost BY <1>2, <1>5
<1> QED BY <1>2, <1>3, <1>6, <1>7, <1>8, <1>9, <1>10, QuietMove

LEMMA SentMarkFails_Inv ==
  ASSUME BroadcastInv, NEW r \in Runs, NEW p \in DOMAIN runs[r].sends, SentMarkFails(r, p), UNCHANGED customerVars
  PROVE  BroadcastInv'
<1> DEFINE y == runs[r]
           v == IF y.sends[p].tries < MaxTries THEN "check" ELSE "failed"
           e == [y.sends[p] EXCEPT !.at = v]
           x == WithSend(y, p, e)
<1>1. Sending(r) /\ v \in {"failed", "check"} BY DEF SentMarkFails
<1>2. UNCHANGED <<status, recipients, counts, template, requests, strays, started, lost, customers>>
  BY DEF SentMarkFails, customerVars
<1>3. e \in OneSend /\ e.at = v /\ e.tries = y.sends[p].tries /\ y.late <= 1 /\ y.phase \in {"batch", "loose"}
      /\ runs' = [runs EXCEPT ![r] = x]
  <2>1. y.sends[p] \in OneSend /\ y.late <= 1 /\ y.phase \in {"batch", "loose"} BY <1>1, SendFacts
  <2>2. runs' = [runs EXCEPT ![r] = x] BY DEF SentMarkFails, WithSend
  <2> QED BY <1>1, <2>1, <2>2 DEF OneSend
<1>4. (e.at \in {"check", "post"} => e.tries < MaxTries) BY <1>3
<1>5. RunFormed(y) /\ lost \in BOOLEAN BY RunFacts
<1> HIDE DEF e, v
<1>6. /\ RunFormed(x) /\ x.phase = y.phase /\ x.late = y.late
      /\ DOMAIN x.sends = DOMAIN y.sends /\ x.sends[p] = e
      /\ \A o \in DOMAIN y.sends : o # p => x.sends[o] = y.sends[o]
  BY <1>3, <1>4, <1>5, Sent
<1> HIDE DEF x
<1>7. RunGoes(r, x) BY <1>2, <1>3 DEF RunGoes
<1>8. \A o \in DOMAIN x.sends : x.sends[o].at = "post" => Posts1(runs[r], o)
  BY <1>1, <1>3, <1>6 DEF Posts1
<1>9. x.phase \notin {"none", "begin", "fetch", "last", "finish"} BY <1>3, <1>6
<1>10. lost' \in BOOLEAN /\ lost' = lost BY <1>2, <1>5
<1> QED BY <1>2, <1>3, <1>6, <1>7, <1>8, <1>9, <1>10, QuietMove

LEMMA Marks_Inv ==
  ASSUME BroadcastInv, NEW r \in Runs, NEW p \in DOMAIN runs[r].sends, Marks(r, p), UNCHANGED customerVars
  PROVE  BroadcastInv'
<1> DEFINE y == runs[r]
           e == [y.sends[p] EXCEPT !.at = "done"]
           x == WithSend(y, p, e)
           m == IF y.sends[p].at = "sent" THEN "SENT" ELSE "FAILED"
<1>1. Sending(r) /\ m \in Tallied BY DEF Marks, Tallied
<1>2. UNCHANGED <<status, counts, template, requests, strays, started, lost, customers>>
      /\ recipients' = [recipients EXCEPT ![p] = m]
  BY DEF Marks, customerVars
<1>3. e \in OneSend /\ e.at = "done" /\ y.late <= 1 /\ y.phase \in {"batch", "loose"} /\ p \in Audience
      /\ runs' = [runs EXCEPT ![r] = x]
  <2>1. y.sends[p] \in OneSend /\ y.late <= 1 /\ y.phase \in {"batch", "loose"} /\ p \in Audience
    BY <1>1, SendFacts
  <2>2. runs' = [runs EXCEPT ![r] = x] BY DEF Marks, WithSend
  <2> QED BY <2>1, <2>2 DEF OneSend
<1>5. /\ RunFormed(y) /\ lost \in BOOLEAN /\ counts \in [Tallied -> Nat] /\ status \in Statuses \ {"NONE"}
      /\ recipients \in [Audience -> {"PENDING"} \cup Tallied] /\ strays \in [Audience -> Nat]
      /\ status = "COMPLETED" => InStatus("PENDING") = {}
  BY <1>3, RunFacts
<1> HIDE DEF e, m
<1>6. /\ RunFormed(x) /\ x.phase = y.phase /\ x.late = y.late
      /\ DOMAIN x.sends = DOMAIN y.sends /\ x.sends[p] = e
      /\ \A o \in DOMAIN y.sends : o # p => x.sends[o] = y.sends[o]
  BY <1>3, <1>5, Sent
<1> HIDE DEF x
<1>7. RunGoes(r, x) BY <1>2, <1>3 DEF RunGoes
<1>8. StraysCounted(r, x)
  <2>1. \A o \in Audience : Posts1(x, o) => r \in Posting(o) BY <1>3, <1>6 DEF Posts1, Posting
  <2> QED BY <1>2, <1>5, <2>1 DEF StraysCounted
<1>9. RecipientsLeave
  <2>1. DOMAIN recipients' = Audience /\ recipients'[p] = m
        /\ \A o \in Audience : o # p => recipients'[o] = recipients[o]
    BY <1>2, <1>3 DEF Audience
  <2>2. m # "PENDING" BY <1>1 DEF Tallied
  <2>3. recipients' \in [Audience -> {"PENDING"} \cup Tallied] BY <1>1, <1>2, <1>5
  <2>4. Audience' = Audience BY <2>1 DEF Audience
  <2> QED BY <2>1, <2>2, <2>3, <2>4 DEF RecipientsLeave, InStatus
<1>10. x.phase \notin {"none", "begin", "fetch", "last", "finish"} BY <1>3, <1>6
<1>11. lost' \in BOOLEAN /\ lost' = lost /\ counts' \in [Tallied -> Nat] /\ status' \in Statuses \ {"NONE"}
       /\ status' = status
  BY <1>2, <1>5
<1> QED BY <1>3, <1>6, <1>7, <1>8, <1>9, <1>10, <1>11, RunMoves

LEMMA Posts_Inv ==
  ASSUME BroadcastInv, NEW r \in Runs, NEW p \in DOMAIN runs[r].sends, NEW a \in MetaAnswers,
         Posts(r, p, a), UNCHANGED customerVars
  PROVE  BroadcastInv'
<1> DEFINE y == runs[r]
           s == y.sends[p]
           o == SendTemplate(TRUE, a)
<1>0. Sending(r) /\ s.at = "post" BY DEF Posts
<1>1. PICK next \in IF o.result = "wamid" THEN {"sent"}
                    ELSE IF s.tries + 1 >= MaxTries THEN {"failed"} ELSE {"check", "failed"} :
        runs' = [runs EXCEPT ![r].sends[p] = [at |-> next, tries |-> s.tries + 1]]
  BY Zenon DEF Posts
<1> DEFINE e == [at |-> next, tries |-> s.tries + 1]
           x == WithSend(y, p, e)
<1>2. UNCHANGED <<status, recipients, counts, template, requests, started, lost, customers>>
      /\ strays' = IF OptedOut(p) THEN [strays EXCEPT ![p] = @ + 1] ELSE strays
  BY DEF Posts, customerVars
<1>3. s \in OneSend /\ s.tries \in 0 .. MaxTries /\ s.tries < MaxTries
      /\ y.late <= 1 /\ y.phase \in {"batch", "loose"} /\ p \in Audience
  BY <1>0, SendFacts
<1>4. next \in {"sent", "failed", "check"} /\ (next = "check" => s.tries + 1 < MaxTries)
  <2>1. s.tries + 1 < MaxTries \/ s.tries + 1 >= MaxTries BY <1>3, Tallies
  <2> HIDE DEF s, o
  <2> QED BY <1>1, <1>3, <2>1, Tallies
<1>5. e \in OneSend /\ e.at = next /\ (e.at \in {"check", "post"} => e.tries < MaxTries)
      /\ runs' = [runs EXCEPT ![r] = x]
  <2>1. s.tries + 1 \in 0 .. MaxTries BY <1>3, Tallies
  <2>2. e \in OneSend /\ e.at = next BY <1>4, <2>1 DEF OneSend
  <2>3. runs' = [runs EXCEPT ![r] = x] BY <1>1 DEF WithSend
  <2> QED BY <1>4, <2>2, <2>3
<1>6. /\ RunFormed(y) /\ lost \in BOOLEAN /\ counts \in [Tallied -> Nat] /\ status \in Statuses \ {"NONE"}
      /\ recipients \in [Audience -> {"PENDING"} \cup Tallied] /\ strays \in [Audience -> Nat]
      /\ status = "COMPLETED" => InStatus("PENDING") = {}
  BY <1>3, RunFacts
<1> HIDE DEF e
<1>7. /\ RunFormed(x) /\ x.phase = y.phase /\ x.late = y.late
      /\ DOMAIN x.sends = DOMAIN y.sends /\ x.sends[p] = e
      /\ \A z \in DOMAIN y.sends : z # p => x.sends[z] = y.sends[z]
  BY <1>3, <1>5, <1>6, Sent
<1> HIDE DEF x
<1>8. RunGoes(r, x) BY <1>2, <1>3, <1>5 DEF RunGoes
<1>9. StraysCounted(r, x)
  <2>1. \A z \in Audience : Posts1(x, z) => r \in Posting(z) BY <1>0, <1>3, <1>7 DEF Posts1, Posting
  <2>2. r \in Posting(p) /\ ~Posts1(x, p) BY <1>0, <1>3, <1>4, <1>5, <1>7 DEF Posts1, Posting
  <2>3. strays[p] \in Nat /\ strays[p] + 1 \in Nat BY <1>3, <1>6
  <2>4. strays' \in [Audience -> Nat] /\ (OptedOut(p) => strays'[p] = strays[p] + 1)
        /\ (~OptedOut(p) => strays' = strays)
        /\ \A z \in Audience : z # p => strays'[z] = strays[z]
    BY <1>2, <1>3, <1>6, <2>3
  <2> QED BY <2>1, <2>2, <2>4 DEF StraysCounted
<1>10. RecipientsLeave BY <1>2, <1>6 DEF RecipientsLeave, Audience, InStatus
<1>11. x.phase \notin {"none", "begin", "fetch", "last", "finish"} BY <1>3, <1>7
<1>12. lost' \in BOOLEAN /\ lost' = lost /\ counts' \in [Tallied -> Nat] /\ status' \in Statuses \ {"NONE"}
       /\ status' = status
  BY <1>2, <1>6
<1> QED BY <1>3, <1>7, <1>8, <1>9, <1>10, <1>11, <1>12, RunMoves

(* A run that is over, in whatever way.                                    *)
LEMMA RunLeaves ==
  ASSUME BroadcastInv, NEW r \in Runs, RunGoes(r, NoRun),
         UNCHANGED <<recipients, strays>>, counts' \in [Tallied -> Nat], lost' \in BOOLEAN, lost => lost',
         \/ UNCHANGED status
         \/ status' = "COMPLETED" /\ InStatus("PENDING") = {} /\ (started = 1 /\ ~lost' => counts' = Tally)
  PROVE  BroadcastInv'
<1>1. RecipientsLeave BY RunFacts DEF RecipientsLeave, Audience, InStatus
<1>2. StraysCounted(r, NoRun) BY RunFacts, NoRunFormed, Tallies DEF StraysCounted, Posts1
<1>3. InStatus("PENDING")' = InStatus("PENDING") /\ Tally' = Tally BY DEF InStatus, Tally, Audience
<1>4. status' \in Statuses \ {"NONE"} BY RunFacts DEF RunGoes, Statuses
<1>5. status' = "COMPLETED" => InStatus("PENDING")' = {} BY <1>3, RunFacts
<1> QED BY <1>1, <1>2, <1>3, <1>4, <1>5, NoRunFormed, RunMoves

LEMMA SendRejects_Inv ==
  ASSUME BroadcastInv, NEW r \in Runs, NEW p \in DOMAIN runs[r].sends, SendRejects(r, p), UNCHANGED customerVars
  PROVE  BroadcastInv'
<1> DEFINE y == runs[r]
           e == [y.sends[p] EXCEPT !.at = "done"]
           z == WithSend(y, p, e)
           x == [z EXCEPT !.phase = "loose"]
<1>1. Sending(r) BY DEF SendRejects
<1>2. /\ UNCHANGED <<status, recipients, counts, template, requests, strays, started, customers>> /\ lost' = TRUE
      /\ runs' = [runs EXCEPT ![r].phase = "loose", ![r].sends[p].at = "done"]
  BY DEF SendRejects, customerVars
<1>3. e \in OneSend /\ e.at = "done" /\ y.late <= 1 /\ y.phase \in {"batch", "loose"} BY <1>1, SendFacts
<1>4. RunFormed(y) BY RunFacts
<1>5. runs' = [runs EXCEPT ![r] = x]
  <2>1. y \in [phase: Phases, sends: {y.sends}, tally: [Tallied -> Nat], late: Nat] BY <1>4 DEF RunFormed
  <2>2. x = [[y EXCEPT !.phase = "loose"] EXCEPT !.sends[p].at = "done"] BY <2>1 DEF WithSend
  <2>3. runs' = [runs EXCEPT ![r] = [[y EXCEPT !.phase = "loose"] EXCEPT !.sends[p].at = "done"]] BY <1>2
  <2> QED BY <2>2, <2>3
<1> HIDE DEF e
<1>6. /\ RunFormed(z) /\ z.phase = y.phase /\ z.late = y.late
      /\ DOMAIN z.sends = DOMAIN y.sends /\ z.sends[p] = e
      /\ \A o \in DOMAIN y.sends : o # p => z.sends[o] = y.sends[o]
  BY <1>3, <1>4, Sent
<1> HIDE DEF z
<1>7. RunFormed(x) /\ x.phase = "loose" /\ x.sends = z.sends /\ x.late = z.late BY <1>6, Phased DEF Phases
<1> HIDE DEF x
<1>8. RunGoes(r, x) BY <1>2, <1>3, <1>5 DEF RunGoes
<1>9. \A o \in DOMAIN x.sends : x.sends[o].at = "post" => Posts1(runs[r], o)
  BY <1>3, <1>6, <1>7 DEF Posts1
<1> QED BY <1>2, <1>3, <1>6, <1>7, <1>8, <1>9, QuietMove

LEMMA RunEnds_Inv ==
  ASSUME BroadcastInv, NEW r \in Runs, RunRejects(r) \/ LooseEnds(r), UNCHANGED customerVars
  PROVE  BroadcastInv'
<1>1. RunGoes(r, NoRun) /\ UNCHANGED <<status, recipients, counts, strays>> /\ lost' \in {lost, TRUE}
  BY DEF RunRejects, LooseEnds, RunGoes, customerVars
<1>2. lost \in BOOLEAN /\ counts \in [Tallied -> Nat] BY RunFacts
<1>3. lost' \in BOOLEAN /\ (lost => lost') /\ counts' \in [Tallied -> Nat] BY <1>1, <1>2
<1> QED BY <1>1, <1>3, RunLeaves

LEMMA TallyFacts ==
  ASSUME BroadcastInv
  PROVE  Tally \in [Tallied -> Nat] /\ \A s : IsFiniteSet(InStatus(s)) /\ Cardinality(InStatus(s)) \in Nat
<1>1. Audience \subseteq Phones BY DEF BroadcastInv, BroadcastFormed
<1>2. ASSUME NEW s PROVE IsFiniteSet(InStatus(s)) /\ Cardinality(InStatus(s)) \in Nat
  <2>1. InStatus(s) \subseteq Phones BY <1>1 DEF InStatus
  <2> QED BY <2>1, Tallies, FS_Subset, FS_CardinalityType
<1> QED BY <1>2 DEF Tally

LEMMA RunCounts_Inv ==
  ASSUME BroadcastInv, NEW r \in Runs, RunCounts(r), UNCHANGED customerVars
  PROVE  BroadcastInv'
<1> DEFINE y == runs[r]
           ph == IF y.phase = "last" THEN "finish" ELSE "tally"
           x == [y EXCEPT !.phase = ph, !.sends = <<>>, !.tally = Tally]
<1>1. /\ UNCHANGED <<status, recipients, counts, template, requests, strays, started, lost, customers>>
      /\ y.phase \in {"batch", "last"} /\ runs' = [runs EXCEPT ![r] = x]
  BY DEF RunCounts, customerVars
<1>2. RunFormed(y) /\ y.late <= 1 /\ lost \in BOOLEAN /\ (y.phase = "last" => InStatus("PENDING") = {})
  BY <1>1, RunFacts
<1>3. y \in [phase: Phases, sends: {y.sends}, tally: [Tallied -> Nat], late: Nat] BY <1>2 DEF RunFormed
<1>4. Tally \in [Tallied -> Nat] /\ ph \in {"finish", "tally"} BY TallyFacts
<1>5. /\ x.phase = ph /\ x.sends = <<>> /\ x.late = y.late /\ x.tally = Tally
      /\ x \in [phase: Phases, sends: {x.sends}, tally: [Tallied -> Nat], late: Nat]
  BY <1>3, <1>4 DEF Phases
<1> HIDE DEF x
<1>6. DOMAIN x.sends = {} BY <1>5, Tallies
<1>7. RunFormed(x) BY <1>4, <1>5, <1>6, Tallies DEF RunFormed
<1>8. RunGoes(r, x) BY <1>1 DEF RunGoes
<1> QED BY <1>1, <1>2, <1>4, <1>5, <1>6, <1>7, <1>8, QuietMove

LEMMA RunWritesCounts_Inv ==
  ASSUME BroadcastInv, NEW r \in Runs, RunWritesCounts(r), UNCHANGED customerVars
  PROVE  BroadcastInv'
<1> DEFINE y == runs[r]
           x == [y EXCEPT !.phase = "look"]
<1>1. /\ UNCHANGED <<status, recipients, template, requests, strays, started, lost, customers>>
      /\ y.phase = "tally" /\ runs' = [runs EXCEPT ![r] = x] /\ counts' = y.tally
  BY DEF RunWritesCounts, customerVars
<1>2. /\ RunFormed(y) /\ y.late <= 1 /\ lost \in BOOLEAN /\ y.tally \in [Tallied -> Nat]
      /\ status \in Statuses \ {"NONE"} /\ (status = "COMPLETED" => InStatus("PENDING") = {})
      /\ recipients \in [Audience -> {"PENDING"} \cup Tallied] /\ strays \in [Audience -> Nat]
  BY <1>1, RunFacts
<1>3. RunFormed(x) /\ x.phase = "look" /\ x.sends = y.sends /\ x.late = y.late BY <1>2, Phased DEF Phases
<1> HIDE DEF x
<1>4. RunGoes(r, x) BY <1>1 DEF RunGoes
<1>5. RecipientsLeave BY <1>1, <1>2 DEF RecipientsLeave, Audience, InStatus
<1>6. StraysCounted(r, x) BY <1>1, <1>2, <1>3 DEF StraysCounted, Posting, Posts1
<1>7. InStatus("PENDING")' = InStatus("PENDING") BY <1>1 DEF InStatus, Audience
<1> QED BY <1>1, <1>2, <1>3, <1>4, <1>5, <1>6, <1>7, RunMoves

LEMMA RunLooks_Inv ==
  ASSUME BroadcastInv, NEW r \in Runs, RunLooks(r), UNCHANGED customerVars
  PROVE  BroadcastInv'
<1> DEFINE y == runs[r]
           x == [y EXCEPT !.phase = "fetch", !.late = 0]
<1>1. /\ UNCHANGED <<status, recipients, counts, template, requests, strays, started, lost, customers>>
      /\ y.phase = "look" /\ runs' = [runs EXCEPT ![r] = IF status = "CANCELLED" THEN NoRun ELSE x]
  BY DEF RunLooks, customerVars
<1>2. RunFormed(y) /\ lost \in BOOLEAN /\ counts \in [Tallied -> Nat] BY RunFacts
<1>3. CASE status = "CANCELLED"
  <2>1. RunGoes(r, NoRun) BY <1>1, <1>3 DEF RunGoes
  <2> QED BY <1>1, <1>2, <2>1, RunLeaves
<1>4. CASE status # "CANCELLED"
  <2>1. y \in [phase: Phases, sends: {y.sends}, tally: [Tallied -> Nat], late: Nat] BY <1>2 DEF RunFormed
  <2>2. /\ x.phase = "fetch" /\ x.sends = y.sends /\ x.late = 0 /\ x.tally = y.tally
        /\ x \in [phase: Phases, sends: {x.sends}, tally: [Tallied -> Nat], late: Nat]
    BY <2>1 DEF Phases
  <2>3. RunGoes(r, x) BY <1>1, <1>4 DEF RunGoes
  <2> HIDE DEF x
  <2>4. RunFormed(x) BY <1>2, <2>2 DEF RunFormed
  <2>5. \A o \in DOMAIN x.sends : x.sends[o].at = "post" => Posts1(runs[r], o) BY <2>2 DEF Posts1
  <2> QED BY <1>1, <1>2, <2>2, <2>3, <2>4, <2>5, QuietMove
<1> QED BY <1>3, <1>4

LEMMA RunFinishes_Inv ==
  ASSUME BroadcastInv, NEW r \in Runs, RunFinishes(r), UNCHANGED customerVars
  PROVE  BroadcastInv'
<1>1. /\ UNCHANGED <<recipients, template, requests, strays, started, lost, customers>>
      /\ runs[r].phase = "finish" /\ runs' = [runs EXCEPT ![r] = NoRun]
      /\ counts' = runs[r].tally /\ status' = "COMPLETED"
  BY DEF RunFinishes, customerVars
<1>2. /\ lost \in BOOLEAN /\ runs[r].tally \in [Tallied -> Nat] /\ InStatus("PENDING") = {} BY <1>1, RunFacts
<1>3. started = 1 /\ ~lost => runs[r].tally = Tally BY <1>1 DEF BroadcastInv, LastCount
<1>4. RunGoes(r, NoRun) BY <1>1 DEF RunGoes
<1> QED BY <1>1, <1>2, <1>3, <1>4, RunLeaves

(***************************************************************************)
(* What is not a run's                                                     *)
(***************************************************************************)
(* A request, or whoever deletes the template, leaves the runs alone.      *)
LEMMA RequestMoves ==
  ASSUME BroadcastInv, UNCHANGED <<recipients, counts, runs, strays, started, lost, customers>>,
         template' \in BOOLEAN, requests' \in [Requests -> {"new", "write", "spawn", "done"}],
         status' \in Statuses \ {"NONE"},
         (\E q \in Requests : requests'[q] = "spawn") => Audience # {},
         UNCHANGED status \/ status' # "COMPLETED" \/ Audience = {}
  PROVE  BroadcastInv'
<1>1. /\ Audience' = Audience /\ Alive' = Alive /\ Tally' = Tally /\ InStatus("PENDING")' = InStatus("PENDING")
      /\ \A p : Posting(p)' = Posting(p) /\ (OptedOut(p)' <=> OptedOut(p))
  BY DEF Audience, Alive, Tally, InStatus, Posting, OptedOut, Exists
<1>2. BroadcastFormed'
  <2>1. \A r \in Runs : RunFormed(runs[r])' BY DEF BroadcastInv, BroadcastFormed, RunFormed, Audience
  <2> QED BY <1>1, <2>1 DEF BroadcastInv, BroadcastFormed
<1>3. status = "COMPLETED" \/ Audience # {} \/ started = 0
  BY DEF BroadcastInv, NoneYet, BroadcastFormed
<1>4. NoneYet' BY <1>1 DEF BroadcastInv, NoneYet
<1>5. RunsStarted' /\ EmptyFound' /\ StraysBounded' /\ LateOnce'
  BY <1>1 DEF BroadcastInv, RunsStarted, EmptyFound, StraysBounded, LateOnce
<1>6. InStatus("PENDING") \subseteq Audience BY DEF InStatus
<1>7. CompletedIsDone' BY <1>1, <1>6 DEF BroadcastInv, CompletedIsDone
<1>8. status' = "COMPLETED" /\ started = 1 => status = "COMPLETED" BY DEF BroadcastInv, NoneYet
<1>9. LastCount' BY <1>1, <1>8 DEF BroadcastInv, LastCount
<1> QED BY <1>2, <1>4, <1>5, <1>7, <1>9 DEF BroadcastInv

LEMMA Requests_Inv ==
  ASSUME BroadcastInv, UNCHANGED customerVars,
         TemplateDeleted \/ \E q \in Requests : RequestReads(q) \/ RequestWrites(q)
  PROVE  BroadcastInv'
<1>1. /\ template \in BOOLEAN /\ requests \in [Requests -> {"new", "write", "spawn", "done"}]
      /\ status \in Statuses /\ ((\E q \in Requests : requests[q] = "spawn") => Audience # {})
      /\ UNCHANGED customers
  BY DEF BroadcastInv, BroadcastFormed, NoneYet, customerVars
<1>2. CASE TemplateDeleted BY <1>1, <1>2, RequestMoves DEF TemplateDeleted
<1>3. ASSUME NEW q \in Requests, RequestReads(q) PROVE BroadcastInv'
  <2>1. requests' \in [Requests -> {"new", "write", "spawn", "done"}]
        /\ \A z \in Requests : requests'[z] = "spawn" => requests[z] = "spawn"
    BY <1>1, <1>3 DEF RequestReads
  <2> QED BY <1>1, <1>3, <2>1, RequestMoves DEF RequestReads
<1>4. ASSUME NEW q \in Requests, RequestWrites(q) PROVE BroadcastInv'
  <2>1. /\ status' \in {"CANCELLED", "COMPLETED", "SENDING"}
        /\ status' = "COMPLETED" => Audience = {}
        /\ status' = "SENDING" => Audience # {}
    BY <1>4 DEF RequestWrites
  <2>2. requests' \in [Requests -> {"new", "write", "spawn", "done"}]
        /\ \A z \in Requests : requests'[z] = "spawn" => requests[z] = "spawn" \/ status' = "SENDING"
    BY <1>1, <1>4 DEF RequestWrites
  <2> QED BY <1>1, <1>4, <2>1, <2>2, RequestMoves DEF RequestWrites, Statuses
<1> QED BY <1>2, <1>3, <1>4

(* The audience is frozen: whoever has opted out is not in it, and no run  *)
(* was there before it.                                                    *)
LEMMA Create_Inv ==
  ASSUME BroadcastInv, CustomersTypeOK, Create, UNCHANGED customerVars
  PROVE  BroadcastInv'
<1>1. /\ status' = "DRAFT" /\ recipients' = [p \in Sendable |-> "PENDING"] /\ strays' = [p \in Sendable |-> 0]
      /\ UNCHANGED <<counts, template, requests, runs, started, lost, customers>> /\ status = "NONE"
  BY DEF Create, customerVars
<1>2. started = 0 /\ Alive = {} /\ \A q \in Requests : requests[q] \in {"new", "done"}
  BY <1>1 DEF BroadcastInv, NoneYet, RunsStarted
<1>3. \A r \in Runs : runs[r] = NoRun BY <1>2 DEF BroadcastInv, BroadcastFormed, RunFormed, Alive
<1>4. Sendable \subseteq Phones /\ \A p \in Sendable : ~OptedOut(p)
  BY DEF Sendable, CustomersTypeOK, OptedOut
<1>5. Audience' = Sendable BY <1>1 DEF Audience
<1>6. BroadcastFormed'
  <2>1. ASSUME NEW r \in Runs PROVE RunFormed(runs[r])'
    <3>1. RunFormed(NoRun)' BY NoRunFormed, Tallies DEF RunFormed
    <3>2. \A y : y = NoRun => (RunFormed(y)' <=> RunFormed(NoRun)') BY DEF RunFormed
    <3>3. runs'[r] = NoRun BY <1>1, <1>3
    <3>4. \A y : y = runs'[r] => (RunFormed(y)' <=> RunFormed(runs[r])') BY DEF RunFormed
    <3> QED BY <3>1, <3>2, <3>3, <3>4
  <2>2. recipients' \in [Audience' -> {"PENDING"} \cup Tallied] /\ strays' \in [Audience' -> Nat]
    BY <1>1, <1>5
  <2> QED BY <1>1, <1>4, <1>5, <2>1, <2>2 DEF BroadcastInv, BroadcastFormed, Statuses
<1>7. Alive' = {} BY <1>1, <1>2 DEF Alive
<1>8. NoneYet' BY <1>1, <1>2 DEF NoneYet
<1>9. RunsStarted' BY <1>1, <1>2, <1>7, Tallies DEF BroadcastInv, RunsStarted
<1>10. EmptyFound' /\ LateOnce'
  BY <1>1, <1>3, NoRunFormed DEF BroadcastInv, EmptyFound, LateOnce
<1>11. CompletedIsDone' /\ LastCount' BY <1>1, <1>2 DEF CompletedIsDone, LastCount
<1>12. StraysBounded'
  <2>1. \A p \in Sendable : ~OptedOut(p)' /\ strays'[p] = 0 BY <1>1, <1>4 DEF OptedOut, Exists
  <2> QED BY <1>5, <2>1 DEF StraysBounded
<1> QED BY <1>6, <1>8, <1>9, <1>10, <1>11, <1>12 DEF BroadcastInv

LEMMA RequestSpawns_Inv ==
  ASSUME BroadcastInv, NEW q \in Requests, NEW r \in Runs, RequestSpawns(q, r), UNCHANGED customerVars
  PROVE  BroadcastInv'
<1> DEFINE x == [NoRun EXCEPT !.phase = "begin"]
<1>1. /\ UNCHANGED <<status, recipients, counts, template, strays, lost, customers>>
      /\ requests[q] = "spawn" /\ requests' = [requests EXCEPT ![q] = "done"] /\ started' = started + 1
      /\ runs[r].phase = "none" /\ runs' = [runs EXCEPT ![r].phase = "begin"]
  BY DEF RequestSpawns, customerVars
<1>2. runs[r] = NoRun /\ runs = [z \in Runs |-> runs[z]] /\ started \in Nat
  BY <1>1 DEF BroadcastInv, BroadcastFormed, RunFormed
<1>3. runs'[r] = x /\ (\A z \in Runs : z # r => runs'[z] = runs[z]) /\ runs' = [z \in Runs |-> runs'[z]]
  BY <1>1, <1>2
<1>4. x.phase = "begin" /\ x.sends = <<>> /\ x.late = 0 /\ x.tally = NoRun.tally
      /\ x \in [phase: Phases, sends: {x.sends}, tally: [Tallied -> Nat], late: Nat]
  BY DEF NoRun, Phases
<1> HIDE DEF x
<1>5. RunFormed(x)
  <2>1. DOMAIN x.sends = {} BY <1>4, Tallies
  <2> QED BY <1>4, <2>1, Tallies DEF RunFormed
<1>6. /\ Audience' = Audience /\ Tally' = Tally /\ InStatus("PENDING")' = InStatus("PENDING")
      /\ \A p : OptedOut(p)' <=> OptedOut(p)
  BY <1>1 DEF Audience, Tally, InStatus, OptedOut, Exists
<1>7. Alive' = Alive \cup {r} /\ r \notin Alive BY <1>1, <1>3, <1>4 DEF Alive
<1>8. ASSUME NEW p PROVE Posting(p)' = Posting(p)
  <2>1. r \notin Posting(p) BY <1>1 DEF Posting
  <2>2. p \notin DOMAIN x.sends BY <1>4, Tallies
  <2> QED BY <1>3, <2>1, <2>2 DEF Posting
<1>9. BroadcastFormed'
  <2>1. ASSUME NEW z \in Runs PROVE RunFormed(runs[z])'
    <3>1. \A y : RunFormed(y) => RunFormed(y)' BY <1>6 DEF RunFormed
    <3>2. RunFormed(runs'[z]) BY <1>3, <1>5 DEF BroadcastInv, BroadcastFormed
    <3>3. \A y : y = runs'[z] => (RunFormed(y)' <=> RunFormed(runs[z])') BY DEF RunFormed
    <3> QED BY <3>1, <3>2, <3>3
  <2>2. requests' \in [Requests -> {"new", "write", "spawn", "done"}]
    BY <1>1 DEF BroadcastInv, BroadcastFormed
  <2>3. started' \in Nat BY <1>1, <1>2
  <2> QED BY <1>1, <1>3, <1>6, <2>1, <2>2, <2>3 DEF BroadcastInv, BroadcastFormed
<1>10. status # "NONE" /\ Audience # {} BY <1>1 DEF BroadcastInv, NoneYet
<1>11. NoneYet' BY <1>1, <1>2, <1>6, <1>10 DEF NoneYet
<1>12. RunsStarted'
  <2>1. Cardinality(Alive') = Cardinality(Alive) + 1 /\ Cardinality(Alive) \in Nat
    BY <1>7, RunSets, FS_AddElement
  <2>2. Cardinality(Alive) <= started /\ (started = 0 => Alive = {}) BY DEF BroadcastInv, RunsStarted
  <2>3. Cardinality(Alive') <= started' /\ started' # 0 BY <1>1, <1>2, <2>1, <2>2
  <2>4. started' = 1 => \A z \in Alive' : z = r BY <1>1, <1>2, <1>7, <2>2
  <2> QED BY <2>3, <2>4 DEF RunsStarted
<1>13. EmptyFound' /\ LateOnce'
  BY <1>3, <1>4, <1>6 DEF BroadcastInv, EmptyFound, LateOnce
<1>14. CompletedIsDone' BY <1>1, <1>6 DEF BroadcastInv, CompletedIsDone
<1>15. StraysBounded'
  <2>1. ASSUME NEW p \in Audience
        PROVE  IF OptedOut(p)' THEN strays'[p] + Cardinality(Posting(p)') <= started' ELSE strays'[p] = 0
    <3>1. IF OptedOut(p) THEN strays[p] + Cardinality(Posting(p)) <= started ELSE strays[p] = 0
      BY DEF BroadcastInv, StraysBounded
    <3>2. strays[p] \in Nat /\ Cardinality(Posting(p)) \in Nat BY RunSets DEF BroadcastInv, BroadcastFormed
    <3> QED BY <1>1, <1>2, <1>6, <1>8, <3>1, <3>2
  <2> QED BY <1>6, <2>1 DEF StraysBounded
<1>16. LastCount'
  <2>1. SUFFICES ASSUME started' = 1 PROVE status' # "COMPLETED" /\ \A z \in Runs : runs'[z].phase # "finish"
    BY DEF LastCount
  <2>2. started = 0 BY <1>1, <1>2, <2>1
  <2>3. Alive = {} /\ status # "COMPLETED" BY <1>10, <2>2 DEF BroadcastInv, RunsStarted, NoneYet
  <2>4. \A z \in Runs : runs[z].phase = "none" BY <2>3 DEF Alive
  <2> QED BY <1>1, <1>3, <1>4, <2>3, <2>4
<1> QED BY <1>9, <1>11, <1>12, <1>13, <1>14, <1>15, <1>16 DEF BroadcastInv

LEMMA BroadcastCrash_Inv ==
  ASSUME BroadcastInv, BroadcastCrash, UNCHANGED customers
  PROVE  BroadcastInv'
<1>1. /\ requests' = [q \in Requests |-> IF requests[q] = "new" THEN "new" ELSE "done"]
      /\ runs' = [r \in Runs |-> NoRun] /\ lost' = TRUE
      /\ status' = (IF status = "SENDING" THEN "FAILED" ELSE status)
      /\ UNCHANGED <<recipients, counts, template, strays, started>>
  BY DEF BroadcastCrash
<1>2. /\ Audience' = Audience /\ InStatus("PENDING")' = InStatus("PENDING")
      /\ \A p : OptedOut(p)' <=> OptedOut(p)
  BY <1>1 DEF Audience, InStatus, OptedOut, Exists
<1>3. Alive' = {} /\ \A p : Posting(p)' = {} BY <1>1, NoRunFormed DEF Alive, Posting
<1>4. BroadcastFormed'
  <2>1. ASSUME NEW r \in Runs PROVE RunFormed(runs[r])'
    <3>1. \A y : RunFormed(y) => RunFormed(y)' BY <1>2 DEF RunFormed
    <3>2. RunFormed(runs'[r]) BY <1>1, NoRunFormed
    <3>3. \A y : y = runs'[r] => (RunFormed(y)' <=> RunFormed(runs[r])') BY DEF RunFormed
    <3> QED BY <3>1, <3>2, <3>3
  <2> QED BY <1>1, <1>2, <2>1 DEF BroadcastInv, BroadcastFormed, Statuses
<1>5. NoneYet' BY <1>1, <1>2 DEF BroadcastInv, NoneYet
<1>6. RunsStarted' BY <1>1, <1>3, Tallies DEF BroadcastInv, RunsStarted, BroadcastFormed
<1>7. EmptyFound' /\ LateOnce' BY <1>1, NoRunFormed DEF EmptyFound, LateOnce
<1>8. CompletedIsDone' /\ LastCount' BY <1>1, <1>2 DEF BroadcastInv, CompletedIsDone, LastCount
<1>9. StraysBounded'
  <2>1. ASSUME NEW p \in Audience
        PROVE  IF OptedOut(p)' THEN strays'[p] + Cardinality(Posting(p)') <= started' ELSE strays'[p] = 0
    <3>1. IF OptedOut(p) THEN strays[p] + Cardinality(Posting(p)) <= started ELSE strays[p] = 0
      BY DEF BroadcastInv, StraysBounded
    <3>2. strays[p] \in Nat /\ started \in Nat /\ Cardinality(Posting(p)) \in Nat
      BY RunSets DEF BroadcastInv, BroadcastFormed
    <3> QED BY <1>1, <1>2, <1>3, <3>1, <3>2, Tallies
  <2> QED BY <1>2, <2>1 DEF StraysBounded
<1> QED BY <1>4, <1>5, <1>6, <1>7, <1>8, <1>9 DEF BroadcastInv
-----------------------------------------------------------------------------
(***************************************************************************)
(* The three together                                                      *)
(***************************************************************************)
LEMMA BroadcastKeeps ==
  ASSUME BroadcastInv, CustomersTypeOK, BroadcastNext \/ BroadcastFault, UNCHANGED customerVars
  PROVE  BroadcastInv'
<1>1. CASE Create BY <1>1, Create_Inv
<1>2. CASE TemplateDeleted \/ \E q \in Requests : RequestReads(q) \/ RequestWrites(q) BY <1>2, Requests_Inv
<1>3. CASE \E q \in Requests : \E r \in Runs : RequestSpawns(q, r) BY <1>3, RequestSpawns_Inv
<1>4. ASSUME NEW r \in Runs, RunStep(r) PROVE BroadcastInv'
  <2>1. CASE RunBegins(r) BY <2>1, RunBegins_Inv
  <2>2. CASE RunCounts(r) BY <2>2, RunCounts_Inv
  <2>3. CASE RunWritesCounts(r) BY <2>3, RunWritesCounts_Inv
  <2>4. CASE RunLooks(r) BY <2>4, RunLooks_Inv
  <2>5. CASE RunFinishes(r) BY <2>5, RunFinishes_Inv
  <2>6. CASE LooseEnds(r) BY <2>6, RunEnds_Inv
  <2>7. CASE \E batch \in Batches : RunFetches(r, batch) BY <2>7, RunFetches_Inv
  <2>8. CASE \E p \in DOMAIN runs[r].sends : RunChecks(r, p) BY <2>8, RunChecks_Inv
  <2>9. CASE \E p \in DOMAIN runs[r].sends : Marks(r, p) BY <2>9, Marks_Inv
  <2>10. CASE \E p \in DOMAIN runs[r].sends : \E a \in MetaAnswers : Posts(r, p, a) BY <2>10, Posts_Inv
  <2> QED BY <1>4, <2>1, <2>2, <2>3, <2>4, <2>5, <2>6, <2>7, <2>8, <2>9, <2>10 DEF RunStep
<1>5. CASE BroadcastFault
  <2>1. PICK r \in Runs : RunRejects(r) \/ \E p \in DOMAIN runs[r].sends : SentMarkFails(r, p) \/ SendRejects(r, p)
    BY <1>5 DEF BroadcastFault
  <2> QED BY <2>1, RunEnds_Inv, SentMarkFails_Inv, SendRejects_Inv
<1> QED BY <1>1, <1>2, <1>3, <1>4, <1>5 DEF BroadcastNext

LEMMA InitInv == OutreachInit => IInv
<1> SUFFICES ASSUME NEW s \in Scenarios, OutreachCase(s) PROVE IInv BY DEF OutreachInit
<1>1. /\ customers = [p \in s.known |-> [name |-> "null", out |-> FALSE]] /\ s.known \subseteq Phones
      /\ members \subseteq s.known /\ conflicts = {}
      /\ optouts = [o \in OptOuts |-> IF o \in s.optouts THEN "new" ELSE "lost"]
  BY ScenariosAssumption DEF OutreachCase, CustomersInit
<1>2. CustomersInv BY <1>1 DEF CustomersInv, CustomersTypeOK, FoundExists, OptOutKept, Customer, Names
<1>3. /\ uploads = [u \in Uploads |-> NewRow] /\ paths = {} /\ workers = [u \in Uploads |-> NoWorker]
      /\ launched = [u \in Uploads |-> 0]
      /\ starts = [z \in Starts |-> IF z \in s.starts THEN "new" ELSE "done"]
  BY DEF OutreachCase, UploadInit
<1>4. UploadsFormed
  <2>1. NewRow \in Upload BY DEF NewRow, Upload, Zero, Counters
  <2>2. workers \in [Uploads -> WorkerRow] BY <1>3, NoWorkerFacts
  <2>3. \A u \in Uploads : NoWorker.line \in 1 .. Len(Rows[u]) + 1 BY NoWorkerFacts, RowsFacts
  <2> QED BY <1>3, <2>1, <2>2, <2>3 DEF UploadsFormed, WorkerRow
<1>5. ASSUME NEW u \in Uploads PROVE OneReader(u) /\ WorkerSound(u) /\ CompletedRests(u)
  <2>1. uploads[u].status = "NONE" /\ workers[u] = NoWorker /\ launched[u] = 0 BY <1>3 DEF NewRow
  <2>2. OneReader(u) BY <1>3, <2>1, NoWorkerFacts DEF OneReader, Holds
  <2>3. WorkerSound(u) BY <2>1, NoWorkerFacts, EmptyBatch DEF WorkerSound
  <2> QED BY <2>1, <2>2, <2>3 DEF CompletedRests
<1>6. UploadsInv BY <1>3, <1>4, <1>5 DEF UploadsInv
<1>7. /\ status = "NONE" /\ recipients = <<>> /\ counts = [z \in Tallied |-> 0] /\ template = TRUE
      /\ requests = [q \in Requests |-> IF q \in s.requests THEN "new" ELSE "done"]
      /\ runs = [r \in Runs |-> NoRun] /\ strays = <<>> /\ started = 0 /\ lost = FALSE
  BY DEF OutreachCase, BroadcastInit
<1>8. Audience = {} BY <1>7, Tallies DEF Audience
<1>9. BroadcastFormed
  <2>1. <<>> = [p \in {} |-> 0] BY Tallies
  <2>2. recipients \in [Audience -> {"PENDING"} \cup Tallied] /\ strays \in [Audience -> Nat] BY <1>7, <1>8, <2>1
  <2> QED BY <1>7, <1>8, <2>2, NoRunFormed DEF BroadcastFormed, Statuses
<1>10. Alive = {} /\ NoneYet BY <1>7, <1>8, NoRunFormed DEF Alive, NoneYet
<1>11. RunsStarted BY <1>7, <1>10, Tallies DEF RunsStarted
<1>12. EmptyFound /\ LateOnce BY <1>7, NoRunFormed DEF EmptyFound, LateOnce
<1>13. CompletedIsDone /\ LastCount /\ StraysBounded BY <1>7, <1>8 DEF CompletedIsDone, LastCount, StraysBounded
<1>14. BroadcastInv BY <1>9, <1>10, <1>11, <1>12, <1>13 DEF BroadcastInv
<1> QED BY <1>2, <1>6, <1>14 DEF IInv

LEMMA NextInv == IInv /\ [OutreachNext]_outreachVars => IInv'
<1> SUFFICES ASSUME IInv, [OutreachNext]_outreachVars PROVE IInv' OBVIOUS
<1>1. ASSUME UNCHANGED customerVars PROVE CustomersInv' /\ Grown
  BY <1>1, Unchanged_Grown
     DEF IInv, CustomersInv, CustomersTypeOK, FoundExists, OptOutKept, OptedOut, Exists, customerVars
<1>2. CASE CustomersNext /\ UNCHANGED <<uploadVars, broadcastVars, faults>>
  BY <1>2, CustomersKeep, OthersKeepUploads, OthersKeepBroadcast DEF IInv
<1>3. CASE UploadNext /\ UNCHANGED <<broadcastVars, faults>>
  BY <1>3, UploadsKeep, OthersKeepBroadcast DEF IInv
<1>4. CASE BroadcastNext /\ UNCHANGED <<customerVars, uploadVars, faults>>
  BY <1>1, <1>4, BroadcastKeeps, OthersKeepUploads DEF IInv, CustomersInv
<1>5. CASE Faults
  <2>1. CASE UploadFault /\ UNCHANGED broadcastVars BY <2>1, FaultKeepsUploads, OthersKeepBroadcast DEF IInv
  <2>2. CASE BroadcastFault /\ UNCHANGED <<customerVars, uploadVars>>
    BY <1>1, <2>2, BroadcastKeeps, OthersKeepUploads DEF IInv, CustomersInv
  <2>3. CASE Restarts
    BY <2>3, RestartKeepsUploads, BroadcastCrash_Inv DEF IInv, Restarts
  <2> QED BY <1>5, <2>1, <2>2, <2>3 DEF Faults
<1>6. CASE UNCHANGED outreachVars
  BY <1>1, <1>6, OthersKeepUploads, OthersKeepBroadcast DEF IInv, outreachVars
<1> QED BY <1>2, <1>3, <1>4, <1>5, <1>6 DEF OutreachNext

(* The inductive invariant holds throughout.                               *)
THEOREM Invariance == OutreachSpec => []IInv
BY InitInv, NextInv, PTL DEF OutreachSpec

LEMMA InvUploads == IInv => UploadsSound
<1> SUFFICES ASSUME IInv PROVE UploadsSound OBVIOUS
<1>1. CustomersTypeOK /\ OptOutKept BY DEF IInv, CustomersInv
<1>2. UploadTypeOK
  <2>1. ASSUME NEW u \in Uploads
        PROVE  uploads[u] \in Upload /\ workers[u] \in WorkerRow /\ workers[u].line \in 1 .. Len(Rows[u]) + 1
    BY DEF IInv, UploadsInv, UploadsFormed, WorkerRow
  <2> QED BY <2>1 DEF IInv, UploadsInv, UploadTypeOK, Upload, WorkerRow, WorkerAt
<1>3. BroadcastTypeOK
  <2>1. BroadcastFormed BY DEF IInv, BroadcastInv
  <2>2. ASSUME NEW r \in Runs
        PROVE  /\ runs[r].phase \in Phases
               /\ DOMAIN runs[r].sends \subseteq Audience /\ Cardinality(DOMAIN runs[r].sends) <= BatchSize
               /\ \A p \in DOMAIN runs[r].sends : runs[r].sends[p] \in OneSend
    BY <2>1 DEF BroadcastFormed, RunFormed
  <2> QED BY <2>1, <2>2 DEF BroadcastFormed, BroadcastTypeOK, Phases, OneSend
<1>4. OneWorkerPerUpload BY DEF IInv, UploadsInv, OneReader, OneWorkerPerUpload
<1>5. CompletedIsComplete BY DEF IInv, UploadsInv, CompletedRests, CompletedIsComplete
<1>6. CountersAddUp BY DEF IInv, UploadsInv, CompletedRests, CountersAddUp
<1> QED BY <1>1, <1>2, <1>3, <1>4, <1>5, <1>6 DEF UploadsSound, OutreachTypeOK

LEMMA InvBroadcasts == IInv => BroadcastsSound
<1> SUFFICES ASSUME IInv PROVE BroadcastsSound OBVIOUS
<1>1. BroadcastInv /\ BroadcastFormed BY DEF IInv, BroadcastInv
<1>2. CompletedIsDone BY <1>1 DEF BroadcastInv
<1>3. CancelBoundsSends BY <1>1, RunFacts DEF CancelBoundsSends
<1>4. ASSUME NEW p \in Audience PROVE strays[p] <= started
  <2>1. IF OptedOut(p) THEN strays[p] + Cardinality(Posting(p)) <= started ELSE strays[p] = 0
    BY <1>1 DEF BroadcastInv, StraysBounded
  <2>2. strays[p] \in Nat /\ started \in Nat /\ Cardinality(Posting(p)) \in Nat
    BY <1>1, RunSets DEF BroadcastFormed
  <2> QED BY <2>1, <2>2
<1>5. ASSUME started = 1, status = "COMPLETED", ~lost PROVE counts = Tally /\ PendingShown = 0
  <2>1. counts = Tally BY <1>1, <1>5 DEF BroadcastInv, LastCount
  <2>2. counts["SENT"] = Cardinality(InStatus("SENT")) /\ counts["FAILED"] = Cardinality(InStatus("FAILED"))
    BY <2>1, Tallies DEF Tally
  <2>3. Audience = InStatus("SENT") \cup InStatus("FAILED")
    BY <1>1, <1>2, <1>5 DEF CompletedIsDone, InStatus, BroadcastFormed, Tallied
  <2>4. /\ IsFiniteSet(InStatus("SENT")) /\ Cardinality(InStatus("SENT")) \in Nat
        /\ IsFiniteSet(InStatus("FAILED")) /\ Cardinality(InStatus("FAILED")) \in Nat
    BY <1>1, TallyFacts
  <2>5. Cardinality(Audience) \in Nat
        /\ Cardinality(Audience) <= Cardinality(InStatus("SENT")) + Cardinality(InStatus("FAILED"))
    <3> DEFINE S == InStatus("SENT")
               F == InStatus("FAILED")
    <3>1. IsFiniteSet(S \cap F) BY <2>4, FS_Intersection
    <3>2. Cardinality(S \cap F) \in Nat BY <3>1, FS_CardinalityType
    <3>3. IsFiniteSet(S \cup F) /\ Cardinality(S \cup F) = Cardinality(S) + Cardinality(F) - Cardinality(S \cap F)
      BY <2>4, FS_Union
    <3>4. Cardinality(S \cup F) \in Nat BY <3>3, FS_CardinalityType
    <3> QED BY <2>3, <2>4, <3>2, <3>3, <3>4
  <2>6. PendingShown = 0 BY <2>2, <2>4, <2>5 DEF PendingShown
  <2> QED BY <2>1, <2>6
<1> QED BY <1>2, <1>3, <1>4, <1>5 DEF BroadcastsSound, OptOutBoundsPosts, CountersSettle

(* However many start requests overlap, one worker reads the file of an    *)
(* upload; when the row is COMPLETED every valid line's customer is in the *)
(* segment and the counters add up to the file's lines, restarts and       *)
(* failures included; and whoever's opt-out was applied stays opted out    *)
(* through every upsert (CustomerUploadService.start, runWorker and        *)
(* persistBatch, CustomersService.upsertBatch, applyOptOut).               *)
THEOREM UploadsCorrect == OutreachSpec => []UploadsSound
BY Invariance, InvUploads, PTL

(* Whatever starts and cancels overlap, however many runs they schedule    *)
(* and wherever these fail or the process ends, nobody is PENDING in a     *)
(* COMPLETED broadcast, a run begins one batch at most after the cancel    *)
(* and posts once at most to a customer after his opt-out, and the         *)
(* counters of a broadcast whose only run ended by itself are those of its *)
(* recipients (BroadcastsService.start and cancel, BroadcastWorkerService  *)
(* run, sendOne and reconcileCounts).                                      *)
THEOREM BroadcastsCorrect == OutreachSpec => []BroadcastsSound
BY Invariance, InvBroadcasts, PTL
=============================================================================
