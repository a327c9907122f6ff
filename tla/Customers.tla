------------------------------ MODULE Customers ------------------------------
(***************************************************************************)
(* The customer table and the segments, which the CSV uploads fill, the    *)
(* opt-out action of the automations marks and the broadcasts read.  A     *)
(* customer is its normalised phone; one segment is kept.                  *)
(***************************************************************************)
EXTENDS Naturals, Sequences, FiniteSets, Functions

CONSTANTS
  Phones,   \* normalised phones
  Short,    \* those with fewer than ten digits
  OptOuts   \* opt-out actions that may run: pairs <<id, phone>>

ASSUME PhonesAssumption == IsFiniteSet(Phones) /\ Short \subseteq Phones
ASSUME OptOutsAssumption == \A o \in OptOuts : o[2] \in Phones

VARIABLES
  customers,  \* phone -> the row's name and marketing_opted_out
  members,    \* segment_customer
  optouts,    \* opt-out actions: where each stands, or the name on the row it read
  conflicts   \* history: opt-outs whose insert met a row of the same phone

customerVars == <<customers, members, optouts, conflicts>>

Names    == {"null", "known"}
Customer == [name : Names, out : BOOLEAN]
Exists(p) == p \in DOMAIN customers
OptedOut(p) == Exists(p) /\ customers[p].out

CustomersInit(known, coming) ==
  /\ customers = [p \in known |-> [name |-> "null", out |-> FALSE]]
  /\ members \in {{}, known}
  /\ optouts = [o \in OptOuts |-> IF o \in coming THEN "new" ELSE "lost"]
  /\ conflicts = {}

CustomersTypeOK ==
  /\ DOMAIN customers \subseteq Phones
  /\ customers \in [DOMAIN customers -> Customer]
  /\ members \subseteq DOMAIN customers
  /\ optouts \in [OptOuts -> Names \cup {"new", "unknown", "done", "lost"}]
  /\ conflicts \subseteq OptOuts
----------------------------------------------------------------------------
(* upsertBatch: one statement; duplicates within it are folded, the last   *)
(* row winning, and a conflicting row only gets its blanks filled.         *)
LastOf(batch, p) ==
  batch[CHOOSE i \in DOMAIN batch : /\ batch[i].phone = p
                                    /\ \A j \in DOMAIN batch : batch[j].phone = p => j <= i]

PhonesOf(batch) == {batch[i].phone : i \in DOMAIN batch}

(* Mutant: the conflicting row is replaced by the incoming one.            *)
UpsertedOver(batch) ==
  [p \in DOMAIN customers \cup PhonesOf(batch) |->
     IF p \in PhonesOf(batch) THEN [name |-> LastOf(batch, p).name, out |-> FALSE]
     ELSE customers[p]]

Upserted(batch) ==
  [p \in DOMAIN customers \cup PhonesOf(batch) |->
     IF p \notin PhonesOf(batch) THEN customers[p]
     ELSE IF ~Exists(p) THEN [name |-> LastOf(batch, p).name, out |-> FALSE]
     ELSE IF customers[p].name = "null" THEN [customers[p] EXCEPT !.name = LastOf(batch, p).name]
     ELSE customers[p]]

Inserted(batch) == Cardinality(PhonesOf(batch) \ DOMAIN customers)

(* The audience a broadcast freezes.                                       *)
Sendable == {p \in members : ~customers[p].out /\ p \notin Short}
----------------------------------------------------------------------------
(* opt_out_customer: the read, then the save of the row found or the       *)
(* insert of a new one.  The save compares the row read with the table's   *)
(* once more and writes what differs: a name that an import filled before  *)
(* that is blanked again, one filled after it stays.  The handler swallows *)
(* what applyOptOut throws.                                                *)
OptOutReads(o) ==
  /\ optouts[o] = "new"
  /\ optouts' = [optouts EXCEPT ![o] =
       IF OptedOut(o[2]) THEN "done" ELSE IF Exists(o[2]) THEN customers[o[2]].name ELSE "unknown"]
  /\ UNCHANGED <<customers, members, conflicts>>

OptOutSaves(o) ==
  /\ optouts[o] \in Names
  /\ \E name \in {optouts[o], customers[o[2]].name} :
       customers' = [customers EXCEPT ![o[2]] = [name |-> name, out |-> TRUE]]
  /\ optouts' = [optouts EXCEPT ![o] = "done"]
  /\ UNCHANGED <<members, conflicts>>

OptOutInserts(o) ==
  /\ optouts[o] = "unknown"
  /\ IF Exists(o[2])
     THEN conflicts' = conflicts \cup {o} /\ UNCHANGED customers
     ELSE /\ customers' = [p \in DOMAIN customers \cup {o[2]} |->
                             IF p = o[2] THEN [name |-> "null", out |-> TRUE] ELSE customers[p]]
          /\ UNCHANGED conflicts
  /\ optouts' = [optouts EXCEPT ![o] = "done"]
  /\ UNCHANGED members

CustomersNext == \E o \in OptOuts : OptOutReads(o) \/ OptOutSaves(o) \/ OptOutInserts(o)

(* A customer who said STOP stays opted out through every import, however  *)
(* the two interleave, unless an import created the row between the read   *)
(* and the insert of the opt-out: applyOptOut then throws and the handler  *)
(* only logs it.                                                           *)
OptOutKept == \A o \in OptOuts : optouts[o] = "done" /\ o \notin conflicts => OptedOut(o[2])
=============================================================================
