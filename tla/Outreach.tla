------------------------------ MODULE Outreach ------------------------------
(***************************************************************************)
(* Uploads, opt-outs and a broadcast on the same customers and segment, in *)
(* one process that may be restarted.                                      *)
(***************************************************************************)
EXTENDS CustomerUpload, Broadcast

CONSTANT Scenarios  \* customers there are, what comes, and how many faults

ASSUME ScenariosAssumption ==
  \A s \in Scenarios : /\ s.known \subseteq Phones /\ s.optouts \subseteq OptOuts
                        /\ s.starts \subseteq Starts /\ s.requests \subseteq Requests
                        /\ s.faults \in Nat

VARIABLE faults

outreachVars == <<customerVars, uploadVars, broadcastVars, faults>>

OutreachCase(s) ==
  /\ CustomersInit(s.known, s.optouts) /\ UploadInit(s.starts) /\ BroadcastInit(s.requests)
  /\ members = (IF s.starts = {} THEN s.known ELSE {}) /\ faults = s.faults
OutreachInit == \E s \in Scenarios : OutreachCase(s)

Restarts ==
  /\ UploadsCrash /\ BroadcastCrash
  /\ optouts' = [o \in OptOuts |-> IF optouts[o] \in Names \cup {"unknown"} THEN "lost" ELSE optouts[o]]
  /\ UNCHANGED <<customers, members, conflicts>>

Faults ==
  /\ faults > 0 /\ faults' = faults - 1
  /\ \/ UploadFault /\ UNCHANGED broadcastVars
     \/ BroadcastFault /\ UNCHANGED <<customerVars, uploadVars>>
     \/ Restarts

OutreachNext ==
  \/ CustomersNext /\ UNCHANGED <<uploadVars, broadcastVars, faults>>
  \/ UploadNext /\ UNCHANGED <<broadcastVars, faults>>
  \/ BroadcastNext /\ UNCHANGED <<customerVars, uploadVars, faults>>
  \/ Faults

OutreachSpec == OutreachInit /\ [][OutreachNext]_outreachVars

(* The event loop goes on: what a worker or a run awaits comes back.       *)
OutreachFairness ==
  /\ \A u \in Uploads : WF_outreachVars(WorkerStep(u) /\ UNCHANGED <<broadcastVars, faults>>)
  /\ \A r \in Runs : WF_outreachVars(RunStep(r) /\ UNCHANGED <<customerVars, uploadVars, faults>>)

OutreachTypeOK == CustomersTypeOK /\ UploadTypeOK /\ BroadcastTypeOK

(* A run that nothing cuts off comes to an end: every retry is counted and *)
(* every batch leaves PENDING.                                             *)
RunsEnd == []<>(\A r \in Runs : runs[r].phase = "none")

(* An upload has one worker, and what it reports complete is complete; an  *)
(* opt-out stands (CustomerUploadService, CustomersService).               *)
UploadsSound == OutreachTypeOK /\ OptOutKept /\ OneWorkerPerUpload /\ CompletedIsComplete /\ CountersAddUp

(* A broadcast that is COMPLETED has nobody left, its counters settle, and *)
(* a cancel or an opt-out is late by one message at most                   *)
(* (BroadcastsService, BroadcastWorkerService).                            *)
BroadcastsSound == CompletedIsDone /\ CancelBoundsSends /\ OptOutBoundsPosts /\ CountersSettle
=============================================================================
