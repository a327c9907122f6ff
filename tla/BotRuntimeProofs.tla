-------------------------- MODULE BotRuntimeProofs --------------------------
(***************************************************************************)
(* What holds of the session runtime for every flow, every number of       *)
(* overlapping calls and every loop bound.                                 *)
(***************************************************************************)
EXTENDS BotRuntime, TLAPS

(* Without removed steps the foreign key never refuses a save.             *)
RemovedKnown == clean => removed = {}

(* An ACTIVE session that is not parked belongs to a call that carries its *)
(* row exactly: the last one that saved it.                                *)
Carries(c) == calls[c].phase \in {"tick", "resolve"} /\ calls[c].me = row
Tended ==
  clean /\ row.status = "ACTIVE" => Parked \/ \E c \in Calls : Carries(c)

(* What an entity can say, by the phase of its call.                       *)
EntitiesLive ==
  \A c \in Calls :
    /\ calls[c].phase \in {"reply", "tick", "resolve"} =>
         calls[c].me.status = "ACTIVE" /\ calls[c].me.wake = "none"
    /\ calls[c].phase = "sweep" => calls[c].me.status = "ACTIVE"

(* As long as calls did not overlap, the row is what its only call read.   *)
Alone ==
  ~overlapped =>
    \A c, d \in Calls : InFlight(c) /\ InFlight(d) => c = d
RowStands ==
  ~overlapped => \A c \in Calls :
    /\ calls[c].phase \in {"reply", "tick", "resolve"} =>
         row.status = "ACTIVE" /\ row.wake = "none"
    /\ calls[c].phase = "sweep" => row.status = "ACTIVE" /\ row.wake = "due"

IInv == TypeOK /\ RemovedKnown /\ Tended /\ EntitiesLive /\ Alone /\ RowStands
----------------------------------------------------------------------------
LEMMA ConstantsTyped ==
  /\ Absent \in Session /\ Fresh \in Session /\ IdleCall \in Call
  /\ \A s \in Session : Ticking(s) \in Call
BY FlowAssumption, BoundsAssumption
   DEF Absent, Fresh, IdleCall, Ticking, Session, Call, Position

(* The entity a turn of the loop leaves behind is a session again.         *)
LEMMA EntitiesTyped ==
  ASSUME TypeOK, NEW c \in Calls
  PROVE  /\ calls[c] \in Call /\ calls[c].me \in Session /\ At(c) \in Position
         /\ \A n \in Position : Moved(c, n) \in Session
         /\ \A n \in Position : [Moved(c, n) EXCEPT !.wake = "pending"] \in Session
         /\ \A n \in Position, st \in {"COMPLETED", "HANDOFF", "FAILED"} :
              Ended(c, st, n) \in Session
         /\ [calls[c].me EXCEPT !.wake = "none"] \in Session
         /\ At(c) \in Steps => Nexts[At(c)] \subseteq Position
BY FlowAssumption DEF TypeOK, Call, Session, Moved, Ended, At, Position

LEMMA AnswersTyped == Answers \subseteq Position
BY FlowAssumption DEF Answers, Asks, Has, Position

(* A save puts a session in the row and a call in its place, or ends the   *)
(* call.                                                                   *)
LEMMA SavesTyped ==
  ASSUME TypeOK, NEW c \in Calls, NEW s \in Session, NEW k \in Call, Saves(c, s, k)
  PROVE  row' \in Session /\ calls' \in [Calls -> Call] /\ clean' \in BOOLEAN
BY ConstantsTyped DEF TypeOK, Saves, Goto
----------------------------------------------------------------------------
(* The steps that matter to the invariant fall into a few kinds.           *)

(* A call in flight saves an entity that has ended, sleeps, or that it     *)
(* goes on with.                                                           *)
SavingStep(c) ==
  /\ InFlight(c)
  /\ calls[c].phase = "start" => row = Absent
  /\ \E s \in Session, k \in Call :
       /\ Saves(c, s, k)
       /\ \/ s.status \notin {"ACTIVE", "ABSENT"} /\ k = IdleCall
          \/ s.status = "ACTIVE" /\ s.wake = "pending" /\ k = IdleCall
          \/ s.status = "ACTIVE" /\ s.wake = "none" /\ k.phase = "tick" /\ k.me = s
  /\ UNCHANGED <<removed, overlapped>>

(* A call ends without a save: it had nothing to do, or it dies.           *)
LeavingStep(c) ==
  /\ InFlight(c) /\ Goto(c, IdleCall)
  /\ \/ clean' = FALSE
     \/ clean' = clean /\ (calls[c].phase \in {"tick", "resolve"} => Asks(calls[c].me.at))
  /\ UNCHANGED <<row, removed, overlapped>>

(* A call begins with what the row says now.                               *)
BeginningStep(c) ==
  /\ \E k \in Call :
       /\ Begins(c, k)
       /\ \/ k.phase = "start"
          \/ /\ k.phase = "reply" /\ k.me = row
             /\ row.status = "ACTIVE" /\ row.wake = "none"
          \/ /\ k.phase = "sweep" /\ k.me = row
             /\ row.status = "ACTIVE" /\ row.wake = "due"
  /\ UNCHANGED <<row, removed, clean>>

LEMMA LoopSaves ==
  ASSUME IInv, NEW c \in Calls,
         TickFinishes(c) \/ TickMovesOn(c) \/ TickSleeps(c) \/ ResolveCommits(c)
  PROVE  SavingStep(c)
<1> USE DEF IInv
<1>0. /\ calls[c] \in Call /\ calls[c].me \in Session /\ At(c) \in Position
      /\ \A n \in Position : Moved(c, n) \in Session
      /\ \A n \in Position : [Moved(c, n) EXCEPT !.wake = "pending"] \in Session
      /\ \A n \in Position, st \in {"COMPLETED", "HANDOFF", "FAILED"} :
           Ended(c, st, n) \in Session
      /\ At(c) \in Steps => Nexts[At(c)] \subseteq Position
  BY EntitiesTyped
<1>1. calls[c].phase \in {"tick", "resolve"} /\ End \in Position /\ IdleCall \in Call
  BY ConstantsTyped DEF TickFinishes, TickMovesOn, TickSleeps, ResolveCommits, OnStep, Turn, Position
<1>2. calls[c].me.status = "ACTIVE" /\ calls[c].me.wake = "none" /\ InFlight(c)
  BY <1>1 DEF EntitiesLive, InFlight
<1>3. \A st \in {"COMPLETED", "HANDOFF", "FAILED"}, n \in Position :
        EndsAs(c, st, n) /\ UNCHANGED <<removed, overlapped>> => SavingStep(c)
  <2> SUFFICES ASSUME NEW st \in {"COMPLETED", "HANDOFF", "FAILED"}, NEW n \in Position,
                      EndsAs(c, st, n), UNCHANGED <<removed, overlapped>>
               PROVE  SavingStep(c)
    OBVIOUS
  <2>1. Ended(c, st, n) \in Session /\ Ended(c, st, n).status = st
    BY <1>0 DEF Ended, Session
  <2> QED BY <1>1, <1>2, <2>1 DEF EndsAs, SavingStep
<1>4. CASE TickFinishes(c)
  BY <1>0, <1>1, <1>3, <1>4 DEF TickFinishes
<1>5. CASE TickMovesOn(c)
  <2>1. PICK n \in Nexts[At(c)] : Saves(c, Moved(c, n), NextTurn(c, Moved(c, n)))
    BY <1>5 DEF TickMovesOn
  <2>2. n \in Position
    BY <1>0, <1>5, <2>1 DEF TickMovesOn, OnStep, Has
  <2>3. Moved(c, n) \in Session /\ Moved(c, n).status = "ACTIVE" /\ Moved(c, n).wake = "none"
    BY <1>0, <1>2, <2>2 DEF Moved, Session
  <2>4. calls[c].phase = "tick" /\ calls[c].left - 1 \in Nat
    BY <1>0, <1>5 DEF TickMovesOn, OnStep, Turn, Call
  <2>5. /\ NextTurn(c, Moved(c, n)) \in Call
        /\ NextTurn(c, Moved(c, n)).phase = "tick"
        /\ NextTurn(c, Moved(c, n)).me = Moved(c, n)
    <3> DEFINE s == Moved(c, n)
    <3>1. s \in Session BY <2>3
    <3> HIDE DEF s
    <3>2. NextTurn(c, s) \in Call /\ NextTurn(c, s).phase = "tick" /\ NextTurn(c, s).me = s
      BY <1>0, <2>4, <3>1 DEF NextTurn, Call
    <3> QED BY <3>2 DEF s
  <2> QED BY <1>1, <1>2, <1>5, <2>1, <2>3, <2>5 DEF SavingStep, TickMovesOn
<1>6. CASE TickSleeps(c)
  <2>1. PICK n \in Nexts[At(c)] :
          Saves(c, [Moved(c, n) EXCEPT !.wake = "pending"], IdleCall)
    BY <1>6 DEF TickSleeps
  <2>2. n \in Position
    BY <1>0, <1>6, <2>1 DEF TickSleeps, OnStep, Has
  <2>3. Moved(c, n) \in Session /\ Moved(c, n).status = "ACTIVE"
    BY <1>0, <1>2, <2>2 DEF Moved, Session
  <2> DEFINE s == [Moved(c, n) EXCEPT !.wake = "pending"]
  <2>4. s \in Session /\ s.status = "ACTIVE" /\ s.wake = "pending"
    BY <2>3 DEF Session
  <2> HIDE DEF s
  <2>5. Saves(c, s, IdleCall) BY <2>1 DEF s
  <2> QED BY <1>1, <1>2, <1>6, <2>4, <2>5 DEF SavingStep, TickSleeps
<1>7. CASE ResolveCommits(c)
  BY <1>1, <1>3, <1>7 DEF ResolveCommits
<1> QED BY <1>4, <1>5, <1>6, <1>7

LEMMA EntrySaves ==
  ASSUME IInv, NEW c \in Calls
  PROVE  /\ ReplyAnswers(c) => SavingStep(c)
         /\ SweepClears(c) => SavingStep(c)
         /\ StartInserts(c) => SavingStep(c) \/ LeavingStep(c)
<1> USE DEF IInv
<1>0. /\ calls[c] \in Call /\ calls[c].me \in Session
      /\ [calls[c].me EXCEPT !.wake = "none"] \in Session
      /\ IdleCall \in Call /\ Fresh \in Session
  BY EntitiesTyped, ConstantsTyped
<1>1. \A s \in Session : /\ Ticking(s) \in Call /\ Ticking(s).phase = "tick"
                         /\ Ticking(s).me = s
  BY ConstantsTyped DEF Ticking, IdleCall
<1>2. ASSUME ReplyAnswers(c) PROVE SavingStep(c)
  <2>1. PICK n \in Answers : LET s == [calls[c].me EXCEPT !.at = n]
                             IN  Saves(c, s, Ticking(s))
    BY <1>2 DEF ReplyAnswers
  <2> DEFINE s == [calls[c].me EXCEPT !.at = n]
  <2>2. s \in Session /\ s.status = "ACTIVE" /\ s.wake = "none"
    BY <1>0, <1>2, <2>1, AnswersTyped DEF ReplyAnswers, EntitiesLive, Session
  <2>3. Saves(c, s, Ticking(s)) BY <2>1
  <2> HIDE DEF s
  <2> QED BY <1>1, <1>2, <2>2, <2>3 DEF SavingStep, ReplyAnswers, InFlight
<1>3. ASSUME SweepClears(c) PROVE SavingStep(c)
  <2> DEFINE s == [calls[c].me EXCEPT !.wake = "none"]
  <2>1. s \in Session /\ s.status = "ACTIVE" /\ s.wake = "none"
    BY <1>0, <1>3 DEF SweepClears, EntitiesLive, Session
  <2>2. Saves(c, s, Ticking(s)) BY <1>3 DEF SweepClears
  <2> HIDE DEF s
  <2> QED BY <1>1, <1>3, <2>1, <2>2 DEF SavingStep, SweepClears, InFlight
<1>4. ASSUME StartInserts(c) PROVE SavingStep(c) \/ LeavingStep(c)
  <2>1. CASE row = Absent /\ Saves(c, Fresh, Ticking(Fresh))
    <3>1. Fresh.status = "ACTIVE" /\ Fresh.wake = "none" BY DEF Fresh
    <3> QED BY <1>0, <1>1, <1>4, <2>1, <3>1 DEF SavingStep, StartInserts, InFlight
  <2>2. CASE row # Absent /\ Goto(c, IdleCall) /\ UNCHANGED <<row, clean>>
    BY <1>4, <2>2 DEF LeavingStep, StartInserts, InFlight
  <2> QED BY <1>4, <2>1, <2>2 DEF StartInserts
<1> QED BY <1>2, <1>3, <1>4

LEMMA Leaves ==
  ASSUME IInv, NEW c \in Calls, ReplyChangesNothing(c) \/ TickAsks(c) \/ Throws(c)
  PROVE  LeavingStep(c)
BY DEF ReplyChangesNothing, TickAsks, Throws, LeavingStep, InFlight, OnStep, Turn, Asks, Has, At

LEMMA Beginnings ==
  ASSUME IInv, NEW c \in Calls, StartReads(c) \/ ReplyReads(c) \/ SweepReads(c)
  PROVE  BeginningStep(c)
<1> USE DEF IInv
<1>1. /\ [IdleCall EXCEPT !.phase = "start"] \in Call
      /\ [IdleCall EXCEPT !.phase = "reply", !.me = row] \in Call
      /\ [IdleCall EXCEPT !.phase = "sweep", !.me = row] \in Call
  BY ConstantsTyped DEF Call, TypeOK
<1>2. /\ [IdleCall EXCEPT !.phase = "start"].phase = "start"
      /\ [IdleCall EXCEPT !.phase = "reply", !.me = row].phase = "reply"
      /\ [IdleCall EXCEPT !.phase = "reply", !.me = row].me = row
      /\ [IdleCall EXCEPT !.phase = "sweep", !.me = row].phase = "sweep"
      /\ [IdleCall EXCEPT !.phase = "sweep", !.me = row].me = row
  BY DEF IdleCall
<1>3. CASE StartReads(c) BY <1>1, <1>2, <1>3 DEF StartReads, BeginningStep
<1>4. CASE ReplyReads(c) BY <1>1, <1>2, <1>4 DEF ReplyReads, BeginningStep
<1>5. CASE SweepReads(c) BY <1>1, <1>2, <1>5 DEF SweepReads, BeginningStep
<1> QED BY <1>3, <1>4, <1>5
----------------------------------------------------------------------------
(* Each kind preserves the invariant.                                      *)

LEMMA SavingKeeps ==
  ASSUME IInv, TypeOK', NEW c \in Calls, SavingStep(c)
  PROVE  IInv'
<1> USE DEF IInv
<1>0. PICK s \in Session, k \in Call :
        /\ Saves(c, s, k)
        /\ \/ s.status \notin {"ACTIVE", "ABSENT"} /\ k = IdleCall
           \/ s.status = "ACTIVE" /\ s.wake = "pending" /\ k = IdleCall
           \/ s.status = "ACTIVE" /\ s.wake = "none" /\ k.phase = "tick" /\ k.me = s
  BY DEF SavingStep
<1>1. /\ InFlight(c) /\ (calls[c].phase = "start" => row = Absent)
      /\ UNCHANGED <<removed, overlapped>>
  BY DEF SavingStep
<1>2. /\ IdleCall.phase = "idle"
      /\ calls \in [Calls -> Call]
  BY DEF IdleCall, TypeOK
<1>3. CASE ~Savable(s)
  <2>1. clean' = FALSE /\ row' = row /\ calls' = [calls EXCEPT ![c] = IdleCall]
    BY <1>0, <1>3 DEF Saves, Goto
  <2>2. calls'[c].phase = "idle" /\ \A d \in Calls : d # c => calls'[d] = calls[d]
    BY <1>2, <2>1
  <2>3. EntitiesLive' BY <2>2 DEF EntitiesLive
  <2>4. Alone' BY <1>1, <2>2 DEF Alone, InFlight
  <2>5. RowStands' BY <1>1, <2>1, <2>2 DEF RowStands
  <2> QED BY <2>1, <2>3, <2>4, <2>5 DEF RemovedKnown, Tended
<1>4. CASE Savable(s)
  <2>1. clean' = clean /\ row' = s /\ calls' = [calls EXCEPT ![c] = k]
    BY <1>0, <1>4 DEF Saves, Goto
  <2>2. calls'[c] = k /\ \A d \in Calls : d # c => calls'[d] = calls[d]
    BY <1>2, <2>1
  <2>3. RemovedKnown' BY <1>1, <2>1 DEF RemovedKnown
  <2>4. Tended'
    <3>1. CASE s.status \notin {"ACTIVE", "ABSENT"} BY <2>1, <3>1 DEF Tended
    <3>2. CASE s.wake = "pending" BY <2>1, <3>2 DEF Tended, Parked
    <3>3. CASE k.phase = "tick" /\ k.me = s BY <2>1, <2>2, <3>3 DEF Tended, Carries
    <3> QED BY <1>0, <3>1, <3>2, <3>3
  <2>5. EntitiesLive' BY <1>0, <1>2, <2>2 DEF EntitiesLive
  <2>6. Alone' BY <1>1, <2>2 DEF Alone, InFlight
  <2>7. RowStands'
    <3> SUFFICES ASSUME ~overlapped, NEW d \in Calls
                 PROVE  /\ calls'[d].phase \in {"reply", "tick", "resolve"} =>
                              s.status = "ACTIVE" /\ s.wake = "none"
                        /\ calls'[d].phase = "sweep" => s.status = "ACTIVE" /\ s.wake = "due"
      BY <1>1, <2>1 DEF RowStands
    <3>1. CASE d = c BY <1>0, <1>2, <2>2, <3>1
    <3>2. CASE d # c
      <4>1. ~InFlight(d) BY <1>1, <3>2 DEF Alone
      <4> QED BY <2>2, <3>2, <4>1 DEF InFlight
    <3> QED BY <3>1, <3>2
  <2> QED BY <2>3, <2>4, <2>5, <2>6, <2>7
<1> QED BY <1>3, <1>4

LEMMA LeavingKeeps ==
  ASSUME IInv, TypeOK', NEW c \in Calls, LeavingStep(c)
  PROVE  IInv'
<1> USE DEF IInv
<1>1. /\ calls' = [calls EXCEPT ![c] = IdleCall] /\ UNCHANGED <<row, removed, overlapped>>
      /\ \/ clean' = FALSE
         \/ clean' = clean /\ (calls[c].phase \in {"tick", "resolve"} => Asks(calls[c].me.at))
  BY DEF LeavingStep, Goto
<1>2. /\ calls'[c].phase = "idle" /\ \A d \in Calls : d # c => calls'[d] = calls[d]
  BY <1>1 DEF TypeOK, IdleCall
<1>3. RemovedKnown' BY <1>1 DEF RemovedKnown, TypeOK
<1>4. Tended'
  <2> SUFFICES ASSUME clean', row.status = "ACTIVE", ~Parked
               PROVE  \E d \in Calls : calls'[d].phase \in {"tick", "resolve"} /\ calls'[d].me = row
    BY <1>1 DEF Tended, Parked, Carries
  <2>1. clean BY <1>1
  <2>2. PICK d \in Calls : Carries(d) BY <2>1 DEF Tended
  <2>3. d # c BY <1>1, <2>2 DEF Carries, Parked
  <2> QED BY <1>2, <2>2, <2>3 DEF Carries
<1>5. EntitiesLive' BY <1>2 DEF EntitiesLive
<1>6. Alone' BY <1>1, <1>2 DEF Alone, InFlight
<1>7. RowStands' BY <1>1, <1>2 DEF RowStands
<1> QED BY <1>3, <1>4, <1>5, <1>6, <1>7

LEMMA BeginningKeeps ==
  ASSUME IInv, TypeOK', NEW c \in Calls, BeginningStep(c)
  PROVE  IInv'
<1> USE DEF IInv
<1>0. PICK k \in Call :
        /\ Begins(c, k)
        /\ \/ k.phase = "start"
           \/ /\ k.phase = "reply" /\ k.me = row
              /\ row.status = "ACTIVE" /\ row.wake = "none"
           \/ /\ k.phase = "sweep" /\ k.me = row
              /\ row.status = "ACTIVE" /\ row.wake = "due"
  BY DEF BeginningStep
<1>1. /\ calls' = [calls EXCEPT ![c] = k] /\ UNCHANGED <<row, removed, clean>>
      /\ ~InFlight(c) /\ overlapped' = (overlapped \/ \E d \in Calls : InFlight(d))
  BY <1>0 DEF BeginningStep, Begins, Goto
<1>2. calls'[c] = k /\ \A d \in Calls : d # c => calls'[d] = calls[d]
  BY <1>1 DEF TypeOK
<1>3. RemovedKnown' BY <1>1 DEF RemovedKnown
<1>4. Tended'
  <2> SUFFICES ASSUME clean, row.status = "ACTIVE", ~Parked
               PROVE  \E d \in Calls : calls'[d].phase \in {"tick", "resolve"} /\ calls'[d].me = row
    BY <1>1 DEF Tended, Parked, Carries
  <2>1. PICK d \in Calls : Carries(d) BY DEF Tended
  <2>2. d # c BY <1>1, <2>1 DEF Carries, InFlight
  <2> QED BY <1>2, <2>1, <2>2 DEF Carries
<1>5. EntitiesLive' BY <1>0, <1>2 DEF EntitiesLive
<1>6. Alone' BY <1>1, <1>2 DEF Alone, InFlight
<1>7. RowStands' BY <1>0, <1>1, <1>2 DEF RowStands, InFlight
<1> QED BY <1>3, <1>4, <1>5, <1>6, <1>7

(* The read of applyResolve keeps the entity.                              *)
LEMMA ResolveReadKeeps ==
  ASSUME IInv, TypeOK', NEW c \in Calls, ResolveReads(c)
  PROVE  IInv'
<1> USE DEF IInv
<1>1. /\ calls' = [calls EXCEPT ![c] = [calls[c] EXCEPT !.phase = "resolve", !.seen = resolved]]
      /\ UNCHANGED <<row, removed, clean, overlapped>> /\ calls[c].phase = "tick"
  BY DEF ResolveReads, Goto, OnStep, Turn
<1>2. /\ calls'[c].phase = "resolve" /\ calls'[c].me = calls[c].me
      /\ \A d \in Calls : d # c => calls'[d] = calls[d]
  BY <1>1 DEF TypeOK, Call
<1>3. RemovedKnown' BY <1>1 DEF RemovedKnown
<1>4. Tended'
  <2> SUFFICES ASSUME clean, row.status = "ACTIVE", ~Parked
               PROVE  \E d \in Calls : calls'[d].phase \in {"tick", "resolve"} /\ calls'[d].me = row
    BY <1>1 DEF Tended, Parked, Carries
  <2>1. PICK d \in Calls : Carries(d) BY DEF Tended
  <2> QED BY <1>2, <2>1 DEF Carries
<1>5. EntitiesLive' BY <1>1, <1>2 DEF EntitiesLive
<1>6. Alone' BY <1>1, <1>2 DEF Alone, InFlight
<1>7. RowStands' BY <1>1, <1>2 DEF RowStands
<1> QED BY <1>3, <1>4, <1>5, <1>6, <1>7

(* Timers, agents, edits and restarts.                                     *)
LEMMA OthersKeep ==
  ASSUME IInv, TypeOK', Elapse \/ AgentMoves \/ Restart \/ \E s \in Steps : RemoveStep(s)
  PROVE  IInv'
<1> USE DEF IInv
<1>1. CASE Elapse
  <2>1. /\ row.wake = "pending" /\ row'.wake = "due" /\ row'.status = row.status
        /\ UNCHANGED <<calls, removed, clean, overlapped>>
    BY <1>1 DEF Elapse, TypeOK, Session
  <2>2. Tended' BY <2>1 DEF Tended, Parked
  <2>3. RowStands' BY <2>1 DEF RowStands
  <2> QED BY <2>1, <2>2, <2>3 DEF RemovedKnown, EntitiesLive, Alone, InFlight
<1>2. CASE AgentMoves
  BY <1>2 DEF AgentMoves, RemovedKnown, Tended, Parked, Carries, EntitiesLive, Alone,
              InFlight, RowStands
<1>3. CASE Restart
  <2>1. /\ \A c \in Calls : calls'[c].phase = "idle"
        /\ UNCHANGED <<row, removed, overlapped>>
        /\ clean' = (clean /\ \A c \in Calls : ~InFlight(c))
    BY <1>3 DEF Restart, IdleCall
  <2>2. Tended' BY <2>1 DEF Tended, Parked, Carries, InFlight
  <2> QED BY <2>1, <2>2 DEF RemovedKnown, EntitiesLive, Alone, InFlight, RowStands
<1>4. ASSUME NEW s \in Steps, RemoveStep(s) PROVE IInv'
  <2>1. /\ clean' = FALSE /\ UNCHANGED <<calls, overlapped>>
        /\ row'.status = row.status /\ row'.wake = row.wake
    BY <1>4 DEF RemoveStep, TypeOK, Session
  <2> QED BY <2>1 DEF RemovedKnown, Tended, EntitiesLive, Alone, InFlight, RowStands
<1> QED BY <1>1, <1>2, <1>3, <1>4
----------------------------------------------------------------------------
(* Types.                                                                  *)

LEMMA SpendTyped == ASSUME TypeOK, Spend PROVE budget' \in Nat
BY DEF TypeOK, Spend

LEMMA StepTyped == IInv /\ [Next]_vars => TypeOK'
<1> SUFFICES ASSUME IInv, [Next]_vars PROVE TypeOK'
  OBVIOUS
<1> USE DEF IInv
<1>1. ASSUME NEW c \in Calls, SavingStep(c), UNCHANGED budget, resolved' \in BOOLEAN
      PROVE  TypeOK'
  <2>1. PICK s \in Session, k \in Call : Saves(c, s, k)
    BY <1>1 DEF SavingStep
  <2>2. row' \in Session /\ calls' \in [Calls -> Call] /\ clean' \in BOOLEAN
    BY <2>1, SavesTyped
  <2> QED BY <1>1, <2>2 DEF TypeOK, SavingStep
<1>2. ASSUME NEW c \in Calls, LeavingStep(c), UNCHANGED resolved, budget' \in Nat
      PROVE  TypeOK'
  BY <1>2, ConstantsTyped DEF TypeOK, LeavingStep, Goto
<1>3. ASSUME NEW c \in Calls, BeginningStep(c), UNCHANGED <<resolved, budget>>
      PROVE  TypeOK'
  BY <1>3 DEF TypeOK, BeginningStep, Begins, Goto
<1>4. ASSUME NEW c \in Calls, StartReads(c) \/ ReplyReads(c) \/ SweepReads(c) PROVE TypeOK'
  BY <1>3, <1>4, Beginnings DEF StartReads, ReplyReads, SweepReads
<1>5. ASSUME NEW c \in Calls, CallStep(c) PROVE TypeOK'
  <2>1. CASE StartInserts(c)
    BY <1>1, <1>2, <2>1, EntrySaves DEF StartInserts, TypeOK
  <2>2. CASE ReplyAnswers(c) \/ SweepClears(c)
    BY <1>1, <2>2, EntrySaves DEF ReplyAnswers, SweepClears, TypeOK
  <2>3. CASE ReplyChangesNothing(c) \/ TickAsks(c)
    BY <1>2, <2>3, Leaves DEF ReplyChangesNothing, TickAsks, TypeOK
  <2>4. CASE TickFinishes(c) \/ TickMovesOn(c) \/ TickSleeps(c) \/ ResolveCommits(c)
    <3>1. UNCHANGED budget
      BY <2>4 DEF TickFinishes, TickMovesOn, TickSleeps, ResolveCommits
    <3>2. resolved' \in BOOLEAN
      BY <2>4 DEF TickFinishes, TickMovesOn, TickSleeps, ResolveCommits, TypeOK
    <3> QED BY <1>1, <2>4, <3>1, <3>2, LoopSaves
  <2>5. CASE ResolveReads(c)
    <3>1. calls[c] \in Call /\ resolved \in BOOLEAN BY DEF TypeOK
    <3>2. [calls[c] EXCEPT !.phase = "resolve", !.seen = resolved] \in Call
      BY <3>1 DEF Call
    <3> QED BY <2>5, <3>2 DEF ResolveReads, Goto, TypeOK
  <2> QED BY <1>5, <2>1, <2>2, <2>3, <2>4, <2>5 DEF CallStep
<1>6. ASSUME NEW c \in Calls, Throws(c) PROVE TypeOK'
  BY <1>2, <1>6, Leaves, SpendTyped DEF Throws
<1>7. CASE Elapse BY <1>7 DEF Elapse, TypeOK, Session
<1>8. CASE AgentMoves BY <1>8, SpendTyped DEF AgentMoves, TypeOK
<1>9. CASE Restart BY <1>9, SpendTyped, ConstantsTyped DEF Restart, TypeOK
<1>10. ASSUME NEW s \in Steps, RemoveStep(s) PROVE TypeOK'
  <2>1. row' \in Session BY <1>10 DEF RemoveStep, TypeOK, Session, Position
  <2> QED BY <1>10, <2>1, SpendTyped DEF RemoveStep, TypeOK
<1>11. CASE UNCHANGED vars BY <1>11 DEF vars, TypeOK
<1> QED BY <1>4, <1>5, <1>6, <1>7, <1>8, <1>9, <1>10, <1>11 DEF Next, Sweep

LEMMA StepKeeps == IInv /\ [Next]_vars => IInv'
<1> SUFFICES ASSUME IInv, [Next]_vars PROVE IInv'
  OBVIOUS
<1>0. TypeOK' BY StepTyped
<1>1. ASSUME NEW c \in Calls, StartReads(c) \/ ReplyReads(c) \/ SweepReads(c) PROVE IInv'
  BY <1>0, <1>1, Beginnings, BeginningKeeps
<1>2. ASSUME NEW c \in Calls, CallStep(c) PROVE IInv'
  BY <1>0, <1>2, EntrySaves, Leaves, LoopSaves, SavingKeeps, LeavingKeeps, ResolveReadKeeps
     DEF CallStep
<1>3. ASSUME NEW c \in Calls, Throws(c) PROVE IInv'
  BY <1>0, <1>3, Leaves, LeavingKeeps
<1>4. CASE Elapse \/ AgentMoves \/ Restart \/ \E s \in Steps : RemoveStep(s)
  BY <1>0, <1>4, OthersKeep
<1>5. CASE UNCHANGED vars
  BY <1>5 DEF vars, IInv, TypeOK, RemovedKnown, Tended, Parked, Carries, EntitiesLive, Alone,
              InFlight, RowStands
<1> QED BY <1>1, <1>2, <1>3, <1>4, <1>5 DEF Next, Sweep

LEMMA StartHolds == Init => IInv
<1> SUFFICES ASSUME Init PROVE IInv
  OBVIOUS
<1>1. TypeOK BY ConstantsTyped, BoundsAssumption DEF Init, TypeOK
<1>2. \A c \in Calls : calls[c].phase = "idle" BY DEF Init, IdleCall
<1>3. row.status = "ABSENT" BY DEF Init, Absent
<1> QED BY <1>1, <1>2, <1>3 DEF Init, IInv, RemovedKnown, Tended, EntitiesLive, Alone,
                                InFlight, RowStands

LEMMA Invariant == Spec => []IInv
BY StartHolds, StepKeeps, PTL DEF Spec
----------------------------------------------------------------------------
(* Every variable keeps its type, whatever the flow (bot-runtime 453-636). *)
THEOREM SessionTypeCorrect == Spec => []TypeOK
BY Invariant, PTL DEF IInv

(* An ACTIVE session waits for a reply or its timer whenever no call is at *)
(* work, however many calls overlapped and overwrote each other before.    *)
THEOREM SessionsNeverAdrift == Spec => []NeverAdrift
<1>1. IInv => NeverAdrift
  BY DEF IInv, Tended, NeverAdrift, Carries, InFlight
<1> QED BY <1>1, Invariant, PTL

(* Calls that do not overlap never bring an ended session back, nor move   *)
(* one that sleeps.                                                        *)
LEMMA RowMoves ==
  ASSUME IInv, [Next]_vars, ~overlapped
  PROVE  /\ row.status \in {"COMPLETED", "HANDOFF", "FAILED"} => row'.status = row.status
         /\ row.wake = "pending" => row' \in {row, [row EXCEPT !.wake = "due"]} \/ ~clean'
<1> USE DEF IInv
<1>1. ASSUME NEW c \in Calls, SavingStep(c)
      PROVE  row.status \in {"ACTIVE", "ABSENT"} /\ row.wake # "pending"
  <2>1. calls[c] \in Call /\ InFlight(c) /\ (calls[c].phase = "start" => row = Absent)
    BY <1>1 DEF SavingStep, TypeOK
  <2>2. calls[c].phase = "start" \/ calls[c].phase = "sweep"
        \/ calls[c].phase \in {"reply", "tick", "resolve"}
    BY <2>1 DEF InFlight, Call
  <2> QED BY <2>1, <2>2 DEF RowStands, Absent
<1>2. ASSUME NEW c \in Calls, StartReads(c) \/ ReplyReads(c) \/ SweepReads(c) PROVE row' = row
  BY <1>2 DEF StartReads, ReplyReads, SweepReads
<1>3. ASSUME NEW c \in Calls, CallStep(c) PROVE row' = row \/ SavingStep(c)
  BY <1>3, EntrySaves, LoopSaves
     DEF CallStep, LeavingStep, ReplyChangesNothing, TickAsks, ResolveReads
<1>4. ASSUME NEW c \in Calls, Throws(c) PROVE row' = row
  BY <1>4 DEF Throws
<1>5. CASE Elapse BY <1>5 DEF Elapse, TypeOK, Session
<1>6. CASE AgentMoves \/ Restart BY <1>6 DEF AgentMoves, Restart
<1>7. ASSUME NEW s \in Steps, RemoveStep(s) PROVE clean' = FALSE /\ row'.status = row.status
  BY <1>7 DEF RemoveStep, TypeOK, Session
<1>8. CASE UNCHANGED vars BY <1>8 DEF vars
<1> QED BY <1>1, <1>2, <1>3, <1>4, <1>5, <1>6, <1>7, <1>8 DEF Next, Sweep

(* A session that has ended stays ended while calls do not overlap         *)
(* (handleCustomerReply looks at the status, a tick ends with its session).*)
THEOREM EndsAreFinal == Spec => EndedStaysEnded
<1>1. IInv /\ [Next]_vars =>
        [row.status \in {"COMPLETED", "HANDOFF", "FAILED"} =>
           row'.status = row.status \/ overlapped]_vars
  BY RowMoves
<1> QED BY <1>1, Invariant, PTL DEF Spec, EndedStaysEnded

(* A reply does not bypass a delay while calls do not overlap: the early   *)
(* return on wake_at is enough.                                            *)
THEOREM DelaysStand == Spec => DelayStands
<1>1. IInv /\ [Next]_vars =>
        [row.wake = "pending" =>
           row' \in {row, [row EXCEPT !.wake = "due"]} \/ overlapped \/ ~clean']_vars
  BY RowMoves
<1> QED BY <1>1, Invariant, PTL DEF Spec, DelayStands
=============================================================================
