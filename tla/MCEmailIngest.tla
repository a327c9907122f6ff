--------------------------- MODULE MCEmailIngest ---------------------------
(* Values of the constants of EmailIngest for TLC.                         *)
EXTENDS EmailIngest

CONSTANTS a1, a2, tm1, tm2, m1, m2, m3, w1, w2

OneAgent  == {a1}
TwoAgents == {a1, a2}
OneTeam   == {tm1}
TwoTeams  == {tm1, tm2}
AllMembers == Agents \X Teams

ThreeMails == {m1, m2, m3}
NoSent     == {}
LastSent   == {m3}
OneWorker  == {w1}
TwoWorkers == {w1, w2}

(* m2 answers m1; m3 answers m2 and so names m1 and m2.                    *)
Thread ==
  [m \in Mails |-> IF m = m1 THEN <<>> ELSE IF m = m2 THEN <<m1>> ELSE <<m1, m2>>]
(* m2 names nothing and has the subject of m1; m3 names m1 and m2.         *)
HalfThread   == [m \in Mails |-> IF m = m3 THEN <<m1, m2>> ELSE <<>>]
PairSubject  == [m \in Mails |-> IF m = m3 THEN "m3" ELSE "order"]
OwnSubjects == [m \in Mails |-> m]

Of(status, resume, action, stamp) ==
  [status |-> status, assignee |-> a1, team |-> tm1, resume_at |-> resume,
   waiting_action |-> action, resolved_at |-> stamp]
OpenRow == {Of("OPEN", "null", "null", "null")}
Waiting == {Of("WAITING", "pending", "AUTO_RESOLVE", "null"), Of("WAITING", "pending", "REOPEN", "null")}
Resolved == {Of("RESOLVED", "null", "null", "recent")}
AllRows == OpenRow \cup Waiting \cup Resolved

Keep == [status |-> "keep", assignee |-> "keep", team |-> "keep", waiting_action |-> "null"]
Resolve  == [Keep EXCEPT !.status = "RESOLVED"]
Reopen   == [Keep EXCEPT !.status = "OPEN"]
Pause    == [Keep EXCEPT !.status = "WAITING", !.waiting_action = "REOPEN"]
Followup == [Keep EXCEPT !.status = "IN_FOLLOWUP"]
NoDtos     == {}
StatusDtos == {Resolve, Reopen, Pause, Followup}
=============================================================================
