-------------------------- MODULE EmailIngestProofs --------------------------
(* Proofs about EmailIngest, for any mails and threads, any number of      *)
(* ingests that overlap, and any agents and teams.                         *)
(*                                                                         *)
(* The inductive invariant joins the type of the state to what each        *)
(* transaction may rely on: the row it has locked is the one it decided    *)
(* on, no two hold one row, and what it is about to insert is not there.   *)
EXTENDS EmailIngest, FiniteSetTheorems, SequenceTheorems, WellFoundedInduction,
        TLAPS

(* Ids are given in order.                                                 *)
Numbered == \E n \in Nat : Tickets = 1 .. n

(* What a transaction may do to a row it holds: hand it on, or open what   *)
(* was paused or closed.                                                   *)
Kept(old, new) ==
  \/ new = [old EXCEPT !.assignee = new.assignee, !.team = new.team]
  \/ old.status \in {"WAITING", "RESOLVED"} /\ new.status = "OPEN"

(* The locals of a transaction agree with the tables.  One that mints a    *)
(* continuation still holds the old row, RESOLVED and past its window; one *)
(* that reopens for an inbound mail holds the RESOLVED row.                *)
Sound(x) ==
  /\ {x.ticket, x.prev, x.lock} \subseteq Tickets \cup {NoTicket}
  /\ x.phase \in {"lock", "reopen", "wake", "waking", "refresh", "reroute"} => x.ticket # NoTicket
  /\ x.prev # NoTicket => /\ x.ticket = NoTicket /\ x.lock = x.prev /\ rows[x.prev] = x.row
                          /\ x.row.status = "RESOLVED" /\ x.row.resolved_at = "old"
  /\ x.lock # NoTicket => /\ x.lock \in {x.ticket, x.prev}
                          /\ Coherent(x.row) /\ Kept(rows[x.lock], x.row)
  /\ x.phase = "reopen" /\ x.mail \in Inbound => x.lock = x.ticket /\ x.row.status = "RESOLVED"
  /\ x.phase \in {"find", "lock"} => x.lock = NoTicket
  /\ x.saved <=> x.phase \in {"reroute", "commit"}
  /\ x.saved => ~Stored(x.mail)
  /\ x.phase = "commit" /\ x.ticket = NoTicket => \E tm \in Teams : x.seen = FreshRow(Bot, tm)

TxnsSound == \A w \in Workers : Sound(txns[w])

(* One holder per row, one insert per mail.                                *)
Exclusive ==
  \A v, w \in Workers : v # w =>
    /\ txns[v].lock # NoTicket => txns[v].lock # txns[w].lock
    /\ txns[v].saved /\ txns[w].saved => txns[v].mail # txns[w].mail

IInv == TypeOK /\ Numbered /\ MailsKept /\ TxnsSound /\ Exclusive
----------------------------------------------------------------------------
(* A set of numbers has a least, and a bounded one a greatest member.      *)
LEMMA Least ==
  ASSUME NEW T, T \subseteq Nat, T # {} PROVE \E i \in T : \A j \in T : i <= j
<1> DEFINE R == {ss \in Nat \X Nat : ss[1] < ss[2]}
<1>1. IsWellFoundedOn(R, Nat) BY NatLessThanWellFounded DEF OpToRel
<1>2. PICK i \in T : \A j \in T : <<j, i>> \notin R BY <1>1, WFMin
<1>3. \A j \in T : <<j, i>> \in Nat \X Nat BY <1>2
<1>4. \A j \in T : ~(j < i) BY <1>2, <1>3
<1> QED BY <1>2, <1>4

LEMMA Greatest ==
  ASSUME NEW n \in Nat, NEW T, T \subseteq 1 .. n, T # {}
  PROVE  \E i \in T : \A j \in T : j <= i
<1> DEFINE U == {n - i : i \in T}
<1>6. U # {}
  <2>1. PICK i \in T : TRUE OBVIOUS
  <2>2. n - i \in U OBVIOUS
  <2> QED BY <2>2
<1>1. \A i \in T : n - i \in Nat OBVIOUS
<1>5. U \subseteq Nat BY <1>1
<1>2. PICK k \in U : \A j \in U : k <= j BY <1>5, <1>6, Least
<1>3. PICK i \in T : k = n - i BY <1>2
<1>4. ASSUME NEW j \in T PROVE j <= i
  <2>1. n - j \in U OBVIOUS
  <2> QED BY <1>2, <1>3, <2>1
<1> QED BY <1>4

LEMMA NextId == ASSUME Numbered PROVE Cardinality(Tickets) + 1 \notin Tickets \cup {NoTicket}
<1>1. PICK n \in Nat : Tickets = 1 .. n BY DEF Numbered
<1>2. Cardinality(1 .. n) = n BY FS_Interval
<1> QED BY <1>1, <1>2 DEF NoTicket

LEMMA NextNumbered ==
  ASSUME Numbered, DOMAIN rows' = Tickets \cup {Cardinality(Tickets) + 1} PROVE Numbered'
<1>1. PICK n \in Nat : Tickets = 1 .. n BY DEF Numbered
<1>2. Cardinality(1 .. n) = n BY FS_Interval
<1>3. DOMAIN rows' = 1 .. n + 1 BY <1>1, <1>2
<1> QED BY <1>3 DEF Numbered, Tickets
----------------------------------------------------------------------------
(* Every write of a row yields a row: the writers of TicketRow keep each   *)
(* column in its type.                                                     *)
LEMMA PatchedType ==
  ASSUME NEW cur \in Row, NEW read \in Row, NEW dto \in PatchDto,
         dto.status = "WAITING" <=> dto.waiting_action # "null"
  PROVE  Patched(cur, read, dto) \in Row
<1> DEFINE owner == IF ChangesAssignee(read, dto) THEN dto.assignee ELSE cur.assignee
           tm    == IF ChangesTeam(read, dto) THEN dto.team ELSE cur.team
<1>1. owner \in Owners BY DEF ChangesAssignee, PatchDto, Row
<1>2. tm \in Teams BY DEF ChangesTeam, PatchDto, Row
<1>3. PatchedResolvedAt(cur, read, dto) \in {"null", "recent", "old"}
  BY DEF PatchedResolvedAt, Row
<1>4. CASE ChangesStatus(read, dto)
  BY <1>1, <1>2, <1>3, <1>4 DEF Patched, ChangesStatus, PatchDto, Row, TicketStatus, PausedStatus
<1>5. CASE ~ChangesStatus(read, dto)
  BY <1>1, <1>2, <1>5 DEF Patched, Row
<1> QED BY <1>4, <1>5

LEMMA WriterTypes ==
  ASSUME NEW row \in Row, NEW owner \in Owners
  PROVE  /\ TimerResolved(row) \in Row /\ TimerReopened(row, owner) \in Row
         /\ FollowupRequeued(row) \in Row /\ FollowupWoken(row) \in Row
         /\ Assigned(row, owner) \in Row
         /\ [row EXCEPT !.resume_at = "ripe"] \in Row
BY DEF TimerResolved, TimerReopened, FollowupRequeued, FollowupWoken, Assigned,
       Row, Owners, TicketStatus

(* The writers keep a coherent row coherent.                               *)
LEMMA PatchedCoherent ==
  ASSUME NEW row \in Row, NEW dto \in PatchDto, Coherent(row),
         dto.status = "WAITING" <=> dto.waiting_action # "null"
  PROVE  Coherent(Patched(row, row, dto))
<1>1. CASE ChangesStatus(row, dto)
  BY <1>1 DEF Patched, ChangesStatus, PatchedResolvedAt, Coherent, PatchDto, Row,
              TicketStatus, PausedStatus
<1>2. CASE ~ChangesStatus(row, dto)
  BY <1>2 DEF Patched, Coherent, Row
<1> QED BY <1>1, <1>2

LEMMA WritersCoherent ==
  ASSUME NEW row \in Row, NEW owner \in Owners, NEW back \in BOOLEAN, Coherent(row)
  PROVE  /\ row.status = "WAITING" => /\ Coherent(TimerResolved(row))
                                      /\ Coherent(TimerReopened(row, owner))
         /\ Coherent(Assigned(row, owner))
         /\ row.status = "RESOLVED" => /\ Coherent(Reopened(row, back))
                                       /\ Reopened(row, back) \in Row
BY BotAssumption DEF TimerResolved, TimerReopened, Assigned, Reopened, Coherent, Row, Owners, PausedStatus,
                     TicketStatus

LEMMA FreshRowFacts ==
  ASSUME NEW tm \in Teams PROVE FreshRow(Bot, tm) \in Row /\ Coherent(FreshRow(Bot, tm))
BY DEF FreshRow, Row, Owners, TicketStatus, Coherent, PausedStatus

LEMMA KeptKept ==
  ASSUME NEW old \in Row, NEW mid \in Row, NEW new \in Row, Kept(old, mid), Kept(mid, new)
  PROVE  Kept(old, new)
BY DEF Kept, Row

LEMMA IdleTxn == ASSUME Teams # {}, NEW m \in Mails PROVE Idle(m) \in Txn /\ Idle(m).phase = "idle"
<1>1. AnyRow \in Row BY DEF AnyRow, FreshRow, Row, Owners, TicketStatus
<1> QED BY <1>1 DEF Idle, Txn, Phases, NoTicket

(* What the tables say of a mail.                                          *)
LEMMA MessageTyped ==
  ASSUME TypeOK, NEW i \in DOMAIN messages PROVE messages[i] \in [mail: Mails, ticket: Tickets]
<1>1. messages \in Seq([mail: Mails, ticket: Tickets]) BY DEF TypeOK
<1> QED BY <1>1, LenProperties, ElementOfSeq

LEMMA HomeIsTicket ==
  ASSUME TypeOK, NEW m, Stored(m) PROVE Home(m) \in Tickets
<1> DEFINE es == {messages[i] : i \in DOMAIN messages}
<1>1. \E e \in es : e.mail = m BY DEF Stored
<1>2. (CHOOSE e \in es : e.mail = m) \in es BY <1>1
<1>3. es \subseteq [mail: Mails, ticket: Tickets] BY MessageTyped
<1> QED BY <1>2, <1>3 DEF Home

LEMMA FoundIsTicket ==
  ASSUME TypeOK, NEW m \in Mails PROVE Found(m) \in Tickets \cup {NoTicket}
<1>1. ByReferences(m) \in Tickets \cup {NoTicket}
  <2> DEFINE hits == {i \in DOMAIN Refs[m] : Stored(Refs[m][i])}
  <2>1. SUFFICES ASSUME hits # {} PROVE Home(Refs[m][CHOOSE i \in hits : \A j \in hits : i <= j]) \in Tickets
    BY DEF ByReferences
  <2>2. Refs[m] \in Seq(Mails) BY MailsAssumption
  <2>3. hits \subseteq Nat BY <2>2
  <2>4. \E i \in hits : \A j \in hits : i <= j BY <2>1, <2>3, Least
  <2>5. (CHOOSE i \in hits : \A j \in hits : i <= j) \in hits BY <2>4
  <2> QED BY <2>5, HomeIsTicket
<1>2. BySubject(m) \in Tickets \cup {NoTicket}
  <2> DEFINE hits == {i \in DOMAIN messages : /\ messages[i].mail \in Inbound
                                              /\ Subject[messages[i].mail] = Subject[m]}
  <2>1. SUFFICES ASSUME hits # {}
                 PROVE  messages[CHOOSE i \in hits : \A j \in hits : j <= i].ticket \in Tickets
    BY DEF BySubject
  <2>2. hits \subseteq 1 .. Len(messages) /\ Len(messages) \in Nat BY DEF TypeOK
  <2>5. hits \subseteq DOMAIN messages OBVIOUS
  <2>3. \E i \in hits : \A j \in hits : j <= i BY <2>1, <2>2, Greatest
  <2>4. (CHOOSE i \in hits : \A j \in hits : j <= i) \in hits BY <2>3
  <2> HIDE DEF hits
  <2> QED BY <2>4, <2>5, MessageTyped
<1>3. Opened(m) \in Tickets \cup {NoTicket}
  <2> DEFINE own == {i \in DOMAIN messages : /\ messages[i].mail = m
                                             /\ \A j \in 1 .. i - 1 : messages[j].ticket # messages[i].ticket}
  <2>1. own # {} => (CHOOSE i \in own : TRUE) \in DOMAIN messages OBVIOUS
  <2> QED BY <2>1, MessageTyped DEF Opened
<1> QED BY <1>1, <1>2, <1>3 DEF Found
----------------------------------------------------------------------------
LEMMA TxnFacts ==
  ASSUME IInv, NEW w \in Workers
  PROVE  txns[w] \in Txn /\ Sound(txns[w]) /\ Teams # {} /\ FirstMail \in Mails
<1>1. txns[w] \in Txn /\ Sound(txns[w]) BY DEF IInv, TypeOK, TxnsSound
<1>2. txns[w].row \in Row BY <1>1 DEF Txn
<1> QED BY <1>1, <1>2, MailsAssumption DEF Row

LEMMA IdleSound == ASSUME Teams # {}, NEW m \in Mails PROVE Sound(Idle(m))
BY DEF Idle, Sound, NoTicket

LEMMA ViewFacts ==
  ASSUME IInv, NEW w \in Workers, txns[w].ticket # NoTicket
  PROVE  LET t == txns[w].ticket IN
         /\ t \in Tickets /\ View(w, t) \in Row /\ rows[t] \in Row
         /\ Coherent(View(w, t)) /\ Kept(rows[t], View(w, t))
         /\ txns[w].lock \in {t, NoTicket}
         /\ View(w, t) = IF txns[w].lock = t THEN txns[w].row ELSE rows[t]
<1> DEFINE t == txns[w].ticket
<1>1. txns[w] \in Txn /\ Sound(txns[w]) BY TxnFacts
<1>2. t \in Tickets /\ txns[w].prev = NoTicket /\ txns[w].lock \in {t, NoTicket} BY <1>1 DEF Sound
<1>3. rows[t] \in Row /\ Coherent(rows[t]) BY <1>2 DEF IInv, TypeOK, MailsKept, TicketsCoherent
<1>4. Kept(rows[t], rows[t]) BY <1>3 DEF Kept, Row
<1>5. txns[w].lock = t => txns[w].row \in Row /\ Coherent(txns[w].row) /\ Kept(rows[t], txns[w].row)
  BY <1>1, <1>2 DEF Sound, Txn, TypeOK, IInv
<1> QED BY <1>2, <1>3, <1>4, <1>5 DEF View

(* A step of one transaction that leaves the tables alone: its locals stay *)
(* sound, and what it locks or is about to insert is its own.              *)
LEMMA TxnStep ==
  ASSUME IInv, NEW w \in Workers, NEW y \in Txn, Sound(y),
         txns' = [txns EXCEPT ![w] = y], UNCHANGED <<rows, prev, messages, pres, active>>,
         budget' \in Nat,
         \A v \in Workers \ {w} : /\ y.lock # NoTicket => txns[v].lock # y.lock
                                  /\ y.saved /\ txns[v].saved => txns[v].mail # y.mail
  PROVE  IInv'
<1>1. TypeOK' BY DEF IInv, TypeOK, Tickets
<1>2. Numbered' /\ MailsKept' BY DEF IInv, Numbered, MailsKept, EachMailOnce, TicketsCoherent, Tickets
<1>3. \A x : Sound(x)' <=> Sound(x) BY DEF Sound, Tickets, Stored
<1>4. \A v \in Workers : txns'[v] = IF v = w THEN y ELSE txns[v] BY DEF IInv, TypeOK
<1>5. TxnsSound' BY <1>3, <1>4 DEF IInv, TxnsSound
<1>6. Exclusive' BY <1>4 DEF IInv, Exclusive
<1> QED BY <1>1, <1>2, <1>5, <1>6 DEF IInv

(* The same for a transaction that keeps its lock and its insert.          *)
LEMMA QuietStep ==
  ASSUME IInv, NEW w \in Workers, NEW y \in Txn, Sound(y),
         txns' = [txns EXCEPT ![w] = y], UNCHANGED <<rows, prev, messages, pres, active, budget>>,
         y.lock \in {NoTicket, txns[w].lock}, y.saved => txns[w].saved, y.mail = txns[w].mail
  PROVE  IInv'
<1>1. \A v \in Workers \ {w} : /\ y.lock # NoTicket => txns[v].lock # y.lock
                               /\ y.saved /\ txns[v].saved => txns[v].mail # y.mail
  BY DEF IInv, Exclusive
<1>2. budget' \in Nat BY DEF IInv, TypeOK
<1> QED BY <1>1, <1>2, TxnStep

(* A transaction that ends without a trace.                                *)
LEMMA RollbackInv ==
  ASSUME IInv, NEW w \in Workers, txns' = [txns EXCEPT ![w] = Idle(FirstMail)],
         UNCHANGED <<rows, prev, messages, pres, active>>, budget' \in Nat
  PROVE  IInv'
<1>1. Idle(FirstMail) \in Txn /\ Sound(Idle(FirstMail)) BY TxnFacts, IdleTxn, IdleSound
<1>2. Idle(FirstMail).lock = NoTicket /\ ~Idle(FirstMail).saved BY DEF Idle
<1> QED BY <1>1, <1>2, TxnStep
----------------------------------------------------------------------------
(* One step per action.                                                    *)
LEMMA InitInv == Init => IInv
<1> SUFFICES ASSUME Init PROVE IInv OBVIOUS
<1>1. rows[1] \in Row /\ Coherent(rows[1]) /\ Tickets = {1}
  BY RowsAssumption DEF Init, Tickets
<1>2. Teams # {} BY <1>1 DEF Row
<1>3. FirstMail \in Mails BY MailsAssumption
<1>4. Idle(FirstMail) \in Txn /\ Sound(Idle(FirstMail)) BY <1>2, <1>3, IdleTxn, IdleSound
<1>5. messages \in Seq([mail: Mails, ticket: Tickets])
  BY <1>1, <1>3 DEF Init
<1>6. TypeOK BY <1>1, <1>4, <1>5, MaxAssumption DEF Init, TypeOK, Tickets
<1>7. Tickets = 1 .. 1 BY <1>1
<1>8. Numbered BY <1>7 DEF Numbered
<1>9. MailsKept BY <1>1 DEF Init, MailsKept, EachMailOnce, TicketsCoherent
<1>10. TxnsSound BY <1>4 DEF Init, TxnsSound
<1>11. Exclusive BY DEF Init, Exclusive, Idle
<1> QED BY <1>6, <1>8, <1>9, <1>10, <1>11 DEF IInv

LEMMA IngestBeginsInv ==
  ASSUME IInv, NEW w \in Workers, NEW m \in Mails, IngestBegins(w, m) PROVE IInv'
<1> DEFINE y == [Idle(m) EXCEPT !.phase = "find"]
<1>1. y \in Txn BY TxnFacts, IdleTxn DEF Txn, Phases
<1>2. Sound(y) BY TxnFacts DEF Idle, Sound, NoTicket
<1>3. y.lock = NoTicket /\ ~y.saved BY DEF Idle
<1>4. budget' \in Nat BY DEF IngestBegins, IInv, TypeOK
<1> HIDE DEF y
<1> QED BY <1>1, <1>2, <1>3, <1>4, TxnStep DEF IngestBegins, y

LEMMA FindsInv == ASSUME IInv, NEW w \in Workers, Finds(w) PROVE IInv'
<1> DEFINE t == Found(txns[w].mail)
           y == [txns[w] EXCEPT !.ticket = t, !.phase =
                   IF t = NoTicket THEN "save" ELSE IF rows[t].status = "RESOLVED" THEN "lock" ELSE "wake"]
<1>1. txns[w] \in Txn /\ Sound(txns[w]) BY TxnFacts
<1>2. t \in Tickets \cup {NoTicket} BY <1>1, FoundIsTicket DEF Txn, IInv
<1>3. t \in Nat BY <1>2 DEF IInv, Numbered, NoTicket
<1>4. y \in Txn BY <1>1, <1>3 DEF Txn, Phases
<1>5. Sound(y) BY <1>1, <1>2 DEF Sound, Finds, Txn, NoTicket
<1>6. txns' = [txns EXCEPT ![w] = y] BY <1>1 DEF Finds, IInv, TypeOK
<1>7. y.lock = txns[w].lock /\ y.saved = txns[w].saved /\ y.mail = txns[w].mail BY <1>1 DEF Txn
<1> HIDE DEF y
<1> QED BY <1>4, <1>5, <1>6, <1>7, QuietStep DEF Finds

LEMMA FindsSentInv == ASSUME IInv, NEW w \in Workers, FindsSent(w) PROVE IInv'
<1> DEFINE t == Found(txns[w].mail)
           dropped == t = NoTicket \/ (rows[t].status = "RESOLVED" /\ rows[t].resolved_at # "recent")
<1>1. txns[w] \in Txn /\ Sound(txns[w]) BY TxnFacts
<1>2. t \in Tickets \cup {NoTicket} BY <1>1, FoundIsTicket DEF Txn, IInv
<1>3. t \in Nat BY <1>2 DEF IInv, Numbered, NoTicket
<1>4. CASE dropped
  <2>1. txns' = [txns EXCEPT ![w] = Idle(FirstMail)] BY <1>4 DEF FindsSent
  <2>2. budget' \in Nat BY DEF FindsSent, IInv, TypeOK
  <2> QED BY <2>1, <2>2, RollbackInv DEF FindsSent
<1>5. CASE ~dropped
  <2> DEFINE y == IF rows[t].status = "RESOLVED"
                  THEN [txns[w] EXCEPT !.ticket = t, !.phase = "reopen", !.back = FallsBack(rows[t])]
                  ELSE [txns[w] EXCEPT !.ticket = t, !.phase = "save"]
  <2>1. y \in Txn BY <1>1, <1>3 DEF Txn, Phases, FallsBack
  <2>2. Sound(y) BY <1>1, <1>2, <1>5 DEF Sound, FindsSent, Txn, NoTicket, Inbound
  <2>3. txns' = [txns EXCEPT ![w] = y] BY <1>1, <1>5 DEF FindsSent, IInv, TypeOK
  <2>4. y.lock = txns[w].lock /\ y.saved = txns[w].saved /\ y.mail = txns[w].mail BY <1>1 DEF Txn
  <2> HIDE DEF y
  <2> QED BY <2>1, <2>2, <2>3, <2>4, QuietStep DEF FindsSent
<1> QED BY <1>4, <1>5

(* The lock goes to one who waits for nobody.                              *)
LEMMA LocksInv == ASSUME IInv, NEW w \in Workers, Locks(w) PROVE IInv'
<1> DEFINE t == txns[w].ticket
           locked == [txns[w] EXCEPT !.lock = t, !.mode = "for update", !.row = rows[t]]
           y == IF rows[t].status # "RESOLVED" THEN [locked EXCEPT !.phase = "wake"]
                ELSE IF rows[t].resolved_at = "recent"
                THEN [locked EXCEPT !.phase = "reopen", !.back = FallsBack(rows[t])]
                ELSE [locked EXCEPT !.phase = "save", !.prev = t, !.ticket = NoTicket]
<1>1. txns[w] \in Txn /\ Sound(txns[w]) BY TxnFacts
<1>2. txns[w].phase = "lock" BY DEF Locks
<1>3. /\ t \in Tickets /\ txns[w].prev = NoTicket /\ txns[w].lock = NoTicket /\ ~txns[w].saved
      /\ t # NoTicket
  BY <1>1, <1>2 DEF Sound
<1>4. rows[t] \in Row /\ Coherent(rows[t]) /\ t \in Nat
  BY <1>3 DEF IInv, TypeOK, MailsKept, TicketsCoherent, Numbered
<1>5. y \in Txn BY <1>1, <1>4 DEF Txn, Phases, FallsBack, NoTicket
<1>6. Kept(rows[t], rows[t]) BY <1>4 DEF Kept, Row
<1>7. rows[t].status = "RESOLVED" => rows[t].resolved_at \in {"recent", "old"}
  BY <1>4 DEF Row, Coherent
<1>8. Sound(y) BY <1>1, <1>2, <1>3, <1>4, <1>6, <1>7 DEF Sound, Txn, NoTicket
<1>9. txns' = [txns EXCEPT ![w] = y] BY DEF Locks
<1>10. ~y.saved /\ y.lock = t BY <1>1, <1>3 DEF Txn
<1>11. \A v \in Workers \ {w} : txns[v].lock # t BY <1>2 DEF Locks, Blockers, Holders
<1>12. /\ budget' \in Nat /\ UNCHANGED <<rows, prev, messages, pres, active>>
  BY DEF Locks, IInv, TypeOK
<1> HIDE DEF y, t
<1>13. \A v \in Workers \ {w} : /\ y.lock # NoTicket => txns[v].lock # y.lock
                                /\ y.saved /\ txns[v].saved => txns[v].mail # y.mail
  BY <1>10, <1>11
<1> QED BY <1>5, <1>8, <1>9, <1>12, <1>13, TxnStep

(* An UPDATE that hits its row: the row is locked, if it was not, and has  *)
(* what the statement made of it.                                          *)
LEMMA WrittenInv ==
  ASSUME IInv, NEW w \in Workers, txns[w].ticket # NoTicket, Holders(txns[w].ticket) \subseteq {w},
         NEW row \in Row, Coherent(row), Kept(View(w, txns[w].ticket), row),
         NEW p \in {"save", "wake", "refresh", "commit"},
         p # "commit" => ~txns[w].saved, p = "commit" => txns[w].saved, NEW b \in BOOLEAN,
         txns' = [txns EXCEPT ![w] = [Written(w, row) EXCEPT !.phase = p, !.back = b]],
         UNCHANGED <<rows, prev, messages, pres, active, budget>>
  PROVE  IInv'
<1> DEFINE t == txns[w].ticket
           y == [Written(w, row) EXCEPT !.phase = p, !.back = b]
<1>1. txns[w] \in Txn /\ Sound(txns[w]) BY TxnFacts
<1>2. /\ t \in Tickets /\ rows[t] \in Row /\ View(w, t) \in Row /\ Kept(rows[t], View(w, t))
  BY ViewFacts
<1>3. Kept(rows[t], row) BY <1>2, KeptKept
<1>4. y \in Txn BY <1>1 DEF Txn, Phases, Written
<1>5. /\ y.ticket = t /\ y.prev = txns[w].prev /\ y.lock = t /\ y.row = row /\ y.phase = p
      /\ y.mail = txns[w].mail /\ y.saved = txns[w].saved
  BY <1>1 DEF Txn, Written
<1> HIDE DEF y
<1>6. Sound(y) BY <1>1, <1>2, <1>3, <1>5 DEF Sound, NoTicket
<1>7. \A v \in Workers \ {w} : txns[v].lock # t BY DEF Holders
<1>8. \A v \in Workers \ {w} : /\ y.lock # NoTicket => txns[v].lock # y.lock
                               /\ y.saved /\ txns[v].saved => txns[v].mail # y.mail
  BY <1>5, <1>7 DEF IInv, Exclusive
<1>9. budget' \in Nat BY DEF IInv, TypeOK
<1>10. txns' = [txns EXCEPT ![w] = y] BY DEF y
<1> QED BY <1>4, <1>6, <1>8, <1>9, <1>10, TxnStep

LEMMA ReopensInv == ASSUME IInv, NEW w \in Workers, Reopens(w) PROVE IInv'
<1> DEFINE t == txns[w].ticket
           row == View(w, t)
<1>1. txns[w] \in Txn /\ Sound(txns[w]) /\ txns[w].phase = "reopen" BY TxnFacts DEF Reopens
<1>2. t # NoTicket /\ ~txns[w].saved BY <1>1 DEF Sound
<1>3. /\ t \in Tickets /\ row \in Row /\ Coherent(row) /\ txns[w].lock \in {t, NoTicket}
      /\ row = IF txns[w].lock = t THEN txns[w].row ELSE rows[t]
  BY <1>2, ViewFacts
<1>4. Holders(t) \subseteq {w} BY <1>1 DEF Reopens, Blockers
<1>5. CASE row.status = "RESOLVED"
  <2> DEFINE p == IF txns[w].mail \in Sent THEN "save" ELSE "wake"
             new == Reopened(row, txns[w].back)
  <2>1. new \in Row /\ Coherent(new) BY <1>1, <1>3, <1>5, WritersCoherent, TxnFacts DEF Txn, Owners
  <2>2. Kept(row, new) BY <1>3, <1>5 DEF Kept, Reopened, Row
  <2>3. txns' = [txns EXCEPT ![w] = [Written(w, new) EXCEPT !.phase = p, !.back = FALSE]]
    BY <1>5 DEF Reopens
  <2>4. p \in {"save", "wake", "refresh", "commit"} /\ p # "commit" OBVIOUS
  <2>5. UNCHANGED <<rows, prev, messages, pres, active, budget>> BY DEF Reopens
  <2> HIDE DEF p, new, row
  <2> QED BY <1>2, <1>4, <2>1, <2>2, <2>3, <2>4, <2>5, WrittenInv DEF row
<1>6. CASE row.status # "RESOLVED"
  <2>1. txns[w].mail \in Sent BY <1>1, <1>2, <1>3, <1>6 DEF Sound, Txn, Inbound
  <2> DEFINE y == [txns[w] EXCEPT !.phase = "save", !.back = FALSE, !.ticket = t, !.prev = NoTicket]
  <2>2. txns' = [txns EXCEPT ![w] = y] BY <1>6, <2>1 DEF Reopens
  <2>3. y \in Txn BY <1>1 DEF Txn, Phases, NoTicket
  <2>4. Sound(y) BY <1>1, <1>2, <1>3 DEF Sound, Txn, NoTicket
  <2>5. y.lock = txns[w].lock /\ y.saved = txns[w].saved /\ y.mail = txns[w].mail BY <1>1 DEF Txn
  <2> HIDE DEF y
  <2> QED BY <2>2, <2>3, <2>4, <2>5, QuietStep DEF Reopens
<1> QED BY <1>5, <1>6

LEMMA WakeReadsInv == ASSUME IInv, NEW w \in Workers, WakeReads(w) PROVE IInv'
<1> DEFINE row == View(w, txns[w].ticket)
           y == [txns[w] EXCEPT !.phase = IF row.status = "WAITING" THEN "waking" ELSE "refresh",
                                !.back = row.status = "WAITING" /\ FallsBack(row)]
<1>1. txns[w] \in Txn /\ Sound(txns[w]) /\ txns[w].phase = "wake" BY TxnFacts DEF WakeReads
<1>2. y \in Txn BY <1>1 DEF Txn, Phases, FallsBack
<1>3. Sound(y) BY <1>1 DEF Sound, Txn, NoTicket
<1>4. txns' = [txns EXCEPT ![w] = y] BY <1>1 DEF WakeReads, IInv, TypeOK
<1>5. y.lock = txns[w].lock /\ y.saved = txns[w].saved /\ y.mail = txns[w].mail BY <1>1 DEF Txn
<1> HIDE DEF y
<1> QED BY <1>2, <1>3, <1>4, <1>5, QuietStep DEF WakeReads

LEMMA WakeWritesInv == ASSUME IInv, NEW w \in Workers, WakeWrites(w) PROVE IInv'
<1> DEFINE row == View(w, txns[w].ticket)
<1>1. txns[w] \in Txn /\ Sound(txns[w]) /\ txns[w].phase = "waking" BY TxnFacts DEF WakeWrites
<1>2. txns[w].ticket # NoTicket /\ ~txns[w].saved BY <1>1 DEF Sound
<1>3. row \in Row /\ Coherent(row) BY <1>2, ViewFacts
<1>4. Holders(txns[w].ticket) \subseteq {w} BY <1>1 DEF WakeWrites, Blockers
<1>5. CASE row.status = "WAITING"
  <2> DEFINE owner == IF txns[w].back THEN Bot ELSE row.assignee
  <2>1. owner \in Owners /\ WokenIn(w) = TimerReopened(row, owner) BY <1>3 DEF Row, Owners, WokenIn
  <2>2. WokenIn(w) \in Row /\ Coherent(WokenIn(w)) BY <1>3, <1>5, <2>1, WritersCoherent, WriterTypes
  <2>3. Kept(row, WokenIn(w)) BY <1>3, <1>5, <2>1 DEF Kept, TimerReopened, Row
  <2>4. txns' = [txns EXCEPT ![w] = [Written(w, WokenIn(w)) EXCEPT !.phase = "refresh", !.back = FALSE]]
    BY <1>5 DEF WakeWrites
  <2> QED BY <1>2, <1>4, <2>2, <2>3, <2>4, WrittenInv DEF WakeWrites
<1>6. CASE row.status # "WAITING"
  <2> DEFINE y == [txns[w] EXCEPT !.phase = "refresh", !.back = FALSE]
  <2>1. txns' = [txns EXCEPT ![w] = y] BY <1>6 DEF WakeWrites
  <2>2. y \in Txn BY <1>1 DEF Txn, Phases
  <2>3. Sound(y) BY <1>1 DEF Sound, Txn, NoTicket
  <2>4. y.lock = txns[w].lock /\ y.saved = txns[w].saved /\ y.mail = txns[w].mail BY <1>1 DEF Txn
  <2> HIDE DEF y
  <2> QED BY <2>1, <2>2, <2>3, <2>4, QuietStep DEF WakeWrites
<1> QED BY <1>5, <1>6

LEMMA RefreshesInv == ASSUME IInv, NEW w \in Workers, Refreshes(w) PROVE IInv'
<1> DEFINE y == [txns[w] EXCEPT !.phase = "save", !.seen = View(w, txns[w].ticket)]
<1>1. txns[w] \in Txn /\ Sound(txns[w]) /\ txns[w].phase = "refresh" BY TxnFacts DEF Refreshes
<1>2. View(w, txns[w].ticket) \in Row BY <1>1, ViewFacts DEF Sound
<1>3. y \in Txn BY <1>1, <1>2 DEF Txn, Phases
<1>4. Sound(y) BY <1>1 DEF Sound, Txn, NoTicket
<1>5. txns' = [txns EXCEPT ![w] = y] BY <1>1 DEF Refreshes, IInv, TypeOK
<1>6. y.lock = txns[w].lock /\ y.saved = txns[w].saved /\ y.mail = txns[w].mail BY <1>1 DEF Txn
<1> HIDE DEF y
<1> QED BY <1>3, <1>4, <1>5, <1>6, QuietStep DEF Refreshes

LEMMA SavesInv ==
  ASSUME IInv, NEW w \in Workers, NEW tm \in Teams, Saves(w, tm) PROVE IInv'
<1> DEFINE y == SavedAs(w, tm)
<1>1. txns[w] \in Txn /\ Sound(txns[w]) /\ txns[w].phase = "save" BY TxnFacts DEF Saves
<1>2. FreshRow(Bot, tm) \in Row BY DEF FreshRow, Row, Owners, TicketStatus
<1>3. y \in Txn BY <1>1, <1>2 DEF SavedAs, Txn, Phases
<1>4. Sound(y) BY <1>1 DEF SavedAs, Sound, Txn, NoTicket, Saves
<1>5. /\ txns' = [txns EXCEPT ![w] = y] /\ UNCHANGED <<rows, prev, messages, pres, active>>
      /\ budget' \in Nat
  BY DEF Saves, IInv, TypeOK
<1>6. y.lock = txns[w].lock /\ y.mail = txns[w].mail BY <1>1 DEF SavedAs, Txn
<1>7. Savers(txns[w].mail) \subseteq {w} BY <1>1 DEF Saves, Blockers
<1>8. \A v \in Workers \ {w} : /\ y.lock # NoTicket => txns[v].lock # y.lock
                               /\ y.saved /\ txns[v].saved => txns[v].mail # y.mail
  BY <1>6, <1>7 DEF IInv, Exclusive, Savers
<1> HIDE DEF y
<1> QED BY <1>3, <1>4, <1>5, <1>8, TxnStep

LEMMA ReroutesInv ==
  ASSUME IInv, NEW w \in Workers, NEW tm \in Teams, Reroutes(w, tm) PROVE IInv'
<1> DEFINE t == txns[w].ticket
           seen == txns[w].seen
           owner == IF seen.assignee = Bot \/ <<seen.assignee, tm>> \in Members
                    THEN seen.assignee ELSE Bot
           row == [View(w, t) EXCEPT !.team = tm, !.assignee = owner]
<1>1. txns[w] \in Txn /\ Sound(txns[w]) /\ txns[w].phase = "reroute" BY TxnFacts DEF Reroutes
<1>2. t # NoTicket /\ txns[w].saved BY <1>1 DEF Sound
<1>3. View(w, t) \in Row /\ Coherent(View(w, t)) BY <1>2, ViewFacts
<1>4. CASE tm # seen.team
  <2>1. owner \in Owners BY <1>1 DEF Txn, Row, Owners
  <2>2. row \in Row BY <1>3, <2>1 DEF Row
  <2>3. Coherent(row) /\ Kept(View(w, t), row) BY <1>3 DEF Coherent, Kept, Row
  <2>4. Holders(t) \subseteq {w} BY <1>1, <1>4 DEF Reroutes, Blockers
  <2>5. txns' = [txns EXCEPT ![w] = [Written(w, row) EXCEPT !.phase = "commit"]]
    BY <1>4 DEF Reroutes
  <2>6. txns' = [txns EXCEPT ![w] = [Written(w, row) EXCEPT !.phase = "commit", !.back = txns[w].back]]
    BY <1>1, <2>5 DEF Written, Txn
  <2>7. txns[w].back \in BOOLEAN BY <1>1 DEF Txn
  <2> HIDE DEF row
  <2> QED BY <1>2, <2>2, <2>3, <2>4, <2>6, <2>7, WrittenInv DEF Reroutes
<1>5. CASE tm = seen.team
  <2> DEFINE y == [txns[w] EXCEPT !.phase = "commit"]
  <2>1. txns' = [txns EXCEPT ![w] = y] BY <1>5 DEF Reroutes, To
  <2>2. y \in Txn BY <1>1 DEF Txn, Phases
  <2>3. Sound(y) BY <1>1, <1>2 DEF Sound, Txn, NoTicket
  <2>4. y.lock = txns[w].lock /\ y.saved = txns[w].saved /\ y.mail = txns[w].mail BY <1>1 DEF Txn
  <2> HIDE DEF y
  <2> QED BY <2>1, <2>2, <2>3, <2>4, QuietStep DEF Reroutes
<1> QED BY <1>4, <1>5

LEMMA EndsInv ==
  ASSUME IInv, NEW w \in Workers, SaveConflicts(w) \/ Fails(w) \/ DeadlockDetected(w) PROVE IInv'
<1>1. txns' = [txns EXCEPT ![w] = Idle(FirstMail)] /\ UNCHANGED <<rows, prev, messages, pres, active>>
  BY DEF SaveConflicts, Fails, DeadlockDetected
<1>2. budget' \in Nat BY DEF SaveConflicts, Fails, DeadlockDetected, Spend, IInv, TypeOK
<1> QED BY <1>1, <1>2, RollbackInv

(* What the commit of a transaction does to the tables.                    *)
LEMMA Appended ==
  ASSUME IInv, NEW e, messages' = Append(messages, e)
  PROVE  /\ Len(messages) \in Nat /\ DOMAIN messages = 1 .. Len(messages)
         /\ DOMAIN messages' = DOMAIN messages \cup {Len(messages) + 1}
         /\ \A i \in DOMAIN messages : messages'[i] = messages[i]
         /\ messages'[Len(messages) + 1] = e
         /\ \A m : Stored(m)' <=> Stored(m) \/ m = e.mail
<1> DEFINE S == [mail: Mails, ticket: Tickets] \cup {e}
           n == Len(messages)
<1>1. messages \in Seq(S) BY SeqMonotonic DEF IInv, TypeOK
<1>2. n \in Nat /\ DOMAIN messages = 1 .. n BY <1>1, LenProperties
<1>3. /\ Len(messages') = n + 1 /\ DOMAIN messages' = 1 .. n + 1
      /\ \A i \in 1 .. n : messages'[i] = messages[i] /\ messages'[n + 1] = e
  BY <1>1, <1>2
<1>4. messages'[n + 1] = e BY <1>1, <1>2
<1>5. 1 .. n + 1 = (1 .. n) \cup {n + 1} BY <1>2
<1> HIDE DEF n
<1>6. ASSUME NEW m PROVE Stored(m)' <=> Stored(m) \/ m = e.mail
  BY <1>2, <1>3, <1>4, <1>5 DEF Stored
<1> QED BY <1>2, <1>3, <1>4, <1>5, <1>6 DEF n

LEMMA CommitsInv == ASSUME IInv, NEW w \in Workers, Commits(w) PROVE IInv'
<1> DEFINE x == txns[w]
           t == IF Joins(w) THEN x.ticket ELSE Cardinality(Tickets) + 1
           e == [mail |-> x.mail, ticket |-> t]
           n == Len(messages)
<1>1. x \in Txn /\ Sound(x) /\ x.phase = "commit" /\ x.saved BY TxnFacts DEF Commits, Sound
<1>2. /\ rows' = IF Joins(w) THEN [rows EXCEPT ![t] = View(w, t)] ELSE WithRow(rows, t, x.seen)
      /\ prev' = IF Joins(w) THEN prev ELSE WithRow(prev, t, x.prev)
      /\ messages' = Append(messages, e)
      /\ txns' = [txns EXCEPT ![w] = Idle(FirstMail)]
      /\ UNCHANGED <<pres, active, budget>>
  BY DEF Commits
<1>3. Joins(w) => t \in Tickets /\ View(w, t) \in Row /\ Coherent(View(w, t)) BY ViewFacts DEF Joins
<1>4. ~Joins(w) => /\ t \notin Tickets \cup {NoTicket} /\ \E tm \in Teams : x.seen = FreshRow(Bot, tm)
                   /\ x.prev \in Tickets \cup {NoTicket}
  BY <1>1, NextId DEF Sound, Joins, IInv
<1>5. ~Joins(w) => x.seen \in Row /\ Coherent(x.seen) BY <1>4, FreshRowFacts
<1>6. /\ DOMAIN rows' = Tickets \cup {t} /\ rows' \in [Tickets \cup {t} -> Row]
      /\ \A u \in Tickets \cup {t} : Coherent(rows'[u])
      /\ \A u \in Tickets \ {t} : rows'[u] = rows[u]
  <2>1. CASE Joins(w)
    BY <1>2, <1>3, <2>1 DEF IInv, TypeOK, MailsKept, TicketsCoherent
  <2>2. CASE ~Joins(w)
    BY <1>2, <1>4, <1>5, <2>2 DEF IInv, TypeOK, MailsKept, TicketsCoherent, WithRow
  <2> QED BY <2>1, <2>2
<1>7. prev' \in [Tickets \cup {t} -> Tickets \cup {t, NoTicket}]
  BY <1>2, <1>3, <1>4 DEF IInv, TypeOK, WithRow
<1>8. /\ n \in Nat /\ DOMAIN messages = 1 .. n /\ DOMAIN messages' = DOMAIN messages \cup {n + 1}
      /\ \A i \in DOMAIN messages : messages'[i] = messages[i]
      /\ messages'[n + 1] = e /\ \A m : Stored(m)' <=> Stored(m) \/ m = x.mail
  BY <1>2, Appended
<1>9. messages' \in Seq([mail: Mails, ticket: Tickets \cup {t}])
  <2>1. messages \in Seq([mail: Mails, ticket: Tickets \cup {t}])
    BY SeqMonotonic DEF IInv, TypeOK
  <2>2. e \in [mail: Mails, ticket: Tickets \cup {t}] BY <1>1 DEF Txn
  <2> HIDE DEF e
  <2> QED BY <1>2, <2>1, <2>2
<1>10. Idle(FirstMail) \in Txn /\ Sound(Idle(FirstMail)) /\ Idle(FirstMail).lock = NoTicket
       /\ ~Idle(FirstMail).saved
  BY TxnFacts, IdleTxn, IdleSound DEF Idle
<1>11. Tickets' = Tickets \cup {t} BY <1>6 DEF Tickets
<1> HIDE DEF x, t, e, n
<1>12. TypeOK'
  <2>1. txns' \in [Workers -> Txn] BY <1>2, <1>10 DEF IInv, TypeOK
  <2>2. UNCHANGED <<pres, active, budget>> BY <1>2
  <2> QED BY <1>6, <1>7, <1>9, <1>11, <2>1, <2>2 DEF IInv, TypeOK
<1>13. Numbered'
  <2>1. CASE Joins(w)
    <3>1. Tickets' = Tickets BY <1>3, <1>11, <2>1
    <3> QED BY <3>1 DEF IInv, Numbered
  <2>2. CASE ~Joins(w)
    BY <1>6, <2>2, NextNumbered DEF t, IInv
  <2> QED BY <2>1, <2>2
<1>14. MailsKept'
  <2>1. ~Stored(x.mail) BY <1>1 DEF Sound
  <2>2. \A i \in DOMAIN messages : messages[i].mail # x.mail BY <2>1 DEF Stored
  <2>3. e.mail = x.mail /\ e.ticket = t BY DEF e
  <2>4. n + 1 \notin DOMAIN messages BY <1>8
  <2>5. \A i, j \in DOMAIN messages' : messages'[i].mail = messages'[j].mail => i = j
    BY <1>8, <2>2, <2>3, <2>4 DEF IInv, MailsKept, EachMailOnce
  <2>6. \A u \in Tickets \cup {t} : \E i \in DOMAIN messages' : messages'[i].ticket = u
    BY <1>8, <2>3 DEF IInv, MailsKept, EachMailOnce
  <2> QED BY <1>6, <1>11, <2>5, <2>6 DEF MailsKept, EachMailOnce, TicketsCoherent
<1>15. \A v \in Workers : txns'[v] = IF v = w THEN Idle(FirstMail) ELSE txns[v]
  BY <1>2 DEF IInv, TypeOK
<1>16. Exclusive' BY <1>10, <1>15 DEF IInv, Exclusive
<1>17. ASSUME NEW v \in Workers, v # w, NEW y, y = txns[v] PROVE Sound(y)'
  <2>1. Sound(y) /\ y \in Txn BY <1>17, TxnFacts
  <2>3. y.saved => ~Stored(y.mail) /\ y.mail # x.mail
    BY <1>1, <1>17, <2>1 DEF Sound, IInv, Exclusive, x
  <2>4. y.lock # NoTicket => rows'[y.lock] = rows[y.lock]
    <3>1. SUFFICES ASSUME y.lock # NoTicket, y.lock = t PROVE rows'[t] = rows[t]
      BY <1>6, <2>1 DEF Sound
    <3>2. y.lock \in Tickets BY <2>1, <3>1 DEF Sound
    <3>3. Joins(w) BY <1>4, <3>1, <3>2
    <3>4. x.lock # t BY <1>17, <3>1 DEF IInv, Exclusive, x
    <3>5. View(w, t) = rows[t] BY <3>4 DEF View, x
    <3> QED BY <1>2, <1>3, <3>3, <3>5 DEF IInv, TypeOK
  <2>5. {y.ticket, y.prev, y.lock} \subseteq Tickets' \cup {NoTicket} BY <1>11, <2>1 DEF Sound
  <2>6. \A m : Stored(m)' <=> Stored(m) \/ m = x.mail BY <1>8
  <2> QED BY <2>1, <2>3, <2>4, <2>5, <2>6 DEF Sound
<1>18. Sound(Idle(FirstMail))' BY DEF Sound, Idle, NoTicket
<1>20. \A v \in Workers : \A y : v # w /\ y = txns[v] => Sound(y)' BY <1>17
<1>19. TxnsSound' BY <1>15, <1>20, <1>18 DEF TxnsSound
<1> QED BY <1>12, <1>13, <1>14, <1>16, <1>19 DEF IInv
----------------------------------------------------------------------------
(* A write of a row nobody holds, by the sweep, the queue or an agent.     *)
LEMMA RowStep ==
  ASSUME IInv, NEW t \in Tickets, NEW row \in Row, Coherent(row), Holders(t) = {},
         rows' = [rows EXCEPT ![t] = row], UNCHANGED <<prev, messages, pres, active, txns>>,
         budget' \in Nat
  PROVE  IInv'
<1>1. Tickets' = Tickets /\ rows' \in [Tickets -> Row] BY DEF IInv, TypeOK, Tickets
<1>2. \A u \in Tickets \ {t} : rows'[u] = rows[u] BY DEF IInv, TypeOK
<1>3. rows'[t] = row BY DEF IInv, TypeOK
<1>4. TypeOK' BY <1>1 DEF IInv, TypeOK
<1>5. Numbered' BY <1>1 DEF IInv, Numbered
<1>6. MailsKept' BY <1>1, <1>2, <1>3 DEF IInv, MailsKept, EachMailOnce, TicketsCoherent
<1>7. Exclusive' BY DEF IInv, Exclusive
<1>8. ASSUME NEW y, Sound(y), y.lock # t PROVE Sound(y)'
  BY <1>1, <1>2, <1>8 DEF Sound, Stored
<1>9. \A w \in Workers : txns[w].lock # t /\ Sound(txns[w])
  BY DEF IInv, TxnsSound, Holders
<1>10. \A y : Sound(y) /\ y.lock # t => Sound(y)' BY <1>8
<1>11. TxnsSound' BY <1>9, <1>10 DEF TxnsSound
<1> QED BY <1>4, <1>5, <1>6, <1>7, <1>11 DEF IInv

LEMMA RowFacts ==
  ASSUME IInv, NEW t \in Tickets
  PROVE  rows[t] \in Row /\ Coherent(rows[t]) /\ budget \in Nat
BY DEF IInv, TypeOK, MailsKept, TicketsCoherent

LEMMA SweepEndsInv == ASSUME IInv, NEW t \in Tickets, SweepEnds(t) PROVE IInv'
<1> DEFINE owner == IF FallsBack(rows[t]) THEN Bot ELSE rows[t].assignee
           row == IF rows[t].waiting_action = "REOPEN" THEN TimerReopened(rows[t], owner)
                  ELSE TimerResolved(rows[t])
<1>1. rows[t] \in Row /\ Coherent(rows[t]) /\ budget \in Nat BY RowFacts
<1>2. owner \in Owners BY <1>1 DEF Row, Owners
<1>3. row \in Row BY <1>1, <1>2, WriterTypes
<1>4. rows[t].status = "WAITING" BY DEF SweepEnds
<1>5. Coherent(row) BY <1>1, <1>2, <1>4, WritersCoherent
<1>6. rows' = [rows EXCEPT ![t] = row] BY <1>1 DEF SweepEnds, IInv, TypeOK
<1>7. Holders(t) = {} BY DEF SweepEnds, Free
<1>8. UNCHANGED <<prev, messages, pres, active, txns, budget>> BY DEF SweepEnds
<1> HIDE DEF row
<1> QED BY <1>1, <1>3, <1>5, <1>6, <1>7, <1>8, RowStep

LEMMA QueueAssignsInv ==
  ASSUME IInv, NEW t \in Tickets, NEW a \in Agents, QueueAssigns(t, a) PROVE IInv'
<1> DEFINE row == Assigned(rows[t], a)
<1>1. rows[t] \in Row /\ Coherent(rows[t]) /\ budget \in Nat BY RowFacts
<1>2. row \in Row /\ Coherent(row) BY <1>1, WriterTypes, WritersCoherent DEF Owners
<1>3. rows' = [rows EXCEPT ![t] = row] BY <1>1 DEF QueueAssigns, IInv, TypeOK
<1>4. Holders(t) = {} BY DEF QueueAssigns, Free
<1>5. UNCHANGED <<prev, messages, pres, active, txns, budget>> BY DEF QueueAssigns
<1> HIDE DEF row
<1> QED BY <1>1, <1>2, <1>3, <1>4, <1>5, RowStep

LEMMA PatchesInv ==
  ASSUME IInv, NEW t \in Tickets, NEW dto \in Dtos, Patches(t, dto) PROVE IInv'
<1> DEFINE row == Patched(rows[t], rows[t], dto)
<1>1. rows[t] \in Row /\ Coherent(rows[t]) /\ budget \in Nat BY RowFacts
<1>2. dto \in PatchDto /\ (dto.status = "WAITING" <=> dto.waiting_action # "null") BY DtosAssumption
<1>3. row \in Row /\ Coherent(row) BY <1>1, <1>2, PatchedType, PatchedCoherent
<1>4. rows' = [rows EXCEPT ![t] = row] BY <1>1 DEF Patches, IInv, TypeOK
<1>5. Holders(t) = {} /\ budget' \in Nat BY <1>1 DEF Patches, Spend
<1>6. UNCHANGED <<prev, messages, pres, active, txns>> BY DEF Patches
<1> HIDE DEF row
<1> QED BY <1>3, <1>4, <1>5, <1>6, RowStep

LEMMA TimePassesInv == ASSUME IInv, NEW t \in Tickets, TimePasses(t) PROVE IInv'
<1>1. rows[t] \in Row /\ Coherent(rows[t]) /\ budget \in Nat BY RowFacts
<1>2. Holders(t) = {} /\ UNCHANGED <<prev, messages, pres, active, txns, budget>> BY DEF TimePasses
<1>3. CASE rows[t].resume_at = "pending" /\ rows' = [rows EXCEPT ![t].resume_at = "ripe"]
  <2> DEFINE row == [rows[t] EXCEPT !.resume_at = "ripe"]
  <2>1. row \in Row /\ Coherent(row) BY <1>1, <1>3 DEF Row, Coherent
  <2>2. rows' = [rows EXCEPT ![t] = row] BY <1>3
  <2> HIDE DEF row
  <2> QED BY <1>1, <1>2, <2>1, <2>2, RowStep
<1>4. CASE rows[t].resolved_at = "recent" /\ rows' = [rows EXCEPT ![t].resolved_at = "old"]
  <2> DEFINE row == [rows[t] EXCEPT !.resolved_at = "old"]
  <2>1. row \in Row /\ Coherent(row) BY <1>1, <1>4 DEF Row, Coherent
  <2>2. rows' = [rows EXCEPT ![t] = row] BY <1>4
  <2> HIDE DEF row
  <2> QED BY <1>1, <1>2, <2>1, <2>2, RowStep
<1> QED BY <1>3, <1>4 DEF TimePasses

(* A step of no transaction and on no row.                                 *)
LEMMA Unmoved ==
  ASSUME IInv, UNCHANGED <<rows, prev, messages, txns>>,
         pres' \in [Agents -> {"ONLINE", "AWAY"}], active' \in [Agents -> BOOLEAN], budget' \in Nat
  PROVE  IInv'
<1>1. TypeOK' BY DEF IInv, TypeOK, Tickets
<1>2. Numbered' /\ MailsKept' BY DEF IInv, Numbered, MailsKept, EachMailOnce, TicketsCoherent, Tickets
<1>3. \A x : Sound(x)' <=> Sound(x) BY DEF Sound, Tickets, Stored
<1>4. TxnsSound' BY <1>3 DEF IInv, TxnsSound
<1>5. Exclusive' BY DEF IInv, Exclusive
<1> QED BY <1>1, <1>2, <1>4, <1>5 DEF IInv

LEMMA PresenceChangesInv == ASSUME IInv, NEW a \in Agents, PresenceChanges(a) PROVE IInv'
<1>1. UNCHANGED <<rows, prev, messages, txns>> BY DEF PresenceChanges
<1>2. pres \in [Agents -> {"ONLINE", "AWAY"}] /\ active \in [Agents -> BOOLEAN] /\ budget \in Nat
  BY DEF IInv, TypeOK
<1>3. budget' \in Nat BY <1>2 DEF PresenceChanges, Spend
<1>4. /\ \/ pres' = pres \/ pres' = [pres EXCEPT ![a] = IF @ = "ONLINE" THEN "AWAY" ELSE "ONLINE"]
      /\ \/ active' = active \/ active' = [active EXCEPT ![a] = ~@]
  BY DEF PresenceChanges
<1>5. pres' \in [Agents -> {"ONLINE", "AWAY"}] BY <1>2, <1>4
<1>6. active' \in [Agents -> BOOLEAN] BY <1>2, <1>4
<1> QED BY <1>1, <1>3, <1>5, <1>6, Unmoved

LEMMA NextInv == IInv /\ [Next]_vars => IInv'
<1> SUFFICES ASSUME IInv, [Next]_vars PROVE IInv' OBVIOUS
<1>1. CASE UNCHANGED vars
  BY <1>1, Unmoved DEF vars, IInv, TypeOK
<1>2. ASSUME NEW w \in Workers, IngestStep(w) \/ Fails(w) \/ \E m \in Mails : IngestBegins(w, m)
      PROVE  IInv'
  <2>1. CASE SaveConflicts(w) \/ Fails(w) \/ DeadlockDetected(w) BY <2>1, EndsInv
  <2>2. ASSUME NEW m \in Mails, IngestBegins(w, m) PROVE IInv' BY <2>2, IngestBeginsInv
  <2>3. CASE Finds(w) BY <2>3, FindsInv
  <2>4. CASE FindsSent(w) BY <2>4, FindsSentInv
  <2>5. CASE Locks(w) BY <2>5, LocksInv
  <2>6. CASE Reopens(w) BY <2>6, ReopensInv
  <2>7. CASE WakeReads(w) BY <2>7, WakeReadsInv
  <2>8. CASE WakeWrites(w) BY <2>8, WakeWritesInv
  <2>9. CASE Refreshes(w) BY <2>9, RefreshesInv
  <2>10. CASE Commits(w) BY <2>10, CommitsInv
  <2>11. ASSUME NEW tm \in Teams, Saves(w, tm) PROVE IInv' BY <2>11, SavesInv
  <2>12. ASSUME NEW tm \in Teams, Reroutes(w, tm) PROVE IInv' BY <2>12, ReroutesInv
  <2> QED BY <1>2, <2>1, <2>2, <2>3, <2>4, <2>5, <2>6, <2>7, <2>8, <2>9, <2>10, <2>11, <2>12 DEF IngestStep
<1>3. CASE Others
  <2>1. ASSUME NEW t \in Tickets, SweepEnds(t) PROVE IInv' BY <2>1, SweepEndsInv
  <2>2. ASSUME NEW t \in Tickets, TimePasses(t) PROVE IInv' BY <2>2, TimePassesInv
  <2>3. ASSUME NEW t \in Tickets, NEW a \in Agents, QueueAssigns(t, a) PROVE IInv'
    BY <2>3, QueueAssignsInv
  <2>4. ASSUME NEW t \in Tickets, NEW dto \in Dtos, Patches(t, dto) PROVE IInv' BY <2>4, PatchesInv
  <2>5. ASSUME NEW a \in Agents, PresenceChanges(a) PROVE IInv' BY <2>5, PresenceChangesInv
  <2> QED BY <1>3, <2>1, <2>2, <2>3, <2>4, <2>5 DEF Others
<1> QED BY <1>1, <1>2, <1>3 DEF Next

(* The inductive invariant holds in every state of every behaviour.        *)
THEOREM Invariance == Spec => []IInv
BY InitInv, NextInv, PTL DEF Spec

(* The tables and the transactions' locals keep their types, with any      *)
(* number of ingests in flight and of tickets minted.                      *)
THEOREM TypeCorrect == Spec => []TypeOK
<1>1. IInv => TypeOK BY DEF IInv
<1> QED BY <1>1, Invariance, PTL

(* However many ingests overlap, a mail is stored once, no ticket is left  *)
(* without its mail, and a ticket's timer, action and stamp follow its     *)
(* status (email-inbox.service.ts 76-79).                                  *)
THEOREM MailsCorrect == Spec => []MailsKept
<1>1. IInv => MailsKept BY DEF IInv
<1> QED BY <1>1, Invariance, PTL
----------------------------------------------------------------------------
(* Only a commit stores a mail or opens a ticket.                          *)
LEMMA CommitsAlone ==
  ASSUME [Next]_vars
  PROVE  (\E w \in Workers : Commits(w)) \/ (UNCHANGED messages /\ DOMAIN rows' = Tickets)
<1> DEFINE Quiet == UNCHANGED messages /\ DOMAIN rows' = Tickets
<1>1. CASE UNCHANGED vars BY <1>1 DEF vars, Tickets
<1>2. ASSUME NEW w \in Workers, IngestStep(w), ~Commits(w) PROVE Quiet
  BY <1>2 DEF IngestStep, Finds, FindsSent, Locks, Reopens, WakeReads, WakeWrites, Refreshes,
              SaveConflicts, DeadlockDetected, Saves, Reroutes, Tickets
<1>3. ASSUME NEW w \in Workers, Fails(w) \/ \E m \in Mails : IngestBegins(w, m) PROVE Quiet
  BY <1>3 DEF Fails, IngestBegins, Tickets
<1>4. CASE Others
  <2>1. ASSUME NEW t \in Tickets, SweepEnds(t) PROVE Quiet BY <2>1 DEF SweepEnds, Tickets
  <2>2. ASSUME NEW t \in Tickets, TimePasses(t) PROVE Quiet BY <2>2 DEF TimePasses, Tickets
  <2>3. ASSUME NEW t \in Tickets, NEW a \in Agents, QueueAssigns(t, a) PROVE Quiet
    BY <2>3 DEF QueueAssigns, Tickets
  <2>4. ASSUME NEW t \in Tickets, NEW dto \in Dtos, Patches(t, dto) PROVE Quiet
    BY <2>4 DEF Patches, Tickets
  <2>5. ASSUME NEW a \in Agents, PresenceChanges(a) PROVE Quiet BY <2>5 DEF PresenceChanges, Tickets
  <2> QED BY <1>4, <2>1, <2>2, <2>3, <2>4, <2>5 DEF Others
<1> QED BY <1>1, <1>2, <1>3, <1>4 DEF Next

LEMMA FollowupStandsStep == ASSUME IInv, [Next]_vars PROVE FollowupStands
<1> SUFFICES ASSUME NEW w \in Workers, Ends(w), Joins(w), rows[txns[w].ticket].status = "IN_FOLLOWUP"
             PROVE  /\ rows'[txns[w].ticket].status = "IN_FOLLOWUP"
                    /\ rows'[txns[w].ticket].resume_at = rows[txns[w].ticket].resume_at
  BY DEF FollowupStands
<1> DEFINE t == txns[w].ticket
<1>1. PICK v \in Workers : Commits(v) BY CommitsAlone DEF Ends
<1>2. txns' = [txns EXCEPT ![v] = Idle(FirstMail)] BY <1>1 DEF Commits
<1>3. v = w BY <1>2 DEF Ends, IInv, TypeOK
<1>4. rows' = [rows EXCEPT ![t] = View(w, t)] BY <1>1, <1>3 DEF Commits
<1>5. /\ t \in Tickets /\ rows[t] \in Row /\ View(w, t) \in Row /\ Kept(rows[t], View(w, t))
  BY ViewFacts DEF Joins
<1>6. rows'[t] = View(w, t) BY <1>4, <1>5 DEF IInv, TypeOK
<1> QED BY <1>5, <1>6 DEF Kept, Row

LEMMA ContinuesResolvedStep == ASSUME IInv, [Next]_vars PROVE ContinuesResolved
<1> SUFFICES ASSUME NEW t \in DOMAIN rows' \ Tickets, prev'[t] # NoTicket
             PROVE  /\ rows[prev'[t]].status = "RESOLVED"
                    /\ rows[prev'[t]].resolved_at = "old"
  BY DEF ContinuesResolved
<1>1. PICK w \in Workers : Commits(w) BY CommitsAlone DEF Tickets
<1>2. ~Joins(w)
  <2>1. ASSUME Joins(w) PROVE DOMAIN rows' = Tickets BY <1>1, <2>1 DEF Commits, Tickets
  <2> QED BY <2>1
<1>3. /\ rows' = WithRow(rows, Cardinality(Tickets) + 1, txns[w].seen)
      /\ prev' = WithRow(prev, Cardinality(Tickets) + 1, txns[w].prev)
  BY <1>1, <1>2 DEF Commits
<1>4. t = Cardinality(Tickets) + 1 BY <1>3 DEF WithRow, Tickets
<1>5. prev'[t] = txns[w].prev BY <1>3, <1>4 DEF WithRow
<1> QED BY <1>5, TxnFacts DEF Sound

(* A mail never ends a followup pause and a continuation is minted only    *)
(* for a ticket that is then still RESOLVED and past its window, whatever  *)
(* is written between an ingest's statements                               *)
(* (email-inbox.service.ts 213-229).                                       *)
THEOREM DecisionsCorrect == Spec => DecisionsHold
<1>1. IInv /\ [Next]_vars => [FollowupStands /\ ContinuesResolved]_vars
  BY FollowupStandsStep, ContinuesResolvedStep
<1> QED BY <1>1, Invariance, PTL DEF Spec, DecisionsHold
----------------------------------------------------------------------------
(* The refinement of TicketContract: what a step leaves of a ticket is     *)
(* what one step of the contract may.                                      *)
LEMMA PromisedTicket ==
  ASSUME NEW row \in Row, Coherent(row) PROVE Promised(row) \in Contract!Ticket
BY DEF Row, Coherent, Promised, Contract!Ticket, Contract!Owners, Contract!Paused, Owners,
       TicketStatus, PausedStatus, WaitingAction

LEMMA InitPromised == Init => Contract!Init
<1> SUFFICES ASSUME Init, NEW t \in Tickets PROVE Promised(rows[t]) \in Contract!Ticket
  BY DEF Contract!Init
<1> QED BY InitInv, RowFacts, PromisedTicket

LEMMA RowsAlonePromised == UNCHANGED rows => Contract!PausesEnd
BY DEF Contract!PausesEnd, Tickets

LEMMA KeptPromised ==
  ASSUME NEW old \in Row, NEW new \in Row, Kept(old, new)
  PROVE  \/ Promised(new) = [Promised(old) EXCEPT !.owner = Promised(new).owner]
         \/ Promised(old).status \in {"RESOLVED", "WAITING"} /\ Promised(new).status = "OPEN"
<1>1. CASE new = [old EXCEPT !.assignee = new.assignee, !.team = new.team]
  <2>1. /\ new.status = old.status /\ new.resume_at = old.resume_at
        /\ new.waiting_action = old.waiting_action
    BY <1>1 DEF Row
  <2> QED BY <2>1 DEF Promised
<1>2. CASE old.status \in {"WAITING", "RESOLVED"} /\ new.status = "OPEN" BY <1>2 DEF Promised
<1> QED BY <1>1, <1>2 DEF Kept

LEMMA JoinPromised ==
  ASSUME IInv, NEW w \in Workers, Commits(w), NEW t, t = txns[w].ticket, t # NoTicket
  PROVE  t \in Tickets /\ Contract!CustomerWrites(t)
<1> DEFINE n == Len(messages)
           e == [mail |-> txns[w].mail, ticket |-> t]
<1>1. /\ t \in Tickets /\ rows[t] \in Row /\ View(w, t) \in Row /\ Kept(rows[t], View(w, t))
      /\ Coherent(View(w, t))
  BY ViewFacts
<1>2. rows' = [rows EXCEPT ![t] = View(w, t)] /\ messages' = Append(messages, e)
  BY DEF Commits, Joins
<1>3. /\ n \in Nat /\ DOMAIN messages = 1 .. n /\ DOMAIN messages' = DOMAIN messages \cup {n + 1}
      /\ messages'[n + 1] = e
  BY <1>2, Appended
<1>4. n + 1 \in {i \in DOMAIN messages' : messages'[i].ticket = t} BY <1>3
<1>5. n + 1 \notin DOMAIN messages BY <1>3
<1>6. {i \in DOMAIN messages' : messages'[i].ticket = t} # {i \in DOMAIN messages : messages[i].ticket = t}
  BY <1>4, <1>5
<1>7. DOMAIN rows' = Tickets /\ rows'[t] = View(w, t) /\ \A u \in Tickets \ {t} : rows'[u] = rows[u]
  BY <1>1, <1>2 DEF IInv, TypeOK
<1>8. Promised(rows'[t]) \in Contract!Ticket BY <1>1, <1>7, PromisedTicket
<1>9. \/ Promised(rows'[t]) = [Promised(rows[t]) EXCEPT !.owner = Promised(rows'[t]).owner]
      \/ /\ Promised(rows[t]).status \in {"RESOLVED", "WAITING"}
         /\ Promised(rows'[t]).status = "OPEN"
  BY <1>1, <1>7, KeptPromised
<1>10. Contract!CustomerWrites(t)
  BY <1>1, <1>6, <1>7, <1>8, <1>9 DEF Contract!CustomerWrites, Contract!Only, Contract!Same, Tickets
<1> QED BY <1>1, <1>10

LEMMA MintPromised ==
  ASSUME IInv, NEW w \in Workers, Commits(w), ~Joins(w) PROVE Contract!Opens
<1> DEFINE t == Cardinality(Tickets) + 1
           x == txns[w]
<1>1. rows' = WithRow(rows, t, x.seen) BY DEF Commits
<1>2. t \notin Tickets BY NextId DEF IInv
<1>3. \E tm \in Teams : x.seen = FreshRow(Bot, tm) BY TxnFacts DEF Sound, Joins, Commits
<1>4. Promised(x.seen) = Contract!Idle("OPEN", Bot)
  BY <1>3 DEF FreshRow, Promised, Contract!Idle
<1> HIDE DEF t
<1>5. /\ DOMAIN rows' = Tickets \cup {t} /\ rows'[t] = x.seen
      /\ \A u \in Tickets : rows'[u] = rows[u]
  BY <1>1, <1>2 DEF WithRow, Tickets
<1> QED BY <1>2, <1>4, <1>5 DEF Contract!Opens, Tickets

LEMMA CommitsPromised == ASSUME IInv, NEW w \in Workers, Commits(w) PROVE Contract!Next
<1>1. ASSUME NEW t, t = txns[w].ticket, t # NoTicket PROVE Contract!Next
  <2>1. t \in Tickets /\ Contract!CustomerWrites(t) BY <1>1, JoinPromised
  <2> QED BY <2>1 DEF Contract!Next
<1>2. CASE ~Joins(w) BY <1>2, MintPromised DEF Contract!Next
<1> QED BY <1>1, <1>2 DEF Joins

LEMMA SweepPromised == ASSUME IInv, NEW t \in Tickets, SweepEnds(t) PROVE Contract!PausesEnd
<1> DEFINE owner == IF FallsBack(rows[t]) THEN Bot ELSE rows[t].assignee
           row == IF rows[t].waiting_action = "REOPEN" THEN TimerReopened(rows[t], owner)
                  ELSE TimerResolved(rows[t])
<1>1. rows[t] \in Row /\ Coherent(rows[t]) BY RowFacts
<1>2. rows[t].status = "WAITING" /\ rows[t].resume_at = "ripe" BY DEF SweepEnds, Ripe
<1>3. rows' = [rows EXCEPT ![t] = row] BY <1>1 DEF SweepEnds, IInv, TypeOK
<1>4. rows'[t] = row /\ DOMAIN rows' = Tickets /\ \A u \in Tickets \ {t} : rows'[u] = rows[u]
  BY <1>3 DEF IInv, TypeOK
<1>5. rows[t].waiting_action \in WaitingAction BY <1>1, <1>2 DEF Coherent, Row
<1>6. \E o \in {rows[t].assignee, Bot} :
        Promised(row) = Contract!Idle(IF rows[t].waiting_action = "AUTO_RESOLVE"
                                      THEN "RESOLVED" ELSE "OPEN", o)
  BY <1>1, <1>5 DEF TimerReopened, TimerResolved, Promised, Row, Contract!Idle, WaitingAction
<1> HIDE DEF row
<1>7. /\ Promised(rows[t]).timer = "ripe" /\ Promised(rows[t]).owner = rows[t].assignee
      /\ Promised(rows[t]).action = rows[t].waiting_action
  BY <1>2 DEF Promised
<1> QED BY <1>4, <1>6, <1>7 DEF Contract!PausesEnd, Contract!PauseEnds, Tickets

LEMMA QueuePromised ==
  ASSUME IInv, NEW t \in Tickets, NEW a \in Agents, QueueAssigns(t, a) PROVE Contract!Pulled(t)
<1>1. rows[t] \in Row BY RowFacts
<1>2. rows' = [rows EXCEPT ![t] = Assigned(rows[t], a)] BY DEF QueueAssigns
<1>3. /\ rows'[t] = Assigned(rows[t], a) /\ DOMAIN rows' = Tickets
      /\ \A u \in Tickets \ {t} : rows'[u] = rows[u]
  BY <1>2 DEF IInv, TypeOK
<1>4. Promised(rows'[t]) = [Promised(rows[t]) EXCEPT !.owner = a]
  BY <1>1, <1>3 DEF Assigned, Promised, Row
<1>5. Promised(rows[t]).status = "OPEN" /\ Promised(rows[t]).owner = Bot
  BY DEF QueueAssigns, Promised
<1> QED BY <1>3, <1>4, <1>5 DEF Contract!Pulled, Contract!Only, Contract!Owners, Tickets

LEMMA PatchPromised ==
  ASSUME IInv, IInv', NEW t \in Tickets, NEW dto \in Dtos, Patches(t, dto)
  PROVE  Contract!AgentActs(t)
<1>1. rows[t] \in Row /\ budget \in Nat BY RowFacts
<1>2. rows' = [rows EXCEPT ![t] = Patched(rows[t], rows[t], dto)] BY DEF Patches
<1>3. /\ rows'[t] = Patched(rows[t], rows[t], dto) /\ DOMAIN rows' = Tickets
      /\ \A u \in Tickets \ {t} : rows'[u] = rows[u]
  BY <1>2 DEF IInv, TypeOK
<1>4. \/ Promised(rows'[t]) = [Promised(rows[t]) EXCEPT !.owner = Promised(rows'[t]).owner]
      \/ Promised(rows'[t]).timer # "ripe"
  BY <1>1, <1>3 DEF Patched, Promised, Row
<1>5. budget' # budget BY <1>1 DEF Patches, Spend
<1>6. rows'[t] \in Row /\ Coherent(rows'[t])
  BY <1>3 DEF IInv, TypeOK, MailsKept, TicketsCoherent, Tickets
<1>7. Promised(rows'[t]) \in Contract!Ticket BY <1>6, PromisedTicket
<1> QED BY <1>3, <1>4, <1>5, <1>7 DEF Contract!AgentActs, Contract!Only, Contract!Same, Tickets

LEMMA TimePromised == ASSUME IInv, NEW t \in Tickets, TimePasses(t) PROVE Contract!Next
<1>1. rows[t] \in Row BY RowFacts
<1>2. CASE rows[t].resume_at = "pending" /\ rows' = [rows EXCEPT ![t].resume_at = "ripe"]
  <2>1. /\ rows'[t] = [rows[t] EXCEPT !.resume_at = "ripe"] /\ DOMAIN rows' = Tickets
        /\ \A u \in Tickets \ {t} : rows'[u] = rows[u]
    BY <1>2 DEF IInv, TypeOK
  <2>2. Promised(rows'[t]) = [Promised(rows[t]) EXCEPT !.timer = "ripe"]
    BY <1>1, <2>1 DEF Promised, Row
  <2>3. Promised(rows[t]).timer = "pending" BY <1>2 DEF Promised
  <2>4. Contract!TimerElapses(t)
    BY <2>1, <2>2, <2>3 DEF Contract!TimerElapses, Contract!Only, Tickets
  <2> QED BY <2>4 DEF Contract!Next
<1>3. CASE rows[t].resolved_at = "recent" /\ rows' = [rows EXCEPT ![t].resolved_at = "old"]
  <2>1. DOMAIN rows' = Tickets /\ \A u \in Tickets : Promised(rows'[u]) = Promised(rows[u])
    BY <1>1, <1>3 DEF IInv, TypeOK, Promised, Row
  <2>2. Contract!PausesEnd BY <2>1 DEF Contract!PausesEnd, Tickets
  <2> QED BY <2>2 DEF Contract!Next
<1> QED BY <1>2, <1>3 DEF TimePasses

LEMMA StepPromised == ASSUME IInv, IInv', [Next]_vars PROVE Contract!Next
<1>1. CASE UNCHANGED rows BY <1>1, RowsAlonePromised DEF Contract!Next
<1>2. ASSUME NEW w \in Workers, Commits(w) PROVE Contract!Next BY <1>2, CommitsPromised
<1>3. ASSUME NEW w \in Workers, IngestStep(w), ~Commits(w) PROVE UNCHANGED rows
  BY <1>3 DEF IngestStep, Finds, FindsSent, Locks, Reopens, WakeReads, WakeWrites, Refreshes,
              SaveConflicts, DeadlockDetected, Saves, Reroutes
<1>4. ASSUME NEW w \in Workers, Fails(w) \/ \E m \in Mails : IngestBegins(w, m)
      PROVE  UNCHANGED rows
  BY <1>4 DEF Fails, IngestBegins
<1>5. CASE Others
  <2>1. ASSUME NEW t \in Tickets, SweepEnds(t) PROVE Contract!Next
    BY <2>1, SweepPromised DEF Contract!Next
  <2>2. ASSUME NEW t \in Tickets, TimePasses(t) PROVE Contract!Next BY <2>2, TimePromised
  <2>3. ASSUME NEW t \in Tickets, NEW a \in Agents, QueueAssigns(t, a) PROVE Contract!Next
    BY <2>3, QueuePromised DEF Contract!Next
  <2>4. ASSUME NEW t \in Tickets, NEW dto \in Dtos, Patches(t, dto) PROVE Contract!Next
    BY <2>4, PatchPromised DEF Contract!Next
  <2>5. ASSUME NEW a \in Agents, PresenceChanges(a) PROVE UNCHANGED rows
    BY <2>5 DEF PresenceChanges
  <2> QED BY <1>1, <1>5, <2>1, <2>2, <2>3, <2>4, <2>5 DEF Others
<1>6. CASE UNCHANGED vars BY <1>1, <1>6 DEF vars
<1> QED BY <1>1, <1>2, <1>3, <1>4, <1>5, <1>6 DEF Next

(* The refinement: for any mails, threads and number of overlapping        *)
(* ingests, what becomes of the tickets is what TicketContract allows.     *)
THEOREM ContractKept == Spec => KeepsContract
<1>1. Init => Contract!Init BY InitPromised
<1>2. IInv /\ IInv' /\ [Next]_vars => [Contract!Next]_(Contract!promises) BY StepPromised
<1> QED BY <1>1, <1>2, Invariance, PTL DEF Spec, KeepsContract, Contract!Spec
=============================================================================
