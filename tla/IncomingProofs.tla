-------------------------- MODULE IncomingProofs --------------------------
(***************************************************************************)
(* What comes in from outside: the WhatsApp threads, and the webhooks with *)
(* the rules they set off. The two share no state; each part's theorems    *)
(* are about its own specification.                                        *)
(*                                                                         *)
(* ThreadsSpec: for any customers, bodies, number of requests in flight,   *)
(* agents and teams. The tickets of a customer stay one line because       *)
(* whoever mints the next one knows, until it commits, that the last one   *)
(* is still the only live one; the inductive invariant says so of every    *)
(* request in flight.                                                      *)
(*                                                                         *)
(* AutomationsSpec: for any rules the validator accepts, any posts, tries, *)
(* patches, messages and number of crashes. Two posts with a key are never *)
(* both past their insert, and a run is the only one of its key and event; *)
(* what was sent for them lies behind the place where the run is.          *)
(***************************************************************************)
EXTENDS WhatsappIngest, Automations, FiniteSetTheorems, SequenceTheorems, TLAPS

(* Every write of a row yields a row: the writers of TicketRow keep each   *)
(* column in its type.                                                     *)
LEMMA PatchedType ==
  ASSUME NEW cur \in Row, NEW read \in Row, NEW dto \in PatchDto,
         dto.status = "WAITING" <=> dto.waiting_action # "null"
  PROVE  Patched(cur, read, dto) \in Row
<1> DEFINE owner == IF ChangesAssignee(read, dto) THEN dto.assignee ELSE cur.assignee
           tm    == IF ChangesTeam(read, dto) THEN dto.team ELSE cur.team
<1>1. owner \in Owners BY DEF ChangesAssignee, PatchDto, Row
<1>2. tm \in Teams BY DEF ChangesTeam, PatchDto, Row
<1>3. PatchedResolvedAt(cur, read, dto) \in {"null", "recent", "old"}
  BY DEF PatchedResolvedAt, Row
<1>4. CASE ChangesStatus(read, dto)
  BY <1>1, <1>2, <1>3, <1>4 DEF Patched, ChangesStatus, PatchDto, Row, TicketStatus, PausedStatus
<1>5. CASE ~ChangesStatus(read, dto)
  BY <1>1, <1>2, <1>5 DEF Patched, Row
<1> QED BY <1>4, <1>5

LEMMA WriterTypes ==
  ASSUME NEW row \in Row, NEW owner \in Owners
  PROVE  /\ TimerResolved(row) \in Row /\ TimerReopened(row, owner) \in Row
         /\ FollowupRequeued(row) \in Row /\ FollowupWoken(row) \in Row
         /\ Assigned(row, owner) \in Row
         /\ [row EXCEPT !.resume_at = "ripe"] \in Row
BY DEF TimerResolved, TimerReopened, FollowupRequeued, FollowupWoken, Assigned,
       Row, Owners, TicketStatus

(* Ids are given in order.                                                 *)
Numbered == \E n \in Nat : Tickets = 1 .. n

(* Each customer who has tickets has exactly one live thread key.          *)
OneLiveKey ==
  \A t \in Tickets : \E u \in Tickets :
    /\ thread[u] = [who |-> thread[t].who, live |-> TRUE]
    /\ \A x \in Tickets : thread[x] = thread[u] => x = u

(* The locals of a request agree with the tables: it is at work on a       *)
(* ticket of the sender, and what it will insert is not there.             *)
Sound(h) ==
  /\ {h.ticket, h.prev, h.lock} \subseteq Tickets \cup {NoTicket}
  /\ h.phase \notin {"idle", "channel", "create"} => h.todo # <<>>
  /\ Stamped(h.row)
  /\ h.minted => h.phase \in {"save", "commit", "after"}
  /\ h.phase \in {"reopen", "archive", "wake", "waking", "save", "commit"} /\ ~h.minted => h.ticket # NoTicket
  /\ h.phase \in {"wake", "waking"} => ~h.minted
  /\ h.ticket # NoTicket => h.todo # <<>> /\ thread[h.ticket].who = From[Head(h.todo)]
  /\ h.prev # NoTicket => /\ h.phase = "insert" \/ h.minted
                          /\ h.todo # <<>> /\ thread[h.prev].who = From[Head(h.todo)]
  /\ h.minted /\ h.phase # "after" =>
       h.ticket = NoTicket /\ LiveOf(From[Head(h.todo)]) = {h.prev} \ {NoTicket}
  /\ h.saved <=> h.phase \in {"wake", "waking", "commit"}
  /\ h.saved => ~Stored(Head(h.todo))
  /\ h.phase = "after" => /\ Stored(Head(h.todo)) /\ Head(h.todo) \notin announced
                          /\ h.ticket # NoTicket /\ (h.minted => h.ticket \notin greeted)

HandlersSound == \A w \in Handlers : Sound(handlers[w])

(* No two requests are about to insert the same message or the next ticket *)
(* of the same customer, or to announce the same.                          *)
Apart(g, h) ==
  /\ g.saved /\ h.saved => Head(g.todo) # Head(h.todo)
  /\ g.minted /\ h.minted /\ g.phase # "after" /\ h.phase # "after" =>
       From[Head(g.todo)] # From[Head(h.todo)]
  /\ g.phase = "after" /\ h.phase = "after" =>
       Head(g.todo) # Head(h.todo) /\ (g.minted /\ h.minted => g.ticket # h.ticket)

Exclusive == \A v, w \in Handlers : v # w => Apart(handlers[v], handlers[w])

IInv ==
  /\ ThreadsTypeOK /\ Numbered /\ OneLinePerCustomer /\ NoEmptyTicket /\ StampFollowsStatus
  /\ OneLiveKey /\ announced \subseteq DOMAIN messages
  /\ HandlersSound /\ Exclusive
----------------------------------------------------------------------------
(* The locals of a request.                                                *)
LEMMA HandlerFacts ==
  ASSUME IInv, NEW w \in Handlers
  PROVE  /\ handlers[w] \in Handler /\ Sound(handlers[w])
         /\ handlers[w].todo \in Seq(Messages)
         /\ handlers[w].todo # <<>> => Mine(w) \in Messages /\ Tail(handlers[w].todo) \in Seq(Messages)
<1>1. handlers[w] \in Handler /\ Sound(handlers[w]) BY DEF IInv, ThreadsTypeOK, HandlersSound
<1>2. handlers[w].todo \in Seq(Messages) BY <1>1 DEF Handler
<1> QED BY <1>1, <1>2, HeadTailProperties DEF Mine

LEMMA AnyRowFacts == AnyRow \in Row /\ Stamped(AnyRow)
BY TeamsAssumption DEF AnyRow, FreshRow, Row, Owners, TicketStatus, Stamped

LEMMA ReadyFacts ==
  ASSUME NEW todo \in Seq(Messages), NEW p \in {"idle", "channel", "create", "check"},
         p = "check" => todo # <<>>
  PROVE  /\ Ready(todo, p) \in Handler /\ Sound(Ready(todo, p))
         /\ ~Ready(todo, p).saved /\ ~Ready(todo, p).minted /\ Ready(todo, p).phase # "after"
<1> DEFINE y == Ready(todo, p)
<1>1. y \in Handler BY AnyRowFacts DEF Ready, Handler, Phases, NoTicket
<1>2. /\ y.todo = todo /\ y.phase = p /\ y.ticket = NoTicket /\ y.prev = NoTicket /\ y.lock = NoTicket
      /\ y.row = AnyRow /\ ~y.minted /\ ~y.saved
  BY DEF Ready
<1> HIDE DEF y
<1>3. Sound(y) BY <1>2, AnyRowFacts DEF Sound
<1> QED BY <1>1, <1>2, <1>3 DEF y

LEMMA RestFacts ==
  Rest \in Handler /\ Sound(Rest) /\ ~Rest.saved /\ ~Rest.minted /\ Rest.phase # "after"
<1>1. <<>> \in Seq(Messages) OBVIOUS
<1> QED BY <1>1, ReadyFacts DEF Rest

LEMMA BeginFacts ==
  ASSUME NEW todo \in Seq(Messages)
  PROVE  /\ Begin(todo) \in Handler /\ Sound(Begin(todo))
         /\ ~Begin(todo).saved /\ ~Begin(todo).minted /\ Begin(todo).phase # "after"
<1>1. CASE todo = <<>> BY <1>1, RestFacts DEF Begin
<1>2. CASE todo # <<>> BY <1>2, ReadyFacts DEF Begin
<1> QED BY <1>1, <1>2

LEMMA ApartSymmetric == ASSUME NEW g, NEW h PROVE Apart(g, h) => Apart(h, g)
BY DEF Apart

LEMMA ViewFacts ==
  ASSUME IInv, NEW w \in Handlers PROVE View(w) \in Row /\ Stamped(View(w))
<1>1. handlers[w] \in Handler /\ Sound(handlers[w]) BY HandlerFacts
<1>2. handlers[w].row \in Row /\ Stamped(handlers[w].row) BY <1>1 DEF Handler, Sound
<1>3. ASSUME handlers[w].ticket # NoTicket
      PROVE  rows[handlers[w].ticket] \in Row /\ Stamped(rows[handlers[w].ticket])
  BY <1>1, <1>3 DEF Sound, IInv, ThreadsTypeOK, StampFollowsStatus
<1> QED BY <1>2, <1>3 DEF View

(* A step of one request that leaves the tables alone.                     *)
LEMMA HandlerMoves ==
  ASSUME IInv, NEW w \in Handlers, NEW y \in Handler, Sound(y),
         \A v \in Handlers \ {w} : Apart(handlers[v], y),
         handlers' = [handlers EXCEPT ![w] = y], UNCHANGED <<data, announced, greeted>>,
         channel' \in BOOLEAN, hooks' \subseteq Agents, online' \subseteq Agents, budget' \in Nat
  PROVE  IInv'
<1>1. ThreadsTypeOK' BY DEF IInv, ThreadsTypeOK, Tickets, data
<1>2. Numbered' /\ OneLinePerCustomer' BY DEF IInv, Numbered, OneLinePerCustomer, Tickets, data
<1>3. NoEmptyTicket' /\ StampFollowsStatus'
  BY DEF IInv, NoEmptyTicket, StampFollowsStatus, Tickets, data
<1>4. OneLiveKey' /\ (announced \subseteq DOMAIN messages)' BY DEF IInv, OneLiveKey, Tickets, data
<1>5. \A h : Sound(h)' <=> Sound(h) BY DEF Sound, LiveOf, Stored, Tickets, data
<1>6. \A v \in Handlers : handlers'[v] = IF v = w THEN y ELSE handlers[v] BY DEF IInv, ThreadsTypeOK
<1>7. HandlersSound' BY <1>5, <1>6 DEF IInv, HandlersSound
<1>8. \A g, h : Apart(g, h) => Apart(h, g) BY ApartSymmetric
<1>9. \A u, v \in Handlers : u # v => Apart(handlers'[u], handlers'[v])
  BY <1>6, <1>8 DEF IInv, Exclusive
<1>10. Exclusive' BY <1>9 DEF Exclusive, Apart
<1> QED BY <1>1, <1>2, <1>3, <1>4, <1>7, <1>10 DEF IInv

(* One that takes nothing on, and one that gives everything up.            *)
LEMMA QuietStep ==
  ASSUME IInv, NEW w \in Handlers, NEW y \in Handler, Sound(y),
         y.phase # "after", y.saved => handlers[w].saved,
         y.minted => handlers[w].minted /\ handlers[w].phase # "after",
         y.saved \/ y.minted => y.todo = handlers[w].todo,
         handlers' = [handlers EXCEPT ![w] = y],
         UNCHANGED <<channel, data, hooks, online, announced, greeted, budget>>
  PROVE  IInv'
<1>1. \A v \in Handlers \ {w} : Apart(handlers[v], y) BY DEF IInv, Exclusive, Apart
<1>2. channel' \in BOOLEAN /\ hooks' \subseteq Agents /\ online' \subseteq Agents /\ budget' \in Nat
  BY DEF IInv, ThreadsTypeOK
<1> QED BY <1>1, <1>2, HandlerMoves

LEMMA DropStep ==
  ASSUME IInv, NEW w \in Handlers, NEW y \in Handler, Sound(y), ~y.saved, ~y.minted, y.phase # "after",
         handlers' = [handlers EXCEPT ![w] = y], UNCHANGED <<data, announced, greeted>>,
         channel' \in BOOLEAN, hooks' = hooks, online' = online, budget' \in Nat
  PROVE  IInv'
<1>1. \A v \in Handlers \ {w} : Apart(handlers[v], y) BY DEF Apart
<1>2. hooks' \subseteq Agents /\ online' \subseteq Agents BY DEF IInv, ThreadsTypeOK
<1> QED BY <1>1, <1>2, HandlerMoves
----------------------------------------------------------------------------
(* One step per action.                                                    *)
LEMMA InitInv == ThreadsInit => IInv
<1> SUFFICES ASSUME ThreadsInit PROVE IInv OBVIOUS
<1>1. Rest \in Handler /\ Sound(Rest) /\ ~Rest.saved /\ ~Rest.minted /\ Rest.phase # "after"
  BY RestFacts
<1>2. (CHOOSE c \in Customers : TRUE) \in Customers BY MessagesAssumption
<1>3. /\ (Tickets = {} \/ Tickets = {1}) /\ rows \in [Tickets -> Row]
      /\ \A t \in Tickets : Stamped(rows[t])
  BY ThreadRowsAssumption DEF ThreadsInit, Tickets
<1>4. DOMAIN messages = {} BY DEF ThreadsInit
<1>5. ThreadsTypeOK
  <2>1. rows \in [Tickets -> Row] BY ThreadRowsAssumption DEF ThreadsInit, Tickets
  <2>2. /\ thread \in [Tickets -> [who: Customers, live: BOOLEAN]]
        /\ prev \in [Tickets -> Tickets \cup {NoTicket}]
    BY <1>2 DEF ThreadsInit, Tickets
  <2> QED BY <1>1, <1>4, <2>1, <2>2, BoundsAssumption DEF ThreadsInit, ThreadsTypeOK
<1>6. Numbered
  <2>1. Tickets = 1 .. 0 \/ Tickets = 1 .. 1 BY <1>3
  <2> QED BY <2>1 DEF Numbered
<1>7. /\ \A t \in Tickets : prev[t] = NoTicket /\ thread[t].live
      /\ \A t, u \in Tickets : t = u
      /\ \A t \in Tickets : t # NoTicket
  BY <1>3 DEF ThreadsInit, Tickets, NoTicket
<1>8. OneLinePerCustomer /\ NoEmptyTicket BY <1>4, <1>7 DEF OneLinePerCustomer, NoEmptyTicket
<1>9. StampFollowsStatus BY <1>3 DEF StampFollowsStatus
<1>10. OneLiveKey BY <1>7 DEF OneLiveKey, ThreadsInit, Tickets
<1>11. HandlersSound BY <1>1 DEF ThreadsInit, HandlersSound
<1>12. Exclusive BY <1>1 DEF ThreadsInit, Exclusive, Apart
<1> QED BY <1>4, <1>5, <1>6, <1>8, <1>9, <1>10, <1>11, <1>12 DEF IInv, ThreadsInit

LEMMA ReceivesInv ==
  ASSUME IInv, NEW w \in Handlers, NEW p \in Payloads, Receives(w, p) PROVE IInv'
<1>1. p \in Seq(Messages) BY MessagesAssumption
<1>2. channel' \in BOOLEAN /\ budget' \in Nat BY DEF Receives, Spend, IInv, ThreadsTypeOK
<1> QED BY <1>1, <1>2, ReadyFacts, DropStep DEF Receives

LEMMA ChannelInv ==
  ASSUME IInv, NEW w \in Handlers, FindsChannel(w) \/ CreatesChannel(w) PROVE IInv'
<1>1. handlers[w] \in Handler /\ Sound(handlers[w]) /\ handlers[w].todo \in Seq(Messages) BY HandlerFacts
<1>2. channel' \in BOOLEAN /\ budget' \in Nat BY DEF FindsChannel, CreatesChannel, IInv, ThreadsTypeOK
<1>3. Rest \in Handler /\ Sound(Rest) /\ ~Rest.saved /\ ~Rest.minted /\ Rest.phase # "after"
  BY RestFacts
<1>4. UNCHANGED <<data, announced, greeted>> /\ hooks' = hooks /\ online' = online
  BY DEF FindsChannel, CreatesChannel
<1>5. CASE handlers' = [handlers EXCEPT ![w] = Begin(handlers[w].todo)]
  BY <1>1, <1>2, <1>4, <1>5, BeginFacts, DropStep
<1>6. CASE handlers' = [handlers EXCEPT ![w] = Rest]
  BY <1>2, <1>3, <1>4, <1>6, DropStep
<1>7. CASE FindsChannel(w) /\ handlers' = [handlers EXCEPT ![w] = [handlers[w] EXCEPT !.phase = "create"]]
  <2> DEFINE y == [handlers[w] EXCEPT !.phase = "create"]
  <2>1. y \in Handler BY <1>1 DEF Handler, Phases
  <2>2. ~handlers[w].saved /\ ~handlers[w].minted BY <1>1, <1>7 DEF Sound, FindsChannel
  <2>3. Sound(y) BY <1>1, <1>7, <2>2 DEF Sound, Handler, FindsChannel
  <2>4. ~y.saved /\ ~y.minted /\ y.phase # "after" BY <1>1, <2>2 DEF Handler
  <2> HIDE DEF y
  <2> QED BY <1>2, <1>4, <1>7, <2>1, <2>3, <2>4, DropStep DEF y
<1> QED BY <1>5, <1>6, <1>7 DEF FindsChannel, CreatesChannel

(* A request that is done with its message, or gives it up.                *)
LEMMA NextMessageInv ==
  ASSUME IInv, NEW w \in Handlers, handlers[w].todo # <<>>,
         handlers' = [handlers EXCEPT ![w] = NextMessage(w)],
         UNCHANGED <<channel, data, hooks, online, announced, greeted>>, budget' \in Nat
  PROVE  IInv'
<1>1. Tail(handlers[w].todo) \in Seq(Messages) BY HandlerFacts
<1>2. channel' \in BOOLEAN BY DEF IInv, ThreadsTypeOK
<1> QED BY <1>1, <1>2, BeginFacts, DropStep DEF NextMessage

LEMMA ChecksInv == ASSUME IInv, NEW w \in Handlers, Checks(w) PROVE IInv'
<1>1. handlers[w] \in Handler /\ Sound(handlers[w]) /\ handlers[w].phase = "check"
  BY HandlerFacts DEF Checks
<1>2. UNCHANGED <<channel, data, hooks, online, announced, greeted, budget>> BY DEF Checks
<1>3. CASE Stored(Mine(w))
  <2>1. budget' \in Nat BY <1>2 DEF IInv, ThreadsTypeOK
  <2>2. handlers[w].todo # <<>> BY <1>1 DEF Sound
  <2> QED BY <1>2, <1>3, <2>1, <2>2, NextMessageInv DEF Checks
<1>4. CASE ~Stored(Mine(w))
  <2> DEFINE y == [handlers[w] EXCEPT !.phase = "find"]
  <2>1. y \in Handler BY <1>1 DEF Handler, Phases
  <2>2. Sound(y) BY <1>1 DEF Sound, Handler
  <2>3. y.phase = "find" /\ y.saved = handlers[w].saved /\ y.minted = handlers[w].minted
        /\ y.todo = handlers[w].todo
    BY <1>1 DEF Handler
  <2>4. handlers' = [handlers EXCEPT ![w] = y] BY <1>4 DEF Checks
  <2> HIDE DEF y
  <2> QED BY <1>1, <1>2, <2>1, <2>2, <2>3, <2>4, QuietStep
<1> QED BY <1>3, <1>4

LEMMA FindsInv == ASSUME IInv, NEW w \in Handlers, Finds(w) PROVE IInv'
<1> DEFINE live == LiveOf(From[Mine(w)])
           t == CHOOSE u \in live : TRUE
           y == IF live = {} THEN [handlers[w] EXCEPT !.phase = "insert"]
                ELSE [handlers[w] EXCEPT !.ticket = t, !.phase =
                        IF rows[t].status # "RESOLVED" THEN "save"
                        ELSE IF rows[t].resolved_at = "recent" THEN "reopen" ELSE "archive"]
<1>1. handlers[w] \in Handler /\ Sound(handlers[w]) /\ handlers[w].phase = "find"
  BY HandlerFacts DEF Finds
<1> HIDE DEF live
<1>9. live # {} => t \in live OBVIOUS
<1> HIDE DEF t
<1>10. \A u \in live : u \in Tickets /\ thread[u] = [who |-> From[Mine(w)], live |-> TRUE]
  BY DEF live, LiveOf
<1>2. live # {} => t \in Tickets /\ thread[t].who = From[Mine(w)] BY <1>9, <1>10
<1>3. live # {} => t \in Nat /\ t # NoTicket BY <1>2 DEF IInv, Numbered, NoTicket
<1>4. y \in Handler BY <1>1, <1>3 DEF Handler, Phases
<1>5. Sound(y) BY <1>1, <1>2, <1>3 DEF Sound, Handler, Mine
<1>6. handlers' = [handlers EXCEPT ![w] = y] BY <1>1 DEF Finds, IInv, ThreadsTypeOK, live, t
<1>7. y.phase # "after" /\ y.saved = handlers[w].saved /\ y.minted = handlers[w].minted
      /\ y.todo = handlers[w].todo
  BY <1>1 DEF Handler
<1>8. UNCHANGED <<channel, data, hooks, online, announced, greeted, budget>> BY DEF Finds
<1> HIDE DEF y
<1> QED BY <1>1, <1>4, <1>5, <1>6, <1>7, <1>8, QuietStep

LEMMA ReopensInv == ASSUME IInv, NEW w \in Handlers, Reopens(w) PROVE IInv'
<1> DEFINE row == [View(w) EXCEPT !.status = "OPEN", !.resolved_at = "null"]
           y == [handlers[w] EXCEPT !.phase = "save", !.lock = handlers[w].ticket, !.row = row]
<1>1. handlers[w] \in Handler /\ Sound(handlers[w]) /\ handlers[w].phase = "reopen"
  BY HandlerFacts DEF Reopens
<1>2. row \in Row /\ Stamped(row) BY ViewFacts DEF Row, TicketStatus, Stamped
<1>3. handlers' = [handlers EXCEPT ![w] = y] BY <1>1 DEF Reopens, IInv, ThreadsTypeOK
<1> HIDE DEF row
<1>4. y \in Handler BY <1>1, <1>2 DEF Handler, Phases
<1>5. Sound(y) BY <1>1, <1>2 DEF Sound, Handler
<1>7. y.phase # "after" /\ y.saved = handlers[w].saved /\ y.minted = handlers[w].minted
      /\ y.todo = handlers[w].todo
  BY <1>1 DEF Handler
<1>8. UNCHANGED <<channel, data, hooks, online, announced, greeted, budget>> BY DEF Reopens
<1> HIDE DEF y
<1> QED BY <1>1, <1>3, <1>4, <1>5, <1>7, <1>8, QuietStep

LEMMA ArchivesInv == ASSUME IInv, NEW w \in Handlers, Archives(w) PROVE IInv'
<1> DEFINE t == handlers[w].ticket
           y == [handlers[w] EXCEPT !.phase = "insert", !.lock = t, !.row = View(w), !.prev = t]
<1>1. handlers[w] \in Handler /\ Sound(handlers[w]) /\ handlers[w].phase = "archive"
  BY HandlerFacts DEF Archives
<1>2. View(w) \in Row /\ Stamped(View(w)) BY ViewFacts
<1>3. handlers' = [handlers EXCEPT ![w] = y] BY <1>1 DEF Archives, IInv, ThreadsTypeOK
<1>4. y \in Handler BY <1>1, <1>2 DEF Handler, Phases
<1>5. Sound(y) BY <1>1, <1>2 DEF Sound, Handler
<1>7. y.phase # "after" /\ y.saved = handlers[w].saved /\ y.minted = handlers[w].minted
      /\ y.todo = handlers[w].todo
  BY <1>1 DEF Handler
<1>8. UNCHANGED <<channel, data, hooks, online, announced, greeted, budget>> BY DEF Archives
<1> HIDE DEF y
<1> QED BY <1>1, <1>3, <1>4, <1>5, <1>7, <1>8, QuietStep

LEMMA TargetFacts ==
  ASSUME NEW tm \in Teams
  PROVE  FreshRow(Bot, TargetTeam(tm)) \in Row /\ Stamped(FreshRow(Bot, TargetTeam(tm)))
<1>1. TargetTeam(tm) \in Teams BY TeamsAssumption DEF TargetTeam
<1> QED BY <1>1 DEF FreshRow, Row, Owners, TicketStatus, Stamped

(* The unique key: who inserts the next ticket of a customer finds no      *)
(* other live one and nobody else about to insert.                         *)
LEMMA MintsInv == ASSUME IInv, NEW w \in Handlers, NEW tm \in Teams, Mints(w, tm) PROVE IInv'
<1> DEFINE h == handlers[w]
           row == FreshRow(Bot, TargetTeam(tm))
           y == [h EXCEPT !.phase = "save", !.minted = TRUE, !.ticket = NoTicket, !.row = row]
<1>1. h \in Handler /\ Sound(h) /\ h.phase = "insert" BY HandlerFacts DEF Mints
<1>2. row \in Row /\ Stamped(row) BY TargetFacts
<1>3. handlers' = [handlers EXCEPT ![w] = y] BY <1>1 DEF Mints, Minting, IInv, ThreadsTypeOK
<1> HIDE DEF row
<1>4. y \in Handler BY <1>1, <1>2 DEF Handler, Phases, NoTicket
<1>5. /\ y.phase = "save" /\ y.minted /\ y.ticket = NoTicket /\ y.row = row /\ y.todo = h.todo
      /\ y.prev = h.prev /\ y.lock = h.lock /\ y.saved = h.saved
  BY <1>1 DEF Handler
<1>6. LiveOf(From[Head(h.todo)]) = {h.prev} \ {NoTicket}
  <2> DEFINE c == From[Head(h.todo)]
  <2>1. LiveOf(c) \ {h.prev} = {} BY DEF Mints, KeyTaken, Mine
  <2>2. NoTicket \notin Tickets BY DEF IInv, Numbered, NoTicket
  <2>3. LiveOf(c) \subseteq Tickets BY DEF LiveOf
  <2>4. CASE h.prev = NoTicket BY <2>1, <2>2, <2>3, <2>4
  <2>5. CASE h.prev # NoTicket
    <3>1. h.prev \in Tickets /\ thread[h.prev].who = c BY <1>1, <2>5 DEF Sound
    <3>2. PICK u \in Tickets : thread[u] = [who |-> c, live |-> TRUE]
      BY <3>1 DEF IInv, OneLiveKey
    <3>3. u \in LiveOf(c) BY <3>2 DEF LiveOf
    <3> QED BY <2>1, <2>5, <3>3
  <2> QED BY <2>4, <2>5
<1>7. Sound(y) BY <1>1, <1>2, <1>5, <1>6 DEF Sound
<1>8. ASSUME NEW v \in Handlers \ {w} PROVE Apart(handlers[v], y)
  <2> DEFINE g == handlers[v]
  <2>1. v \notin Blockers(w) BY DEF Mints
  <2>2. ~(g.phase # "after" /\ g.minted /\ From[Mine(v)] = From[Mine(w)])
    BY <1>1, <1>8, <2>1 DEF Blockers
  <2>3. ~y.saved BY <1>1, <1>5 DEF Sound
  <2>4. From[Mine(w)] = From[Head(y.todo)] BY <1>5 DEF Mine
  <2>5. From[Mine(v)] = From[Head(g.todo)] BY DEF Mine
  <2> HIDE DEF y
  <2> QED BY <1>5, <2>2, <2>3, <2>4, <2>5 DEF Apart
<1>9. hooks' \subseteq Agents
  <2>1. PICK a \in (IF Picks(TargetTeam(tm)) = {} THEN {Bot} ELSE Picks(TargetTeam(tm))) :
          hooks' = hooks \cup Scheduled(a)
    BY DEF Mints, Minting
  <2>2. a \in Agents \cup {Bot} BY <2>1 DEF Picks, Eligible, IInv, ThreadsTypeOK
  <2> QED BY <2>1, <2>2 DEF Scheduled, IInv, ThreadsTypeOK
<1>10. UNCHANGED <<channel, data, online, announced, greeted, budget>> BY DEF Mints, Minting
<1>11. channel' \in BOOLEAN /\ online' \subseteq Agents /\ budget' \in Nat
  BY <1>10 DEF IInv, ThreadsTypeOK
<1> HIDE DEF y
<1> QED BY <1>3, <1>4, <1>7, <1>8, <1>9, <1>10, <1>11, HandlerMoves

LEMMA SavesInv == ASSUME IInv, NEW w \in Handlers, Saves(w) PROVE IInv'
<1> DEFINE h == handlers[w]
           y == [h EXCEPT !.saved = TRUE, !.phase = IF h.minted THEN "commit" ELSE "wake"]
<1>1. h \in Handler /\ Sound(h) /\ h.phase = "save" BY HandlerFacts DEF Saves
<1>2. handlers' = [handlers EXCEPT ![w] = y] BY <1>1 DEF Saves, IInv, ThreadsTypeOK
<1>3. y \in Handler BY <1>1 DEF Handler, Phases
<1>4. /\ y.phase \in {"commit", "wake"} /\ y.minted = h.minted /\ y.todo = h.todo /\ y.saved
      /\ y.ticket = h.ticket /\ y.prev = h.prev /\ y.lock = h.lock /\ y.row = h.row
      /\ y.phase = "commit" <=> h.minted
  BY <1>1 DEF Handler
<1>5. ~Stored(Head(h.todo)) BY DEF Saves, Mine
<1> HIDE DEF y
<1>6. Sound(y) BY <1>1, <1>4, <1>5 DEF Sound
<1>7. ASSUME NEW v \in Handlers \ {w} PROVE Apart(handlers[v], y)
  <2> DEFINE g == handlers[v]
  <2>1. v \notin Blockers(w) BY DEF Saves
  <2>2. ~(g.saved /\ Mine(v) = Mine(w)) BY <1>1, <1>7, <2>1 DEF Blockers
  <2>3. ~(g.saved /\ Head(g.todo) = Head(y.todo)) BY <1>4, <2>2 DEF Mine
  <2>4. Apart(g, h) BY <1>7 DEF IInv, Exclusive
  <2>5. h.phase # "after" /\ y.phase # "after" BY <1>1, <1>4
  <2> QED BY <1>4, <2>3, <2>4, <2>5 DEF Apart
<1>8. UNCHANGED <<channel, data, hooks, online, announced, greeted, budget>> BY DEF Saves
<1>9. channel' \in BOOLEAN /\ hooks' \subseteq Agents /\ online' \subseteq Agents /\ budget' \in Nat
  BY <1>8 DEF IInv, ThreadsTypeOK
<1> QED BY <1>2, <1>3, <1>6, <1>7, <1>8, <1>9, HandlerMoves

LEMMA WakeReadsInv == ASSUME IInv, NEW w \in Handlers, WakeReads(w) PROVE IInv'
<1> DEFINE h == handlers[w]
           y == [h EXCEPT !.back = View(w).status = "WAITING" /\ FallsBack(View(w)),
                          !.phase = IF View(w).status = "WAITING" THEN "waking" ELSE "commit"]
<1>1. h \in Handler /\ Sound(h) /\ h.phase = "wake" BY HandlerFacts DEF WakeReads
<1>2. handlers' = [handlers EXCEPT ![w] = y] BY <1>1 DEF WakeReads, IInv, ThreadsTypeOK
<1>3. y \in Handler BY <1>1 DEF Handler, Phases, FallsBack
<1>4. /\ y.phase \in {"waking", "commit"} /\ y.minted = h.minted /\ y.todo = h.todo /\ y.saved = h.saved
      /\ y.ticket = h.ticket /\ y.prev = h.prev /\ y.lock = h.lock /\ y.row = h.row
  BY <1>1 DEF Handler
<1>5. UNCHANGED <<channel, data, hooks, online, announced, greeted, budget>> BY DEF WakeReads
<1> HIDE DEF y
<1>6. Sound(y) BY <1>1, <1>4 DEF Sound
<1> QED BY <1>1, <1>2, <1>3, <1>4, <1>5, <1>6, QuietStep

LEMMA WakeWritesInv == ASSUME IInv, NEW w \in Handlers, WakeWrites(w) PROVE IInv'
<1> DEFINE h == handlers[w]
           owner == IF h.back THEN Bot ELSE View(w).assignee
           row == TimerReopened(View(w), owner)
           y == IF View(w).status # "WAITING" THEN [h EXCEPT !.phase = "commit"]
                ELSE [h EXCEPT !.phase = "commit", !.lock = h.ticket, !.row = row]
<1>1. h \in Handler /\ Sound(h) /\ h.phase = "waking" BY HandlerFacts DEF WakeWrites
<1>2. handlers' = [handlers EXCEPT ![w] = y] BY <1>1 DEF WakeWrites, IInv, ThreadsTypeOK
<1>3. View(w) \in Row /\ Stamped(View(w)) BY ViewFacts
<1>4. owner \in Owners BY <1>3 DEF Owners, Row
<1>5. row \in Row BY <1>3, <1>4, WriterTypes
<1>6. View(w).status = "WAITING" => Stamped(row) BY <1>3, <1>4 DEF TimerReopened, Stamped, Row
<1> HIDE DEF row
<1>7. y \in Handler BY <1>1, <1>5 DEF Handler, Phases
<1>8. /\ y.phase = "commit" /\ y.minted = h.minted /\ y.todo = h.todo /\ y.saved = h.saved
      /\ y.ticket = h.ticket /\ y.prev = h.prev /\ y.lock \in {h.lock, h.ticket} /\ Stamped(y.row)
  BY <1>1, <1>6 DEF Handler, Sound
<1>9. UNCHANGED <<channel, data, hooks, online, announced, greeted, budget>> BY DEF WakeWrites
<1> HIDE DEF y
<1>10. Sound(y) BY <1>1, <1>8 DEF Sound
<1> QED BY <1>1, <1>2, <1>7, <1>8, <1>9, <1>10, QuietStep

(* A request whose insert conflicts, or whose statement fails.             *)
LEMMA EndsInv ==
  ASSUME IInv, NEW w \in Handlers, Conflicts(w) \/ Fails(w) \/ DeadlockDetected(w) PROVE IInv'
<1>1. handlers[w] \in Handler /\ Sound(handlers[w]) BY HandlerFacts
<1>2. UNCHANGED <<channel, data, hooks, online, announced, greeted>> /\ budget' \in Nat
  BY DEF Conflicts, Fails, DeadlockDetected, Spend, IInv, ThreadsTypeOK
<1>3. CASE handlers' = [handlers EXCEPT ![w] = Rest]
  <2>1. channel' \in BOOLEAN BY <1>2 DEF IInv, ThreadsTypeOK
  <2> QED BY <1>2, <1>3, <2>1, RestFacts, DropStep
<1>4. CASE /\ handlers' = [handlers EXCEPT ![w] = NextMessage(w)]
           /\ handlers[w].phase \notin {"idle", "channel", "create"}
  <2>1. handlers[w].todo # <<>> BY <1>1, <1>4 DEF Sound
  <2> QED BY <1>2, <1>4, <2>1, NextMessageInv
<1>5. CASE DeadlockDetected(w)
  <2>1. Blockers(w) # {} BY <1>5 DEF DeadlockDetected
  <2>2. handlers[w].phase \in {"reopen", "waking", "archive", "insert", "save"} BY <2>1 DEF Blockers
  <2> QED BY <1>4, <1>5, <2>2 DEF DeadlockDetected
<1>6. CASE Conflicts(w) BY <1>4, <1>6 DEF Conflicts
<1>7. CASE Fails(w)
  <2>1. CASE handlers[w].phase \in {"channel", "create"} BY <1>3, <1>7, <2>1 DEF Fails
  <2>2. CASE handlers[w].phase \notin {"channel", "create"} BY <1>4, <1>7, <2>2 DEF Fails
  <2> QED BY <2>1, <2>2
<1> QED BY <1>5, <1>6, <1>7
----------------------------------------------------------------------------
(* The commit.                                                             *)
LEMMA NextId ==
  ASSUME IInv
  PROVE  /\ Cardinality(Tickets) + 1 \in Nat \ (Tickets \cup {NoTicket})
         /\ NoTicket \notin Tickets /\ Tickets \subseteq Nat
         /\ DOMAIN rows' = Tickets \cup {Cardinality(Tickets) + 1} => Numbered'
<1>1. PICK n \in Nat : Tickets = 1 .. n BY DEF IInv, Numbered
<1>2. Cardinality(1 .. n) = n BY FS_Interval
<1>3. DOMAIN rows' = Tickets \cup {Cardinality(Tickets) + 1} => DOMAIN rows' = 1 .. n + 1
  BY <1>1, <1>2
<1>4. DOMAIN rows' = 1 .. n + 1 => Numbered' BY DEF Numbered, Tickets
<1> QED BY <1>1, <1>2, <1>3, <1>4 DEF NoTicket

(* The records of thread as their two columns.                             *)
ThreadRow == [who: Customers, live: BOOLEAN]
Live(r)   == r.live = TRUE

LEMMA ThreadRowFacts ==
  ASSUME NEW r \in ThreadRow
  PROVE  /\ \A d : r = [who |-> d, live |-> TRUE] <=> r.who = d /\ Live(r)
         /\ r.live <=> Live(r)
         /\ [r EXCEPT !.live = FALSE] \in ThreadRow
         /\ [r EXCEPT !.live = FALSE].who = r.who /\ ~Live([r EXCEPT !.live = FALSE])
<1>1. r = [who |-> r.who, live |-> r.live] /\ r.who \in Customers /\ r.live \in BOOLEAN BY DEF ThreadRow
<1>2. [r EXCEPT !.live = FALSE] \in ThreadRow BY DEF ThreadRow
<1>3. [r EXCEPT !.live = FALSE].who = r.who BY DEF ThreadRow
<1>4. ~Live([r EXCEPT !.live = FALSE]) BY DEF ThreadRow, Live
<1>5. r.live <=> Live(r) BY <1>1 DEF Live
<1>6. \A d : r = [who |-> d, live |-> TRUE] <=> r.who = d /\ Live(r) BY <1>1 DEF Live
<1> QED BY <1>2, <1>3, <1>4, <1>5, <1>6

(* A ticket added to the line of a customer, behind its last one if there  *)
(* is any, leaves it a line.                                               *)
Continues(c, p, t) ==
  /\ DOMAIN rows' = Tickets \cup {t} /\ prev' = WithRow(prev, t, p)
  /\ thread' = WithRow([u \in Tickets |-> IF u = p THEN [thread[u] EXCEPT !.live = FALSE] ELSE thread[u]],
                       t, [who |-> c, live |-> TRUE])

LEMMA LineGrows ==
  ASSUME IInv, NEW c \in Customers, NEW p \in Tickets \cup {NoTicket},
         NEW t, t \notin Tickets \cup {NoTicket}, NoTicket \notin Tickets,
         LiveOf(c) = {p} \ {NoTicket}, p # NoTicket => thread[p].who = c, Continues(c, p, t)
  PROVE  /\ thread' \in [Tickets \cup {t} -> ThreadRow]
         /\ prev' \in [Tickets \cup {t} -> Tickets \cup {t, NoTicket}]
         /\ \A u \in Tickets : thread'[u].who = thread[u].who /\ prev'[u] = prev[u]
         /\ thread'[t].who = c /\ prev'[t] = p
         /\ \A d \in Customers \ {c} : LiveOf(d)' = LiveOf(d)
         /\ OneLinePerCustomer' /\ OneLiveKey'
<1> DEFINE new == Tickets \cup {t}
<1>1. thread \in [Tickets -> ThreadRow] /\ prev \in [Tickets -> Tickets \cup {NoTicket}]
  BY DEF IInv, ThreadsTypeOK, ThreadRow
<1>2. Tickets' = new BY DEF Tickets, Continues
<1>3. thread'[t] = [who |-> c, live |-> TRUE] BY DEF WithRow, Continues
<1>4. \A u \in Tickets : thread'[u] = IF u = p THEN [thread[u] EXCEPT !.live = FALSE] ELSE thread[u]
  BY DEF WithRow, Continues
<1>5. \A u \in Tickets : /\ thread'[u] \in ThreadRow /\ thread'[u].who = thread[u].who
                         /\ Live(thread'[u]) <=> Live(thread[u]) /\ u # p
                         /\ u # p => thread'[u] = thread[u]
  <2>1. SUFFICES ASSUME NEW u \in Tickets, NEW r, r = thread[u], NEW q, q = thread'[u]
                 PROVE  /\ q \in ThreadRow /\ q.who = r.who
                        /\ Live(q) <=> Live(r) /\ u # p
                        /\ u # p => q = r
    OBVIOUS
  <2>2. r \in ThreadRow BY <1>1, <2>1
  <2>3. /\ [r EXCEPT !.live = FALSE] \in ThreadRow
        /\ [r EXCEPT !.live = FALSE].who = r.who /\ ~Live([r EXCEPT !.live = FALSE])
    BY <2>2, ThreadRowFacts
  <2>4. q = IF u = p THEN [r EXCEPT !.live = FALSE] ELSE r BY <1>4, <2>1
  <2>5. CASE u = p
    <3>1. q = [r EXCEPT !.live = FALSE] BY <2>4, <2>5
    <3> QED BY <2>3, <2>5, <3>1
  <2>6. CASE u # p BY <2>2, <2>4, <2>6
  <2> QED BY <2>5, <2>6
<1>6. thread'[t] \in ThreadRow /\ thread'[t].who = c /\ Live(thread'[t])
  BY <1>3 DEF ThreadRow, Live
<1>7. thread' \in [new -> ThreadRow]
  <2>1. DOMAIN thread' = new /\ thread' = [u \in new |-> thread'[u]] BY DEF WithRow, Continues
  <2> QED BY <1>5, <1>6, <2>1
<1>8. /\ prev' \in [new -> new \cup {NoTicket}]
      /\ prev'[t] = p /\ \A u \in Tickets : prev'[u] = prev[u]
  BY <1>1 DEF WithRow, Continues
<1> HIDE DEF new
<1>9. \A u \in Tickets : \A d : u \in LiveOf(d) <=> thread[u].who = d /\ Live(thread[u])
  BY <1>1, ThreadRowFacts DEF LiveOf
<1>10. \A u \in Tickets : thread[u].who = c /\ Live(thread[u]) <=> u = p /\ p # NoTicket
  BY <1>9
<1>11. \A d \in Customers \ {c} : LiveOf(d)' = LiveOf(d)
  <2>1. SUFFICES ASSUME NEW d \in Customers \ {c}, NEW u \in new
                 PROVE  thread'[u] = [who |-> d, live |-> TRUE]
                        <=> u \in Tickets /\ thread[u] = [who |-> d, live |-> TRUE]
    BY <1>2 DEF LiveOf, new
  <2>2. CASE u = t
    <3>1. thread'[u] # [who |-> d, live |-> TRUE] BY <1>6, <2>2
    <3> QED BY <2>2, <3>1
  <2>3. CASE u \in Tickets /\ u # p BY <1>5, <2>3
  <2>4. CASE u \in Tickets /\ u = p
    <3>1. thread[u].who = c /\ thread'[u].who = c BY <1>5, <2>4
    <3>2. thread'[u] # [who |-> d, live |-> TRUE] /\ thread[u] # [who |-> d, live |-> TRUE]
      BY <3>1
    <3> QED BY <3>2
  <2> QED BY <2>2, <2>3, <2>4 DEF new
<1>12. \A x \in Tickets : \E u \in Tickets :
         /\ thread[u].who = thread[x].who /\ Live(thread[u])
         /\ \A z \in Tickets : thread[z].who = thread[u].who /\ Live(thread[z]) => z = u
  <2>1. \A r \in ThreadRow : \A d : r = [who |-> d, live |-> TRUE] <=> r.who = d /\ Live(r)
    BY ThreadRowFacts
  <2>2. SUFFICES ASSUME NEW x \in Tickets
                 PROVE  \E u \in Tickets :
                          /\ thread[u].who = thread[x].who /\ Live(thread[u])
                          /\ \A z \in Tickets : thread[z].who = thread[u].who /\ Live(thread[z]) => z = u
    OBVIOUS
  <2>3. PICK u \in Tickets : /\ thread[u] = [who |-> thread[x].who, live |-> TRUE]
                             /\ \A z \in Tickets : thread[z] = thread[u] => z = u
    BY DEF IInv, OneLiveKey
  <2>4. thread[u].who = thread[x].who /\ Live(thread[u]) BY <1>1, <2>1, <2>3
  <2>5. ASSUME NEW z \in Tickets, thread[z].who = thread[u].who, Live(thread[z]) PROVE z = u
    <3>1. thread[z] = [who |-> thread[x].who, live |-> TRUE] BY <1>1, <2>1, <2>4, <2>5
    <3> QED BY <2>3, <3>1
  <2> QED BY <2>4, <2>5
<1>13. p = NoTicket => \A u \in Tickets : thread[u].who # c BY <1>10, <1>12
<1>14. /\ \A x, u \in Tickets : x # u /\ thread[x].who = thread[u].who => prev[x] # prev[u]
       /\ \A x \in Tickets : prev[x] # NoTicket => thread[prev[x]].who = thread[x].who
       /\ \A x \in Tickets : Live(thread[x]) <=> \A u \in Tickets : prev[u] # x
  BY <1>1, ThreadRowFacts DEF IInv, OneLinePerCustomer
<1>15. p # NoTicket => p \in Tickets /\ \A u \in Tickets : prev[u] # p
  BY <1>10, <1>14
<1>16. OneLinePerCustomer'
  <2>1. ASSUME NEW x \in new, NEW u \in new, x # u, thread'[x].who = thread'[u].who
        PROVE  prev'[x] # prev'[u]
    <3>1. ASSUME NEW z \in Tickets, thread[z].who = c PROVE prev[z] # p
      BY <1>13, <1>15, <3>1
    <3>2. CASE x \in Tickets /\ u \in Tickets BY <1>5, <1>8, <1>14, <2>1, <3>2
    <3>3. CASE x = t /\ u \in Tickets BY <1>5, <1>6, <1>8, <2>1, <3>1, <3>3
    <3>4. CASE u = t /\ x \in Tickets BY <1>5, <1>6, <1>8, <2>1, <3>1, <3>4
    <3> QED BY <2>1, <3>2, <3>3, <3>4 DEF new
  <2>2. ASSUME NEW x \in new, prev'[x] # NoTicket PROVE thread'[prev'[x]].who = thread'[x].who
    <3>1. CASE x = t BY <1>5, <1>6, <1>8, <2>2, <3>1
    <3>2. CASE x \in Tickets
      <4>1. prev'[x] = prev[x] /\ prev[x] \in Tickets BY <1>1, <1>8, <2>2, <3>2
      <4> QED BY <1>5, <1>14, <2>2, <3>2, <4>1
    <3> QED BY <3>1, <3>2 DEF new
  <2>3. ASSUME NEW x \in new PROVE Live(thread'[x]) <=> \A u \in new : prev'[u] # x
    <3>1. CASE x = t
      <4>1. \A u \in Tickets : prev'[u] # t BY <1>1, <1>8
      <4>2. prev'[t] # t BY <1>8
      <4> QED BY <1>6, <3>1, <4>1, <4>2 DEF new
    <3>2. CASE x \in Tickets /\ x = p
      <4>1. t \in new /\ prev'[t] = x BY <1>8, <3>2 DEF new
      <4> QED BY <1>5, <3>2, <4>1
    <3>3. CASE x \in Tickets /\ x # p
      <4>1. prev'[t] # x BY <1>8, <3>3
      <4>2. (\A u \in new : prev'[u] # x) <=> \A u \in Tickets : prev[u] # x
        BY <1>8, <4>1 DEF new
      <4> QED BY <1>5, <1>14, <3>3, <4>2
    <3> QED BY <3>1, <3>2, <3>3 DEF new
  <2>4. \A x \in new : thread'[x].live <=> Live(thread'[x]) BY <1>7, ThreadRowFacts
  <2> QED BY <1>2, <2>1, <2>2, <2>3, <2>4 DEF OneLinePerCustomer
<1>17. OneLiveKey'
  <2>1. ASSUME NEW x \in new
        PROVE  \E u \in new :
                 /\ thread'[u].who = thread'[x].who /\ Live(thread'[u])
                 /\ \A z \in new : thread'[z].who = thread'[u].who /\ Live(thread'[z]) => z = u
    <3>1. CASE thread'[x].who = c
      <4>1. \A z \in Tickets : ~(thread'[z].who = c /\ Live(thread'[z])) BY <1>5, <1>10
      <4>2. \A z \in new : thread'[z].who = c /\ Live(thread'[z]) => z = t BY <4>1 DEF new
      <4>3. t \in new BY DEF new
      <4> QED BY <1>6, <3>1, <4>2, <4>3
    <3>2. CASE thread'[x].who # c
      <4>1. x \in Tickets /\ thread[x].who = thread'[x].who BY <1>5, <1>6, <3>2 DEF new
      <4>2. PICK u \in Tickets :
              /\ thread[u].who = thread[x].who /\ Live(thread[u])
              /\ \A z \in Tickets : thread[z].who = thread[u].who /\ Live(thread[z]) => z = u
        BY <1>12, <4>1
      <4>3. u # p BY <1>10, <3>2, <4>1, <4>2
      <4>4. u \in new /\ thread'[u].who = thread'[x].who /\ Live(thread'[u])
        BY <1>5, <4>1, <4>2, <4>3 DEF new
      <4>5. ASSUME NEW z \in new, thread'[z].who = thread'[u].who, Live(thread'[z]) PROVE z = u
        <5>1. z # t BY <1>6, <3>2, <4>4, <4>5
        <5>2. z \in Tickets BY <5>1 DEF new
        <5> QED BY <1>5, <4>2, <4>5, <5>2
      <4> QED BY <4>4, <4>5
    <3> QED BY <3>1, <3>2
  <2>2. \A u \in new : thread'[u] \in ThreadRow BY <1>7
  <2>3. ASSUME NEW x \in new
        PROVE  \E u \in new : /\ thread'[u] = [who |-> thread'[x].who, live |-> TRUE]
                              /\ \A z \in new : thread'[z] = thread'[u] => z = u
    <3>1. PICK u \in new :
            /\ thread'[u].who = thread'[x].who /\ Live(thread'[u])
            /\ \A z \in new : thread'[z].who = thread'[u].who /\ Live(thread'[z]) => z = u
      BY <2>1
    <3>2. thread'[u] = [who |-> thread'[x].who, live |-> TRUE]
      <4>1. \A r \in ThreadRow : \A d : r = [who |-> d, live |-> TRUE] <=> r.who = d /\ Live(r)
        BY ThreadRowFacts
      <4> QED BY <2>2, <3>1, <4>1
    <3>3. ASSUME NEW z \in new, thread'[z] = thread'[u] PROVE z = u BY <3>1, <3>3
    <3> QED BY <3>2, <3>3
  <2> QED BY <1>2, <2>3 DEF OneLiveKey
<1> QED BY <1>5, <1>6, <1>7, <1>8, <1>11, <1>16, <1>17 DEF new

(* Another request, at the commit of w.                                    *)
LEMMA OtherSound ==
  ASSUME IInv, NEW w \in Handlers, NEW g, Sound(g), Apart(handlers[w], g), NEW t,
         Sound(handlers[w]), handlers[w].phase = "commit",
         Tickets' = Tickets \cup {t}, \A u \in Tickets : thread'[u].who = thread[u].who,
         g.todo # <<>> => From[Head(g.todo)] \in Customers,
         handlers[w].minted => \A d \in Customers \ {From[Mine(w)]} : LiveOf(d)' = LiveOf(d),
         ~handlers[w].minted => \A d \in Customers : LiveOf(d)' = LiveOf(d),
         \A m : Stored(m)' <=> Stored(m) \/ m = Mine(w), UNCHANGED <<announced, greeted>>
  PROVE  Sound(g)'
<1>1. {g.ticket, g.prev, g.lock} \subseteq Tickets' \cup {NoTicket} BY DEF Sound
<1>2. g.ticket # NoTicket => thread'[g.ticket].who = thread[g.ticket].who BY DEF Sound
<1>3. g.prev # NoTicket => thread'[g.prev].who = thread[g.prev].who BY DEF Sound
<1>4. ASSUME g.minted, g.phase # "after"
      PROVE  LiveOf(From[Head(g.todo)])' = LiveOf(From[Head(g.todo)])
  <2>1. g.todo # <<>> BY <1>4 DEF Sound
  <2>2. handlers[w].minted => From[Head(g.todo)] # From[Mine(w)] BY <1>4 DEF Apart, Mine
  <2> QED BY <2>1, <2>2
<1>5. g.saved => ~Stored(Head(g.todo))'
  <2>1. handlers[w].saved BY DEF Sound
  <2>2. g.saved => Head(g.todo) # Mine(w) BY <2>1 DEF Apart, Mine
  <2> QED BY <2>2 DEF Sound
<1>6. g.phase = "after" => Stored(Head(g.todo))' BY DEF Sound
<1> QED BY <1>1, <1>2, <1>3, <1>4, <1>5, <1>6 DEF Sound

LEMMA CommitsInv == ASSUME IInv, NEW w \in Handlers, Commits(w) PROVE IInv'
<1> DEFINE h == handlers[w]
           t == IF h.minted THEN Cardinality(Tickets) + 1 ELSE h.ticket
           m == Mine(w)
           y == [Ready(h.todo, "after") EXCEPT !.ticket = t, !.minted = h.minted]
<1>1. h \in Handler /\ Sound(h) /\ h.phase = "commit" /\ h.saved BY HandlerFacts DEF Commits, Sound
<1>2. m \in Messages /\ m = Head(h.todo) /\ h.todo # <<>> /\ From[m] \in Customers
  BY <1>1, HandlerFacts, MessagesAssumption DEF Sound, Mine
<1>3. /\ rows' = IF h.minted THEN WithRow(rows, t, h.row) ELSE [rows EXCEPT ![t] = View(w)]
      /\ prev' = IF h.minted THEN WithRow(prev, t, h.prev) ELSE prev
      /\ messages' = WithRow(messages, m, t)
      /\ handlers' = [handlers EXCEPT ![w] = y]
      /\ UNCHANGED <<channel, hooks, online, announced, greeted, budget>>
  BY DEF Commits
<1>4. /\ ~Stored(m) /\ m \notin announced
      /\ h.row \in Row /\ Stamped(h.row) /\ h.prev \in Tickets \cup {NoTicket}
      /\ View(w) \in Row /\ Stamped(View(w))
  BY <1>1, <1>2, ViewFacts DEF Sound, Handler, IInv, Stored
<1>5. /\ h.minted => t \notin Tickets \cup {NoTicket} /\ t \in Nat
      /\ ~h.minted => t \in Tickets
      /\ NoTicket \notin Tickets /\ Tickets \subseteq Nat
  BY <1>1, NextId DEF Sound
<1>6. DOMAIN rows' = Tickets \cup {t} /\ rows' \in [Tickets \cup {t} -> Row]
      /\ \A u \in Tickets \cup {t} : Stamped(rows'[u])
  <2>1. CASE h.minted BY <1>3, <1>4, <1>5, <2>1 DEF IInv, ThreadsTypeOK, StampFollowsStatus, WithRow
  <2>2. CASE ~h.minted BY <1>3, <1>4, <1>5, <2>2 DEF IInv, ThreadsTypeOK, StampFollowsStatus
  <2> QED BY <2>1, <2>2
<1>7. Tickets' = Tickets \cup {t} BY <1>6 DEF Tickets
<1>8. h.minted => Continues(From[m], h.prev, t) BY <1>3, <1>6 DEF Commits, Continues
<1>9. h.minted => /\ LiveOf(From[m]) = {h.prev} \ {NoTicket}
                  /\ h.prev # NoTicket => thread[h.prev].who = From[m]
  BY <1>1, <1>2 DEF Sound
<1>10. ~h.minted => thread[t].who = From[m] /\ UNCHANGED <<thread, prev>> /\ t \in Tickets
  BY <1>1, <1>2, <1>5 DEF Sound, Commits
<1>11. y \in Handler
  <2>1. t \in Nat BY <1>5
  <2> QED BY <1>1, <2>1, AnyRowFacts DEF Ready, Handler, Phases, NoTicket
<1>12. /\ y.todo = h.todo /\ y.phase = "after" /\ y.ticket = t /\ y.prev = NoTicket /\ y.lock = NoTicket
       /\ y.row = AnyRow /\ y.minted = h.minted /\ y.saved = FALSE
  BY DEF Ready
<1> HIDE DEF y, t, m, h
<1>13. /\ thread' \in [Tickets \cup {t} -> ThreadRow]
       /\ prev' \in [Tickets \cup {t} -> Tickets \cup {t, NoTicket}]
       /\ \A u \in Tickets : thread'[u].who = thread[u].who /\ prev'[u] = prev[u]
       /\ thread'[t].who = From[m]
       /\ OneLinePerCustomer' /\ OneLiveKey'
       /\ h.minted => \A d \in Customers \ {From[m]} : LiveOf(d)' = LiveOf(d)
       /\ ~h.minted => \A d \in Customers : LiveOf(d)' = LiveOf(d)
  <2>1. CASE h.minted
    <3>1. /\ LiveOf(From[m]) = {h.prev} \ {NoTicket} /\ Continues(From[m], h.prev, t)
          /\ h.prev # NoTicket => thread[h.prev].who = From[m]
          /\ t \notin Tickets \cup {NoTicket} /\ NoTicket \notin Tickets
          /\ h.prev \in Tickets \cup {NoTicket}
      BY <1>4, <1>5, <1>8, <1>9, <2>1
    <3> QED BY <1>2, <2>1, <3>1, LineGrows
  <2>2. CASE ~h.minted
    <3>1. UNCHANGED <<thread, prev>> /\ Tickets' = Tickets /\ t \in Tickets BY <1>7, <1>10, <2>2
    <3>2. OneLinePerCustomer' /\ OneLiveKey' /\ \A d \in Customers : LiveOf(d)' = LiveOf(d)
      BY <3>1 DEF IInv, OneLinePerCustomer, OneLiveKey, LiveOf
    <3> QED BY <1>10, <2>2, <3>1, <3>2 DEF IInv, ThreadsTypeOK, ThreadRow
  <2> QED BY <2>1, <2>2
<1>14. /\ DOMAIN messages' = DOMAIN messages \cup {m} /\ messages'[m] = t
       /\ \A k \in DOMAIN messages : messages'[k] = messages[k]
       /\ \A k : Stored(k)' <=> Stored(k) \/ k = m
  BY <1>3, <1>4 DEF WithRow, Stored
<1>15. ThreadsTypeOK'
  <2>1. handlers' \in [Handlers -> Handler] BY <1>3, <1>11 DEF IInv, ThreadsTypeOK
  <2>2. DOMAIN messages' \subseteq Messages /\ \A k \in DOMAIN messages' : messages'[k] \in Tickets'
    BY <1>2, <1>7, <1>14 DEF IInv, ThreadsTypeOK
  <2>3. UNCHANGED <<channel, hooks, online, announced, greeted, budget>> BY <1>3
  <2> QED BY <1>6, <1>7, <1>13, <2>1, <2>2, <2>3 DEF IInv, ThreadsTypeOK, ThreadRow
<1>16. Numbered'
  <2>1. CASE h.minted BY <1>6, <2>1, NextId DEF t
  <2>2. CASE ~h.minted
    <3>1. Tickets' = Tickets BY <1>7, <1>10, <2>2
    <3> QED BY <3>1 DEF IInv, Numbered
  <2> QED BY <2>1, <2>2
<1>17. NoEmptyTicket'
  <2>1. \A k \in DOMAIN messages : messages[k] \in Tickets /\ thread[messages[k]].who = From[k]
    BY DEF IInv, ThreadsTypeOK, NoEmptyTicket
  <2>2. \A k \in DOMAIN messages' : thread'[messages'[k]].who = From[k]
    BY <1>13, <1>14, <2>1
  <2>3. ASSUME NEW u \in Tickets \cup {t}, prev'[u] # NoTicket
        PROVE  \E k \in DOMAIN messages' : messages'[k] = u
    <3>1. CASE u = t BY <1>14, <3>1
    <3>2. CASE u \in Tickets
      <4>1. PICK k \in DOMAIN messages : messages[k] = u
        BY <1>13, <2>3, <3>2 DEF IInv, NoEmptyTicket
      <4> QED BY <1>14, <4>1
    <3> QED BY <3>1, <3>2
  <2> QED BY <1>7, <2>2, <2>3 DEF NoEmptyTicket
<1>18. StampFollowsStatus' BY <1>6, <1>7 DEF StampFollowsStatus
<1>19. (announced \subseteq DOMAIN messages)' BY <1>3, <1>14 DEF IInv
<1>20. \A v \in Handlers : handlers'[v] = IF v = w THEN y ELSE handlers[v]
  BY <1>3 DEF IInv, ThreadsTypeOK
<1>21. ASSUME NEW v \in Handlers, v # w, NEW g, g = handlers[v]
       PROVE  Sound(g)' /\ Apart(g, y)
  <2>1. Sound(g) /\ Apart(h, g) /\ (g.todo # <<>> => From[Head(g.todo)] \in Customers)
    BY <1>21, HandlerFacts, MessagesAssumption DEF IInv, Exclusive, Mine, h
  <2>2. Sound(g)'
    BY <1>1, <1>3, <1>7, <1>13, <1>14, <2>1, OtherSound DEF h, m
  <2>3. g.phase = "after" => Head(g.todo) # Head(y.todo) BY <1>2, <1>4, <1>12, <2>1 DEF Sound
  <2>4. g.phase = "after" /\ g.minted /\ y.minted => g.ticket # y.ticket
    BY <1>5, <1>12, <2>1 DEF Sound
  <2> QED BY <1>12, <2>2, <2>3, <2>4 DEF Apart
<1>22. ASSUME NEW z, z = y PROVE Sound(z)'
  <2>1. h.minted => t \notin greeted BY <1>5 DEF IInv, ThreadsTypeOK
  <2>2. t # NoTicket BY <1>5
  <2>3. Stored(Head(z.todo))' /\ Head(z.todo) \notin announced' /\ thread'[z.ticket].who = From[Head(z.todo)]
    BY <1>2, <1>3, <1>4, <1>12, <1>13, <1>14, <1>22
  <2> QED BY <1>2, <1>3, <1>7, <1>12, <1>22, <2>1, <2>2, <2>3, AnyRowFacts DEF Sound
<1>23. \A v \in Handlers : \A g : v # w /\ g = handlers[v] => Sound(g)' /\ Apart(g, y) BY <1>21
<1>24. \A z : z = y => Sound(z)' BY <1>22
<1>25. HandlersSound' BY <1>20, <1>23, <1>24 DEF HandlersSound
<1>26. \A f, g : Apart(f, g) => Apart(g, f) BY ApartSymmetric
<1>27. \A u, v \in Handlers : u # v => Apart(handlers'[u], handlers'[v])
  BY <1>20, <1>23, <1>26 DEF IInv, Exclusive
<1>28. Exclusive' BY <1>27 DEF Exclusive, Apart
<1> QED BY <1>13, <1>15, <1>16, <1>17, <1>18, <1>19, <1>25, <1>28 DEF IInv

LEMMA AnnouncesInv == ASSUME IInv, NEW w \in Handlers, Announces(w) PROVE IInv'
<1> DEFINE h == handlers[w]
           y == NextMessage(w)
<1>1. h \in Handler /\ Sound(h) /\ h.phase = "after" BY HandlerFacts DEF Announces
<1>2. h.todo # <<>> /\ Mine(w) \in Messages /\ Tail(h.todo) \in Seq(Messages)
  BY <1>1, HandlerFacts DEF Sound
<1>3. y \in Handler /\ Sound(y) /\ ~y.saved /\ ~y.minted /\ y.phase # "after"
  BY <1>2, BeginFacts DEF NextMessage
<1>4. /\ announced' = announced \cup {Mine(w)}
      /\ greeted' = IF h.minted THEN greeted \cup {h.ticket} ELSE greeted
      /\ handlers' = [handlers EXCEPT ![w] = y]
      /\ UNCHANGED <<channel, data, hooks, online, budget>>
  BY DEF Announces
<1>5. Stored(Mine(w)) /\ h.ticket \in Tickets BY <1>1 DEF Sound, Mine
<1> HIDE DEF y
<1>6. ThreadsTypeOK' BY <1>2, <1>3, <1>4, <1>5 DEF IInv, ThreadsTypeOK, Tickets, data
<1>7. Numbered' /\ OneLinePerCustomer' BY <1>4 DEF IInv, Numbered, OneLinePerCustomer, Tickets, data
<1>8. NoEmptyTicket' /\ StampFollowsStatus' /\ OneLiveKey'
  BY <1>4 DEF IInv, NoEmptyTicket, StampFollowsStatus, OneLiveKey, Tickets, data
<1>9. (announced \subseteq DOMAIN messages)' BY <1>4, <1>5 DEF IInv, Stored, data
<1>10. \A v \in Handlers : handlers'[v] = IF v = w THEN y ELSE handlers[v]
  BY <1>4 DEF IInv, ThreadsTypeOK
<1>11. ASSUME NEW g, Sound(g), Apart(h, g) PROVE Sound(g)'
  <2>1. g.phase = "after" => Head(g.todo) \notin announced'
    BY <1>1, <1>4, <1>11 DEF Sound, Apart, Mine
  <2>2. g.phase = "after" /\ g.minted => g.ticket \notin greeted'
    BY <1>1, <1>4, <1>11 DEF Sound, Apart
  <2>3. Tickets' = Tickets /\ thread' = thread /\ messages' = messages BY <1>4 DEF Tickets, data
  <2> QED BY <1>11, <2>1, <2>2, <2>3 DEF Sound, LiveOf, Stored
<1>12. ASSUME NEW z, z = y PROVE Sound(z)'
  <2>1. Tickets' = Tickets /\ thread' = thread /\ messages' = messages BY <1>4 DEF Tickets, data
  <2> QED BY <1>3, <1>12, <2>1 DEF Sound, LiveOf, Stored
<1>13. \A g : Sound(g) /\ Apart(h, g) => Sound(g)' BY <1>11
<1>14. \A z : z = y => Sound(z)' BY <1>12
<1>15. \A v \in Handlers : v # w => Sound(handlers[v]) /\ Apart(h, handlers[v])
  BY DEF IInv, HandlersSound, Exclusive
<1>16. HandlersSound' BY <1>10, <1>13, <1>14, <1>15 DEF HandlersSound
<1>17. \A g : Apart(g, y) /\ Apart(y, g) BY <1>3 DEF Apart
<1>18. \A u, v \in Handlers : u # v => Apart(handlers'[u], handlers'[v])
  BY <1>10, <1>17 DEF IInv, Exclusive
<1>19. Exclusive' BY <1>18 DEF Exclusive, Apart
<1> QED BY <1>6, <1>7, <1>8, <1>9, <1>16, <1>19 DEF IInv

LEMMA CrashesInv == ASSUME IInv, Crashes PROVE IInv'
<1>1. /\ UNCHANGED <<channel, data, online, announced, greeted>> /\ budget' \in Nat /\ hooks' = {}
      /\ handlers' = [w \in Handlers |-> Rest]
  BY DEF Crashes, Spend, IInv, ThreadsTypeOK
<1>2. ThreadsTypeOK' BY <1>1, RestFacts DEF IInv, ThreadsTypeOK, Tickets, data
<1>3. Numbered' /\ OneLinePerCustomer' BY <1>1 DEF IInv, Numbered, OneLinePerCustomer, Tickets, data
<1>4. NoEmptyTicket' /\ StampFollowsStatus' /\ OneLiveKey' /\ (announced \subseteq DOMAIN messages)'
  BY <1>1 DEF IInv, NoEmptyTicket, StampFollowsStatus, OneLiveKey, Tickets, data
<1>5. \A z : Sound(z)' <=> Sound(z) BY <1>1 DEF Sound, LiveOf, Stored, Tickets, data
<1>6. HandlersSound' BY <1>1, <1>5, RestFacts DEF HandlersSound
<1>7. Apart(Rest, Rest) BY RestFacts DEF Apart
<1>8. Exclusive' BY <1>1, <1>7 DEF Exclusive, Apart
<1> QED BY <1>2, <1>3, <1>4, <1>6, <1>8 DEF IInv

(* A write of the desk: rows and scheduled drains only.                    *)
LEMMA RowsMove ==
  ASSUME IInv, rows' \in [Tickets -> Row], \A t \in Tickets : Stamped(rows'[t]),
         UNCHANGED <<channel, thread, prev, messages, handlers, online, announced, greeted>>,
         hooks' \subseteq Agents, budget' \in Nat
  PROVE  IInv'
<1>1. Tickets' = Tickets BY DEF Tickets
<1>2. ThreadsTypeOK' BY <1>1 DEF IInv, ThreadsTypeOK
<1>3. Numbered' /\ OneLinePerCustomer' BY <1>1 DEF IInv, Numbered, OneLinePerCustomer
<1>4. NoEmptyTicket' /\ OneLiveKey' /\ (announced \subseteq DOMAIN messages)'
  BY <1>1 DEF IInv, NoEmptyTicket, OneLiveKey
<1>5. StampFollowsStatus' BY <1>1 DEF StampFollowsStatus
<1>6. \A z : Sound(z)' <=> Sound(z) BY <1>1 DEF Sound, LiveOf, Stored
<1>7. HandlersSound' BY <1>6 DEF IInv, HandlersSound
<1>8. Exclusive' BY DEF IInv, Exclusive, Apart
<1> QED BY <1>2, <1>3, <1>4, <1>5, <1>7, <1>8 DEF IInv

LEMMA RowMoves ==
  ASSUME IInv, NEW t \in Tickets, NEW row \in Row, Stamped(row), rows' = [rows EXCEPT ![t] = row],
         UNCHANGED <<channel, thread, prev, messages, handlers, online, announced, greeted>>,
         hooks' \subseteq Agents, budget' \in Nat
  PROVE  IInv'
<1>1. rows' \in [Tickets -> Row] /\ \A u \in Tickets : Stamped(rows'[u])
  BY DEF IInv, ThreadsTypeOK, StampFollowsStatus
<1> QED BY <1>1, RowsMove

LEMMA RowFacts == ASSUME IInv, NEW t \in Tickets PROVE rows[t] \in Row /\ Stamped(rows[t])
BY DEF IInv, ThreadsTypeOK, StampFollowsStatus

LEMMA GivesFacts ==
  ASSUME IInv, NEW t \in Tickets, NEW a \in Agents, Gives(t, a)
  PROVE  /\ Assigned(rows[t], a) \in Row /\ Stamped(Assigned(rows[t], a))
         /\ rows' = [rows EXCEPT ![t] = Assigned(rows[t], a)]
<1>1. rows[t] \in Row /\ Stamped(rows[t]) BY RowFacts
<1>2. Assigned(rows[t], a) \in Row BY <1>1, WriterTypes DEF Owners
<1>3. Stamped(Assigned(rows[t], a)) BY <1>1 DEF Assigned, Stamped, Row
<1> QED BY <1>2, <1>3 DEF Gives

LEMMA DeskInv == ASSUME IInv, Desk PROVE IInv'
<1>1. ASSUME NEW t \in Tickets, WindowPasses(t) PROVE IInv'
  <2> DEFINE row == [rows[t] EXCEPT !.resolved_at = "old"]
  <2>1. row \in Row /\ Stamped(row) BY <1>1, RowFacts DEF Row, Stamped, WindowPasses
  <2>2. rows' = [rows EXCEPT ![t] = row] BY <1>1 DEF WindowPasses
  <2>3. UNCHANGED <<channel, thread, prev, messages, handlers, online, announced, greeted>>
        /\ hooks' \subseteq Agents /\ budget' \in Nat
    BY <1>1 DEF WindowPasses, IInv, ThreadsTypeOK
  <2> HIDE DEF row
  <2> QED BY <2>1, <2>2, <2>3, RowMoves
<1>2. ASSUME NEW t \in Tickets, NEW dto \in Dtos, Patches(t, dto) PROVE IInv'
  <2> DEFINE row == Patched(rows[t], rows[t], dto)
  <2>1. rows[t] \in Row /\ Stamped(rows[t]) BY RowFacts
  <2>2. dto \in PatchDto /\ (dto.status = "WAITING" <=> dto.waiting_action # "null")
    BY ThreadDtosAssumption
  <2>3. row \in Row BY <2>1, <2>2, PatchedType
  <2>4. Stamped(row)
    <3>1. CASE ChangesStatus(rows[t], dto)
      BY <2>1, <2>2, <3>1 DEF Patched, PatchedResolvedAt, Stamped, ChangesStatus, PatchDto, Row
    <3>2. CASE ~ChangesStatus(rows[t], dto) BY <2>1, <3>2 DEF Patched, Stamped, Row
    <3> QED BY <3>1, <3>2
  <2>5. rows' = [rows EXCEPT ![t] = row] BY <1>2 DEF Patches
  <2>6. UNCHANGED <<channel, thread, prev, messages, handlers, online, announced, greeted>>
        /\ hooks' \subseteq Agents /\ budget' \in Nat
    BY <1>2 DEF Patches, Spend, IInv, ThreadsTypeOK
  <2> HIDE DEF row
  <2> QED BY <2>3, <2>4, <2>5, <2>6, RowMoves
<1>3. ASSUME NEW t \in Tickets, NEW a \in Agents, CapacitySweep(t, a) PROVE IInv'
  <2>1. Gives(t, a) BY <1>3 DEF CapacitySweep
  <2>2. UNCHANGED <<channel, thread, prev, messages, handlers, online, announced, greeted>>
        /\ hooks' \subseteq Agents /\ budget' \in Nat
    BY <1>3 DEF CapacitySweep, IInv, ThreadsTypeOK
  <2> QED BY <2>1, <2>2, GivesFacts, RowMoves
<1>4. ASSUME NEW a \in Agents, Drains(a) PROVE IInv'
  <2>1. UNCHANGED <<channel, thread, prev, messages, handlers, online, announced, greeted>>
        /\ hooks' \subseteq Agents /\ budget' \in Nat
    BY <1>4 DEF Drains, IInv, ThreadsTypeOK
  <2>2. ASSUME NEW t \in Tickets, Gives(t, a) PROVE IInv' BY <2>1, <2>2, GivesFacts, RowMoves
  <2>3. CASE rows' = rows BY <2>1, <2>3, RowsMove DEF IInv, ThreadsTypeOK, StampFollowsStatus
  <2> QED BY <1>4, <2>2, <2>3 DEF Drains
<1>5. ASSUME NEW a \in Agents, PresenceChanges(a) PROVE IInv'
  <2>1. /\ UNCHANGED <<channel, data, handlers, hooks, announced, greeted>>
        /\ online' \subseteq Agents /\ budget' \in Nat
    BY <1>5 DEF PresenceChanges, Spend, IInv, ThreadsTypeOK
  <2>2. ThreadsTypeOK' BY <2>1 DEF IInv, ThreadsTypeOK, Tickets, data
  <2>3. Numbered' /\ OneLinePerCustomer' BY <2>1 DEF IInv, Numbered, OneLinePerCustomer, Tickets, data
  <2>4. NoEmptyTicket' /\ StampFollowsStatus' /\ OneLiveKey' /\ (announced \subseteq DOMAIN messages)'
    BY <2>1 DEF IInv, NoEmptyTicket, StampFollowsStatus, OneLiveKey, Tickets, data
  <2>5. \A z : Sound(z)' <=> Sound(z) BY <2>1 DEF Sound, LiveOf, Stored, Tickets, data
  <2>6. HandlersSound' BY <2>1, <2>5 DEF IInv, HandlersSound
  <2>7. Exclusive' BY <2>1 DEF IInv, Exclusive, Apart
  <2> QED BY <2>2, <2>3, <2>4, <2>6, <2>7 DEF IInv
<1> QED BY <1>1, <1>2, <1>3, <1>4, <1>5 DEF Desk

LEMMA NextInv == IInv /\ [ThreadsNext]_threadVars => IInv'
<1> SUFFICES ASSUME IInv, [ThreadsNext]_threadVars PROVE IInv' OBVIOUS
<1>1. CASE UNCHANGED threadVars
  <2>1. UNCHANGED <<channel, thread, prev, messages, handlers, online, announced, greeted, rows, hooks, budget>>
    BY <1>1 DEF threadVars
  <2> QED BY <2>1, RowsMove DEF IInv, ThreadsTypeOK, StampFollowsStatus
<1>2. ASSUME NEW w \in Handlers, HandlerStep(w) \/ Fails(w) \/ \E p \in Payloads : Receives(w, p)
      PROVE  IInv'
  <2>1. ASSUME NEW p \in Payloads, Receives(w, p) PROVE IInv' BY <2>1, ReceivesInv
  <2>2. CASE FindsChannel(w) \/ CreatesChannel(w) BY <2>2, ChannelInv
  <2>3. CASE Checks(w) BY <2>3, ChecksInv
  <2>4. CASE Finds(w) BY <2>4, FindsInv
  <2>5. CASE Reopens(w) BY <2>5, ReopensInv
  <2>6. CASE Archives(w) BY <2>6, ArchivesInv
  <2>7. CASE Saves(w) BY <2>7, SavesInv
  <2>8. CASE WakeReads(w) BY <2>8, WakeReadsInv
  <2>9. CASE WakeWrites(w) BY <2>9, WakeWritesInv
  <2>10. CASE Commits(w) BY <2>10, CommitsInv
  <2>11. CASE Announces(w) BY <2>11, AnnouncesInv
  <2>12. CASE Conflicts(w) \/ Fails(w) \/ DeadlockDetected(w) BY <2>12, EndsInv
  <2>13. ASSUME NEW tm \in Teams, Mints(w, tm) PROVE IInv' BY <2>13, MintsInv
  <2> QED BY <1>2, <2>1, <2>2, <2>3, <2>4, <2>5, <2>6, <2>7, <2>8, <2>9, <2>10, <2>11, <2>12, <2>13
          DEF HandlerStep
<1>3. CASE Crashes BY <1>3, CrashesInv
<1>4. CASE Desk BY <1>4, DeskInv
<1> QED BY <1>1, <1>2, <1>3, <1>4 DEF ThreadsNext

(* The inductive invariant holds in every state of every behaviour.        *)
THEOREM Invariance == ThreadsSpec => []IInv
BY InitInv, NextInv, PTL DEF ThreadsSpec

(* For any number of customers and of deliveries at work at once: each     *)
(* customer's tickets form one line whose last alone takes the next        *)
(* message, every continuation has the message that minted it, and         *)
(* resolution stamps go with RESOLVED                                      *)
(* (whatsapp-ingest.service.ts 577-638).                                   *)
THEOREM ThreadsCorrect == ThreadsSpec => []ThreadsSound
<1>1. IInv => ThreadsSound BY DEF IInv, ThreadsSound
<1> QED BY <1>1, Invariance, PTL

(* However often and however much at once Meta delivers a message, its     *)
(* events are emitted once and the bot is started once for a ticket        *)
(* (whatsapp-ingest.service.ts 250-258, 340-368, 448).                     *)
THEOREM AnnouncedCorrect == ThreadsSpec => AnnouncedOnce
<1> DEFINE Once ==
      \A w \in Handlers :
        handlers[w].phase = "after" /\ handlers'[w] # handlers[w] /\ announced' \cup greeted' # {} =>
          \/ handlers' = [v \in Handlers |-> Rest]
          \/ Mine(w) \notin announced /\ (handlers[w].minted => handlers[w].ticket \notin greeted)
<1>1. IInv => Once
  <2>1. SUFFICES ASSUME IInv, NEW w \in Handlers, handlers[w].phase = "after"
                 PROVE  /\ Mine(w) \notin announced
                        /\ handlers[w].minted => handlers[w].ticket \notin greeted
    OBVIOUS
  <2> QED BY <2>1, HandlerFacts DEF Sound, Mine
<1>2. IInv => [Once]_threadVars BY <1>1
<1> HIDE DEF Once
<1>3. [][Once]_threadVars => AnnouncedOnce BY PTL DEF Once, AnnouncedOnce
<1>4. ThreadsSpec => [][Once]_threadVars BY <1>2, Invariance, PTL DEF ThreadsSpec
<1> QED BY <1>3, <1>4

(***************************************************************************)
(* Sequences of any values                                                 *)
(***************************************************************************)
Listed(s) == s \in Seq(Range(s))

LEMMA ListedSeq == ASSUME NEW S, NEW s \in Seq(S) PROVE Listed(s)
BY SeqOfRange DEF Listed

LEMMA ListedFacts ==
  ASSUME NEW s, Listed(s)
  PROVE  Len(s) \in Nat /\ DOMAIN s = 1 .. Len(s)
BY LenProperties DEF Listed

LEMMA ListedBy ==
  ASSUME NEW n \in Nat, NEW f, f = [i \in 1 .. n |-> f[i]]
  PROVE  Listed(f) /\ Len(f) = n /\ DOMAIN f = 1 .. n
<1>1. f \in [1 .. n -> Range(f)] BY DEF Range
<1>2. f \in Seq(Range(f)) BY <1>1 DEF Seq
<1> QED BY <1>1, <1>2, LenProperties DEF Listed

LEMMA ConcatListed ==
  ASSUME NEW s, NEW t, Listed(s), Listed(t)
  PROVE  /\ Listed(s \o t) /\ Len(s \o t) = Len(s) + Len(t)
         /\ \A i \in 1 .. Len(s) : (s \o t)[i] = s[i]
         /\ \A i \in 1 .. Len(t) : (s \o t)[Len(s) + i] = t[i]
<1> DEFINE U == Range(s) \cup Range(t)
<1>1. s \in Seq(U) /\ t \in Seq(U) BY SeqMonotonic DEF Listed
<1>2. Len(s) \in Nat /\ Len(t) \in Nat BY ListedFacts
<1> HIDE DEF U
<1>3. s \o t \in Seq(U) /\ Len(s \o t) = Len(s) + Len(t)
      /\ \A i \in 1 .. Len(s) + Len(t) : (s \o t)[i] = IF i <= Len(s) THEN s[i] ELSE t[i - Len(s)]
  BY <1>1, ConcatProperties
<1>4. \A i \in 1 .. Len(s) : (s \o t)[i] = s[i] BY <1>2, <1>3
<1>5. \A i \in 1 .. Len(t) : (s \o t)[Len(s) + i] = t[i]
  <2> TAKE i \in 1 .. Len(t)
  <2>1. Len(s) + i \in 1 .. Len(s) + Len(t) /\ ~(Len(s) + i <= Len(s)) /\ Len(s) + i - Len(s) = i BY <1>2
  <2> QED BY <1>3, <2>1
<1>6. Listed(s \o t) BY <1>3, ListedSeq
<1> QED BY <1>3, <1>4, <1>5, <1>6

LEMMA RemoveListed ==
  ASSUME NEW s, Listed(s), NEW i \in 1 .. Len(s)
  PROVE  /\ Listed(RemoveAt(s, i)) /\ Len(RemoveAt(s, i)) = Len(s) - 1
         /\ \A j \in 1 .. Len(s) - 1 : RemoveAt(s, i)[j] = s[IF j < i THEN j ELSE j + 1]
<1> DEFINE S == Range(s)
<1> USE DEF Listed
<1>1. Len(s) \in Nat /\ DOMAIN s = 1 .. Len(s) /\ \A j \in 1 .. Len(s) : s[j] \in S BY ListedFacts DEF Range
<1> HIDE DEF S
<1> DEFINE a == SubSeq(s, 1, i - 1)
           b == SubSeq(s, i + 1, Len(s))
           n == Len(s) - i
<1>2. a \in Seq(S) /\ Len(a) = i - 1 /\ \A j \in 1 .. i - 1 : a[j] = s[j]
  BY <1>1, SubSeqProperties
<1>3. b \in Seq(S) /\ Len(b) = n /\ \A j \in 1 .. n : b[j] = s[i + j]
  <2>1. \A j \in i + 1 .. Len(s) : s[j] \in S BY <1>1
  <2>2. b \in Seq(S) /\ Len(b) = (IF i + 1 <= Len(s) THEN Len(s) - (i + 1) + 1 ELSE 0)
        /\ \A j \in 1 .. Len(s) - (i + 1) + 1 : b[j] = s[i + 1 + j - 1]
    BY <1>1, <2>1, SubSeqProperties
  <2>3. Len(s) - (i + 1) + 1 = n /\ \A j \in 1 .. n : i + 1 + j - 1 = i + j BY <1>1
  <2>4. n = IF i + 1 <= Len(s) THEN n ELSE 0
    <3>1. Len(s) \in Nat /\ i \in Nat /\ i <= Len(s) BY <1>1
    <3>2. CASE i = Len(s) BY <1>1, <3>2
    <3>3. CASE i # Len(s)
      <4>1. i + 1 <= Len(s) BY ONLY <3>1, <3>3
      <4> QED BY <4>1
    <3> QED BY <3>2, <3>3
  <2> HIDE DEF b, n
  <2> QED BY <2>2, <2>3, <2>4
<1>n. n \in Nat /\ (i - 1) + n = Len(s) - 1 BY <1>1
<1>r. RemoveAt(s, i) = a \o b BY DEF RemoveAt
<1> HIDE DEF a, b
<1>4. a \o b \in Seq(S) /\ Len(a \o b) = Len(s) - 1
      /\ \A j \in 1 .. Len(s) - 1 : (a \o b)[j] = IF j <= i - 1 THEN a[j] ELSE b[j - (i - 1)]
  <2>2. a \o b \in Seq(S) /\ Len(a \o b) = Len(a) + Len(b)
        /\ \A j \in 1 .. Len(a) + Len(b) : (a \o b)[j] = IF j <= Len(a) THEN a[j] ELSE b[j - Len(a)]
    BY <1>2, <1>3, ConcatProperties
  <2> HIDE DEF n
  <2> QED BY <2>2, <1>2, <1>3, <1>n
<1>5. \A j \in 1 .. Len(s) - 1 : (a \o b)[j] = s[IF j < i THEN j ELSE j + 1]
  <2> TAKE j \in 1 .. Len(s) - 1
  <2>1. CASE j < i BY <1>1, <1>2, <1>4, <2>1
  <2>2. CASE ~(j < i)
    <3>1. ~(j <= i - 1) /\ j - (i - 1) \in 1 .. n /\ i + (j - (i - 1)) = j + 1 BY <1>1, <2>2
    <3> HIDE DEF n
    <3>2. (a \o b)[j] = b[j - (i - 1)] BY <1>4, <3>1
    <3>3. b[j - (i - 1)] = s[i + (j - (i - 1))] BY <1>3, <3>1
    <3> QED BY <2>2, <3>1, <3>2, <3>3
  <2> QED BY <2>1, <2>2
<1> QED BY <1>4, <1>5, <1>r, ListedSeq

LEMMA EnumeratesSet ==
  ASSUME NEW S, IsFiniteSet(S)
  PROVE  Listed(SetToSeq(S)) /\ \A i \in DOMAIN SetToSeq(S) : SetToSeq(S)[i] \in S
<1>1. PICK f \in Bijection(1 .. Cardinality(S), S) : TRUE
  BY FS_CardinalityType DEF ExistsBijection
<1>2. f \in [1 .. Cardinality(S) -> S] /\ IsInjective(f)
  BY <1>1 DEF Bijection, Injection, IsInjective
<1>3. SetToSeq(S) \in [1 .. Cardinality(S) -> S] BY <1>2 DEF SetToSeq
<1>4. Cardinality(S) \in Nat BY FS_CardinalityType
<1>5. SetToSeq(S) \in Seq(S) BY <1>3, <1>4 DEF Seq
<1> QED BY <1>3, <1>5, ListedSeq

LEMMA OneElement == ASSUME NEW x PROVE SetToSeq({x}) = <<x>>
<1>1. Cardinality({x}) = 1 BY FS_Singleton
<1>2. <<x>> \in [1 .. 1 -> {x}] /\ IsInjective(<<x>>) BY DEF IsInjective
<1>3. SetToSeq({x}) \in [1 .. 1 -> {x}] BY <1>1, <1>2 DEF SetToSeq
<1> QED BY <1>3

LEMMA NoElement == SetToSeq({}) = <<>>
<1>1. Cardinality({}) = 0 BY FS_EmptySet
<1>2. <<>> \in [1 .. 0 -> {}] /\ IsInjective(<<>>) BY DEF IsInjective
<1>3. SetToSeq({}) \in [1 .. 0 -> {}] BY <1>1, <1>2 DEF SetToSeq
<1> QED BY <1>3

LEMMA NothingListed == Listed(<<>>) /\ DOMAIN <<>> = {}
<1>1. Listed(<<>>) /\ Len(<<>>) = 0 BY EmptySeq, ListedSeq
<1> QED BY <1>1, ListedFacts

LEMMA SingleListed == ASSUME NEW x PROVE Listed(<<x>>) /\ DOMAIN <<x>> = {1} /\ <<x>>[1] = x
<1>1. <<x>> \in Seq({x}) OBVIOUS
<1>2. Listed(<<x>>) BY <1>1, ListedSeq
<1>3. DOMAIN <<x>> = 1 .. 1 /\ 1 .. 1 = {1} OBVIOUS
<1>4. <<x>>[1] = x OBVIOUS
<1> QED BY <1>2, <1>3, <1>4

LEMMA EmitListed ==
  ASSUME NEW rs, NEW es, Listed(rs), Listed(es)
  PROVE  /\ Listed(Emit(rs, es)) /\ Len(Emit(rs, es)) = Len(rs) + Len(es)
         /\ \A i \in 1 .. Len(rs) : Emit(rs, es)[i] = rs[i]
         /\ \A i \in 1 .. Len(es) : Emit(rs, es)[Len(rs) + i] = Run(es[i])
<1> DEFINE fresh == [i \in DOMAIN es |-> Run(es[i])]
<1>1. Len(es) \in Nat /\ DOMAIN es = 1 .. Len(es) BY ListedFacts
<1>2. fresh = [i \in 1 .. Len(es) |-> fresh[i]] BY <1>1
<1>3. Listed(fresh) /\ Len(fresh) = Len(es) BY <1>1, <1>2, ListedBy
<1>4. \A i \in 1 .. Len(es) : fresh[i] = Run(es[i]) BY <1>1
<1>5. Emit(rs, es) = rs \o fresh BY DEF Emit
<1> HIDE DEF fresh
<1>6. /\ Listed(rs \o fresh) /\ Len(rs \o fresh) = Len(rs) + Len(fresh)
      /\ \A i \in 1 .. Len(rs) : (rs \o fresh)[i] = rs[i]
      /\ \A i \in 1 .. Len(fresh) : (rs \o fresh)[Len(rs) + i] = fresh[i]
  BY <1>3, ConcatListed
<1> QED BY <1>3, <1>4, <1>5, <1>6

(***************************************************************************)
(* The rules and the runs                                                  *)
(***************************************************************************)
RulesSaved == Listed(rules) /\ \A k \in DOMAIN rules : RuleSaved(rules[k])

TagSet(tags) == tags \subseteq STRING /\ IsFiniteSet(tags)
RowFormed(row) ==
  /\ row = [tags |-> row.tags, status |-> row.status, team |-> row.team, owner |-> row.owner]
  /\ TagSet(row.tags) /\ row.status \in {"OPEN", "RESOLVED"}

EventFormed(e) ==
  /\ e = [event |-> e.event, tag |-> e.tag, phone |-> e.phone, hour |-> e.hour, image |-> e.image,
          key |-> e.key, ticket |-> e.ticket]
  /\ e.ticket = [tags |-> e.ticket.tags, status |-> e.ticket.status, team |-> e.ticket.team,
                 owner |-> e.ticket.owner, channel |-> e.ticket.channel]
  /\ TagSet(e.ticket.tags)

RunFormed(r) ==
  /\ r = [e |-> r.e, phase |-> r.phase, todo |-> r.todo, at |-> r.at, acts |-> r.acts,
          added |-> r.added, moved |-> r.moved, later |-> r.later]
  /\ EventFormed(r.e)
  /\ r.phase \in {"new", "eval", "written"}
  /\ r.acts \in Seq(Action) /\ \A m \in DOMAIN r.acts : ActionValid(r.acts[m])
  /\ TagSet(r.added)
  /\ r.phase = "new" => r.acts = <<>> /\ r.todo = {} /\ r.at = <<0, 0>>
  /\ r.phase = "written" => r.acts # <<>>

(* The places still to come are of rules on the event, after the one that  *)
(* is carried out.                                                         *)
OnEvent(p, r) == p[1] \in DOMAIN rules /\ p \in Places(p[1]) /\ rules[p[1]].on = r.e.event
RunAhead(r) ==
  /\ r.at = <<0, 0>> \/ OnEvent(r.at, r)
  /\ r.acts # <<>> => OnEvent(r.at, r)
  /\ \A p \in r.todo : OnEvent(p, r) /\ Before(r.at, p)

(* What was carried out for a post lies behind, case or else.              *)
Behind(s, r) ==
  \/ s.at[1] < r.at[1]
  \/ s.at[1] = r.at[1] /\ s.at[2] < r.at[2] /\ ~IsElse(s.at) /\ ~IsElse(r.at)
  \/ s.at[1] = r.at[1] /\ s.at[2] = r.at[2] /\ s.at[3] > Len(r.acts)
SendFormed(s) ==
  s.at[1] \in DOMAIN rules /\ s.at[2] \in 1 .. Len(rules[s.at[1]].cases) + 1 /\ s.at[3] \in Nat
SendBehind(s, r) == s.key # <<>> /\ s.key = r.e.key /\ rules[s.at[1]].on = r.e.event => Behind(s, r)

(* The tags the ticket has and the event lacks came after it.              *)
Looked(r) == IF r.phase = "written" THEN Refreshed(Head(r.acts), r.e.ticket) ELSE r.e.ticket
TagsFollowed(r) == HasTicket(r.e) => ticket.tags \ Looked(r).tags \subseteq r.later

GoneOn(r, x) ==
  (r.acts # <<>> /\ x = r) \/ (r.acts = <<>> /\ \E p \in Firing(r) : x = TakesUp(r, p))

LEMMA PlaceFacts ==
  ASSUME RulesSaved, NEW k \in DOMAIN rules, NEW p \in Places(k)
  PROVE  /\ k \in Nat \ {0} /\ Len(rules[k].cases) \in Nat /\ p[1] = k /\ p[2] \in 1 .. Len(rules[k].cases) + 1
         /\ p = <<p[1], p[2]>>
         /\ ActsAt(p) \in Seq(Action) /\ \A m \in DOMAIN ActsAt(p) : ActionValid(ActsAt(p)[m])
<1>1. RuleSaved(rules[k]) /\ k \in 1 .. Len(rules) /\ Len(rules) \in Nat BY ListedFacts DEF RulesSaved
<1>2. Len(rules[k].cases) \in Nat /\ DOMAIN rules[k].cases = 1 .. Len(rules[k].cases)
  BY <1>1, ListedFacts DEF RuleSaved, Listed
<1>3. p[1] = k /\ p[2] \in 1 .. Len(rules[k].cases) + 1 /\ p = <<p[1], p[2]>> BY DEF Places
<1>4. CASE IsElse(p) BY <1>1, <1>3, <1>4 DEF ActsAt, RuleSaved, CasesValid
<1>5. CASE ~IsElse(p)
  <2>1. p[2] \in DOMAIN rules[k].cases BY <1>2, <1>3, <1>5 DEF IsElse
  <2> QED BY <1>1, <1>3, <1>5, <2>1 DEF ActsAt, RuleSaved, CasesValid
<1>6. k \in Nat \ {0} BY <1>1
<1> QED BY <1>2, <1>3, <1>4, <1>5, <1>6

LEMMA ContinuesFormed ==
  ASSUME RulesSaved, NEW r, NEW x, RunFormed(r), RunAhead(r), r.phase = "eval", GoneOn(r, x)
  PROVE  /\ RunFormed(x) /\ RunAhead(x) /\ x.phase = "eval" /\ x.e = r.e /\ x.later = r.later
         /\ TagsFollowed(r) => TagsFollowed(x)
         /\ \A s : SendFormed(s) /\ SendBehind(s, r) => SendBehind(s, x)
<1>1. CASE x = r BY <1>1
<1>2. CASE x # r
  <2>1. PICK p \in Firing(r) : x = TakesUp(r, p) BY <1>2 DEF GoneOn
  <2>2. r.acts = <<>> BY <1>2 DEF GoneOn
  <2>3. p \in r.todo /\ Fires(r, p) BY <2>1 DEF Firing
  <2>4. OnEvent(p, r) /\ Before(r.at, p) BY <2>3 DEF RunAhead
  <2>5. /\ p[1] \in Nat \ {0} /\ Len(rules[p[1]].cases) \in Nat /\ p[2] \in 1 .. Len(rules[p[1]].cases) + 1
        /\ ActsAt(p) \in Seq(Action) /\ \A m \in DOMAIN ActsAt(p) : ActionValid(ActsAt(p)[m])
    BY <2>4, PlaceFacts DEF OnEvent
  <2>6. x = [e |-> r.e, phase |-> r.phase, todo |-> {q \in r.todo : Before(p, q)}, at |-> p, acts |-> ActsAt(p),
             added |-> r.added, moved |-> r.moved, later |-> r.later]
    BY <2>1 DEF TakesUp, RunFormed
  <2>7. RunFormed(x) BY <2>5, <2>6 DEF RunFormed
  <2>8. RunAhead(x) BY <2>4, <2>6 DEF RunAhead, OnEvent
  <2>9. TagsFollowed(r) => TagsFollowed(x) BY <2>6 DEF TagsFollowed, Looked
  <2>10. ASSUME NEW s, SendFormed(s), SendBehind(s, r) PROVE SendBehind(s, x)
    <3> SUFFICES ASSUME Behind(s, r) PROVE Behind(s, x) BY <2>6, <2>10 DEF SendBehind
    <3>1. s.at[1] \in Nat \ {0} /\ s.at[2] \in Nat BY <2>10, ListedFacts DEF SendFormed, RulesSaved
    <3>2. x.at = p BY <2>6
    <3>3. CASE s.at[1] < r.at[1]
      <4>1. r.at # <<0, 0>> BY <3>1, <3>3
      <4>2. r.at[1] \in Nat /\ r.at[1] <= p[1] BY <4>1, <2>4, <2>5, PlaceFacts DEF RunAhead, OnEvent, Before
      <4> QED BY <3>1, <3>2, <3>3, <4>2, <2>5 DEF Behind
    <3>4. CASE s.at[1] = r.at[1]
      <4>1. r.at # <<0, 0>> BY <3>1, <3>4
      <4>2. OnEvent(r.at, r) BY <4>1 DEF RunAhead
      <4>3. r.at[1] \in Nat /\ r.at[2] \in Nat BY <4>2, PlaceFacts DEF OnEvent
      <4>4. CASE p[1] = r.at[1]
        <5>1. ~IsElse(p) BY <2>3, <4>4 DEF Fires
        <5>2. r.at[2] < p[2] BY <2>4, <2>5, <4>3, <4>4 DEF Before
        <5>3. p[2] <= Len(rules[p[1]].cases) BY <2>5, <5>1 DEF IsElse
        <5>4. ~IsElse(r.at) BY <2>5, <4>3, <4>4, <5>2, <5>3 DEF IsElse
        <5>5. s.at[2] <= r.at[2] BY <3>1, <3>4, <4>3 DEF Behind
        <5>6. ~IsElse(s.at)
          <6>1. s.at[1] = p[1] BY <3>4, <4>4
          <6>2. p[2] \in Nat BY <2>5
          <6> DEFINE last == Len(rules[p[1]].cases)
          <6>3. last \in Nat /\ p[2] <= last BY <2>5, <5>3
          <6> HIDE DEF last
          <6>4. s.at[2] <= last BY <3>1, <4>3, <5>2, <5>5, <6>2, <6>3
          <6> QED BY <3>1, <6>1, <6>3, <6>4 DEF IsElse, last
        <5> QED BY <3>1, <3>2, <3>4, <4>3, <4>4, <5>1, <5>2, <5>5, <5>6, <2>5 DEF Behind
      <4>5. CASE p[1] # r.at[1] BY <2>4, <2>5, <3>1, <3>2, <3>4, <4>3, <4>5 DEF Before, Behind
      <4> QED BY <4>4, <4>5
    <3> QED BY <3>3, <3>4 DEF Behind
  <2> QED BY <2>6, <2>7, <2>8, <2>9, <2>10
<1> QED BY <1>1, <1>2

(***************************************************************************)
(* How a step of an evaluation leaves the runs                             *)
(***************************************************************************)
KeyRaised(key, event) == key # <<>> => \E f \in raised : f.key = key /\ f.event = event
RunSound(r) ==
  /\ RunFormed(r) /\ RunAhead(r) /\ TagsFollowed(r) /\ KeyRaised(r.e.key, r.e.event)
  /\ \A j \in DOMAIN sends : SendBehind(sends[j], r)
OnlyRun(r, q) == r.e.key # <<>> => r.e.key # q.e.key \/ r.e.event # q.e.event
RunsSound ==
  /\ Listed(evals) /\ \A i \in DOMAIN evals : RunSound(evals[i])
  /\ \A i, j \in DOMAIN evals : i # j => OnlyRun(evals[i], evals[j])

(* An event of a ticket with those tags, raised by a write.                *)
EventFresh(e, tags) == EventFormed(e) /\ e.key = <<>> /\ tags \subseteq e.ticket.tags

(* Each run after the step is one of the others, goes on from r or is new. *)
Origin(from, i, r, events) ==
  /\ \A j, k \in DOMAIN evals' : j # k => from[j] # from[k]
  /\ \A j \in DOMAIN evals' :
       \/ from[j] \in DOMAIN evals \ {i} /\ evals'[j] = evals[from[j]]
       \/ from[j] = i /\ GoneOn(r, evals'[j])
       \/ \E m \in DOMAIN events : from[j] = Len(evals) + m /\ evals'[j] = Run(events[m])

LEMMA GoesOnFrom ==
  ASSUME Listed(evals), NEW i \in DOMAIN evals, NEW r, NEW events, Listed(events), GoesOn(i, r, events)
  PROVE  Listed(evals') /\ \E from : Origin(from, i, r, events)
<1>0. Len(evals) \in Nat /\ DOMAIN evals = 1 .. Len(evals) /\ Len(events) \in Nat /\ DOMAIN events = 1 .. Len(events)
  BY ListedFacts
<1>1. ASSUME NEW x, GoneOn(r, x), evals' = Emit([evals EXCEPT ![i] = x], events)
      PROVE  Listed(evals') /\ \E from : Origin(from, i, r, events)
  <2> DEFINE kept == [evals EXCEPT ![i] = x]
  <2>1. kept = [j \in 1 .. Len(evals) |-> kept[j]] BY <1>0
  <2>2. Listed(kept) /\ Len(kept) = Len(evals) BY <1>0, <2>1, ListedBy
  <2>3. \A j \in 1 .. Len(evals) : kept[j] = IF j = i THEN x ELSE evals[j] BY <1>0
  <2> HIDE DEF kept
  <2>4. /\ Listed(evals') /\ Len(evals') = Len(evals) + Len(events)
        /\ \A j \in 1 .. Len(evals) : evals'[j] = kept[j]
        /\ \A m \in 1 .. Len(events) : evals'[Len(evals) + m] = Run(events[m])
    <3>1. evals' = Emit(kept, events) BY <1>1 DEF kept
    <3>2. Listed(kept) /\ Len(kept) = Len(evals) /\ Listed(events) BY <2>2
    <3>3. /\ Listed(Emit(kept, events)) /\ Len(Emit(kept, events)) = Len(kept) + Len(events)
          /\ \A j \in 1 .. Len(kept) : Emit(kept, events)[j] = kept[j]
          /\ \A m \in 1 .. Len(events) : Emit(kept, events)[Len(kept) + m] = Run(events[m])
      BY ONLY <3>2, EmitListed, Z3
    <3> QED BY ONLY <3>1, <3>2, <3>3
  <2>5. DOMAIN evals' = 1 .. Len(evals) + Len(events) BY <2>4, ListedFacts
  <2> DEFINE o == [j \in DOMAIN evals' |-> j]
  <2>6. \A j, k \in DOMAIN evals' : j # k => o[j] # o[k] OBVIOUS
  <2>7. ASSUME NEW j \in DOMAIN evals'
        PROVE  \/ o[j] \in DOMAIN evals \ {i} /\ evals'[j] = evals[o[j]]
               \/ o[j] = i /\ GoneOn(r, evals'[j])
               \/ \E m \in DOMAIN events : o[j] = Len(evals) + m /\ evals'[j] = Run(events[m])
    <3>1. CASE j \in 1 .. Len(evals) BY <1>0, <1>1, <2>3, <2>4, <3>1
    <3>2. CASE j \notin 1 .. Len(evals)
      <4>1. j - Len(evals) \in 1 .. Len(events) /\ j = Len(evals) + (j - Len(evals)) BY <1>0, <2>5, <3>2
      <4>2. evals'[j] = Run(events[j - Len(evals)]) BY <2>4, <4>1
      <4> QED BY <1>0, <4>1, <4>2
    <3> QED BY <3>1, <3>2
  <2> HIDE DEF o
  <2>8. Origin(o, i, r, events) BY <2>6, <2>7 DEF Origin
  <2> QED BY <2>4, <2>8
<1>2. ASSUME evals' = Emit(RemoveAt(evals, i), events)
      PROVE  Listed(evals') /\ \E from : Origin(from, i, r, events)
  <2> DEFINE kept == RemoveAt(evals, i)
             n == Len(evals) - 1
  <2>1. Listed(kept) /\ Len(kept) = n /\ \A j \in 1 .. n : kept[j] = evals[IF j < i THEN j ELSE j + 1]
    BY <1>0, RemoveListed
  <2>n. n \in Nat /\ Len(evals) = n + 1 BY <1>0
  <2> HIDE DEF kept, n
  <2>2. /\ Listed(evals') /\ Len(evals') = n + Len(events)
        /\ \A j \in 1 .. n : evals'[j] = kept[j]
        /\ \A m \in 1 .. Len(events) : evals'[n + m] = Run(events[m])
    <3>1. evals' = Emit(kept, events) BY <1>2 DEF kept
    <3>2. Listed(kept) /\ Len(kept) = n /\ Listed(events) BY <2>1
    <3>3. /\ Listed(Emit(kept, events)) /\ Len(Emit(kept, events)) = Len(kept) + Len(events)
          /\ \A j \in 1 .. Len(kept) : Emit(kept, events)[j] = kept[j]
          /\ \A m \in 1 .. Len(events) : Emit(kept, events)[Len(kept) + m] = Run(events[m])
      BY ONLY <3>2, EmitListed, Z3
    <3> QED BY ONLY <3>1, <3>2, <3>3
  <2>3. DOMAIN evals' = 1 .. n + Len(events) BY <2>2, ListedFacts
  <2> DEFINE o == [j \in DOMAIN evals' |-> IF j < i THEN j ELSE j + 1]
  <2>4. \A j, k \in DOMAIN evals' : j # k => o[j] # o[k] BY <1>0, <2>3, <2>n
  <2>5. ASSUME NEW j \in DOMAIN evals'
        PROVE  \/ o[j] \in DOMAIN evals \ {i} /\ evals'[j] = evals[o[j]]
               \/ \E m \in DOMAIN events : o[j] = Len(evals) + m /\ evals'[j] = Run(events[m])
    <3>1. CASE j \in 1 .. n
      <4>1. o[j] = (IF j < i THEN j ELSE j + 1) OBVIOUS
      <4>2. o[j] \in 1 .. Len(evals) /\ o[j] # i BY <1>0, <2>n, <3>1, <4>1
      <4>3. evals'[j] = evals[o[j]] BY <2>1, <2>2, <3>1, <4>1
      <4> QED BY <1>0, <4>2, <4>3
    <3>2. CASE j \notin 1 .. n
      <4>1. j - n \in 1 .. Len(events) /\ j = n + (j - n) BY <1>0, <2>3, <2>n, <3>2
      <4>2. evals'[j] = Run(events[j - n]) BY <2>2, <4>1
      <4>3. o[j] = Len(evals) + (j - n) BY <1>0, <2>3, <2>n, <3>2
      <4> QED BY <1>0, <4>1, <4>2, <4>3
    <3> QED BY <3>1, <3>2
  <2> HIDE DEF o
  <2>6. Origin(o, i, r, events) BY <2>4, <2>5 DEF Origin
  <2> QED BY <2>2, <2>6
<1> QED BY <1>1, <1>2 DEF GoesOn, GoneOn

LEMMA FreshSound ==
  ASSUME RulesSaved, NEW e, EventFresh(e, ticket.tags)
  PROVE  RunSound(Run(e)) /\ Run(e).e = e
<1>1. Run(e) = [e |-> e, phase |-> "new", todo |-> {}, at |-> <<0, 0>>, acts |-> <<>>,
                added |-> {}, moved |-> "none", later |-> {}]
  BY DEF Run
<1>2. RunFormed(Run(e)) BY <1>1, FS_EmptySet DEF EventFresh, RunFormed, TagSet
<1>3. RunAhead(Run(e)) /\ TagsFollowed(Run(e)) BY <1>1 DEF EventFresh, RunAhead, TagsFollowed, Looked
<1>4. Run(e).e.key = <<>> BY <1>1 DEF EventFresh
<1> QED BY <1>1, <1>2, <1>3, <1>4 DEF RunSound, KeyRaised, SendBehind

SendsFormed ==
  Listed(sends) /\ \A j \in DOMAIN sends : SendFormed(sends[j]) /\ KeyRaised(sends[j].key, rules[sends[j].at[1]].on)

LEMMA RunFrame ==
  ASSUME UNCHANGED <<rules, ticket, raised>>, NEW x,
         RunFormed(x), RunAhead(x), TagsFollowed(x), KeyRaised(x.e.key, x.e.event),
         \A j \in DOMAIN sends' : SendBehind(sends'[j], x)
  PROVE  RunSound(x)'
<1>1. RunFormed(x)' BY DEF RunFormed, EventFormed, TagSet
<1>2. RunAhead(x)' BY DEF RunAhead, OnEvent, Places, Before
<1>3. TagsFollowed(x)' BY DEF TagsFollowed, Looked, HasTicket
<1>4. KeyRaised(x.e.key, x.e.event)' BY DEF KeyRaised
<1>5. (\A j \in DOMAIN sends : SendBehind(sends[j], x))' BY DEF SendBehind, Behind, IsElse
<1> QED BY <1>1, <1>2, <1>3, <1>4, <1>5 DEF RunSound

LEMMA GoesOnSound ==
  ASSUME RulesSaved, RunsSound, UNCHANGED <<rules, ticket, raised>>,
         NEW i \in DOMAIN evals, NEW r, r.phase = "eval", r.e.key = evals[i].e.key, r.e.event = evals[i].e.event,
         RunFormed(r), RunAhead(r), TagsFollowed(r),
         NEW events, Listed(events), \A m \in DOMAIN events : EventFresh(events[m], ticket.tags), GoesOn(i, r, events),
         \A j \in DOMAIN sends' : SendFormed(sends'[j]) /\ SendBehind(sends'[j], r),
         \A j \in DOMAIN sends', q \in DOMAIN evals \ {i} : SendBehind(sends'[j], evals[q])
  PROVE  RunsSound'
<1>1. Listed(evals') BY GoesOnFrom DEF RunsSound
<1>2. PICK from : Origin(from, i, r, events) BY GoesOnFrom DEF RunsSound
<1>3. KeyRaised(r.e.key, r.e.event) BY DEF RunsSound, RunSound
<1>4. ASSUME NEW j \in DOMAIN evals'
      PROVE  RunSound(evals[j])'
  <2> PICK x : x = evals'[j] OBVIOUS
  <2>0. SUFFICES RunSound(x)' OBVIOUS
  <2>1. CASE from[j] \in DOMAIN evals \ {i} /\ evals'[j] = evals[from[j]]
    <3>1. RunSound(evals[from[j]]) BY <2>1 DEF RunsSound
    <3>2. RunSound(x) BY <2>1, <3>1
    <3>3. \A k \in DOMAIN sends' : SendBehind(sends'[k], x) BY <2>1
    <3> QED BY <3>2, <3>3, RunFrame DEF RunSound
  <2>2. CASE from[j] = i /\ GoneOn(r, evals'[j])
    <3>1. RunFormed(x) /\ RunAhead(x) /\ x.e = r.e /\ TagsFollowed(x) /\ \A s : SendFormed(s) /\ SendBehind(s, r) => SendBehind(s, x)
      BY <2>2, ContinuesFormed
    <3> QED BY <1>3, <3>1, RunFrame
  <2>3. CASE \E m \in DOMAIN events : from[j] = Len(evals) + m /\ evals'[j] = Run(events[m])
    <3>1. PICK m \in DOMAIN events : x = Run(events[m]) BY <2>3
    <3>2. RunSound(x) /\ x.e.key = <<>> BY <3>1, FreshSound DEF EventFresh
    <3>3. \A k \in DOMAIN sends' : SendBehind(sends'[k], x) BY <3>2 DEF SendBehind
    <3> QED BY <3>2, <3>3, RunFrame DEF RunSound
  <2> QED BY <1>2, <2>1, <2>2, <2>3 DEF Origin
<1>5. ASSUME NEW j \in DOMAIN evals', evals'[j].e.key # <<>>
      PROVE  /\ from[j] \in DOMAIN evals /\ evals'[j].e.key = evals[from[j]].e.key
             /\ evals'[j].e.event = evals[from[j]].e.event
  <2>1. CASE from[j] \in DOMAIN evals \ {i} /\ evals'[j] = evals[from[j]] BY <2>1
  <2>2. CASE from[j] = i /\ GoneOn(r, evals'[j])
    <3>1. evals'[j].e = r.e BY <2>2, ContinuesFormed
    <3> QED BY <2>2, <3>1
  <2>3. CASE \E m \in DOMAIN events : from[j] = Len(evals) + m /\ evals'[j] = Run(events[m])
    BY <1>5, <2>3, FreshSound DEF EventFresh
  <2> QED BY <1>2, <2>1, <2>2, <2>3 DEF Origin
<1>6. ASSUME NEW j \in DOMAIN evals', NEW k \in DOMAIN evals', j # k
      PROVE  OnlyRun(evals'[j], evals'[k])
  <2> SUFFICES ASSUME evals'[j].e.key # <<>>, evals'[k].e.key = evals'[j].e.key, evals'[k].e.event = evals'[j].e.event
               PROVE  FALSE
    BY DEF OnlyRun
  <2>1. from[j] # from[k] BY <1>2, <1>6 DEF Origin
  <2>2. /\ from[j] \in DOMAIN evals /\ from[k] \in DOMAIN evals
        /\ evals[from[j]].e.key = evals[from[k]].e.key /\ evals[from[j]].e.event = evals[from[k]].e.event
        /\ evals[from[j]].e.key # <<>>
    BY <1>5
  <2> QED BY <2>1, <2>2 DEF RunsSound, OnlyRun
<1> QED BY <1>1, <1>4, <1>6 DEF RunsSound, OnlyRun

(***************************************************************************)
(* What a write does, and the events it raises                             *)
(***************************************************************************)
LEMMA WriteFormed ==
  ASSUME NEW a \in Action, ActionValid(a), NEW seen, NEW row, RowFormed(row), TagSet(seen.tags), NEW new \in Writes(a, seen, row)
  PROVE  RowFormed(new) /\ (a.type \notin {"add_tag", "remove_tag"} => new.tags = row.tags)
<1>1. CASE a.type = "add_tag"
  <2>1. new = [row EXCEPT !.tags = seen.tags \cup {a.arg}] BY <1>1 DEF Writes, AddTag
  <2>2. TagSet(seen.tags \cup {a.arg}) BY FS_AddElement DEF TagSet, Action
  <2> QED BY <1>1, <2>1, <2>2 DEF RowFormed
<1>2. CASE a.type = "remove_tag"
  <2>1. new = [row EXCEPT !.tags = seen.tags \ {a.arg}] BY <1>2 DEF Writes, RemoveTag
  <2>2. TagSet(seen.tags \ {a.arg}) BY FS_RemoveElement DEF TagSet, Action
  <2> QED BY <1>2, <2>1, <2>2 DEF RowFormed
<1>3. CASE a.type = "set_status"
  <2>1. new = [row EXCEPT !.status = a.arg] BY <1>3 DEF Writes, SetStatus
  <2> QED BY <1>3, <2>1 DEF RowFormed, ActionValid
<1>4. CASE a.type = "set_team" BY <1>4 DEF Writes, SetTeam, RowFormed
<1>5. CASE a.type \notin {"add_tag", "remove_tag", "set_status", "set_team"}
  BY <1>5 DEF Writes, SetAssignee, RowFormed
<1> QED BY <1>1, <1>2, <1>3, <1>4, <1>5

LEMMA RefreshedFormed ==
  ASSUME NEW a \in Action, NEW seen, TagSet(seen.tags),
         seen = [tags |-> seen.tags, status |-> seen.status, team |-> seen.team, owner |-> seen.owner,
                 channel |-> seen.channel]
  PROVE  /\ Refreshed(a, seen) = [tags |-> Refreshed(a, seen).tags, status |-> seen.status, team |-> seen.team,
                                  owner |-> seen.owner, channel |-> seen.channel]
         /\ TagSet(Refreshed(a, seen).tags)
         /\ a.type \notin {"add_tag", "remove_tag"} => Refreshed(a, seen) = seen
<1>1. CASE a.type = "add_tag" /\ a.arg \notin seen.tags
  <2>1. Writes(a, seen, seen) = {[seen EXCEPT !.tags = seen.tags \cup {a.arg}]} BY <1>1 DEF Writes, AddTag
  <2>2. Refreshed(a, seen) = [seen EXCEPT !.tags = seen.tags \cup {a.arg}] BY <1>1, <2>1 DEF Refreshed
  <2>3. TagSet(seen.tags \cup {a.arg}) BY FS_AddElement DEF TagSet, Action
  <2> QED BY <1>1, <2>2, <2>3
<1>2. CASE a.type = "remove_tag" /\ a.arg \in seen.tags
  <2>1. Writes(a, seen, seen) = {[seen EXCEPT !.tags = seen.tags \ {a.arg}]} BY <1>2 DEF Writes, RemoveTag
  <2>2. Refreshed(a, seen) = [seen EXCEPT !.tags = seen.tags \ {a.arg}] BY <1>2, <2>1 DEF Refreshed
  <2>3. TagSet(seen.tags \ {a.arg}) BY FS_RemoveElement DEF TagSet, Action
  <2> QED BY <1>2, <2>2, <2>3
<1>3. CASE ~(a.type = "add_tag" /\ a.arg \notin seen.tags) /\ ~(a.type = "remove_tag" /\ a.arg \in seen.tags)
  <2>1. Refreshed(a, seen) = seen BY <1>3 DEF Refreshed, Writes, AddTag, RemoveTag
  <2> QED BY <2>1
<1> QED BY <1>1, <1>2, <1>3

(* A tag handler writes the tags it then works from.                       *)
LEMMA WrittenAsRefreshed ==
  ASSUME NEW a \in Action, a.type \in {"add_tag", "remove_tag"}, NEW seen, NEW row, RowFormed(row),
         seen = [tags |-> seen.tags, status |-> seen.status, team |-> seen.team, owner |-> seen.owner,
                 channel |-> seen.channel],
         NEW new \in Writes(a, seen, row)
  PROVE  new.tags = Refreshed(a, seen).tags
<1>1. CASE a.type = "add_tag"
  <2>1. a.arg \notin seen.tags /\ new = [row EXCEPT !.tags = seen.tags \cup {a.arg}] BY <1>1 DEF Writes, AddTag
  <2>2. Writes(a, seen, seen) = {[seen EXCEPT !.tags = seen.tags \cup {a.arg}]} BY <1>1, <2>1 DEF Writes, AddTag
  <2>3. Refreshed(a, seen) = [seen EXCEPT !.tags = seen.tags \cup {a.arg}] BY <1>1, <2>2 DEF Refreshed
  <2> QED BY <2>1, <2>3 DEF RowFormed
<1>2. CASE a.type = "remove_tag"
  <2>1. a.arg \in seen.tags /\ new = [row EXCEPT !.tags = seen.tags \ {a.arg}] BY <1>2 DEF Writes, RemoveTag
  <2>2. Writes(a, seen, seen) = {[seen EXCEPT !.tags = seen.tags \ {a.arg}]} BY <1>2, <2>1 DEF Writes, RemoveTag
  <2>3. Refreshed(a, seen) = [seen EXCEPT !.tags = seen.tags \ {a.arg}] BY <1>2, <2>2 DEF Refreshed
  <2> QED BY <2>1, <2>3 DEF RowFormed
<1> QED BY <1>1, <1>2

LEMMA EventsOfWrite ==
  ASSUME NEW row, RowFormed(row), NEW tags, IsFiniteSet(tags), NEW from
  PROVE  /\ Listed(Applied(row, tags) \o Moved(row, from))
         /\ \A m \in DOMAIN (Applied(row, tags) \o Moved(row, from)) :
              EventFresh((Applied(row, tags) \o Moved(row, from))[m], row.tags)
<1>1. ASSUME NEW name, NEW tag PROVE EventFresh(TicketEvent(row, name, tag), row.tags)
  BY DEF TicketEvent, EventFresh, EventFormed, RowFormed
<1> DEFINE ts == SetToSeq(tags)
           s == Applied(row, tags)
           t == Moved(row, from)
<1>2. Listed(ts) BY EnumeratesSet
<1>3. Len(ts) \in Nat /\ DOMAIN ts = 1 .. Len(ts) BY <1>2, ListedFacts
<1>4. s = [k \in 1 .. Len(ts) |-> TicketEvent(row, "tag.applied", ts[k])] BY <1>3 DEF Applied
<1>5. Listed(s) /\ \A m \in 1 .. Len(s) : EventFresh(s[m], row.tags)
  <2>1. s = [k \in 1 .. Len(ts) |-> s[k]] BY <1>4
  <2>2. \A k \in 1 .. Len(ts) : EventFresh(s[k], row.tags) BY <1>1, <1>4
  <2> HIDE DEF s, ts
  <2>3. Listed(s) /\ Len(s) = Len(ts) BY <1>3, <2>1, ListedBy
  <2> QED BY <2>2, <2>3
<1>6. Listed(t) /\ \A m \in DOMAIN t : EventFresh(t[m], row.tags)
  <2>1. ASSUME NEW name
        PROVE  /\ Listed(<<TicketEvent(row, name, "")>>)
               /\ \A m \in DOMAIN <<TicketEvent(row, name, "")>> :
                    EventFresh(<<TicketEvent(row, name, "")>>[m], row.tags)
    <3>1. PICK x : x = TicketEvent(row, name, "") OBVIOUS
    <3>2. EventFresh(x, row.tags) BY <1>1, <3>1
    <3>3. Listed(<<x>>) /\ DOMAIN <<x>> = {1} /\ <<x>>[1] = x BY SingleListed
    <3>4. \A m \in DOMAIN <<x>> : EventFresh(<<x>>[m], row.tags) BY <3>2, <3>3
    <3> QED BY <3>1, <3>3, <3>4
  <2>2. Listed(<<>>) /\ DOMAIN <<>> = {} BY NothingListed
  <2>3. t \in {<<>>, <<TicketEvent(row, "ticket.resolved", "")>>, <<TicketEvent(row, "ticket.reopened", "")>>}
    BY DEF Moved
  <2> HIDE DEF t
  <2> QED BY <2>1, <2>2, <2>3
<1> HIDE DEF s, t
<1>7. /\ Listed(s \o t) /\ Len(s \o t) = Len(s) + Len(t) /\ \A i \in 1 .. Len(s) : (s \o t)[i] = s[i]
      /\ \A i \in 1 .. Len(t) : (s \o t)[Len(s) + i] = t[i]
  BY <1>5, <1>6, ConcatListed
<1>8. Len(s) \in Nat /\ Len(t) \in Nat /\ DOMAIN (s \o t) = 1 .. Len(s) + Len(t) BY <1>5, <1>6, <1>7, ListedFacts
<1>9. \A m \in DOMAIN (s \o t) : EventFresh((s \o t)[m], row.tags)
  <2> TAKE m \in DOMAIN (s \o t)
  <2>1. CASE m \in 1 .. Len(s) BY <1>5, <1>7, <2>1
  <2>2. CASE m \notin 1 .. Len(s)
    <3>1. m - Len(s) \in 1 .. Len(t) /\ Len(s) + (m - Len(s)) = m BY <1>8, <2>2
    <3>2. (s \o t)[m] = t[m - Len(s)] BY <1>7, <3>1
    <3>3. m - Len(s) \in DOMAIN t BY <1>6, <3>1, ListedFacts
    <3> QED BY <1>6, <3>2, <3>3
  <2> QED BY <2>1, <2>2
<1> QED BY <1>7, <1>9 DEF s, t

(***************************************************************************)
(* The engine's steps                                                      *)
(***************************************************************************)
EngineInv == RulesSaved /\ RowFormed(ticket) /\ RunsSound /\ SendsFormed /\ SentOnce

LEMMA RunFacts ==
  ASSUME EngineInv, NEW i \in DOMAIN evals
  PROVE  /\ RunFormed(evals[i]) /\ RunAhead(evals[i]) /\ TagsFollowed(evals[i]) /\ Listed(evals)
         /\ KeyRaised(evals[i].e.key, evals[i].e.event) /\ \A j \in DOMAIN sends : SendBehind(sends[j], evals[i])
BY DEF EngineInv, RunsSound, RunSound

LEMMA NothingRaised == Listed(<<>>) /\ \A m \in DOMAIN <<>> : EventFresh(<<>>[m], ticket.tags)
BY NothingListed

(* What does not touch the runs.                                           *)
LEMMA RestFrame ==
  ASSUME EngineInv, UNCHANGED <<rules, ticket, raised, sends>>, RunsSound'
  PROVE  EngineInv'
<1>1. RulesSaved' BY DEF EngineInv, RulesSaved, RuleSaved, CasesValid
<1>2. RowFormed(ticket)' BY DEF EngineInv, RowFormed
<1>3. SendsFormed' BY DEF EngineInv, SendsFormed, SendFormed, KeyRaised
<1>4. SentOnce' BY DEF EngineInv, SentOnce, IsElse
<1> QED BY <1>1, <1>2, <1>3, <1>4 DEF EngineInv

LEMMA LooksKeeps ==
  ASSUME EngineInv, NEW i \in DOMAIN evals, Looks(i), UNCHANGED raised
  PROVE  EngineInv'
<1> DEFINE q == evals[i]
           own == {k \in DOMAIN rules : Applies(k, q.e)}
           all == UNION {Places(k) : k \in own}
           r == [q EXCEPT !.phase = "eval", !.todo = all]
<1>1. q.phase = "new" /\ GoesOn(i, r, <<>>) /\ UNCHANGED <<rules, ticket, sends>> BY DEF Looks
<1>2. RunFormed(q) /\ RunAhead(q) /\ TagsFollowed(q) BY RunFacts
<1>3. r = [e |-> q.e, phase |-> "eval", todo |-> all, at |-> <<0, 0>>, acts |-> <<>>,
           added |-> q.added, moved |-> q.moved, later |-> q.later]
  <2>1. q.at = <<0, 0>> /\ q.acts = <<>> BY <1>1, <1>2 DEF RunFormed
  <2>2. q = [e |-> q.e, phase |-> q.phase, todo |-> q.todo, at |-> q.at, acts |-> q.acts, added |-> q.added,
             moved |-> q.moved, later |-> q.later]
    BY <1>2 DEF RunFormed
  <2>4. r = [q EXCEPT !.phase = "eval", !.todo = all] OBVIOUS
  <2> HIDE DEF q, all, r
  <2>3. r = [e |-> q.e, phase |-> "eval", todo |-> all, at |-> q.at, acts |-> q.acts, added |-> q.added,
             moved |-> q.moved, later |-> q.later]
    BY <2>2, <2>4
  <2> QED BY <2>1, <2>3
<1>4. \A p \in all : OnEvent(p, q) /\ Before(<<0, 0>>, p)
  <2> TAKE p \in all
  <2>1. PICK k \in own : p \in Places(k) OBVIOUS
  <2>2. k \in DOMAIN rules /\ rules[k].on = q.e.event BY DEF Applies
  <2>3. p[1] = k /\ k \in Nat \ {0} BY <2>1, <2>2, PlaceFacts DEF EngineInv
  <2> QED BY <2>1, <2>2, <2>3 DEF OnEvent, Before
<1> HIDE DEF r
<1>5. RunFormed(r) BY <1>2, <1>3 DEF RunFormed
<1>6. RunAhead(r) BY <1>3, <1>4 DEF RunAhead, OnEvent
<1>7. TagsFollowed(r) BY <1>1, <1>2, <1>3 DEF TagsFollowed, Looked
<1>8. \A j \in DOMAIN sends' : SendBehind(sends'[j], r)
  <2>1. q.at = <<0, 0>> /\ q.acts = <<>> BY <1>1, <1>2 DEF RunFormed
  <2> QED BY <1>1, <1>3, <2>1, RunFacts DEF SendBehind, Behind
<1>9. \A j \in DOMAIN sends' : SendFormed(sends'[j]) BY <1>1 DEF EngineInv, SendsFormed
<1>10. \A j \in DOMAIN sends', k \in DOMAIN evals \ {i} : SendBehind(sends'[j], evals[k]) BY <1>1, RunFacts
<1>11. r.phase = "eval" /\ r.e = q.e BY <1>3
<1>12. RunsSound' BY <1>1, <1>5, <1>6, <1>7, <1>8, <1>9, <1>10, <1>11, NothingRaised, GoesOnSound DEF EngineInv, r
<1> QED BY <1>1, <1>12, RestFrame

LEMMA TailFacts ==
  ASSUME NEW q, RunFormed(q), q.acts # <<>>
  PROVE  /\ Head(q.acts) \in Action /\ ActionValid(Head(q.acts))
         /\ Tail(q.acts) \in Seq(Action) /\ \A m \in DOMAIN Tail(q.acts) : ActionValid(Tail(q.acts)[m])
         /\ Len(q.acts) \in Nat \ {0} /\ Len(Tail(q.acts)) = Len(q.acts) - 1
<1> DEFINE s == q.acts
<1>1. s \in Seq(Action) /\ s # <<>> /\ \A m \in DOMAIN s : ActionValid(s[m]) BY DEF RunFormed
<1> HIDE DEF s
<1>2. Len(s) \in Nat \ {0} /\ DOMAIN s = 1 .. Len(s) BY <1>1, EmptySeq, LenProperties
<1>3. Head(s) \in Action /\ Tail(s) \in Seq(Action) /\ Len(Tail(s)) = Len(s) - 1 BY <1>1, HeadTailProperties
<1>4. Head(s) = s[1] BY <1>1
<1>5. \A m \in DOMAIN Tail(s) : m + 1 \in DOMAIN s /\ Tail(s)[m] = s[m + 1]
  <2>1. DOMAIN Tail(s) = 1 .. Len(s) - 1 BY <1>2, <1>3, LenProperties
  <2>2. \A m \in 1 .. Len(s) - 1 : Tail(s)[m] = s[m + 1] BY <1>1, HeadTailProperties
  <2> QED BY <1>2, <2>1, <2>2
<1> QED BY <1>1, <1>2, <1>3, <1>4, <1>5 DEF s

(* A run that goes on to its next action.                                  *)
LEMMA TailKeeps ==
  ASSUME EngineInv, NEW i \in DOMAIN evals, evals[i].phase = "eval", evals[i].acts # <<>>,
         NEW r, r = [evals[i] EXCEPT !.acts = Tail(@)]
  PROVE  /\ RunFormed(r) /\ RunAhead(r) /\ TagsFollowed(r) /\ r.e = evals[i].e /\ r.phase = "eval"
         /\ r.at = evals[i].at /\ Len(r.acts) \in Nat /\ Len(evals[i].acts) = Len(r.acts) + 1
         /\ \A s : SendFormed(s) /\ SendBehind(s, evals[i]) => SendBehind(s, r)
<1> DEFINE q == evals[i]
<1>1. RunFormed(q) /\ RunAhead(q) /\ TagsFollowed(q) BY RunFacts
<1>2. /\ Tail(q.acts) \in Seq(Action) /\ \A m \in DOMAIN Tail(q.acts) : ActionValid(Tail(q.acts)[m])
      /\ Len(q.acts) \in Nat \ {0} /\ Len(Tail(q.acts)) = Len(q.acts) - 1
  BY <1>1, TailFacts
<1>3. q.phase = "eval" /\ r = [q EXCEPT !.acts = Tail(@)] OBVIOUS
<1> HIDE DEF q
<1>4. r = [e |-> q.e, phase |-> q.phase, todo |-> q.todo, at |-> q.at, acts |-> Tail(q.acts), added |-> q.added,
           moved |-> q.moved, later |-> q.later]
  BY <1>1, <1>3 DEF RunFormed
<1>5. RunFormed(r) BY <1>1, <1>2, <1>3, <1>4 DEF RunFormed
<1>6. RunAhead(r)
  <2>1. q.acts # <<>> BY DEF q
  <2> QED BY <1>1, <1>4, <2>1 DEF RunAhead, OnEvent
<1>7. TagsFollowed(r) BY <1>1, <1>3, <1>4 DEF TagsFollowed, Looked
<1>8. ASSUME NEW s, SendFormed(s), SendBehind(s, q) PROVE SendBehind(s, r)
  <2>1. s.at[3] \in Nat BY <1>8 DEF SendFormed
  <2> QED BY <1>2, <1>4, <1>8, <2>1 DEF SendBehind, Behind
<1>9. r.e = q.e /\ r.phase = "eval" /\ r.at = q.at /\ Len(r.acts) \in Nat /\ Len(q.acts) = Len(r.acts) + 1
  BY <1>2, <1>3, <1>4
<1> QED BY <1>5, <1>6, <1>7, <1>8, <1>9 DEF q

LEMMA ActSkipped ==
  ASSUME EngineInv, NEW i \in DOMAIN evals, evals[i].phase = "eval", evals[i].acts # <<>>,
         GoesOn(i, [evals[i] EXCEPT !.acts = Tail(@)], <<>>), UNCHANGED <<rules, ticket, raised, sends>>
  PROVE  EngineInv'
<1> PICK r : r = [evals[i] EXCEPT !.acts = Tail(@)] OBVIOUS
<1>1. /\ RunFormed(r) /\ RunAhead(r) /\ TagsFollowed(r) /\ r.e = evals[i].e /\ r.phase = "eval"
      /\ \A s : SendFormed(s) /\ SendBehind(s, evals[i]) => SendBehind(s, r)
  BY TailKeeps
<1>2. \A j \in DOMAIN sends' : SendFormed(sends'[j]) /\ SendBehind(sends'[j], r)
  BY <1>1, RunFacts DEF EngineInv, SendsFormed
<1>3. \A j \in DOMAIN sends', k \in DOMAIN evals \ {i} : SendBehind(sends'[j], evals[k]) BY RunFacts
<1>4. GoesOn(i, r, <<>>) OBVIOUS
<1>5. RunsSound' BY <1>1, <1>2, <1>3, <1>4, NothingRaised, GoesOnSound DEF EngineInv
<1> QED BY <1>5, RestFrame

LEMMA SpeaksKeeps ==
  ASSUME EngineInv, NEW i \in DOMAIN evals, Speaks(i), UNCHANGED raised
  PROVE  EngineInv'
<1> DEFINE q == evals[i]
           a == Head(q.acts)
           seen == Refreshed(a, q.e.ticket)
           events == Applied(ticket, q.added) \o Moved(ticket, q.moved)
<1>0. PICK r : r = [q EXCEPT !.phase = "eval", !.acts = Tail(@), !.added = {}, !.moved = "none", !.e.ticket = Refreshed(a, @)]
  OBVIOUS
<1>1. q.phase = "written" /\ GoesOn(i, r, events) /\ UNCHANGED <<rules, ticket, sends>> BY <1>0 DEF Speaks
<1>2. RunFormed(q) /\ RunAhead(q) /\ TagsFollowed(q) BY RunFacts
<1>3. /\ a \in Action /\ Tail(q.acts) \in Seq(Action) /\ \A m \in DOMAIN Tail(q.acts) : ActionValid(Tail(q.acts)[m])
      /\ Len(q.acts) \in Nat \ {0} /\ Len(Tail(q.acts)) = Len(q.acts) - 1
  <2>1. q.acts # <<>> BY <1>1, <1>2 DEF RunFormed
  <2> QED BY <1>2, <2>1, TailFacts
<1>4. /\ seen = [tags |-> seen.tags, status |-> seen.status, team |-> seen.team, owner |-> seen.owner, channel |-> seen.channel]
      /\ TagSet(seen.tags)
  <2> DEFINE d == q.e.ticket
  <2>1. TagSet(d.tags) /\ d = [tags |-> d.tags, status |-> d.status, team |-> d.team, owner |-> d.owner, channel |-> d.channel]
    BY <1>2 DEF RunFormed, EventFormed
  <2> HIDE DEF d
  <2>2. /\ seen = [tags |-> seen.tags, status |-> d.status, team |-> d.team, owner |-> d.owner, channel |-> d.channel]
        /\ TagSet(seen.tags)
    <3>1. seen = Refreshed(a, d) BY DEF d
    <3> HIDE DEF seen, a
    <3> QED BY <1>3, <2>1, <3>1, RefreshedFormed
  <2> HIDE DEF seen
  <2> QED BY <2>2
<1>5. Listed(events) /\ \A m \in DOMAIN events : EventFresh(events[m], ticket.tags)
  BY <1>2, EventsOfWrite DEF EngineInv, RunFormed, TagSet
<1>6. r = [q EXCEPT !.phase = "eval", !.acts = Tail(q.acts), !.added = {}, !.moved = "none", !.e.ticket = seen] BY <1>0
<1> HIDE DEF q, a, seen, events
<1>7. /\ r.e = [event |-> q.e.event, tag |-> q.e.tag, phone |-> q.e.phone, hour |-> q.e.hour, image |-> q.e.image,
                key |-> q.e.key, ticket |-> seen]
      /\ r = [e |-> r.e, phase |-> "eval", todo |-> q.todo, at |-> q.at, acts |-> Tail(q.acts), added |-> {},
              moved |-> "none", later |-> q.later]
  <2>1. /\ q = [e |-> q.e, phase |-> q.phase, todo |-> q.todo, at |-> q.at, acts |-> q.acts, added |-> q.added,
                moved |-> q.moved, later |-> q.later]
        /\ q.e = [event |-> q.e.event, tag |-> q.e.tag, phone |-> q.e.phone, hour |-> q.e.hour, image |-> q.e.image,
                  key |-> q.e.key, ticket |-> q.e.ticket]
    BY <1>2 DEF RunFormed, EventFormed
  <2>2. r = [e |-> [q.e EXCEPT !.ticket = seen], phase |-> "eval", todo |-> q.todo, at |-> q.at, acts |-> Tail(q.acts),
             added |-> {}, moved |-> "none", later |-> q.later]
    BY <1>6, <2>1
  <2>3. PICK d : d = [q.e EXCEPT !.ticket = seen] OBVIOUS
  <2>6. r = [e |-> d, phase |-> "eval", todo |-> q.todo, at |-> q.at, acts |-> Tail(q.acts),
             added |-> {}, moved |-> "none", later |-> q.later]
    BY <2>2, <2>3
  <2>4. d = [event |-> q.e.event, tag |-> q.e.tag, phone |-> q.e.phone, hour |-> q.e.hour, image |-> q.e.image,
             key |-> q.e.key, ticket |-> seen]
    BY <2>1, <2>3
  <2>5. r.e = d BY <2>6
  <2> QED BY <2>4, <2>5, <2>6
<1>8. RunFormed(r)
  <2>1. EventFormed(r.e) BY <1>2, <1>4, <1>7 DEF RunFormed, EventFormed
  <2>2. TagSet({}) BY FS_EmptySet DEF TagSet
  <2>3. r.phase = "eval" /\ r.todo = q.todo /\ r.at = q.at /\ r.acts = Tail(q.acts) /\ r.added = {} /\ r.moved = "none" /\ r.later = q.later
    BY <1>7
  <2>4. r = [e |-> r.e, phase |-> r.phase, todo |-> r.todo, at |-> r.at, acts |-> r.acts, added |-> r.added,
             moved |-> r.moved, later |-> r.later]
    BY <1>7, <2>3
  <2> QED BY <1>3, <2>1, <2>2, <2>3, <2>4 DEF RunFormed
<1>9. RunAhead(r) BY <1>1, <1>2, <1>7 DEF RunAhead, OnEvent, RunFormed
<1>10. TagsFollowed(r) BY <1>1, <1>2, <1>7 DEF TagsFollowed, Looked, HasTicket, seen, a
<1>11. \A s : SendFormed(s) /\ SendBehind(s, q) => SendBehind(s, r)
  <2> SUFFICES ASSUME NEW s, SendFormed(s), SendBehind(s, q) PROVE SendBehind(s, r) OBVIOUS
  <2>1. s.at[3] \in Nat BY DEF SendFormed
  <2>2. r.at = q.at /\ r.e.key = q.e.key /\ r.e.event = q.e.event /\ r.acts = Tail(q.acts) BY <1>7
  <2> QED BY <1>3, <2>1, <2>2 DEF SendBehind, Behind
<1>12. \A j \in DOMAIN sends' : SendFormed(sends'[j]) /\ SendBehind(sends'[j], r)
  BY <1>1, <1>11, RunFacts DEF EngineInv, SendsFormed, q
<1>13. \A j \in DOMAIN sends', k \in DOMAIN evals \ {i} : SendBehind(sends'[j], evals[k]) BY <1>1, RunFacts
<1>14. r.phase = "eval" /\ r.e.key = q.e.key /\ r.e.event = q.e.event BY <1>7
<1>15. RunsSound' BY <1>1, <1>5, <1>8, <1>9, <1>10, <1>12, <1>13, <1>14, GoesOnSound DEF EngineInv, q
<1> QED BY <1>1, <1>15, RestFrame

LEMMA CallsKeeps ==
  ASSUME EngineInv, NEW i \in DOMAIN evals, Calls(i), UNCHANGED raised
  PROVE  EngineInv'
<1> DEFINE q == evals[i]
<1>0. /\ q.phase = "eval" /\ q.acts # <<>> /\ UNCHANGED <<rules, ticket>>
      /\ GoesOn(i, [q EXCEPT !.acts = Tail(@)], <<>>)
  BY DEF Calls
<1>1. PICK o : sends' = IF o = "none" THEN sends ELSE Append(sends, Done(q, o)) BY DEF Calls
<1>2. CASE o = "none" BY <1>0, <1>1, <1>2, ActSkipped
<1>3. CASE o # "none"
  <2>0. PICK r : r = [q EXCEPT !.acts = Tail(@)] OBVIOUS
  <2>1. /\ RunFormed(r) /\ RunAhead(r) /\ TagsFollowed(r) /\ r.e = q.e /\ r.phase = "eval" /\ GoesOn(i, r, <<>>)
        /\ r.at = q.at /\ Len(r.acts) \in Nat /\ Len(q.acts) = Len(r.acts) + 1
        /\ \A s : SendFormed(s) /\ SendBehind(s, q) => SendBehind(s, r)
    BY <1>0, <2>0, TailKeeps
  <2>2. RunFormed(q) /\ OnEvent(q.at, q) /\ \A j \in DOMAIN sends : SendBehind(sends[j], q)
    BY <1>0, RunFacts DEF RunAhead
  <2> PICK s : s = Done(q, o) OBVIOUS
  <2>3. /\ s.key = q.e.key /\ s.at[1] = q.at[1] /\ s.at[2] = q.at[2] /\ s.at[3] = Len(q.acts)
    BY DEF Done
  <2>a. s.at = <<q.at[1], q.at[2], Len(q.acts)>> BY DEF Done
  <2>4. q.at[1] \in DOMAIN rules /\ q.at[2] \in 1 .. Len(rules[q.at[1]].cases) + 1 /\ rules[q.at[1]].on = q.e.event
    BY <2>2, PlaceFacts DEF OnEvent, EngineInv
  <2>5. SendFormed(s) BY <2>1, <2>3, <2>4 DEF SendFormed
  <2>6. KeyRaised(s.key, rules[s.at[1]].on) BY <2>3, <2>4, RunFacts
  <2> HIDE DEF q
  <2>7. /\ Listed(sends') /\ DOMAIN sends' = 1 .. Len(sends) + 1 /\ Len(sends) \in Nat /\ DOMAIN sends = 1 .. Len(sends)
        /\ \A j \in DOMAIN sends : sends'[j] = sends[j]
        /\ sends'[Len(sends) + 1] = s
    <3>1. sends \in Seq(Range(sends) \cup {s}) BY SeqMonotonic DEF EngineInv, SendsFormed, Listed
    <3>2. Len(sends) \in Nat /\ DOMAIN sends = 1 .. Len(sends) BY ListedFacts DEF EngineInv, SendsFormed
    <3>3. sends' = Append(sends, s) BY <1>1, <1>3
    <3>4. /\ sends' \in Seq(Range(sends) \cup {s}) /\ Len(sends') = Len(sends) + 1
          /\ \A j \in 1 .. Len(sends) : sends'[j] = sends[j] /\ sends'[Len(sends) + 1] = s
      BY <3>1, <3>2, <3>3, AppendProperties
    <3>5. Listed(sends') /\ DOMAIN sends' = 1 .. Len(sends') BY <3>4, ListedSeq, LenProperties
    <3> QED BY <3>1, <3>2, <3>3, <3>4, <3>5, AppendProperties
  <2>8. \A j \in DOMAIN sends' : (j \in DOMAIN sends /\ sends'[j] = sends[j]) \/ (j = Len(sends) + 1 /\ sends'[j] = s)
    BY <2>7
  <2>9. \A j \in DOMAIN sends' : SendFormed(sends'[j]) BY <2>5, <2>8 DEF EngineInv, SendsFormed
  <2>10. SendBehind(s, r) BY <2>1, <2>3 DEF SendBehind, Behind
  <2>11. \A j \in DOMAIN sends' : SendBehind(sends'[j], r)
    BY <2>1, <2>2, <2>8, <2>9, <2>10 DEF EngineInv, SendsFormed
  <2>12. \A k \in DOMAIN evals \ {i} : SendBehind(s, evals[k])
    <3> TAKE k \in DOMAIN evals \ {i}
    <3>1. OnlyRun(q, evals[k]) BY DEF EngineInv, RunsSound, q
    <3> QED BY <2>3, <2>4, <3>1 DEF SendBehind, OnlyRun
  <2>13. \A j \in DOMAIN sends', k \in DOMAIN evals \ {i} : SendBehind(sends'[j], evals[k])
    BY <2>8, <2>12, RunFacts
  <2>14. RunsSound'
    BY <1>0, <2>1, <2>9, <2>11, <2>13, NothingRaised, GoesOnSound DEF EngineInv, q
  <2>15. SendsFormed'
    <3>1. ASSUME NEW x, SendFormed(x), KeyRaised(x.key, rules[x.at[1]].on)
          PROVE  SendFormed(x)' /\ KeyRaised(x.key, rules[x.at[1]].on)'
      BY <1>0, <3>1 DEF SendFormed, KeyRaised
    <3> SUFFICES ASSUME NEW j \in DOMAIN sends'
                 PROVE  SendFormed(sends[j])' /\ KeyRaised(sends[j].key, rules[sends[j].at[1]].on)'
      BY <2>7 DEF SendsFormed
    <3>2. PICK x : x = sends'[j] OBVIOUS
    <3>3. SendFormed(x) /\ KeyRaised(x.key, rules[x.at[1]].on) BY <2>5, <2>6, <2>8, <3>2 DEF EngineInv, SendsFormed
    <3>4. SendFormed(x)' /\ KeyRaised(x.key, rules[x.at[1]].on)' BY <3>1, <3>3
    <3> QED BY <3>2, <3>4
  <2>16. SentOnce'
    <3>1. ASSUME NEW t, SendFormed(t), SendBehind(t, q), t.key # <<>>, t.key = s.key, t.at[1] = s.at[1]
          PROVE  t.at # s.at /\ (IsElse(t.at) <=> IsElse(s.at))
      <4>1. Behind(t, q) BY <2>3, <2>4, <3>1 DEF SendBehind
      <4>2. t.at[1] = q.at[1] /\ t.at[1] \in Nat BY <2>3, <3>1, ListedFacts DEF SendFormed, EngineInv, RulesSaved
      <4>3. s.at[3] \in Nat /\ t.at[3] \in Nat /\ s.at[2] \in Nat /\ t.at[2] \in Nat
        BY <2>1, <2>3, <2>4, <2>5, <3>1 DEF SendFormed
      <4>4. CASE t.at[2] < q.at[2] /\ ~IsElse(t.at) /\ ~IsElse(q.at)
        <5>1. ~IsElse(s.at) BY <2>3, <4>4 DEF IsElse
        <5> QED BY <2>3, <4>3, <4>4, <5>1
      <4>5. CASE t.at[2] = q.at[2] /\ t.at[3] > Len(q.acts)
        <5>1. IsElse(t.at) <=> IsElse(s.at) BY <2>3, <3>1, <4>5 DEF IsElse
        <5> QED BY <2>3, <4>3, <4>5, <5>1
      <4> QED BY <4>1, <4>2, <4>4, <4>5 DEF Behind
    <3>2. \A x : IsElse(x)' = IsElse(x) BY <1>0 DEF IsElse
    <3> SUFFICES ASSUME NEW j \in DOMAIN sends', NEW k \in DOMAIN sends', sends'[j].key # <<>>,
                        sends'[j].key = sends'[k].key, sends'[j].at[1] = sends'[k].at[1]
                 PROVE  (j # k => sends'[j].at # sends'[k].at) /\ (IsElse(sends'[j].at) <=> IsElse(sends'[k].at))
      BY <1>0 DEF SentOnce, IsElse
    <3>3. CASE j \in DOMAIN sends /\ k \in DOMAIN sends BY <2>7, <3>3 DEF EngineInv, SentOnce
    <3>4. CASE j \in DOMAIN sends /\ sends'[k] = s
      BY <2>2, <2>7, <3>1, <3>4 DEF EngineInv, SendsFormed
    <3>5. CASE k \in DOMAIN sends /\ sends'[j] = s
      BY <2>2, <2>7, <3>1, <3>5 DEF EngineInv, SendsFormed
    <3>6. CASE j = Len(sends) + 1 /\ k = Len(sends) + 1 BY <3>6
    <3> QED BY <2>8, <3>3, <3>4, <3>5, <3>6
  <2>17. RulesSaved' /\ RowFormed(ticket)' BY <1>0 DEF EngineInv, RulesSaved, RuleSaved, CasesValid, RowFormed
  <2> QED BY <2>14, <2>15, <2>16, <2>17 DEF EngineInv
<1> QED BY <1>2, <1>3

(* A run that goes on while the ticket's tags are written.                 *)
LEMMA LaterKeeps ==
  ASSUME NEW x, RunSound(x), NEW given, NEW y, y = [x EXCEPT !.later = @ \cup given],
         UNCHANGED <<rules, raised, sends>>, ticket'.tags \subseteq ticket.tags \cup given
  PROVE  RunSound(y)' /\ y.e = x.e
<1>1. RunFormed(x) /\ RunAhead(x) /\ TagsFollowed(x) /\ KeyRaised(x.e.key, x.e.event) BY DEF RunSound
<1>2. y = [e |-> x.e, phase |-> x.phase, todo |-> x.todo, at |-> x.at, acts |-> x.acts, added |-> x.added,
           moved |-> x.moved, later |-> x.later \cup given]
  BY <1>1 DEF RunFormed
<1>3. RunFormed(y)' BY <1>1, <1>2 DEF RunFormed, EventFormed, TagSet
<1>4. RunAhead(y)' BY <1>1, <1>2 DEF RunAhead, OnEvent, Places, Before
<1>5. TagsFollowed(y)' BY <1>1, <1>2 DEF TagsFollowed, Looked, HasTicket
<1>6. KeyRaised(y.e.key, y.e.event)' BY <1>1, <1>2 DEF KeyRaised
<1>7. (\A j \in DOMAIN sends : SendBehind(sends[j], y))' BY <1>2 DEF RunSound, SendBehind, Behind, IsElse
<1> QED BY <1>2, <1>3, <1>4, <1>5, <1>6, <1>7 DEF RunSound

LEMMA OthersFacts ==
  ASSUME NEW rs, Listed(rs), NEW i, NEW given
  PROVE  /\ Listed(Others(i, rs, given)) /\ DOMAIN Others(i, rs, given) = DOMAIN rs /\ Len(Others(i, rs, given)) = Len(rs)
         /\ \A j \in DOMAIN rs : Others(i, rs, given)[j] = IF j = i THEN rs[j] ELSE [rs[j] EXCEPT !.later = @ \cup given]
<1>1. Len(rs) \in Nat /\ DOMAIN rs = 1 .. Len(rs) BY ListedFacts
<1> DEFINE os == Others(i, rs, given)
<1>2. os = [j \in 1 .. Len(rs) |-> IF j = i THEN rs[j] ELSE [rs[j] EXCEPT !.later = @ \cup given]]
  BY <1>1 DEF Others
<1>3. os = [j \in 1 .. Len(rs) |-> os[j]] BY <1>2
<1>4. \A j \in 1 .. Len(rs) : os[j] = IF j = i THEN rs[j] ELSE [rs[j] EXCEPT !.later = @ \cup given] BY <1>2
<1> HIDE DEF os
<1>5. Listed(os) /\ Len(os) = Len(rs) /\ DOMAIN os = 1 .. Len(rs) BY <1>1, <1>3, ListedBy
<1> QED BY <1>1, <1>4, <1>5 DEF os

LEMMA WriteFrame ==
  ASSUME EngineInv, UNCHANGED <<rules, raised, sends>>, RowFormed(ticket)', RunsSound'
  PROVE  EngineInv'
<1>1. RulesSaved' BY DEF EngineInv, RulesSaved, RuleSaved, CasesValid
<1>2. SendsFormed' BY DEF EngineInv, SendsFormed, SendFormed, KeyRaised
<1>3. SentOnce' BY DEF EngineInv, SentOnce, IsElse
<1> QED BY <1>1, <1>2, <1>3 DEF EngineInv

(* The runs after the one at i has written.                                *)
LEMMA Rewritten ==
  ASSUME Listed(evals), NEW i \in DOMAIN evals, NEW given, NEW y, NEW os, os = [evals EXCEPT ![i] = y],
         evals' = Others(i, os, given)
  PROVE  /\ Listed(evals') /\ DOMAIN evals' = DOMAIN evals
         /\ \A j \in DOMAIN evals : evals'[j] = IF j = i THEN y ELSE [evals[j] EXCEPT !.later = @ \cup given]
<1>1. Len(evals) \in Nat /\ DOMAIN evals = 1 .. Len(evals) BY ListedFacts
<1>4. Listed(os) /\ DOMAIN os = DOMAIN evals /\ \A j \in DOMAIN evals : os[j] = IF j = i THEN y ELSE evals[j]
  <2>1. os = [j \in 1 .. Len(evals) |-> os[j]] BY <1>1
  <2>2. Listed(os) /\ Len(os) = Len(evals) BY <1>1, <2>1, ListedBy
  <2> QED BY <1>1, <2>2
<1>5. /\ Listed(Others(i, os, given)) /\ DOMAIN Others(i, os, given) = DOMAIN os
      /\ \A j \in DOMAIN os : Others(i, os, given)[j] = IF j = i THEN os[j] ELSE [os[j] EXCEPT !.later = @ \cup given]
  <2>1. Listed(os) BY <1>4
  <2> QED BY ONLY <2>1, OthersFacts
<1>7. Listed(evals') /\ DOMAIN evals' = DOMAIN evals BY <1>4, <1>5
<1>8. ASSUME NEW j \in DOMAIN evals
      PROVE  evals'[j] = IF j = i THEN y ELSE [evals[j] EXCEPT !.later = @ \cup given]
  <2>1. evals'[j] = IF j = i THEN os[j] ELSE [os[j] EXCEPT !.later = @ \cup given] BY <1>4, <1>5
  <2>2. os[j] = IF j = i THEN y ELSE evals[j] BY <1>4
  <2> QED BY <2>1, <2>2
<1> QED BY <1>7, <1>8

LEMMA ActsKeeps ==
  ASSUME EngineInv, NEW i \in DOMAIN evals, Acts(i), UNCHANGED raised
  PROVE  EngineInv'
<1> DEFINE q == evals[i]
           a == Head(q.acts)
<1>1. q.phase = "eval" /\ q.acts # <<>> /\ a.type \in TicketActs /\ UNCHANGED <<rules, sends>> BY DEF Acts
<1>2. CASE GoesOn(i, [q EXCEPT !.acts = Tail(@)], <<>>) /\ UNCHANGED ticket BY <1>1, <1>2, ActSkipped
<1>3. ASSUME NEW new \in Written(a, q.e), ticket' = new,
             evals' = Others(i, [evals EXCEPT ![i].phase = "written", ![i].added = new.tags \ ticket.tags,
                                              ![i].moved = MovedFrom(ticket, new)], new.tags \ ticket.tags)
      PROVE  EngineInv'
  <2> DEFINE given == new.tags \ ticket.tags
             moved == MovedFrom(ticket, new)
  <2>1. RunSound(q) /\ RunFormed(q) /\ Listed(evals) BY DEF EngineInv, RunsSound, RunSound
  <2>3. a \in Action /\ ActionValid(a) BY <1>1, <2>1, TailFacts
  <2>4. HasTicket(q.e) /\ new \in Writes(a, q.e.ticket, ticket) BY <1>3 DEF Written
  <2>5. RowFormed(new) /\ (a.type \notin {"add_tag", "remove_tag"} => new.tags = ticket.tags)
    BY <2>1, <2>3, <2>4, WriteFormed DEF EngineInv, RunFormed, EventFormed
  <2>6. TagSet(given) BY <2>5, FS_Subset DEF RowFormed, TagSet
  <2>7. PICK y : y = [q EXCEPT !.phase = "written", !.added = given, !.moved = moved] OBVIOUS
  <2>8. PICK os : os = [evals EXCEPT ![i].phase = "written", ![i].added = given, ![i].moved = moved] OBVIOUS
  <2>9. os = [evals EXCEPT ![i] = y] BY <2>7, <2>8
  <2>10. evals' = Others(i, os, given) BY <1>3, <2>8
  <2> HIDE DEF given, moved
  <2>11. /\ Listed(evals') /\ DOMAIN evals' = DOMAIN evals
         /\ \A j \in DOMAIN evals : evals'[j] = IF j = i THEN y ELSE [evals[j] EXCEPT !.later = @ \cup given]
    BY <2>1, <2>9, <2>10, Rewritten
  <2> HIDE DEF q
  <2>12. y = [e |-> q.e, phase |-> "written", todo |-> q.todo, at |-> q.at, acts |-> q.acts, added |-> given,
              moved |-> moved, later |-> q.later]
    BY <2>1, <2>7 DEF RunFormed
  <2>13. RunSound(y)' /\ y.e = q.e
    <3>1. RunFormed(y)' BY <1>1, <2>1, <2>6, <2>12 DEF RunFormed, EventFormed, TagSet
    <3>2. RunAhead(y)' BY <1>1, <2>1, <2>12 DEF RunSound, RunAhead, OnEvent, Places, Before
    <3>3. TagsFollowed(y)'
      <4> DEFINE d == q.e.ticket
      <4>1. d = [tags |-> d.tags, status |-> d.status, team |-> d.team, owner |-> d.owner, channel |-> d.channel] /\ TagSet(d.tags)
        BY <2>1 DEF RunFormed, EventFormed
      <4> HIDE DEF d
      <4>2. new.tags \ Refreshed(a, d).tags \subseteq q.later
        <5>1. CASE a.type \in {"add_tag", "remove_tag"}
          BY <2>3, <2>4, <4>1, <5>1, WrittenAsRefreshed DEF EngineInv, d
        <5>2. CASE a.type \notin {"add_tag", "remove_tag"}
          <6>1. Refreshed(a, d) = d BY <2>3, <4>1, <5>2, RefreshedFormed
          <6>2. ticket.tags \ d.tags \subseteq q.later
            BY <1>1, <2>1, <2>4 DEF RunSound, TagsFollowed, Looked, d
          <6> QED BY <2>5, <5>2, <6>1, <6>2
        <5> QED BY <5>1, <5>2
      <4>3. y.phase = "written" /\ Head(y.acts) = a /\ y.e.ticket = d /\ y.later = q.later BY <2>12 DEF a, d
      <4> QED BY <1>3, <4>2, <4>3 DEF TagsFollowed, Looked
    <3>4. KeyRaised(y.e.key, y.e.event)' BY <1>1, <2>1, <2>12 DEF RunSound, KeyRaised
    <3>5. (\A j \in DOMAIN sends : SendBehind(sends[j], y))'
      BY <1>1, <2>1, <2>12 DEF RunSound, SendBehind, Behind, IsElse
    <3> QED BY <2>12, <3>1, <3>2, <3>3, <3>4, <3>5 DEF RunSound
  <2>14. ticket'.tags \subseteq ticket.tags \cup given BY <1>3 DEF given
  <2>15. ASSUME NEW j \in DOMAIN evals' PROVE RunSound(evals[j])' /\ evals'[j].e = evals[j].e
    <3>1. PICK x : x = evals'[j] OBVIOUS
    <3>2. CASE j = i BY <2>11, <2>13, <3>1, <3>2 DEF q
    <3>3. CASE j # i
      <4>1. RunSound(evals[j]) /\ x = [evals[j] EXCEPT !.later = @ \cup given]
        BY <2>11, <3>1, <3>3 DEF EngineInv, RunsSound
      <4>2. RunSound(x)' /\ x.e = evals[j].e BY <1>1, <2>14, <4>1, LaterKeeps
      <4> QED BY <3>1, <4>2
    <3> QED BY <3>2, <3>3
  <2>16. RunsSound'
    BY <2>11, <2>15 DEF EngineInv, RunsSound, OnlyRun
  <2>17. RowFormed(ticket)' BY <1>3, <2>5 DEF RowFormed, TagSet
  <2> QED BY <1>1, <2>16, <2>17, WriteFrame
<1>4. QED BY <1>1, <1>2, <1>3 DEF Acts


(* The runs after events were added to them.                               *)
LEMMA EmitSound ==
  ASSUME NEW rs, NEW es, Listed(rs), Listed(es), evals' = Emit(rs, es),
         \A j \in DOMAIN rs : RunSound(rs[j])', \A m \in DOMAIN es : RunSound(Run(es[m]))',
         \A j, k \in DOMAIN rs : j # k => OnlyRun(rs[j], rs[k]),
         \A j \in DOMAIN rs, m \in DOMAIN es : OnlyRun(rs[j], Run(es[m])) /\ OnlyRun(Run(es[m]), rs[j]),
         \A m, n \in DOMAIN es : m # n => OnlyRun(Run(es[m]), Run(es[n]))
  PROVE  RunsSound'
<1>1. Len(rs) \in Nat /\ DOMAIN rs = 1 .. Len(rs) /\ Len(es) \in Nat /\ DOMAIN es = 1 .. Len(es) BY ListedFacts
<1>2. /\ Listed(evals') /\ Len(evals') = Len(rs) + Len(es)
      /\ \A j \in DOMAIN rs : evals'[j] = rs[j]
      /\ \A m \in DOMAIN es : evals'[Len(rs) + m] = Run(es[m])
  BY <1>1, EmitListed
<1>3. DOMAIN evals' = 1 .. Len(rs) + Len(es) BY <1>2, ListedFacts
<1>4. ASSUME NEW j \in DOMAIN evals' PROVE j \in DOMAIN rs \/ \E m \in DOMAIN es : j = Len(rs) + m
  <2>1. CASE j > Len(rs)
    <3>1. j - Len(rs) \in DOMAIN es /\ j = Len(rs) + (j - Len(rs)) BY <1>1, <1>3, <2>1
    <3> QED BY <3>1
  <2> QED BY <1>1, <1>3, <2>1
<1>5. ASSUME NEW j \in DOMAIN evals' PROVE RunSound(evals[j])'
  <2>1. CASE j \in DOMAIN rs
    <3>1. PICK x : x = rs[j] OBVIOUS
    <3>2. RunSound(x)' /\ evals'[j] = x BY <1>2, <2>1, <3>1
    <3> QED BY <3>2
  <2>2. CASE \E m \in DOMAIN es : j = Len(rs) + m
    <3>1. PICK m \in DOMAIN es : j = Len(rs) + m BY <2>2
    <3>2. PICK x : x = Run(es[m]) OBVIOUS
    <3>3. RunSound(x)' /\ evals'[j] = x BY <1>2, <3>1, <3>2
    <3> QED BY <3>3
  <2> QED BY <1>4, <2>1, <2>2
<1>6. ASSUME NEW j \in DOMAIN evals', NEW k \in DOMAIN evals', j # k PROVE OnlyRun(evals'[j], evals'[k])
  <2>1. CASE j \in DOMAIN rs /\ k \in DOMAIN rs BY <1>2, <1>6, <2>1
  <2>2. CASE j \in DOMAIN rs /\ \E m \in DOMAIN es : k = Len(rs) + m BY <1>2, <2>2
  <2>3. CASE k \in DOMAIN rs /\ \E m \in DOMAIN es : j = Len(rs) + m BY <1>2, <2>3
  <2>4. CASE (\E m \in DOMAIN es : j = Len(rs) + m) /\ \E m \in DOMAIN es : k = Len(rs) + m
    BY <1>2, <1>6, <2>4
  <2> QED BY <1>4, <2>1, <2>2, <2>3, <2>4
<1> QED BY <1>2, <1>5, <1>6 DEF RunsSound, OnlyRun

(* A run that starts on an event of the ticket, as it is then.             *)
LEMMA FreshAfter ==
  ASSUME NEW e, NEW x, x = Run(e), EventFresh(e, ticket'.tags)
  PROVE  RunSound(x)' /\ x.e = e
<1>1. x = [e |-> e, phase |-> "new", todo |-> {}, at |-> <<0, 0>>, acts |-> <<>>,
           added |-> {}, moved |-> "none", later |-> {}]
  BY DEF Run
<1>2. RunFormed(x)' BY <1>1, FS_EmptySet DEF EventFresh, RunFormed, EventFormed, TagSet
<1>3. RunAhead(x)' /\ TagsFollowed(x)' BY <1>1 DEF EventFresh, RunAhead, TagsFollowed, Looked
<1>4. x.e.key = <<>> BY <1>1 DEF EventFresh
<1>5. KeyRaised(x.e.key, x.e.event)' /\ (\A j \in DOMAIN sends : SendBehind(sends[j], x))'
  BY <1>4 DEF KeyRaised, SendBehind
<1>6. x.e = e BY <1>1
<1> HIDE DEF RunFormed, RunAhead, TagsFollowed, KeyRaised, SendBehind
<1> QED BY <1>2, <1>3, <1>5, <1>6 DEF RunSound

LEMMA FreshEmitted ==
  ASSUME NEW rs, NEW es, Listed(rs), Listed(es), evals' = Emit(rs, es),
         \A j \in DOMAIN rs : RunSound(rs[j])',
         \A j, k \in DOMAIN rs : j # k => OnlyRun(rs[j], rs[k]),
         \A m \in DOMAIN es : EventFresh(es[m], ticket'.tags)
  PROVE  RunsSound'
<1>1. ASSUME NEW m \in DOMAIN es PROVE RunSound(Run(es[m]))' /\ Run(es[m]).e.key = <<>>
  <2>1. PICK e : e = es[m] OBVIOUS
  <2>2. PICK x : x = Run(e) OBVIOUS
  <2>3. EventFresh(e, ticket'.tags) BY <2>1
  <2>4. RunSound(x)' /\ x.e = e BY <2>2, <2>3, FreshAfter
  <2> QED BY <2>1, <2>2, <2>3, <2>4 DEF EventFresh
<1>2. \A j \in DOMAIN rs, m \in DOMAIN es : OnlyRun(rs[j], Run(es[m])) /\ OnlyRun(Run(es[m]), rs[j])
  BY <1>1 DEF OnlyRun
<1>3. \A m, n \in DOMAIN es : m # n => OnlyRun(Run(es[m]), Run(es[n])) BY <1>1 DEF OnlyRun
<1> QED BY <1>1, <1>2, <1>3, EmitSound

LEMMA PatchKeeps ==
  ASSUME EngineInv, NEW tags, TagSet(tags), NEW status \in {"OPEN", "RESOLVED"}, AgentPatches(tags, status), UNCHANGED raised
  PROVE  EngineInv'
<1> PICK new : new = [ticket EXCEPT !.tags = tags, !.status = status] OBVIOUS
<1> DEFINE given == tags \ ticket.tags
<1>0. PICK es : es = Applied(new, given) \o Moved(new, MovedFrom(ticket, new)) OBVIOUS
<1>1. ticket' = new /\ evals' = Emit(Others(0, evals, given), es) /\ UNCHANGED <<rules, sends>>
  BY <1>0 DEF AgentPatches
<1>2. RowFormed(ticket) BY DEF EngineInv
<1>3. new = [tags |-> tags, status |-> status, team |-> ticket.team, owner |-> ticket.owner]
  BY <1>2 DEF RowFormed
<1>4. RowFormed(new) /\ new.tags = tags BY <1>3 DEF RowFormed
<1>5. IsFiniteSet(given) BY FS_Subset DEF TagSet
<1> HIDE DEF given
<1>6. Listed(es) /\ \A m \in DOMAIN es : EventFresh(es[m], ticket'.tags) BY <1>0, <1>1, <1>4, <1>5, EventsOfWrite
<1>7. ticket'.tags \subseteq ticket.tags \cup given BY <1>1, <1>4 DEF given
<1>8. PICK rs : rs = Others(0, evals, given) OBVIOUS
<1>9. Listed(evals) BY DEF EngineInv, RunsSound
<1>10. /\ Listed(rs) /\ DOMAIN rs = DOMAIN evals
       /\ \A j \in DOMAIN rs : rs[j] = [evals[j] EXCEPT !.later = @ \cup given]
  <2>1. DOMAIN evals = 1 .. Len(evals) /\ Len(evals) \in Nat BY <1>9, ListedFacts
  <2>2. \A j \in DOMAIN evals : j # 0 BY <2>1
  <2>3. /\ Listed(Others(0, evals, given)) /\ DOMAIN Others(0, evals, given) = DOMAIN evals
        /\ \A j \in DOMAIN evals :
             Others(0, evals, given)[j] = IF j = 0 THEN evals[j] ELSE [evals[j] EXCEPT !.later = @ \cup given]
    BY <1>9, OthersFacts
  <2>4. Listed(rs) /\ DOMAIN rs = DOMAIN evals BY <1>8, <2>3
  <2>5. ASSUME NEW j \in DOMAIN rs PROVE rs[j] = [evals[j] EXCEPT !.later = @ \cup given]
    BY <1>8, <2>2, <2>3, <2>4
  <2> QED BY <2>4, <2>5
<1>11. ASSUME NEW j \in DOMAIN rs PROVE RunSound(rs[j])' /\ rs[j].e = evals[j].e
  <2>1. PICK x : x = evals[j] OBVIOUS
  <2>2. PICK y : y = [x EXCEPT !.later = @ \cup given] OBVIOUS
  <2>3. RunSound(x) BY <1>10, <2>1 DEF EngineInv, RunsSound
  <2>4. RunSound(y)' /\ y.e = x.e BY <1>1, <1>7, <2>2, <2>3, LaterKeeps
  <2>5. rs[j] = y BY <1>10, <2>1, <2>2
  <2> QED BY <2>1, <2>4, <2>5
<1>12. \A j, k \in DOMAIN rs : j # k => OnlyRun(rs[j], rs[k])
  BY <1>10, <1>11 DEF EngineInv, RunsSound, OnlyRun
<1>13. RunsSound' BY <1>1, <1>6, <1>8, <1>10, <1>11, <1>12, FreshEmitted
<1>14. RowFormed(ticket)' BY <1>1, <1>4 DEF RowFormed, TagSet
<1> QED BY <1>1, <1>13, <1>14, WriteFrame

LEMMA RunStays ==
  ASSUME NEW x, RunSound(x), UNCHANGED <<rules, ticket, sends>>, raised \subseteq raised'
  PROVE  RunSound(x)'
<1>1. RunFormed(x)' BY DEF RunSound, RunFormed, EventFormed, TagSet
<1>2. RunAhead(x)' BY DEF RunSound, RunAhead, OnEvent, Places, Before
<1>3. TagsFollowed(x)' BY DEF RunSound, TagsFollowed, Looked, HasTicket
<1>4. KeyRaised(x.e.key, x.e.event)' BY DEF RunSound, KeyRaised
<1>5. (\A j \in DOMAIN sends : SendBehind(sends[j], x))' BY DEF RunSound, SendBehind, Behind, IsElse
<1> QED BY <1>1, <1>2, <1>3, <1>4, <1>5 DEF RunSound

LEMMA MessageKeeps ==
  ASSUME EngineInv, NEW phone, CustomerWrites(phone), UNCHANGED raised
  PROVE  EngineInv'
<1> PICK d : d = TicketEvent(ticket, "message.received", "") OBVIOUS
<1> PICK e : e = [d EXCEPT !.phone = phone] OBVIOUS
<1>1. evals' = Emit(evals, <<e>>) /\ UNCHANGED <<rules, ticket, sends>> BY DEF CustomerWrites
<1>2. RowFormed(ticket) BY DEF EngineInv
<1>3. EventFresh(e, ticket.tags)
  <2>1. EventFormed(d) /\ d.key = <<>> /\ ticket.tags \subseteq d.ticket.tags
    BY <1>2 DEF TicketEvent, EventFormed, RowFormed
  <2>2. e = [event |-> d.event, tag |-> d.tag, phone |-> phone, hour |-> d.hour, image |-> d.image,
             key |-> d.key, ticket |-> d.ticket]
    BY <2>1 DEF EventFormed
  <2> QED BY <2>1, <2>2 DEF EventFresh, EventFormed
<1>4. PICK rs : rs = evals OBVIOUS
<1>5. PICK es : es = <<e>> OBVIOUS
<1>6. Listed(es) /\ \A m \in DOMAIN es : EventFresh(es[m], ticket'.tags)
  BY <1>1, <1>3, <1>5, SingleListed
<1>7. ASSUME NEW j \in DOMAIN rs PROVE RunSound(rs[j])'
  <2>1. PICK x : x = rs[j] OBVIOUS
  <2>2. RunSound(x) BY <1>4, <2>1 DEF EngineInv, RunsSound
  <2>3. RunSound(x)' BY <1>1, <2>2, RunStays
  <2> QED BY <2>1, <2>3
<1>8. Listed(rs) /\ \A j, k \in DOMAIN rs : j # k => OnlyRun(rs[j], rs[k]) BY <1>4 DEF EngineInv, RunsSound
<1>9. RunsSound' BY <1>1, <1>4, <1>5, <1>6, <1>7, <1>8, FreshEmitted
<1> QED BY <1>1, <1>9, RestFrame

(* Rules turned on or off, and the receivers' steps that raise nothing.    *)
LEMMA EngineStays ==
  ASSUME EngineInv, UNCHANGED <<rules, ticket, sends, raised, evals>>
  PROVE  EngineInv'
<1>1. ASSUME NEW j \in DOMAIN evals' PROVE RunSound(evals[j])'
  <2>1. PICK x : x = evals'[j] OBVIOUS
  <2>2. RunSound(x) BY <2>1 DEF EngineInv, RunsSound
  <2>3. RunSound(x)' BY <2>2, RunStays
  <2> QED BY <2>1, <2>3
<1>2. RunsSound' BY <1>1 DEF EngineInv, RunsSound, OnlyRun
<1> QED BY <1>2, RestFrame

(* The process stops: no evaluation is left.                               *)
LEMMA EngineStopped ==
  ASSUME EngineInv, UNCHANGED <<rules, ticket, sends, raised>>, evals' = <<>>
  PROVE  EngineInv'
<1>1. RunsSound' BY NothingListed DEF RunsSound
<1> QED BY <1>1, RestFrame


(***************************************************************************)
(* What a post stands for                                                  *)
(***************************************************************************)
PartialName == "shopify.order.partially_fulfilled"
NoPostNames == TicketNames \cup {"whatsapp.button_reply", PartialName}
Stands(x, post, body) ==
  /\ x = [event |-> x.event, phone |-> x.phone, image |-> body.image] /\ x.event \notin NoPostNames
  /\ x.phone = RowPhone(post, body) \/ x.event = "shopify.fulfillment_order.split"

LEMMA ToldOnce ==
  ASSUME NEW name, NEW fields, NEW phone, \A f \in fields : f.phone = phone, NEW body
  PROVE  Told(name, fields, body) \subseteq {[event |-> name, phone |-> phone, image |-> body.image]}
BY DEF Told, Reached, Event

LEMMA OneEvent ==
  ASSUME NEW post, NEW body
  PROVE  \E x : EventsOf(post, body) \subseteq {x} /\ \A y \in EventsOf(post, body) : y = x /\ Stands(x, post, body)
<1> SUFFICES ASSUME EventsOf(post, body) # {}
             PROVE  \E x : EventsOf(post, body) \subseteq {x} /\ Stands(x, post, body)
  OBVIOUS
<1>e. ASSUME NEW name, NEW phone, name \notin NoPostNames,
             EventsOf(post, body) \subseteq {[event |-> name, phone |-> phone, image |-> body.image]},
             phone = RowPhone(post, body) \/ name = "shopify.fulfillment_order.split"
      PROVE  \E x : EventsOf(post, body) \subseteq {x} /\ Stands(x, post, body)
  <2>1. PICK x : x = [event |-> name, phone |-> phone, image |-> body.image] OBVIOUS
  <2>2. Stands(x, post, body) BY <1>e, <2>1 DEF Stands
  <2> QED BY <1>e, <2>1, <2>2
<1>1. CASE post.src = "shopify"
  <2> DEFINE topic == TopicOf(post)
  <2>1. EventsOf(post, body) = ShopifyEvents(topic, body) /\ RowPhone(post, body) = ShopifyPhone(topic, body)
    BY <1>1 DEF EventsOf, RowPhone
  <2> HIDE DEF topic
  <2>2. CASE topic \in {"orders/create", "orders/fulfilled", "orders/cancelled"}
    <3>1. PICK name \in {"shopify.order.confirmed", "shopify.order.fulfilled", "shopify.order.cancelled"} :
            ShopifyEvents(topic, body) = Told(name, OrderFields(body), body)
      BY <2>2 DEF ShopifyEvents, Confirmed, Fulfilled, Cancelled
    <3>2. CASE ~body.named
      <4>1. OrderFields(body) = {} BY <3>2 DEF OrderFields, None
      <4> QED BY <2>1, <3>1, <4>1 DEF Told, Reached
    <3>3. CASE body.named
      <4>1. \A f \in OrderFields(body) : f.phone = OrderPhone(body) BY <3>3 DEF OrderFields
      <4>2. ShopifyPhone(topic, body) = OrderPhone(body) BY <2>2, <3>3 DEF ShopifyPhone
      <4>3. Told(name, OrderFields(body), body) \subseteq {[event |-> name, phone |-> OrderPhone(body), image |-> body.image]}
        BY <4>1, ToldOnce
      <4>4. name \notin NoPostNames BY DEF NoPostNames, TicketNames, PartialName
      <4> QED BY <1>e, <2>1, <3>1, <4>2, <4>3, <4>4
    <3> QED BY <3>2, <3>3
  <2>3. CASE topic \in {"fulfillments/create", "fulfillments/update"}
    <3>1. PICK name \in {"shopify.fulfillment.created", "shopify.fulfillment.updated"} :
            ShopifyEvents(topic, body) = Told(name, FulfillmentFields(body), body)
      BY <2>3 DEF ShopifyEvents, Shipped
    <3>2. \A f \in FulfillmentFields(body) : f.phone = body.destination BY DEF FulfillmentFields, None
    <3>3. ShopifyPhone(topic, body) = body.destination BY <2>3 DEF ShopifyPhone
    <3>4. Told(name, FulfillmentFields(body), body) \subseteq {[event |-> name, phone |-> body.destination, image |-> body.image]}
      BY <3>2, ToldOnce
    <3>5. name \notin NoPostNames BY DEF NoPostNames, TicketNames, PartialName
    <3> QED BY <1>e, <2>1, <3>1, <3>3, <3>4, <3>5
  <2>4. CASE topic = "fulfillment_orders/split"
    <3>1. EventsOf(post, body) \subseteq {[event |-> "shopify.fulfillment_order.split", phone |-> "", image |-> body.image]}
      BY <2>1, <2>4 DEF ShopifyEvents, OrderSplit, Event, None
    <3>2. "shopify.fulfillment_order.split" \notin NoPostNames BY DEF NoPostNames, TicketNames, PartialName
    <3> QED BY <1>e, <3>1, <3>2
  <2>5. CASE topic \notin {"orders/create", "orders/fulfilled", "orders/cancelled", "fulfillments/create",
                           "fulfillments/update", "fulfillment_orders/split"}
    BY <2>1, <2>5 DEF ShopifyEvents, None
  <2> QED BY <2>2, <2>3, <2>4, <2>5
<1>2. CASE post.src = "clickpost"
  <2>1. EventsOf(post, body) = ClickpostEvents(body) /\ RowPhone(post, body) = Unmasked(body.phone)
    BY <1>2 DEF EventsOf, RowPhone
  <2>2. ClickpostStatus(body) # "raw" /\ ClickpostEvents(body) = Event(ClickpostStatus(body), Unmasked(body.phone), body)
    BY <2>1 DEF ClickpostEvents, None
  <2>3. ClickpostStatus(body) \notin NoPostNames
    <3>1. body.status \in DOMAIN ClickpostTable /\ ClickpostStatus(body) = ClickpostTable[body.status]
      BY <2>2 DEF ClickpostStatus
    <3>2. \A k \in DOMAIN ClickpostTable : ClickpostTable[k] \in ClickpostNames
      BY DEF ClickpostTable, ClickpostNames, DeliveredNames
    <3>3. ClickpostNames \cap NoPostNames = {} BY DEF ClickpostNames, DeliveredNames, NoPostNames, TicketNames, PartialName
    <3> QED BY <3>1, <3>2, <3>3
  <2> QED BY <1>e, <2>1, <2>2, <2>3 DEF Event
<1>3. CASE post.src = "return_prime"
  <2>1. EventsOf(post, body) = ReturnEvents(TopicOf(post), body) /\ RowPhone(post, body) = body.customer
    BY <1>3 DEF EventsOf, RowPhone
  <2>2. \E name \in {"return_prime.request.created", "return_prime.request.refunded"} :
          ReturnEvents(TopicOf(post), body) \subseteq {[event |-> name, phone |-> body.customer, image |-> body.image]}
    BY DEF ReturnEvents, Event, None
  <2>3. {"return_prime.request.created", "return_prime.request.refunded"} \cap NoPostNames = {}
    BY DEF NoPostNames, TicketNames, PartialName
  <2> QED BY <1>e, <2>1, <2>2, <2>3
<1>4. CASE post.src \notin {"shopify", "clickpost", "return_prime"}
  <2>1. EventsOf(post, body) = LensEvents(TopicOf(post), body) /\ RowPhone(post, body) = body.phone
    BY <1>4 DEF EventsOf, RowPhone
  <2>2. LensName(TopicOf(post)) \in LensNames BY DEF LensName, LensNames
  <2>3. LensNames \cap NoPostNames = {} BY DEF LensNames, NoPostNames, TicketNames, PartialName
  <2> QED BY <1>e, <2>1, <2>2, <2>3 DEF LensEvents, Event
<1> QED BY <1>1, <1>2, <1>3, <1>4

LEMMA OnePartial ==
  ASSUME NEW post, post.src = "shopify", post.topic = "fulfillments/create", NEW body, NEW context
  PROVE  \A y \in Partial(body, context) :
           y = [event |-> PartialName, phone |-> RowPhone(post, body), image |-> body.image]
<1>1. \A f \in FulfillmentFields(body) : f.phone = body.destination BY DEF FulfillmentFields, None
<1>2. RowPhone(post, body) = body.destination BY DEF RowPhone, ShopifyPhone, TopicOf
<1>3. Told(PartialName, FulfillmentFields(body), body)
        \subseteq {[event |-> PartialName, phone |-> body.destination, image |-> body.image]}
  BY <1>1, ToldOnce
<1> QED BY <1>2, <1>3 DEF Partial, None, PartialName

LEMMA KeyGiven == ASSUME NEW post PROVE KeyOf(post) # <<>>
<1>1. \A w, x, y, z : <<x, y>> # <<>> /\ <<x, y, z>> # <<>> /\ <<w, x, y, z>> # <<>> OBVIOUS
<1>2. \A ids, body : ClickpostKey(ids, body) # <<>> BY <1>1 DEF ClickpostKey
<1>3. \A topic, ids, body : ReturnKey(topic, ids, body) # <<>> BY <1>1 DEF ReturnKey
<1> QED BY <1>1, <1>2, <1>3 DEF KeyOf


(***************************************************************************)
(* The posts, their rows and what they raised                              *)
(***************************************************************************)
InTable(h) == try[h].phase \in {"saved", "asking"}
TryFormed(h) ==
  /\ try[h] = [phase |-> try[h].phase, body |-> try[h].body]
  /\ try[h].phase \in {"none", "enriching", "saving", "saved", "asking", "over"}
  /\ InTable(h) => HookRow(h) \in hookRows
  /\ try[h].phase = "asking" => h[1].src = "shopify" /\ h[1].topic = "fulfillments/create"
Awaited(h) ==
  \A e \in raised : e.key = EventKey(h) => try[h].phase # "saved" /\ (try[h].phase = "asking" => e.event # PartialName)
Witness(h, r) ==
  /\ try[h].phase \in {"saved", "asking", "over"} /\ HookRow(h) = r
  /\ try[h].phase = "saved" \/ r.key \in unraised \/ RaisedFor(h)
PostsSound ==
  /\ \A h, g \in All : h[1].id = g[1].id => h[1] = g[1]
  /\ DOMAIN answer = All
  /\ \A h \in All : TryFormed(h)
  /\ \A h, g \in All : InTable(h) /\ InTable(g) /\ EventKey(h) = EventKey(g) => h = g
RaisedSound ==
  /\ \A e \in raised : \E h \in All : e.post = h[1].id /\ e.key = EventKey(h)
  /\ \A e, f \in raised : e.key = f.key /\ e.event = f.event => e = f
  /\ \A h \in All : Awaited(h)
RowsSound ==
  /\ \A r, s \in hookRows : r.key = s.key => r = s
  /\ \A r \in hookRows : \E h \in All : Witness(h, r)
HookInv == PostsSound /\ RaisedSound /\ RowsSound /\ RaisedAsSaved /\ AcceptedIsSaved

LEMMA HookGives == HookInv => RaisedOnce /\ RaisedAsSaved /\ SavedIsRaised /\ AcceptedIsSaved
<1> SUFFICES ASSUME HookInv PROVE RaisedOnce /\ SavedIsRaised BY DEF HookInv
<1>1. RaisedOnce
  <2> SUFFICES ASSUME NEW e \in raised, NEW f \in raised, e.post = f.post, e.event = f.event PROVE e = f
    BY DEF RaisedOnce
  <2>1. PICK h \in All : e.post = h[1].id /\ e.key = EventKey(h) BY DEF HookInv, RaisedSound
  <2>2. PICK g \in All : f.post = g[1].id /\ f.key = EventKey(g) BY DEF HookInv, RaisedSound
  <2>3. h[1] = g[1] BY <2>1, <2>2 DEF HookInv, PostsSound
  <2>4. e.key = f.key BY <2>1, <2>2, <2>3 DEF EventKey
  <2> QED BY <2>4 DEF HookInv, RaisedSound
<1>2. SavedIsRaised BY DEF HookInv, RowsSound, Witness, SavedIsRaised
<1> QED BY <1>1, <1>2

(* What a step does to one post leaves the others as they were.            *)
MovesTo(h, y) ==
  /\ All' = All /\ try'[h] = y /\ \A g \in All \ {h} : try'[g] = try[g]
  /\ \A g \in All : EventKey(g)' = EventKey(g)

LEMMA MoveFacts ==
  ASSUME HookInv, NEW h \in All, NEW y, try' = [try EXCEPT ![h] = y]
  PROVE  MovesTo(h, y)
BY DEF MovesTo, All, EventKey

LEMMA OtherStays ==
  ASSUME NEW h, NEW y, MovesTo(h, y), NEW g \in All, g # h
  PROVE  /\ try'[g] = try[g] /\ HookRow(g)' = HookRow(g)
         /\ raised \subseteq raised' => (RaisedFor(g) => RaisedFor(g)')
         /\ InTable(g)' = InTable(g)
         /\ hookRows \subseteq hookRows' => (TryFormed(g) => TryFormed(g)')
         /\ unraised \subseteq unraised' /\ raised \subseteq raised' => \A r : Witness(g, r) => Witness(g, r)'
<1>1. try'[g] = try[g] BY DEF MovesTo
<1>2. HookRow(g)' = HookRow(g) BY <1>1 DEF HookRow, EventKey
<1>3. raised \subseteq raised' => (RaisedFor(g) => RaisedFor(g)') BY <1>1 DEF RaisedFor, EventKey
<1>4. InTable(g)' = InTable(g) BY <1>1 DEF InTable
<1>5. hookRows \subseteq hookRows' => (TryFormed(g) => TryFormed(g)') BY <1>1, <1>2, <1>4 DEF TryFormed
<1>6. unraised \subseteq unraised' /\ raised \subseteq raised' => \A r : Witness(g, r) => Witness(g, r)'
  BY <1>1, <1>2, <1>3 DEF Witness
<1> QED BY <1>1, <1>2, <1>3, <1>4, <1>5, <1>6

(* Before its insert, or refused by it, a post changes nothing.            *)
LEMMA HookSettles ==
  ASSUME HookInv, NEW h \in All, try[h].phase \in {"none", "enriching", "saving"},
         NEW y, try' = [try EXCEPT ![h] = y], y = [phase |-> y.phase, body |-> y.body],
         y.phase \in {"enriching", "saving", "over"}, UNCHANGED <<hookRows, raised, unraised>>,
         \/ UNCHANGED answer
         \/ \E word : answer' = [answer EXCEPT ![h] = word] /\ (word \in {"accepted", "deduped"} => Known(EventKey(h)))
  PROVE  HookInv'
<1>1. MovesTo(h, y) BY MoveFacts
<1>2. All' = All /\ try'[h] = y /\ \A g \in All : EventKey(g)' = EventKey(g) BY <1>1 DEF MovesTo
<1>3. ~InTable(h)' /\ ~InTable(h) BY <1>2 DEF InTable
<1>4. TryFormed(h)' BY <1>2, <1>3 DEF TryFormed
<1>5. PostsSound'
  <2>1. DOMAIN answer' = All' BY <1>2 DEF HookInv, PostsSound
  <2>2. (\A g, k \in All : g[1].id = k[1].id => g[1] = k[1])' BY <1>2 DEF HookInv, PostsSound
  <2>3. ASSUME NEW g \in All PROVE TryFormed(g)'
    BY <1>1, <1>4, OtherStays DEF HookInv, PostsSound
  <2>4. ASSUME NEW g \in All, NEW k \in All, InTable(g)', InTable(k)', EventKey(g)' = EventKey(k)' PROVE g = k
    <3>1. g # h /\ k # h BY <1>3, <2>4
    <3>2. InTable(g) /\ InTable(k) BY <1>1, <2>4, <3>1, OtherStays
    <3> QED BY <1>2, <2>4, <3>2 DEF HookInv, PostsSound
  <2>5. (\A g \in All : TryFormed(g))' BY <1>2, <2>3
  <2>6. (\A g, k \in All : InTable(g) /\ InTable(k) /\ EventKey(g) = EventKey(k) => g = k)' BY <1>2, <2>4
  <2> QED BY <2>1, <2>2, <2>5, <2>6 DEF PostsSound
<1>6. RaisedSound'
  <2>1. (\A e \in raised : \E g \in All : e.post = g[1].id /\ e.key = EventKey(g))'
    BY <1>2 DEF HookInv, RaisedSound
  <2>2. ASSUME NEW g \in All PROVE Awaited(g)'
    <3>1. CASE g = h BY <1>2, <3>1 DEF Awaited
    <3>2. CASE g # h
      <4>1. try'[g] = try[g] BY <1>1, <3>2, OtherStays
      <4> QED BY <1>2, <4>1 DEF Awaited, HookInv, RaisedSound
    <3> QED BY <3>1, <3>2
  <2>3. (\A g \in All : Awaited(g))' BY <1>2, <2>2
  <2> QED BY <2>1, <2>3 DEF HookInv, RaisedSound
<1>7. RowsSound'
  <2>1. ASSUME NEW r \in hookRows PROVE \E g \in All : Witness(g, r)'
    <3>1. PICK g \in All : Witness(g, r) BY DEF HookInv, RowsSound
    <3>2. g # h BY <3>1 DEF Witness
    <3> QED BY <1>1, <3>1, <3>2, OtherStays
  <2>2. (\A r \in hookRows : \E g \in All : Witness(g, r))' BY <1>2, <2>1
  <2> QED BY <2>2 DEF HookInv, RowsSound
<1>8. RaisedAsSaved' BY DEF HookInv, RaisedAsSaved
<1>9. AcceptedIsSaved' BY <1>2 DEF HookInv, PostsSound, AcceptedIsSaved, Known
<1> QED BY <1>5, <1>6, <1>7, <1>8, <1>9 DEF HookInv

LEMMA ArrivesKeeps == ASSUME HookInv, NEW h \in All, Arrives(h) PROVE HookInv'
<1>1. try[h] = [phase |-> try[h].phase, body |-> try[h].body] BY DEF HookInv, PostsSound, TryFormed
<1>2. PICK y : y = [try[h] EXCEPT !.phase = "enriching"] OBVIOUS
<1>3. try' = [try EXCEPT ![h] = y] BY <1>2 DEF Arrives, Moves, All
<1>4. y = [phase |-> "enriching", body |-> try[h].body] BY <1>1, <1>2
<1> QED BY <1>3, <1>4, HookSettles DEF Arrives

LEMMA EnrichesKeeps == ASSUME HookInv, NEW h \in All, Enriches(h) PROVE HookInv'
<1>1. try[h] = [phase |-> try[h].phase, body |-> try[h].body] BY DEF HookInv, PostsSound, TryFormed
<1>2. PICK b : try' = [try EXCEPT ![h].phase = "saving", ![h].body = b]
  <2>1. PICK result : try' = [try EXCEPT ![h].phase = "saving", ![h].body = IF result = "none" THEN @ ELSE Enriched(h[1], result)]
    BY DEF Enriches
  <2>2. CASE result = "none"
    <3>1. try' = [try EXCEPT ![h].phase = "saving", ![h].body = try[h].body]
      BY <1>1, <2>1, <2>2 DEF All
    <3> QED BY <3>1
  <2>3. CASE result # "none" BY <2>1, <2>3
  <2> QED BY <2>2, <2>3
<1>3. PICK y : y = [try[h] EXCEPT !.phase = "saving", !.body = b] OBVIOUS
<1>4. try' = [try EXCEPT ![h] = y] BY <1>2, <1>3 DEF All
<1>5. y = [phase |-> "saving", body |-> b] BY <1>1, <1>3
<1> QED BY <1>4, <1>5, HookSettles DEF Enriches

LEMMA SaveFailsKeeps == ASSUME HookInv, NEW h \in All, SaveFails(h) PROVE HookInv'
<1>1. try[h] = [phase |-> try[h].phase, body |-> try[h].body] BY DEF HookInv, PostsSound, TryFormed
<1>2. PICK y : y = [try[h] EXCEPT !.phase = "over"] OBVIOUS
<1>3. try' = [try EXCEPT ![h] = y] BY <1>2 DEF SaveFails, Moves, All
<1>4. y = [phase |-> "over", body |-> try[h].body] BY <1>1, <1>2
<1>5. answer' = [answer EXCEPT ![h] = "failed"] BY DEF SaveFails, Answers, ErrorAnswer
<1>6. "failed" \notin {"accepted", "deduped"} OBVIOUS
<1>7. \E word : answer' = [answer EXCEPT ![h] = word] /\ (word \in {"accepted", "deduped"} => Known(EventKey(h)))
  BY <1>5, <1>6
<1>8. y.phase = "over" /\ y = [phase |-> y.phase, body |-> y.body] BY <1>4
<1>9. try[h].phase = "saving" /\ UNCHANGED <<hookRows, raised, unraised>> BY DEF SaveFails
<1> QED BY <1>3, <1>7, <1>8, <1>9, HookSettles

LEMMA DuplicateKeeps == ASSUME HookInv, NEW h \in All, HookSaves(h), Seen(h) PROVE HookInv'
<1>1. try[h] = [phase |-> try[h].phase, body |-> try[h].body] BY DEF HookInv, PostsSound, TryFormed
<1>2. PICK y : y = [try[h] EXCEPT !.phase = "over"] OBVIOUS
<1>3. try' = [try EXCEPT ![h] = y] BY <1>2 DEF HookSaves, Moves, All
<1>4. y = [phase |-> "over", body |-> try[h].body] BY <1>1, <1>2
<1>5. answer' = [answer EXCEPT ![h] = "deduped"] /\ Known(EventKey(h)) BY DEF HookSaves, Answers, Seen
<1> QED BY <1>3, <1>4, <1>5, HookSettles DEF HookSaves

LEMMA InsertKeeps == ASSUME HookInv, NEW h \in All, HookSaves(h), ~Seen(h) PROVE HookInv'
<1>1. try[h] = [phase |-> try[h].phase, body |-> try[h].body] BY DEF HookInv, PostsSound, TryFormed
<1>2. PICK y : y = [try[h] EXCEPT !.phase = "saved"] OBVIOUS
<1>3. try' = [try EXCEPT ![h] = y] BY <1>2 DEF HookSaves, Moves, All
<1>4. y = [phase |-> "saved", body |-> try[h].body] BY <1>1, <1>2
<1>5. /\ hookRows' = hookRows \cup {HookRow(h)} /\ UNCHANGED <<answer, raised, unraised>> /\ ~Known(EventKey(h))
      /\ try[h].phase = "saving"
  BY DEF HookSaves, Seen
<1>6. MovesTo(h, y) BY <1>3, MoveFacts
<1>7. All' = All /\ try'[h] = y /\ \A g \in All : EventKey(g)' = EventKey(g) BY <1>6 DEF MovesTo
<1>8. HookRow(h)' = HookRow(h) /\ HookRow(h).key = EventKey(h) /\ InTable(h)' BY <1>4, <1>7 DEF HookRow, EventKey, InTable
<1>9. \A r \in hookRows : r.key # EventKey(h) BY <1>5 DEF Known
<1>10. ASSUME NEW g \in All, InTable(g) PROVE EventKey(g) # EventKey(h)
  <2>1. HookRow(g) \in hookRows /\ HookRow(g).key = EventKey(g) BY <1>10 DEF HookInv, PostsSound, TryFormed, HookRow
  <2> QED BY <1>9, <2>1
<1>11. \A e \in raised : e.key # EventKey(h) BY <1>9 DEF HookInv, RaisedAsSaved
<1>12. PostsSound'
  <2>1. DOMAIN answer' = All' BY <1>5, <1>7 DEF HookInv, PostsSound
  <2>2. (\A g, k \in All : g[1].id = k[1].id => g[1] = k[1])' BY <1>7 DEF HookInv, PostsSound
  <2>3. TryFormed(h)' BY <1>4, <1>5, <1>7, <1>8 DEF TryFormed
  <2>4. ASSUME NEW g \in All PROVE TryFormed(g)'
    BY <1>5, <1>6, <2>3, OtherStays DEF HookInv, PostsSound
  <2>5. ASSUME NEW g \in All, NEW k \in All, InTable(g)', InTable(k)', EventKey(g)' = EventKey(k)' PROVE g = k
    <3>1. EventKey(g) = EventKey(k) BY <1>7, <2>5
    <3>2. \A m \in All : m # h /\ InTable(m)' => InTable(m) BY <1>6, OtherStays
    <3>3. CASE g # h /\ k # h BY <2>5, <3>1, <3>2, <3>3 DEF HookInv, PostsSound
    <3>4. CASE g = h /\ k # h BY <1>10, <2>5, <3>1, <3>2, <3>4
    <3>5. CASE g # h /\ k = h BY <1>10, <2>5, <3>1, <3>2, <3>5
    <3> QED BY <3>3, <3>4, <3>5
  <2>6. (\A g \in All : TryFormed(g))' BY <1>7, <2>4
  <2>7. (\A g, k \in All : InTable(g) /\ InTable(k) /\ EventKey(g) = EventKey(k) => g = k)' BY <1>7, <2>5
  <2> QED BY <2>1, <2>2, <2>6, <2>7 DEF PostsSound
<1>13. RaisedSound'
  <2>1. (\A e \in raised : \E g \in All : e.post = g[1].id /\ e.key = EventKey(g))'
    BY <1>5, <1>7 DEF HookInv, RaisedSound
  <2>2. ASSUME NEW g \in All PROVE Awaited(g)'
    <3>1. CASE g = h BY <1>5, <1>7, <1>11, <3>1 DEF Awaited
    <3>2. CASE g # h
      <4>1. try'[g] = try[g] BY <1>6, <3>2, OtherStays
      <4> QED BY <1>5, <1>7, <4>1 DEF Awaited, HookInv, RaisedSound
    <3> QED BY <3>1, <3>2
  <2>3. (\A g \in All : Awaited(g))' BY <1>7, <2>2
  <2>4. (\A e, f \in raised : e.key = f.key /\ e.event = f.event => e = f)' BY <1>5 DEF HookInv, RaisedSound
  <2> QED BY <2>1, <2>3, <2>4 DEF RaisedSound
<1>14. RowsSound'
  <2>1. ASSUME NEW r \in hookRows' PROVE \E g \in All : Witness(g, r)'
    <3>1. CASE r = HookRow(h) BY <1>4, <1>7, <1>8, <3>1 DEF Witness
    <3>2. CASE r \in hookRows
      <4>1. PICK g \in All : Witness(g, r) BY <3>2 DEF HookInv, RowsSound
      <4>2. g # h BY <1>5, <4>1 DEF Witness
      <4> QED BY <1>5, <1>6, <4>1, <4>2, OtherStays
    <3> QED BY <1>5, <3>1, <3>2
  <2>2. (\A r \in hookRows : \E g \in All : Witness(g, r))' BY <1>7, <2>1
  <2>3. (\A r, s \in hookRows : r.key = s.key => r = s)' BY <1>5, <1>8, <1>9 DEF HookInv, RowsSound
  <2> QED BY <2>2, <2>3 DEF RowsSound
<1>15. RaisedAsSaved' BY <1>5 DEF HookInv, RaisedAsSaved
<1>16. AcceptedIsSaved' BY <1>5, <1>7 DEF HookInv, AcceptedIsSaved, Known
<1> QED BY <1>12, <1>13, <1>14, <1>15, <1>16 DEF HookInv


RaisedBy(h, e) ==
  [post |-> h[1].id, key |-> EventKey(h), event |-> e.event, phone |-> e.phone, image |-> e.image, try |-> h[2]]

(* A post saved raises one event at most, and one it has not raised.       *)
Raisable(h, events, x) ==
  /\ events \subseteq {x} /\ x = [event |-> x.event, phone |-> x.phone, image |-> try[h].body.image]
  /\ x.event \notin TicketNames \cup {"whatsapp.button_reply"}
  /\ x.phone = RowPhone(h[1], try[h].body) \/ x.event = "shopify.fulfillment_order.split"
  /\ \A e \in raised : e.key = EventKey(h) => e.event # x.event

LEMMA RaisesKeeps ==
  ASSUME HookInv, NEW h \in All, InTable(h), NEW y, try' = [try EXCEPT ![h] = y],
         y = [phase |-> y.phase, body |-> try[h].body], y.phase \in {"asking", "over"},
         NEW events, NEW x, Raisable(h, events, x), raised' = raised \cup {RaisedBy(h, e) : e \in events},
         y.phase = "asking" => x.event # PartialName /\ h[1].src = "shopify" /\ h[1].topic = "fulfillments/create",
         try[h].phase = "saved" => RaisedFor(h)', UNCHANGED <<hookRows, unraised>>,
         UNCHANGED answer \/ answer' = [answer EXCEPT ![h] = "accepted"]
  PROVE  HookInv'
<1>1. MovesTo(h, y) BY MoveFacts
<1>2. All' = All /\ try'[h] = y /\ \A g \in All : EventKey(g)' = EventKey(g) BY <1>1 DEF MovesTo
<1>3. HookRow(h)' = HookRow(h) /\ HookRow(h) \in hookRows /\ y.body = try[h].body
  <2>1. y.body = try[h].body OBVIOUS
  <2>2. HookRow(h) \in hookRows BY DEF HookInv, PostsSound, TryFormed
  <2>3. HookRow(h)' = HookRow(h) BY <1>2, <2>1 DEF HookRow, EventKey
  <2> QED BY <2>1, <2>2, <2>3
<1>4. HookRow(h) = [key |-> EventKey(h), phone |-> RowPhone(h[1], try[h].body), body |-> try[h].body] BY DEF HookRow
<1>5. raised \subseteq raised' OBVIOUS
<1>6. ASSUME NEW f \in raised', f \notin raised
      PROVE  /\ x \in events /\ f = RaisedBy(h, x)
             /\ f.post = h[1].id /\ f.key = EventKey(h) /\ f.event = x.event /\ f.phone = x.phone /\ f.image = try[h].body.image
  <2>1. PICK e \in events : f = RaisedBy(h, e) BY <1>6
  <2>2. e = x BY DEF Raisable
  <2> QED BY <2>1, <2>2 DEF RaisedBy, Raisable
<1>7. RaisedFor(h) => RaisedFor(h)' BY <1>2, <1>3, <1>5 DEF RaisedFor, EventKey
<1>8. PostsSound'
  <2>1. DOMAIN answer' = All' BY <1>2 DEF HookInv, PostsSound
  <2>2. (\A g, k \in All : g[1].id = k[1].id => g[1] = k[1])' BY <1>2 DEF HookInv, PostsSound
  <2>3. TryFormed(h)' BY <1>2, <1>3 DEF TryFormed
  <2>4. ASSUME NEW g \in All PROVE TryFormed(g)'
    BY <1>1, <2>3, OtherStays DEF HookInv, PostsSound
  <2>5. \A g \in All : InTable(g)' => InTable(g) BY <1>1, OtherStays
  <2>6. (\A g \in All : TryFormed(g))' BY <1>2, <2>4
  <2>7. (\A g, k \in All : InTable(g) /\ InTable(k) /\ EventKey(g) = EventKey(k) => g = k)'
    BY <1>2, <2>5 DEF HookInv, PostsSound
  <2> QED BY <2>1, <2>2, <2>6, <2>7 DEF PostsSound
<1>9. RaisedSound'
  <2>1. ASSUME NEW e \in raised' PROVE \E g \in All : e.post = g[1].id /\ e.key = EventKey(g)
    BY <1>6 DEF HookInv, RaisedSound
  <2>2. ASSUME NEW g \in All PROVE Awaited(g)'
    <3>1. CASE g = h
      <4>1. y.phase = "asking" => \A e \in raised' : e.key = EventKey(h) => e.event # PartialName
        <5> SUFFICES ASSUME y.phase = "asking", NEW e \in raised', e.key = EventKey(h) PROVE e.event # PartialName
          OBVIOUS
        <5>1. CASE e \in raised BY <5>1 DEF HookInv, RaisedSound, Awaited, InTable
        <5>2. CASE e \notin raised BY <1>6, <5>2
        <5> QED BY <5>1, <5>2
      <4> QED BY <1>2, <3>1, <4>1 DEF Awaited
    <3>2. CASE g # h
      <4>1. try'[g] = try[g] BY <1>1, <3>2, OtherStays
      <4>2. EventKey(g) = EventKey(h) => ~InTable(g) BY <3>2 DEF HookInv, PostsSound
      <4>3. \A e \in raised' : e.key = EventKey(g) => e \in raised \/ ~InTable(g) BY <1>6, <4>2
      <4> QED BY <1>2, <4>1, <4>3 DEF Awaited, HookInv, RaisedSound, InTable
    <3> QED BY <3>1, <3>2
  <2>3. (\A g \in All : Awaited(g))' BY <1>2, <2>2
  <2>4. ASSUME NEW e \in raised', NEW f \in raised', e.key = f.key, e.event = f.event PROVE e = f
    <3>1. CASE e \in raised /\ f \in raised BY <2>4, <3>1 DEF HookInv, RaisedSound
    <3>2. CASE e \notin raised /\ f \notin raised BY <1>6, <3>2
    <3>3. CASE e \in raised /\ f \notin raised BY <1>6, <2>4, <3>3 DEF Raisable
    <3>4. CASE e \notin raised /\ f \in raised BY <1>6, <2>4, <3>4 DEF Raisable
    <3> QED BY <3>1, <3>2, <3>3, <3>4
  <2>5. (\A e \in raised : \E g \in All : e.post = g[1].id /\ e.key = EventKey(g))' BY <1>2, <2>1
  <2>6. (\A e, f \in raised : e.key = f.key /\ e.event = f.event => e = f)' BY <2>4
  <2> QED BY <2>3, <2>5, <2>6 DEF RaisedSound
<1>10. RowsSound'
  <2>1. ASSUME NEW r \in hookRows PROVE \E g \in All : Witness(g, r)'
    <3>1. PICK g \in All : Witness(g, r) BY DEF HookInv, RowsSound
    <3>2. CASE g # h BY <1>1, <1>5, <3>1, <3>2, OtherStays
    <3>3. CASE g = h BY <1>2, <1>3, <1>7, <3>1, <3>3 DEF Witness
    <3> QED BY <3>2, <3>3
  <2>2. (\A r \in hookRows : \E g \in All : Witness(g, r))' BY <1>2, <2>1
  <2> QED BY <2>2 DEF HookInv, RowsSound
<1>11. RaisedAsSaved'
  <2>1. ASSUME NEW e \in raised'
        PROVE  \E r \in hookRows : /\ r.key = e.key /\ r.body.image = e.image
                                   /\ r.phone = e.phone \/ e.event = "shopify.fulfillment_order.split"
    <3>1. CASE e \in raised BY <3>1 DEF HookInv, RaisedAsSaved
    <3>2. CASE e \notin raised BY <1>3, <1>4, <1>6, <3>2 DEF Raisable
    <3> QED BY <3>1, <3>2
  <2> QED BY <2>1 DEF RaisedAsSaved
<1>12. AcceptedIsSaved'
  <2>1. Known(EventKey(h)) BY <1>3, <1>4 DEF Known
  <2>2. Known(EventKey(h))' BY <1>2, <2>1 DEF Known
  <2> QED BY <1>2, <2>1, <2>2 DEF HookInv, PostsSound, AcceptedIsSaved, Known
<1> QED BY <1>8, <1>9, <1>10, <1>11, <1>12 DEF HookInv

(* Its run is the first of its key and event.                              *)
LEMMA RaisesRuns ==
  ASSUME EngineInv, NEW h \in All, NEW events, NEW x, Raisable(h, events, x), Raises(h, events)
  PROVE  EngineInv'
<1>1. /\ raised' = raised \cup {RaisedBy(h, e) : e \in events} /\ UNCHANGED <<rules, ticket, sends>>
      /\ evals' = Emit(evals, SetToSeq({Ticketless(h, e) : e \in events}))
  BY DEF Raises, RaisedBy
<1>2. raised \subseteq raised' BY <1>1
<1>3. PICK rs : rs = evals OBVIOUS
<1>4. PICK es : es = SetToSeq({Ticketless(h, e) : e \in events}) OBVIOUS
<1>5. ASSUME NEW j \in DOMAIN rs PROVE RunSound(rs[j])'
  <2>1. PICK q : q = rs[j] OBVIOUS
  <2>2. RunSound(q) BY <1>3, <2>1 DEF EngineInv, RunsSound
  <2>3. RunSound(q)' BY <1>1, <1>2, <2>2, RunStays
  <2> QED BY <2>1, <2>3
<1>6. Listed(rs) /\ \A j, k \in DOMAIN rs : j # k => OnlyRun(rs[j], rs[k]) BY <1>3 DEF EngineInv, RunsSound
<1>7. Listed(es) /\ \A m \in DOMAIN es : m = 1 /\ es[m] = Ticketless(h, x) /\ x \in events
  <2>1. CASE events = {}
    <3>1. {Ticketless(h, e) : e \in events} = {} BY <2>1
    <3> QED BY <1>4, <3>1, NoElement, NothingListed
  <2>2. CASE events # {}
    <3>1. events = {x} BY <2>2 DEF Raisable
    <3>2. {Ticketless(h, e) : e \in events} = {Ticketless(h, x)} BY <3>1
    <3>3. es = <<Ticketless(h, x)>> BY <1>4, <3>2, OneElement
    <3> QED BY <3>1, <3>3, SingleListed
  <2> QED BY <2>1, <2>2
<1>8. PICK e : e = Ticketless(h, x) OBVIOUS
<1>9. PICK d : d = Run(e) OBVIOUS
<1>10. /\ e = [event |-> x.event, tag |-> "", phone |-> x.phone, hour |-> 10, image |-> x.image,
              key |-> EventKey(h), ticket |-> [tags |-> {}, status |-> "OPEN", team |-> "", owner |-> "", channel |-> "none"]]
       /\ d = [e |-> e, phase |-> "new", todo |-> {}, at |-> <<0, 0>>, acts |-> <<>>,
               added |-> {}, moved |-> "none", later |-> {}]
  BY <1>8, <1>9 DEF Ticketless, NoTicketId, Run
<1>11. ASSUME x \in events PROVE RunSound(d)'
  <2>2. RunFormed(d)'
    <3>1. EventFormed(d.e)' /\ TagSet({}) BY <1>10, FS_EmptySet DEF EventFormed, TagSet
    <3>2. d = [e |-> e, phase |-> "new", todo |-> {}, at |-> <<0, 0>>, acts |-> <<>>,
               added |-> {}, moved |-> "none", later |-> {}]
      BY <1>10
    <3> HIDE DEF EventFormed, TagSet
    <3> QED BY <3>1, <3>2 DEF RunFormed
  <2>3. RunAhead(d)' BY <1>10 DEF RunAhead
  <2>4. TagsFollowed(d)' BY <1>10 DEF TagsFollowed, HasTicket, Raisable
  <2>5. KeyRaised(d.e.key, d.e.event)'
    <3>1. RaisedBy(h, x) \in raised' BY <1>1, <1>11
    <3>2. RaisedBy(h, x).key = d.e.key /\ RaisedBy(h, x).event = d.e.event BY <1>10 DEF RaisedBy
    <3> QED BY <3>1, <3>2 DEF KeyRaised
  <2>6. ASSUME NEW j \in DOMAIN sends PROVE ~(sends[j].key # <<>> /\ sends[j].key = d.e.key /\ rules[sends[j].at[1]].on = d.e.event)
    <3>1. KeyRaised(sends[j].key, rules[sends[j].at[1]].on) BY DEF EngineInv, SendsFormed
    <3> QED BY <1>10, <3>1 DEF KeyRaised, Raisable
  <2>7. (\A j \in DOMAIN sends : SendBehind(sends[j], d))' BY <1>1, <2>6 DEF SendBehind
  <2> QED BY <2>2, <2>3, <2>4, <2>5, <2>7 DEF RunSound
<1>12. ASSUME NEW j \in DOMAIN rs PROVE OnlyRun(rs[j], d) /\ OnlyRun(d, rs[j])
  <2>1. KeyRaised(rs[j].e.key, rs[j].e.event) BY <1>3 DEF EngineInv, RunsSound, RunSound
  <2>2. d.e.key = EventKey(h) /\ d.e.event = x.event /\ EventKey(h) # <<>> BY <1>10, KeyGiven DEF EventKey
  <2> QED BY <2>1, <2>2 DEF KeyRaised, Raisable, OnlyRun
<1>13. RunsSound'
  <2>1. ASSUME NEW m \in DOMAIN es PROVE Run(es[m]) = d /\ x \in events BY <1>7, <1>8, <1>9
  <2>2. \A m \in DOMAIN es : RunSound(Run(es[m]))'
    <3> TAKE m \in DOMAIN es
    <3>1. Run(es[m]) = d /\ RunSound(d)' BY <1>11, <2>1
    <3> QED BY <3>1
  <2>3. \A m, n \in DOMAIN es : m # n => OnlyRun(Run(es[m]), Run(es[n])) BY <1>7
  <2>4. evals' = Emit(rs, es) BY <1>1, <1>3, <1>4
  <2> QED BY <1>5, <1>6, <1>7, <1>12, <2>1, <2>2, <2>3, <2>4, EmitSound
<1>14. SendsFormed' BY <1>1, <1>2 DEF EngineInv, SendsFormed, SendFormed, KeyRaised
<1>15. SentOnce' BY <1>1 DEF EngineInv, SentOnce, IsElse
<1>16. RulesSaved' /\ RowFormed(ticket)' BY <1>1 DEF EngineInv, RulesSaved, RuleSaved, CasesValid, RowFormed
<1> QED BY <1>13, <1>14, <1>15, <1>16 DEF EngineInv

LEMMA DispatchesKeeps ==
  ASSUME EngineInv, HookInv, NEW h \in All, Dispatches(h)
  PROVE  EngineInv' /\ HookInv'
<1> DEFINE events == EventsOf(h[1], try[h].body)
<1>1. try[h].phase = "saved" /\ Raises(h, events) /\ UNCHANGED <<hookRows, unraised>> BY DEF Dispatches
<1>2. try[h] = [phase |-> try[h].phase, body |-> try[h].body] /\ InTable(h)
  BY <1>1 DEF HookInv, PostsSound, TryFormed, InTable
<1>3. PICK y : y = [try[h] EXCEPT !.phase = AfterDispatch(h)] OBVIOUS
<1>4. try' = [try EXCEPT ![h] = y] BY <1>3 DEF Dispatches, Moves, All
<1>5. y = [phase |-> AfterDispatch(h), body |-> try[h].body] BY <1>2, <1>3
<1>6. answer' = [answer EXCEPT ![h] = "accepted"] BY DEF Dispatches, Answers
<1>7. PICK z : events \subseteq {z} /\ \A v \in events : v = z /\ Stands(z, h[1], try[h].body) BY OneEvent
<1>8. PICK x : events \subseteq {x} /\ Stands(x, h[1], try[h].body)
  <2>1. CASE events # {} BY <1>7, <2>1
  <2>2. CASE events = {}
    <3>1. PICK w : w = [event |-> "shopify.fulfillment_order.split", phone |-> "", image |-> try[h].body.image] OBVIOUS
    <3>2. Stands(w, h[1], try[h].body) BY <3>1 DEF Stands, NoPostNames, TicketNames, PartialName
    <3> QED BY <2>2, <3>2
  <2> QED BY <2>1, <2>2
<1> HIDE DEF events
<1>9. \A e \in raised : e.key # EventKey(h) BY <1>1 DEF HookInv, RaisedSound, Awaited
<1>10. Raisable(h, events, x) BY <1>8, <1>9 DEF Raisable, Stands, NoPostNames
<1>11. EngineInv' BY <1>1, <1>10, RaisesRuns
<1>12. raised' = raised \cup {RaisedBy(h, e) : e \in events} BY <1>1 DEF Raises, RaisedBy
<1>13. RaisedFor(h)'
  <2>1. try'[h].body = try[h].body BY <1>4, <1>5 DEF All
  <2>2. \A e \in events : RaisedBy(h, e) \in raised' /\ RaisedBy(h, e).key = EventKey(h) /\ RaisedBy(h, e).event = e.event
    BY <1>12 DEF RaisedBy
  <2> QED BY <2>1, <2>2 DEF RaisedFor, EventKey, events
<1>14. y.phase \in {"asking", "over"} BY <1>5 DEF AfterDispatch
<1>15. y.phase = "asking" => x.event # PartialName /\ h[1].src = "shopify" /\ h[1].topic = "fulfillments/create"
  BY <1>5, <1>8 DEF AfterDispatch, AsksContext, Stands, NoPostNames
<1>16. y = [phase |-> y.phase, body |-> try[h].body] BY <1>5
<1>17. HookInv' BY <1>1, <1>2, <1>4, <1>6, <1>10, <1>12, <1>13, <1>14, <1>15, <1>16, RaisesKeeps
<1> QED BY <1>11, <1>17

LEMMA HearsKeeps ==
  ASSUME EngineInv, HookInv, NEW h \in All, HearsContext(h)
  PROVE  EngineInv' /\ HookInv'
<1>1. try[h].phase = "asking" /\ UNCHANGED <<hookRows, answer, unraised>> BY DEF HearsContext
<1>2. PICK c : Raises(h, Partial(try[h].body, c)) BY DEF HearsContext
<1> DEFINE events == Partial(try[h].body, c)
<1>3. try[h] = [phase |-> try[h].phase, body |-> try[h].body] /\ InTable(h)
      /\ h[1].src = "shopify" /\ h[1].topic = "fulfillments/create"
  BY <1>1 DEF HookInv, PostsSound, TryFormed, InTable
<1>4. PICK y : y = [try[h] EXCEPT !.phase = "over"] OBVIOUS
<1>5. try' = [try EXCEPT ![h] = y] BY <1>4 DEF HearsContext, Moves, All
<1>6. y = [phase |-> "over", body |-> try[h].body] BY <1>3, <1>4
<1>7. PICK x : x = [event |-> PartialName, phone |-> RowPhone(h[1], try[h].body), image |-> try[h].body.image] OBVIOUS
<1>8. events \subseteq {x} BY <1>3, <1>7, OnePartial
<1> HIDE DEF events
<1>9. \A e \in raised : e.key = EventKey(h) => e.event # PartialName
  BY <1>1 DEF HookInv, RaisedSound, Awaited
<1>10. Raisable(h, events, x) BY <1>7, <1>8, <1>9 DEF Raisable, PartialName, TicketNames
<1>11. EngineInv' BY <1>2, <1>10, RaisesRuns DEF events
<1>12. raised' = raised \cup {RaisedBy(h, e) : e \in events} BY <1>2 DEF Raises, RaisedBy, events
<1>13. y.phase = "over" /\ y = [phase |-> y.phase, body |-> try[h].body] BY <1>6
<1>14. HookInv' BY <1>1, <1>3, <1>5, <1>10, <1>12, <1>13, RaisesKeeps
<1> QED BY <1>11, <1>14

LEMMA CrashKeeps ==
  ASSUME EngineInv, HookInv, Crash
  PROVE  EngineInv' /\ HookInv'
<1>1. /\ unraised' = unraised \cup {EventKey(h) : h \in {g \in All : try[g].phase = "saved"}}
      /\ try' = [h \in All |-> IF try[h].phase = "none" THEN try[h] ELSE [try[h] EXCEPT !.phase = "over"]]
      /\ evals' = <<>> /\ UNCHANGED <<rules, ticket, sends, hookRows, raised, answer>>
  BY DEF Crash
<1>2. EngineInv' BY <1>1, EngineStopped
<1>3. All' = All BY <1>1 DEF All
<1>4. ASSUME NEW h \in All
      PROVE  /\ try'[h] = [phase |-> IF try[h].phase = "none" THEN "none" ELSE "over", body |-> try[h].body]
             /\ EventKey(h)' = EventKey(h) /\ HookRow(h)' = HookRow(h)
  <2>1. try[h] = [phase |-> try[h].phase, body |-> try[h].body] BY DEF HookInv, PostsSound, TryFormed
  <2>2. try'[h] = IF try[h].phase = "none" THEN try[h] ELSE [try[h] EXCEPT !.phase = "over"] BY <1>1
  <2>3. try'[h] = [phase |-> IF try[h].phase = "none" THEN "none" ELSE "over", body |-> try[h].body]
    <3>1. CASE try[h].phase = "none" BY <2>1, <2>2, <3>1
    <3>2. CASE try[h].phase # "none" BY <2>1, <2>2, <3>2
    <3> QED BY <3>1, <3>2
  <2> QED BY <2>3 DEF EventKey, HookRow
<1>p. ASSUME NEW h \in All
      PROVE  /\ try'[h].phase \in {"none", "over"} /\ (try[h].phase # "none" => try'[h].phase = "over")
             /\ try'[h] = [phase |-> try'[h].phase, body |-> try'[h].body] /\ try'[h].body = try[h].body
  <2>1. PICK p : p = IF try[h].phase = "none" THEN "none" ELSE "over" OBVIOUS
  <2>2. try'[h] = [phase |-> p, body |-> try[h].body] BY <1>4, <2>1
  <2> QED BY <2>1, <2>2
<1>5. PostsSound'
  <2>1. \A h \in All : ~InTable(h)' BY <1>p DEF InTable
  <2>2. \A h \in All : TryFormed(h)' BY <1>p, <2>1 DEF TryFormed
  <2>3. (\A h \in All : TryFormed(h))' BY <1>3, <2>2
  <2>4. (\A g, k \in All : InTable(g) /\ InTable(k) /\ EventKey(g) = EventKey(k) => g = k)' BY <1>3, <2>1
  <2> QED BY <1>1, <1>3, <2>3, <2>4 DEF HookInv, PostsSound
<1>6. RaisedSound'
  <2>1. (\A e \in raised : \E g \in All : e.post = g[1].id /\ e.key = EventKey(g))'
    BY <1>1, <1>3, <1>4 DEF HookInv, RaisedSound
  <2>2. (\A g \in All : Awaited(g))' BY <1>3, <1>p DEF Awaited
  <2> QED BY <1>1, <2>1, <2>2 DEF HookInv, RaisedSound
<1>7. RowsSound'
  <2>1. ASSUME NEW r \in hookRows PROVE \E g \in All : Witness(g, r)'
    <3>1. PICK g \in All : Witness(g, r) BY DEF HookInv, RowsSound
    <3>2. try[g].phase = "saved" => r.key \in unraised' BY <1>1, <3>1 DEF Witness, HookRow
    <3>3. RaisedFor(g) => RaisedFor(g)' BY <1>1, <1>4 DEF RaisedFor, EventKey
    <3>4. try'[g].phase = "over" BY <1>p, <3>1 DEF Witness
    <3>5. HookRow(g)' = r /\ (r.key \in unraised' \/ RaisedFor(g)') BY <1>1, <1>4, <3>1, <3>2, <3>3 DEF Witness
    <3> QED BY <3>4, <3>5 DEF Witness
  <2>2. (\A r \in hookRows : \E g \in All : Witness(g, r))' BY <1>1, <1>3, <2>1
  <2> QED BY <1>1, <2>2 DEF HookInv, RowsSound
<1>8. RaisedAsSaved' BY <1>1 DEF HookInv, RaisedAsSaved
<1>9. AcceptedIsSaved' BY <1>1, <1>3, <1>4 DEF HookInv, AcceptedIsSaved, Known
<1> QED BY <1>2, <1>5, <1>6, <1>7, <1>8, <1>9 DEF HookInv

LEMMA HookSame == ASSUME HookInv, UNCHANGED receiverVars PROVE HookInv'
<1> USE DEF receiverVars
<1>1. All' = All /\ \A h : EventKey(h)' = EventKey(h) /\ HookRow(h)' = HookRow(h) /\ InTable(h)' = InTable(h)
  BY DEF All, EventKey, HookRow, InTable
<1>2. PostsSound' BY <1>1 DEF HookInv, PostsSound, TryFormed
<1>3. RaisedSound' BY <1>1 DEF HookInv, RaisedSound, Awaited
<1>4. RowsSound' BY <1>1 DEF HookInv, RowsSound, Witness, RaisedFor
<1>5. RaisedAsSaved' /\ AcceptedIsSaved' BY <1>1 DEF HookInv, RaisedAsSaved, AcceptedIsSaved, Known
<1> QED BY <1>2, <1>3, <1>4, <1>5 DEF HookInv


(***************************************************************************)
(* The inductive invariant of the events                                   *)
(***************************************************************************)
DueSound == \A p \in due.patches : TagSet(p.tags) /\ p.status \in {"OPEN", "RESOLVED"}
AutomationsInv == EngineInv /\ HookInv /\ DueSound

LEMMA AutomationsStarts == AutomationsStart => AutomationsInv
<1> SUFFICES ASSUME NEW c \in AutomationsCases, AutomationsInit(c.rules, c.due, c.breaks) PROVE AutomationsInv
  BY DEF AutomationsStart
<1>1. AutomationsCaseOK(c) /\ Tries \in Nat BY AutomationsAssumption
<1>2. EngineInv
  <2>1. RulesSaved BY <1>1 DEF AutomationsInit, AutomationsCaseOK, RulesSaved, Listed
  <2>2. RowFormed(ticket) BY FS_EmptySet DEF AutomationsInit, RowFormed, TagSet
  <2>3. evals = <<>> /\ sends = <<>> BY DEF AutomationsInit
  <2>4. RunsSound BY <2>3, NothingListed DEF RunsSound
  <2>5. SendsFormed BY <2>3, NothingListed DEF SendsFormed
  <2>6. SentOnce BY <2>3, NothingListed DEF SentOnce
  <2> QED BY <2>1, <2>2, <2>4, <2>5, <2>6 DEF EngineInv
<1>3. HookInv
  <2>1. /\ try = [h \in c.due.posts \X (1..Tries) |-> [phase |-> "none", body |-> h[1].body]]
        /\ hookRows = {} /\ raised = {} /\ answer = [h \in DOMAIN try |-> "none"]
    BY DEF AutomationsInit
  <2>2. All = c.due.posts \X (1 .. Tries) BY <2>1 DEF All
  <2>3. \A h \in All : try[h] = [phase |-> "none", body |-> h[1].body] /\ h[1] \in c.due.posts BY <2>1, <2>2
  <2>4. \A h, g \in All : h[1].id = g[1].id => h[1] = g[1] BY <1>1, <2>3 DEF AutomationsCaseOK
  <2>5. ASSUME NEW h \in All PROVE TryFormed(h) /\ ~InTable(h)
    <3>0. try[h] = [phase |-> "none", body |-> h[1].body] BY <2>3
    <3>1. try[h].phase = "none" /\ try[h].body = h[1].body BY <3>0
    <3>2. try[h] = [phase |-> try[h].phase, body |-> try[h].body] BY <2>3, <3>1
    <3> QED BY <3>1, <3>2 DEF TryFormed, InTable
  <2>6. PostsSound BY <2>1, <2>4, <2>5 DEF PostsSound, All
  <2>7. RaisedSound BY <2>1 DEF RaisedSound, Awaited
  <2>8. RowsSound /\ RaisedAsSaved BY <2>1 DEF RowsSound, RaisedAsSaved
  <2>9. AcceptedIsSaved
    <3>1. \A h \in All : answer[h] = "none" BY <2>1 DEF All
    <3> QED BY <3>1 DEF AcceptedIsSaved
  <2> QED BY <2>6, <2>7, <2>8, <2>9 DEF HookInv
<1>4. DueSound BY <1>1 DEF AutomationsInit, AutomationsCaseOK, DueSound, TagSet
<1> QED BY <1>2, <1>3, <1>4 DEF AutomationsInv

LEMMA EngineStepKeeps ==
  ASSUME EngineInv, NEW i \in DOMAIN evals, EngineStep(i), UNCHANGED raised
  PROVE  EngineInv'
BY LooksKeeps, ActsKeeps, SpeaksKeeps, CallsKeeps DEF EngineStep

LEMMA HookStepKeeps ==
  ASSUME EngineInv, HookInv, NEW h \in All, HookStep(h)
  PROVE  EngineInv' /\ HookInv'
<1>1. CASE Enriches(h)
  <2>1. UNCHANGED <<rules, ticket, sends, raised, evals>> BY <1>1 DEF Enriches, EngineRests, engineVars
  <2> QED BY <1>1, <2>1, EngineStays, EnrichesKeeps
<1>2. CASE HookSaves(h)
  <2>1. UNCHANGED <<rules, ticket, sends, raised, evals>> BY <1>2 DEF HookSaves, EngineRests, engineVars
  <2> QED BY <1>2, <2>1, EngineStays, DuplicateKeeps, InsertKeeps
<1>3. CASE SaveFails(h)
  <2>1. UNCHANGED <<rules, ticket, sends, raised, evals>> BY <1>3 DEF SaveFails, EngineRests, engineVars
  <2> QED BY <1>3, <2>1, EngineStays, SaveFailsKeeps
<1>4. CASE Dispatches(h) BY <1>4, DispatchesKeeps
<1>5. CASE HearsContext(h) BY <1>5, HearsKeeps
<1> QED BY <1>1, <1>2, <1>3, <1>4, <1>5 DEF HookStep

LEMMA AutomationsKeep ==
  ASSUME AutomationsInv, [AutomationsNext]_automationVars
  PROVE  AutomationsInv'
<1> USE DEF AutomationsInv
<1>1. CASE UNCHANGED automationVars
  <2>1. UNCHANGED receiverVars /\ UNCHANGED <<rules, ticket, sends, raised, evals>> /\ due' = due
    BY <1>1 DEF automationVars, allVars, engineVars, receiverVars
  <2> QED BY <2>1, EngineStays, HookSame DEF DueSound
<1>2. ASSUME Rests PROVE HookInv' /\ UNCHANGED raised BY <1>2, HookSame DEF Rests, receiverVars
<1>3. ASSUME NEW p \in due.patches, due' = [due EXCEPT !.patches = @ \ {p}], AgentPatches(p.tags, p.status), Rests
      PROVE  AutomationsInv'
  <2>1. TagSet(p.tags) /\ p.status \in {"OPEN", "RESOLVED"} BY DEF DueSound
  <2>2. EngineInv' BY <1>2, <1>3, <2>1, PatchKeeps
  <2>3. due'.patches \subseteq due.patches
    <3>1. CASE "patches" \in DOMAIN due BY <1>3, <3>1
    <3>2. CASE "patches" \notin DOMAIN due BY <1>3, <3>2
    <3> QED BY <3>1, <3>2
  <2>4. DueSound' BY <2>3 DEF DueSound
  <2> QED BY <1>2, <1>3, <2>2, <2>4
<1>4. ASSUME NEW n \in due.messages, due' = [due EXCEPT !.messages = @ \ {n}], CustomerWrites(n), Rests
      PROVE  AutomationsInv'
  <2>1. EngineInv' BY <1>2, <1>4, MessageKeeps
  <2>2. DueSound' BY <1>4 DEF DueSound
  <2> QED BY <1>2, <1>4, <2>1, <2>2
<1>5. ASSUME NEW k \in due.turns, due' = [due EXCEPT !.turns = @ \ {k}], RuleTurned(k), Rests
      PROVE  AutomationsInv'
  <2>1. EngineInv' BY <1>2, <1>5, EngineStays DEF RuleTurned
  <2>2. DueSound' BY <1>5 DEF DueSound
  <2> QED BY <1>2, <1>5, <2>1, <2>2
<1>6. ASSUME NEW h \in All, due' = due, Arrives(h)
      PROVE  AutomationsInv'
  <2>1. EngineInv' BY <1>6, EngineStays DEF Arrives, EngineRests, engineVars
  <2> QED BY <1>6, <2>1, ArrivesKeeps DEF DueSound
<1>7. CASE Crash /\ due' = due BY <1>7, CrashKeeps DEF DueSound
<1>8. ASSUME NEW i \in DOMAIN evals, due' = due, EngineStep(i), Rests
      PROVE  AutomationsInv'
  BY <1>2, <1>8, EngineStepKeeps DEF DueSound
<1>9. ASSUME NEW h \in UnderWay, due' = due, HookStep(h)
      PROVE  AutomationsInv'
  BY <1>9, HookStepKeeps DEF DueSound, UnderWay
<1> QED BY <1>1, <1>3, <1>4, <1>5, <1>6, <1>7, <1>8, <1>9 DEF AutomationsNext, Comes, Works

LEMMA AutomationsGive == AutomationsInv => EventsSound
<1> SUFFICES ASSUME AutomationsInv PROVE EventsSound OBVIOUS
<1>1. RaisedOnce /\ RaisedAsSaved /\ SavedIsRaised /\ AcceptedIsSaved BY HookGives DEF AutomationsInv
<1>2. AutomationsTypeOK
  <2>1. ticket.tags \subseteq STRING /\ ticket.status \in {"OPEN", "RESOLVED"}
    BY DEF AutomationsInv, EngineInv, RowFormed, TagSet
  <2>2. \A i \in DOMAIN evals : evals[i].phase \in {"new", "eval", "written"}
    BY DEF AutomationsInv, EngineInv, RunsSound, RunSound, RunFormed
  <2>3. \A r \in hookRows, s \in hookRows : r.key = s.key => r = s BY DEF AutomationsInv, HookInv, RowsSound
  <2>4. \A h \in All : try[h].phase \in {"none", "enriching", "saving", "saved", "asking", "over"}
    BY DEF AutomationsInv, HookInv, PostsSound, TryFormed
  <2> QED BY <2>1, <2>2, <2>3, <2>4 DEF AutomationsTypeOK
<1>3. SentOnce BY DEF AutomationsInv, EngineInv
<1> QED BY <1>1, <1>2, <1>3 DEF EventsSound

(* A post answered with 202 is in the table, its event is raised once and   *)
(* as saved, and a rule's actions are carried out once for it              *)
(* (the receivers' handle, the rule evaluator, the action handlers).      *)
THEOREM EventsCorrect == AutomationsSpec => []EventsSound
<1>1. AutomationsStart => AutomationsInv BY AutomationsStarts
<1>2. AutomationsInv /\ [AutomationsNext]_automationVars => AutomationsInv' BY AutomationsKeep
<1>3. AutomationsInv => EventsSound BY AutomationsGive
<1> QED BY <1>1, <1>2, <1>3, PTL DEF AutomationsSpec

(* An add_tag that is written takes off what came after its event.         *)
AddsOnly(i) ==
  Len(evals') = Len(evals) /\ evals'[i].phase = "written" /\ evals[i].phase = "eval"
  /\ Head(evals[i].acts).type = "add_tag"
  => ticket.tags \ ticket'.tags \subseteq evals[i].later

LEMMA ActsAdd ==
  ASSUME EngineInv, NEW k \in DOMAIN evals, Acts(k), NEW i \in DOMAIN evals
  PROVE  AddsOnly(i)
<1> DEFINE q == evals[k]
           a == Head(q.acts)
<1>1. CASE UNCHANGED ticket BY <1>1 DEF AddsOnly
<1>2. ASSUME NEW new \in Written(a, q.e), ticket' = new,
             evals' = Others(k, [evals EXCEPT ![k].phase = "written", ![k].added = new.tags \ ticket.tags,
                                              ![k].moved = MovedFrom(ticket, new)], new.tags \ ticket.tags)
      PROVE  AddsOnly(i)
  <2>1. PICK y : y = [q EXCEPT !.phase = "written", !.added = new.tags \ ticket.tags, !.moved = MovedFrom(ticket, new)]
    OBVIOUS
  <2>2. Listed(evals) BY DEF EngineInv, RunsSound
  <2>6. PICK os : os = [evals EXCEPT ![k].phase = "written", ![k].added = new.tags \ ticket.tags,
                                     ![k].moved = MovedFrom(ticket, new)]
    OBVIOUS
  <2>7. os = [evals EXCEPT ![k] = y] BY <2>1, <2>6
  <2>8. evals' = Others(k, os, new.tags \ ticket.tags) BY <1>2, <2>6
  <2>9. PICK given : given = new.tags \ ticket.tags OBVIOUS
  <2>10. evals' = Others(k, os, given) BY <2>8, <2>9
  <2>11. /\ Listed(evals') /\ DOMAIN evals' = DOMAIN evals
         /\ \A j \in DOMAIN evals : evals'[j] = IF j = k THEN y ELSE [evals[j] EXCEPT !.later = @ \cup given]
    BY <2>2, <2>7, <2>10, Rewritten
  <2>3. \A j \in DOMAIN evals : evals'[j] = IF j = k THEN y ELSE [evals[j] EXCEPT !.later = @ \cup (new.tags \ ticket.tags)]
    BY <2>9, <2>11
  <2>4. CASE i # k
    <3>1. RunFormed(evals[i]) BY RunFacts
    <3>2. evals'[i] = [evals[i] EXCEPT !.later = @ \cup (new.tags \ ticket.tags)] BY <2>3, <2>4
    <3>3. evals'[i].phase = evals[i].phase BY <3>1, <3>2 DEF RunFormed
    <3> QED BY <3>3 DEF AddsOnly
  <2>5. CASE i = k
    <3> SUFFICES ASSUME a.type = "add_tag", q.phase = "eval" PROVE ticket.tags \ ticket'.tags \subseteq q.later
      BY <2>5 DEF AddsOnly
    <3>1. HasTicket(q.e) /\ new \in Writes(a, q.e.ticket, ticket) BY <1>2 DEF Written
    <3>2. new = [ticket EXCEPT !.tags = q.e.ticket.tags \cup {a.arg}] BY <3>1 DEF Writes, AddTag
    <3>3. new.tags = q.e.ticket.tags \cup {a.arg} BY <3>2 DEF EngineInv, RowFormed
    <3>4. TagsFollowed(q) BY RunFacts
    <3>5. ticket.tags \ q.e.ticket.tags \subseteq q.later BY <3>1, <3>4 DEF TagsFollowed, Looked
    <3> QED BY <1>2, <3>3, <3>5
  <2> QED BY <2>4, <2>5
<1> QED BY <1>1, <1>2 DEF Acts

LEMMA PatchAdds ==
  ASSUME EngineInv, NEW tags, TagSet(tags), NEW status \in {"OPEN", "RESOLVED"}, AgentPatches(tags, status),
         NEW i \in DOMAIN evals
  PROVE  AddsOnly(i)
<1> PICK new : new = [ticket EXCEPT !.tags = tags, !.status = status] OBVIOUS
<1>0. PICK es : es = Applied(new, tags \ ticket.tags) \o Moved(new, MovedFrom(ticket, new)) OBVIOUS
<1>1. evals' = Emit(Others(0, evals, tags \ ticket.tags), es) BY <1>0 DEF AgentPatches
<1>2. new = [tags |-> tags, status |-> status, team |-> ticket.team, owner |-> ticket.owner]
  BY DEF EngineInv, RowFormed
<1>3. RowFormed(new) BY <1>2 DEF RowFormed
<1>4. Listed(es) BY <1>0, <1>3, EventsOfWrite, FS_Subset DEF TagSet
<1>5. Listed(evals) /\ RunFormed(evals[i]) BY RunFacts
<1>6. i \in 1 .. Len(evals) /\ Len(evals) \in Nat BY <1>5, ListedFacts
<1>7. PICK os : os = Others(0, evals, tags \ ticket.tags) OBVIOUS
<1>8. /\ Listed(os) /\ Len(os) = Len(evals)
      /\ os[i] = IF i = 0 THEN evals[i] ELSE [evals[i] EXCEPT !.later = @ \cup (tags \ ticket.tags)]
  BY <1>5, <1>7, OthersFacts
<1>9. evals'[i] = os[i]
  <2>1. \A j \in 1 .. Len(os) : Emit(os, es)[j] = os[j] BY ONLY <1>4, <1>8, EmitListed, Z3
  <2> QED BY <1>1, <1>6, <1>7, <1>8, <2>1
<1>10. evals'[i].phase = evals[i].phase BY <1>5, <1>8, <1>9 DEF RunFormed
<1> QED BY <1>10 DEF AddsOnly

(* add_tag takes off no tag that was on the ticket when its event was      *)
(* raised (the add_tag handler, TicketsService.update).                    *)
THEOREM RulesKeep == AutomationsSpec => RulesKeepTags
<1>1. AutomationsStart => AutomationsInv BY AutomationsStarts
<1>2. AutomationsInv /\ [AutomationsNext]_automationVars => AutomationsInv' BY AutomationsKeep
<1>3. ASSUME AutomationsInv, AutomationsNext, NEW i \in DOMAIN evals PROVE AddsOnly(i)
  <2> USE DEF AutomationsInv
  <2>1. CASE UNCHANGED ticket BY <2>1 DEF AddsOnly
  <2>2. ASSUME NEW p \in due.patches, AgentPatches(p.tags, p.status) PROVE AddsOnly(i)
    BY <1>3, <2>2, PatchAdds DEF DueSound
  <2>3. ASSUME NEW k \in DOMAIN evals, EngineStep(k), ~UNCHANGED ticket PROVE AddsOnly(i)
    <3>1. Acts(k) BY <2>3 DEF EngineStep, Looks, Speaks, Calls
    <3> QED BY <1>3, <3>1, ActsAdd
  <2>4. ASSUME NEW h \in All, HookStep(h) PROVE UNCHANGED ticket
    BY <2>4 DEF HookStep, Enriches, HookSaves, SaveFails, Dispatches, HearsContext, Raises, EngineRests, engineVars
  <2>5. ASSUME NEW h \in All, Arrives(h) PROVE UNCHANGED ticket BY <2>5 DEF Arrives, EngineRests, engineVars
  <2> QED
    BY <1>3, <2>1, <2>2, <2>3, <2>4, <2>5
    DEF AutomationsNext, Comes, Works, UnderWay, CustomerWrites, RuleTurned, Crash
<1>4. AutomationsInv /\ [AutomationsNext]_automationVars
      => [\A i \in DOMAIN evals : AddsOnly(i)]_automationVars
  BY <1>3
<1>5. [\A i \in DOMAIN evals : AddsOnly(i)]_automationVars
      => [\A i \in DOMAIN evals :
            /\ Len(evals') = Len(evals) /\ evals'[i].phase = "written" /\ evals[i].phase = "eval"
            /\ Head(evals[i].acts).type = "add_tag"
            => ticket.tags \ ticket'.tags \subseteq evals[i].later]_automationVars
  BY DEF AddsOnly
<1> QED BY <1>1, <1>2, <1>4, <1>5, PTL DEF AutomationsSpec, RulesKeepTags
=============================================================================
