-------------------------- MODULE ImapWorkerProofs --------------------------
(* Proof that the persisted cursor never runs ahead of the mail, for every *)
(* number of connections, overlapping callbacks and drains, and whatever   *)
(* requests and outages happen.                                            *)
(*                                                                         *)
(* NoSilentLoss is not inductive: the cursor is written from a drain's     *)
(* memory, which comes from a lastUid that several drains raise, and a     *)
(* drain raises it past what it passed over because lastUid was already    *)
(* higher.  The invariant says the same of all three: everything at or     *)
(* below a lastUid, and everything a drain has been through, is accounted  *)
(* for.                                                                    *)
EXTENDS ImapWorker, TLAPS

LastUidsAccounted == \A c \in Conns : \A u \in 1 .. conns[c].lastUid : Accounted(u)

Through(d) == {u \in 1 .. drains[d].uid : drains[d].phase = "ingest" => u # drains[d].uid}

DrainsAccounted == \A d \in Drains : \A u \in Through(d) : Accounted(u)

DrainsHaveConn == \A d \in Drains : drains[d].phase # "idle" => drains[d].conn \in Conns

IInv == TypeOK /\ NoSilentLoss /\ LastUidsAccounted /\ DrainsAccounted /\ DrainsHaveConn

LEMMA LargerIs ==
  ASSUME NEW a \in Nat, NEW b \in Nat
  PROVE  Larger(a, b) \in Nat /\ a <= Larger(a, b) /\ b <= Larger(a, b)
         /\ (Larger(a, b) = a \/ Larger(a, b) = b)
BY DEF Larger

LEMMA BootedType ==
  /\ Booted("boot") \in [Handlers -> Handler]
BY DEF Booted, Emitted, IdleHandler, Handler

(* Closing a socket or breaking drains changes no uid.                     *)
LEMMA BrokenType ==
  ASSUME NEW x \in Drain, NEW b \in BOOLEAN
  PROVE  LET y == [x EXCEPT !.broken = b]
         IN  y \in Drain /\ y.uid = x.uid /\ y.phase = x.phase /\ y.conn = x.conn
BY DEF Drain

LEMMA DrainsBroken ==
  ASSUME TypeOK, NEW c,
         drains' = [d \in Drains |-> [drains[d] EXCEPT !.broken = @ \/ drains[d].conn = c]]
  PROVE  /\ drains' \in [Drains -> Drain]
         /\ \A d \in Drains : /\ drains'[d].uid = drains[d].uid
                              /\ drains'[d].phase = drains[d].phase
                              /\ drains'[d].conn = drains[d].conn
<1>1. ASSUME NEW d \in Drains
      PROVE /\ drains'[d] \in Drain /\ drains'[d].uid = drains[d].uid
            /\ drains'[d].phase = drains[d].phase /\ drains'[d].conn = drains[d].conn
  <2> DEFINE b == drains[d].broken \/ drains[d].conn = c
  <2>1. drains'[d] = [drains[d] EXCEPT !.broken = b] BY Zenon
  <2>2. drains[d] \in Drain BY DEF TypeOK
  <2>3. b \in BOOLEAN OBVIOUS
  <2> HIDE DEF b
  <2> QED BY <2>1, <2>2, <2>3, BrokenType
<1> QED BY <1>1

LEMMA ConnWriters ==
  ASSUME NEW x \in Conn, NEW b \in BOOLEAN
  PROVE  /\ [x EXCEPT !.socket = b] \in Conn /\ [x EXCEPT !.socket = b].lastUid = x.lastUid
         /\ [x EXCEPT !.state = "stopped"] \in Conn
         /\ [x EXCEPT !.state = "stopped"].lastUid = x.lastUid
BY DEF Conn

LEMMA FreshConn ==
  LET started == [UnusedConn EXCEPT !.state = "starting"]
  IN  UnusedConn \in Conn /\ UnusedConn.lastUid = 0 /\ started \in Conn /\ started.lastUid = 0
BY DEF Conn, UnusedConn

LEMMA SocketSet ==
  ASSUME TypeOK, NEW c \in Conns, NEW b \in BOOLEAN, conns' = [conns EXCEPT ![c].socket = b]
  PROVE  /\ conns' \in [Conns -> Conn]
         /\ \A x \in Conns : conns'[x].lastUid = conns[x].lastUid
<1> DEFINE y == [conns[c] EXCEPT !.socket = b]
<1>1. conns' = [conns EXCEPT ![c] = y] OBVIOUS
<1>2. y \in Conn /\ y.lastUid = conns[c].lastUid BY ConnWriters DEF TypeOK
<1> HIDE DEF y
<1> QED BY <1>1, <1>2 DEF TypeOK

(* A stop that has found its connection waits for the logout.              *)
LEMMA LogoutType ==
  ASSUME NEW x \in Handler, NEW c \in Conns
  PROVE  [x EXCEPT !.phase = "logout", !.conn = c] \in Handler
BY DEF Handler

LEMMA StopBeginsType ==
  ASSUME TypeOK, NEW h \in Handlers, StopBegins(h)
  PROVE  handlers' \in [Handlers -> Handler]
<1>1. CASE registered # NoConn
           /\ handlers' = [handlers EXCEPT ![h].phase = "logout", ![h].conn = registered]
  <2> DEFINE y == [handlers[h] EXCEPT !.phase = "logout", !.conn = registered]
  <2>1. y \in Handler BY <1>1, LogoutType DEF TypeOK
  <2>2. handlers' = [handlers EXCEPT ![h] = y] BY <1>1
  <2> HIDE DEF y
  <2> QED BY <2>1, <2>2 DEF TypeOK
<1>2. CASE handlers' = AfterStop(h)
  BY <1>2 DEF AfterStop, TypeOK, Handler, Emitted, IdleHandler
<1> QED BY <1>1, <1>2 DEF StopBegins

LEMMA AfterStopType ==
  ASSUME TypeOK, NEW h \in Handlers PROVE AfterStop(h) \in [Handlers -> Handler]
BY DEF TypeOK, AfterStop, Emitted, IdleHandler, Handler

LEMMA InitInv == Init => IInv
<1> SUFFICES ASSUME Init PROVE IInv OBVIOUS
<1>1. TypeOK
  BY BootedType, BoundsAssumption
     DEF Init, TypeOK, UnusedConn, Conn, IdleDrain, Drain
<1>2. NoSilentLoss BY NullAssumption DEF Init, NoSilentLoss
<1>3. LastUidsAccounted BY DEF Init, LastUidsAccounted, UnusedConn
<1>4. DrainsAccounted BY DEF Init, DrainsAccounted, Through, IdleDrain
<1>5. DrainsHaveConn BY DEF Init, DrainsHaveConn, IdleDrain
<1> QED BY <1>1, <1>2, <1>3, <1>4, <1>5 DEF IInv

----------------------------------------------------------------------------
(* What a handler does to the connections and drains: it takes lastUid of  *)
(* a connection back to 0, or up to what the cursor or the floor covers,   *)
(* and it breaks drains.                                                   *)
LEMMA HandlerInv ==
  ASSUME IInv, NEW h \in Handlers,
         HandlerStep(h) \/ StartFails(h)
  PROVE  IInv'
<1> USE DEF IInv
<1>1. CASE StopBegins(h)
  <2>1. TypeOK'
    <3>1. handlers' \in [Handlers -> Handler] BY <1>1, StopBeginsType
    <3>2. conns' \in [Conns -> Conn] /\ drains' \in [Drains -> Drain]
      <4>1. CASE registered # NoConn
        <5> DEFINE y == [conns[registered] EXCEPT !.state = "stopped"]
        <5>1. y \in Conn BY <4>1, ConnWriters DEF TypeOK
        <5>2. conns' = [conns EXCEPT ![registered] = y] BY <1>1, <4>1 DEF StopBegins
        <5> HIDE DEF y
        <5>3. drains' = [d \in Drains |->
                           [drains[d] EXCEPT !.broken = @ \/ drains[d].conn = registered]]
          BY <1>1, <4>1 DEF StopBegins
        <5>4. drains' \in [Drains -> Drain]
          <6>1. TypeOK OBVIOUS
          <6> HIDE DEF IInv
          <6> QED BY <5>3, <6>1, DrainsBroken
        <5> QED BY <5>1, <5>2, <5>4 DEF TypeOK
      <4>2. CASE registered = NoConn BY <1>1, <4>2 DEF StopBegins, TypeOK
      <4> QED BY <4>1, <4>2
    <3> QED BY <1>1, <3>1, <3>2 DEF StopBegins, TypeOK, mail
  <2>2. \A c \in Conns : conns'[c].lastUid = conns[c].lastUid
    BY <1>1 DEF StopBegins, TypeOK, Conn
  <2>3. \A d \in Drains : /\ drains'[d].uid = drains[d].uid
                          /\ drains'[d].phase = drains[d].phase
                          /\ drains'[d].conn = drains[d].conn
    BY <1>1, DrainsBroken DEF StopBegins
  <2>4. \A u : Accounted(u)' <=> Accounted(u)
    BY <1>1 DEF StopBegins, mail, Accounted
  <2>5. cursor' = cursor BY <1>1 DEF StopBegins, mail
  <2> QED BY <2>1, <2>2, <2>3, <2>4, <2>5
          DEF NoSilentLoss, LastUidsAccounted, DrainsAccounted, Through, DrainsHaveConn
<1>2. CASE StopEnds(h) \/ StartIsNoop(h) \/ StartOpens(h) \/ StartRegisters(h)
  <2>1. UNCHANGED <<conns, drains, mail>>
    BY <1>2 DEF StopEnds, StartIsNoop, StartOpens, StartRegisters
  <2>2. TypeOK'
    <3>1. CASE StopEnds(h) BY <3>1, AfterStopType DEF StopEnds, TypeOK, mail
    <3>2. CASE StartIsNoop(h) BY <3>2 DEF StartIsNoop, TypeOK, Handler, IdleHandler, mail
    <3>3. CASE StartOpens(h)
      <4> DEFINE y == [handlers[h] EXCEPT !.phase = "read", !.base = box]
      <4>1. y \in Handler BY <3>3 DEF TypeOK, Handler
      <4>2. handlers' = [handlers EXCEPT ![h] = y] BY <3>3 DEF StartOpens
      <4> HIDE DEF y
      <4>3. handlers' \in [Handlers -> Handler] BY <4>1, <4>2 DEF TypeOK
      <4> QED BY <3>3, <4>3 DEF StartOpens, TypeOK, mail
    <3>4. CASE StartRegisters(h)
      BY <3>4 DEF StartRegisters, TypeOK, Handler, IdleHandler, mail
    <3> QED BY <1>2, <3>1, <3>2, <3>3, <3>4
  <2> QED BY <2>1, <2>2 DEF mail, NoSilentLoss, LastUidsAccounted, DrainsAccounted, Through,
                            DrainsHaveConn, Accounted
<1>3. ASSUME (\E c \in Conns : StartConnects(h, c)) \/ StartFails(h) PROVE IInv'
  <2>1. TypeOK'
    <3>1. handlers' \in [Handlers -> Handler]
      BY <1>3 DEF StartConnects, StartFails, TypeOK, Handler, IdleHandler
    <3>2. conns' \in [Conns -> Conn]
      BY <1>3, FreshConn DEF StartConnects, StartFails, TypeOK
    <3>3. budget' \in Nat BY <1>3 DEF StartConnects, StartFails, Happens, TypeOK
    <3> QED BY <1>3, <3>1, <3>2, <3>3 DEF StartConnects, StartFails, TypeOK, mail
  <2>2. \A c \in Conns : conns'[c].lastUid \in {0, conns[c].lastUid}
    BY <1>3 DEF StartConnects, StartFails, TypeOK, Conn, UnusedConn
  <2>3. UNCHANGED <<drains, mail>> BY <1>3 DEF StartConnects, StartFails
  <2>4. \A u : Accounted(u)' <=> Accounted(u) BY <2>3 DEF mail, Accounted
  <2> QED BY <2>1, <2>2, <2>3, <2>4
          DEF mail, NoSilentLoss, LastUidsAccounted, DrainsAccounted, Through, DrainsHaveConn
<1>4. CASE StartReadsCursor(h)
  <2> DEFINE base == handlers[h].base
             high == IF cursor = Null THEN base ELSE cursor
  <2>1. base \in Nat /\ high \in Nat BY <1>4 DEF TypeOK, Handler
  <2>2. floor' \in Nat /\ floor <= floor' /\ (cursor = Null => base <= floor')
    BY <1>4, <2>1, LargerIs DEF StartReadsCursor, TypeOK
  <2>3. \A u \in Nat : Accounted(u) => Accounted(u)'
    BY <1>4, <2>2 DEF StartReadsCursor, Accounted, TypeOK
  <2>4. \A u \in 1 .. high : Accounted(u)'
    <3>1. CASE cursor = Null BY <2>1, <2>2, <3>1 DEF Accounted
    <3>2. CASE cursor # Null BY <2>3, <3>2 DEF NoSilentLoss, TypeOK
    <3> QED BY <3>1, <3>2
  <2>5. \A c \in Conns : conns'[c].lastUid = conns[c].lastUid \/ conns'[c].lastUid = high
    BY <1>4, <2>1 DEF StartReadsCursor, TypeOK
  <2>6. TypeOK'
    <3>1. conns' \in [Conns -> Conn] BY <1>4, <2>1 DEF StartReadsCursor, TypeOK, Conn
    <3>2. handlers' \in [Handlers -> Handler]
      <4>1. [handlers[h] EXCEPT !.phase = "register"] \in Handler BY DEF TypeOK, Handler
      <4>2. handlers' = [handlers EXCEPT ![h] = [handlers[h] EXCEPT !.phase = "register"]]
        BY <1>4 DEF StartReadsCursor
      <4> QED BY <4>1, <4>2 DEF TypeOK
    <3> QED BY <1>4, <2>2, <3>1, <3>2 DEF StartReadsCursor, TypeOK
  <2>7. UNCHANGED <<drains, cursor>> BY <1>4 DEF StartReadsCursor
  <2>8. LastUidsAccounted' BY <2>3, <2>4, <2>5 DEF LastUidsAccounted, TypeOK, Conn
  <2>9. DrainsAccounted' BY <2>3, <2>7 DEF DrainsAccounted, Through, TypeOK, Drain
  <2>10. NoSilentLoss' /\ DrainsHaveConn'
    BY <2>3, <2>7 DEF NoSilentLoss, DrainsHaveConn, TypeOK
  <2> QED BY <2>6, <2>8, <2>9, <2>10
<1> QED BY <1>1, <1>2, <1>3, <1>4 DEF HandlerStep

----------------------------------------------------------------------------
(* A drain passes over only what lastUid already covers, and raises        *)
(* lastUid only to a message it has just stored, dropped or logged.        *)
LEMMA DrainAdvances ==
  ASSUME IInv, NEW d \in Drains, DrainIngests(d) \/ DrainSkips(d)
  PROVE  IInv'
<1> DEFINE n == drains[d].uid
           c == drains[d].conn
<1>1. n \in Nat /\ c \in Conns /\ drains[d].phase = "ingest"
  BY DEF IInv, TypeOK, Drain, DrainsHaveConn, DrainIngests, DrainSkips
<1>2. /\ conns' = [conns EXCEPT ![c].lastUid = Larger(@, n)]
      /\ drains' = [drains EXCEPT ![d].phase = "fetch"]
      /\ UNCHANGED <<worker, box, cursor, floor, budget>>
  BY DEF DrainIngests, DrainSkips, Advanced
<1>3. Larger(conns[c].lastUid, n) \in Nat
      /\ Larger(conns[c].lastUid, n) \in {conns[c].lastUid, n}
  BY <1>1, LargerIs DEF IInv, TypeOK, Conn
<1>4. stored' \subseteq Nat /\ logged' \subseteq Nat /\ stored \subseteq stored' /\ logged \subseteq logged'
  BY <1>1 DEF IInv, TypeOK, DrainIngests, DrainSkips
<1>5. n \in stored' \cup logged' \cup Unwanted
  BY DEF DrainIngests, DrainSkips
<1>6. TypeOK'
  <2>1. conns' \in [Conns -> Conn]
    BY <1>1, <1>2, <1>3 DEF IInv, TypeOK, Conn
  <2>2. drains' \in [Drains -> Drain]
    BY <1>1, <1>2 DEF IInv, TypeOK, Drain
  <2>3. UNCHANGED <<status, registered, handlers, box, cursor, floor, budget>>
    BY <1>2 DEF worker
  <2> QED BY <1>4, <2>1, <2>2, <2>3 DEF IInv, TypeOK
<1>7. \A u \in Nat : Accounted(u) => Accounted(u)'
  BY <1>2, <1>4 DEF Accounted
<1>8. \A u \in 1 .. n : Accounted(u)'
  BY <1>1, <1>5, <1>7 DEF IInv, DrainsAccounted, Through, Accounted
<1>9. LastUidsAccounted'
  <2> SUFFICES ASSUME NEW x \in Conns, NEW u \in 1 .. conns'[x].lastUid PROVE Accounted(u)'
    BY DEF LastUidsAccounted
  <2>1. CASE conns'[x].lastUid = n BY <1>1, <1>8, <2>1
  <2>2. CASE conns'[x].lastUid = conns[x].lastUid
    BY <1>7, <2>2 DEF IInv, LastUidsAccounted, TypeOK, Conn
  <2>3. conns'[x].lastUid = n \/ conns'[x].lastUid = conns[x].lastUid
    BY <1>1, <1>2, <1>3 DEF IInv, TypeOK
  <2> QED BY <2>1, <2>2, <2>3
<1>10. DrainsAccounted'
  <2> SUFFICES ASSUME NEW e \in Drains, NEW u \in 1 .. drains'[e].uid, u \in Through(e)'
               PROVE Accounted(u)'
    BY DEF DrainsAccounted, Through
  <2>1. CASE e = d BY <1>1, <1>2, <1>8, <2>1 DEF IInv, TypeOK, Drain
  <2>2. CASE e # d
    BY <1>2, <1>7, <2>2 DEF IInv, DrainsAccounted, Through, TypeOK, Drain
  <2> QED BY <2>1, <2>2
<1>11. NoSilentLoss' BY <1>2, <1>7 DEF IInv, NoSilentLoss, TypeOK
<1>12. DrainsHaveConn' BY <1>1, <1>2 DEF IInv, DrainsHaveConn, TypeOK
<1> QED BY <1>6, <1>9, <1>10, <1>11, <1>12 DEF IInv

LEMMA DrainMoves ==
  ASSUME IInv, NEW d \in Drains,
         \/ \E u \in 1 .. drains[d].top : DrainTakes(d, u)
         \/ DrainEnds(d)
         \/ \E c \in Conns : DrainBegins(d, c)
         \/ DrainPersists(d) \/ PersistFails(d)
  PROVE  IInv'
<1>1. UNCHANGED <<worker, conns, box, stored, logged, floor>>
  BY DEF DrainTakes, DrainEnds, DrainBegins, DrainPersists, PersistFails, mail
<1>2. \A u : Accounted(u)' <=> Accounted(u) BY <1>1 DEF Accounted
<1>3. LastUidsAccounted' BY <1>1, <1>2 DEF IInv, LastUidsAccounted
<1>4. budget' \in Nat
  BY DEF DrainTakes, DrainEnds, DrainBegins, DrainPersists, PersistFails, Happens, IInv, TypeOK
<1>5. ASSUME NEW u \in 1 .. drains[d].top, DrainTakes(d, u) PROVE IInv'
  <2>1. \A v \in 1 .. u - 1 : Accounted(v)
    <3> SUFFICES ASSUME NEW v \in 1 .. u - 1 PROVE Accounted(v) OBVIOUS
    <3>1. u \in Nat /\ v \in Nat BY DEF IInv, TypeOK, Drain
    <3>2. drains[d].conn \in Conns /\ drains[d].phase = "fetch"
      BY <1>5 DEF DrainTakes, IInv, DrainsHaveConn
    <3>3. CASE v <= drains[d].uid
      BY <3>1, <3>2, <3>3 DEF IInv, DrainsAccounted, Through, TypeOK, Drain
    <3>4. CASE v > drains[d].uid
      <4>1. v \in drains[d].uid + 1 .. drains[d].top BY <3>1, <3>4 DEF IInv, TypeOK, Drain
      <4>2. v \notin Fetched(d) BY <1>5, <3>1 DEF DrainTakes
      <4>3. v <= conns[drains[d].conn].lastUid
        BY <3>1, <3>2, <4>1, <4>2 DEF Fetched, IInv, TypeOK, Conn
      <4> QED BY <3>1, <3>2, <4>3 DEF IInv, LastUidsAccounted, TypeOK, Conn
    <3> QED BY <3>1, <3>3, <3>4 DEF IInv, TypeOK, Drain
  <2>2. drains' = [drains EXCEPT ![d].phase = "ingest", ![d].uid = u] /\ cursor' = cursor
    BY <1>5 DEF DrainTakes, mail
  <2>3. u \in Nat BY DEF IInv, TypeOK, Drain
  <2>4. TypeOK'
    <3> DEFINE y == [drains[d] EXCEPT !.phase = "ingest", !.uid = u]
    <3>1. drains' \in [Drains -> Drain]
      <4>1. y \in Drain BY <2>3 DEF IInv, TypeOK, Drain
      <4>2. drains' = [drains EXCEPT ![d] = y] BY <2>2
      <4> HIDE DEF y
      <4> QED BY <4>1, <4>2 DEF IInv, TypeOK
    <3> QED BY <1>1, <1>4, <2>2, <3>1 DEF IInv, TypeOK, worker
  <2>5. DrainsAccounted'
    BY <1>2, <2>1, <2>2, <2>3 DEF IInv, DrainsAccounted, Through, TypeOK, Drain
  <2>6. NoSilentLoss' BY <1>2, <2>2 DEF IInv, NoSilentLoss
  <2>7. DrainsHaveConn' BY <1>5, <2>2 DEF DrainTakes, IInv, DrainsHaveConn, TypeOK, Drain
  <2> QED BY <1>3, <2>4, <2>5, <2>6, <2>7 DEF IInv
<1>6. ASSUME NEW c \in Conns, DrainBegins(d, c) \/ (DrainEnds(d) /\ c = drains[d].conn) PROVE IInv'
  <2>1. /\ drains'[d].uid = conns[c].lastUid /\ drains'[d].conn = c
        /\ drains'[d] \in Drain
        /\ \A e \in Drains \ {d} : drains'[e] = drains[e]
        /\ drains'[d].phase # "ingest"
        /\ cursor' = cursor /\ drains' \in [Drains -> Drain]
    <3>1. conns[c].lastUid \in Nat BY DEF IInv, TypeOK, Conn
    <3>2. CASE DrainBegins(d, c)
      BY <3>1, <3>2 DEF DrainBegins, IInv, TypeOK, Drain, mail
    <3>3. CASE DrainEnds(d) /\ c = drains[d].conn
      <4> DEFINE y == [drains[d] EXCEPT !.phase = "persist", !.uid = conns[c].lastUid]
      <4>1. drains' = [drains EXCEPT ![d] = y] /\ cursor' = cursor
        BY <3>3 DEF DrainEnds, mail
      <4>2. y \in Drain /\ y.uid = conns[c].lastUid /\ y.conn = c /\ y.phase = "persist"
        BY <3>1, <3>3 DEF IInv, TypeOK, Drain
      <4> HIDE DEF y
      <4> QED BY <4>1, <4>2 DEF IInv, TypeOK
    <3> QED BY <1>6, <3>2, <3>3
  <2>2. TypeOK' BY <1>1, <1>4, <2>1 DEF IInv, TypeOK, worker
  <2>3. DrainsAccounted'
    BY <1>2, <2>1 DEF IInv, DrainsAccounted, LastUidsAccounted, Through, TypeOK, Drain, Conn
  <2>4. NoSilentLoss' BY <1>2, <2>1 DEF IInv, NoSilentLoss
  <2>5. DrainsHaveConn' BY <2>1 DEF IInv, DrainsHaveConn, TypeOK
  <2> QED BY <1>3, <2>2, <2>3, <2>4, <2>5 DEF IInv
<1>7. CASE DrainPersists(d) \/ PersistFails(d)
  <2>1. drains' = [drains EXCEPT ![d] = IdleDrain]
    BY <1>7 DEF DrainPersists, PersistFails
  <2>2. drains[d].phase = "persist" /\ cursor' \in {cursor, drains[d].uid}
    BY <1>7 DEF DrainPersists, PersistFails, mail
  <2>3. TypeOK'
    BY <1>1, <1>4, <2>1, <2>2 DEF IInv, TypeOK, Drain, IdleDrain, worker
  <2>4. NoSilentLoss'
    BY <1>2, <2>2 DEF IInv, NoSilentLoss, DrainsAccounted, Through, TypeOK, Drain
  <2>5. DrainsAccounted'
    BY <1>2, <2>1 DEF IInv, DrainsAccounted, Through, IdleDrain, TypeOK, Drain
  <2>6. DrainsHaveConn' BY <2>1 DEF IInv, DrainsHaveConn, IdleDrain, TypeOK
  <2> QED BY <1>3, <2>3, <2>4, <2>5, <2>6 DEF IInv
<1>8. DrainEnds(d) => drains[d].conn \in Conns BY DEF DrainEnds, IInv, DrainsHaveConn
<1> QED BY <1>5, <1>6, <1>7, <1>8

----------------------------------------------------------------------------
(* Requests, arriving mail, sockets and restarts.                          *)
LEMMA EnvironmentInv ==
  ASSUME IInv,
         \/ MailArrives \/ Crash
         \/ \E h \in Handlers : \/ \E s \in {"CONNECTED", "DISCONNECTED"} : ChangeStatus(h, s)
                                \/ SaveCredentials(h) \/ Remove(h)
         \/ \E c \in Conns : SocketDrops(c) \/ Reconnects(c)
         \/ UNCHANGED vars
  PROVE  IInv'
<1>1. UNCHANGED <<cursor, stored, logged, floor>>
  BY DEF MailArrives, Crash, ChangeStatus, SaveCredentials, Remove, SocketDrops, Reconnects, vars, mail
<1>2. \A u : Accounted(u)' <=> Accounted(u) BY <1>1 DEF Accounted
<1>3. NoSilentLoss' BY <1>1, <1>2 DEF IInv, NoSilentLoss
<1>4. box' \in Nat /\ budget' \in Nat
  BY DEF MailArrives, Crash, ChangeStatus, SaveCredentials, Remove, SocketDrops, Reconnects,
         Happens, vars, mail, IInv, TypeOK
<1>5. /\ status' \in {"CONNECTED", "DISCONNECTED", "GONE"}
      /\ registered' \in Conns \cup {NoConn}
      /\ handlers' \in [Handlers -> Handler]
  <2>1. CASE MailArrives \/ (\E c \in Conns : SocketDrops(c) \/ Reconnects(c)) \/ UNCHANGED vars
    BY <2>1 DEF MailArrives, SocketDrops, Reconnects, worker, vars, IInv, TypeOK
  <2>2. CASE Crash
    BY <2>2, BootedType DEF Crash, IInv, TypeOK, IdleHandler, Handler
  <2>3. CASE \E h \in Handlers : \/ \E s \in {"CONNECTED", "DISCONNECTED"} : ChangeStatus(h, s)
                                 \/ SaveCredentials(h) \/ Remove(h)
    BY <2>3 DEF ChangeStatus, SaveCredentials, Remove, Emit, Emitted, IdleHandler, Handler,
                IInv, TypeOK
  <2> QED BY <2>1, <2>2, <2>3
<1>6. /\ conns' \in [Conns -> Conn]
      /\ \A c \in Conns : conns'[c].lastUid \in {0, conns[c].lastUid}
  <2>1. CASE Crash BY <2>1 DEF Crash, UnusedConn, Conn
  <2>2. CASE \E c \in Conns : SocketDrops(c) \/ Reconnects(c)
    BY <2>2, SocketSet DEF SocketDrops, Reconnects, IInv
  <2>3. CASE UNCHANGED conns BY <2>3 DEF IInv, TypeOK
  <2> QED BY <2>1, <2>2, <2>3 DEF MailArrives, ChangeStatus, SaveCredentials, Remove, vars
<1>7. /\ drains' \in [Drains -> Drain]
      /\ \A d \in Drains : \/ drains'[d] = IdleDrain
                           \/ /\ drains'[d].uid = drains[d].uid
                              /\ drains'[d].phase = drains[d].phase
                              /\ drains'[d].conn = drains[d].conn
  <2>1. CASE Crash BY <2>1 DEF Crash, IdleDrain, Drain
  <2>2. CASE \E c \in Conns : SocketDrops(c)
    <3>1. PICK c \in Conns : SocketDrops(c) BY <2>2
    <3>2. drains' = [d \in Drains |-> [drains[d] EXCEPT !.broken = @ \/ drains[d].conn = c]]
      BY <3>1 DEF SocketDrops
    <3>3. TypeOK BY DEF IInv
    <3> HIDE DEF IInv
    <3> QED BY <3>2, <3>3, DrainsBroken
  <2>3. CASE UNCHANGED drains BY <2>3 DEF IInv, TypeOK
  <2> QED BY <2>1, <2>2, <2>3 DEF MailArrives, ChangeStatus, SaveCredentials, Remove, Reconnects, vars
<1>8. TypeOK' BY <1>1, <1>4, <1>5, <1>6, <1>7 DEF IInv, TypeOK
<1>9. LastUidsAccounted' BY <1>2, <1>6 DEF IInv, LastUidsAccounted, TypeOK, Conn
<1>10. DrainsAccounted'
  BY <1>2, <1>7 DEF IInv, DrainsAccounted, Through, IdleDrain, TypeOK, Drain
<1>11. DrainsHaveConn' BY <1>7 DEF IInv, DrainsHaveConn, IdleDrain
<1> QED BY <1>3, <1>8, <1>9, <1>10, <1>11 DEF IInv

THEOREM Invariance == Spec => []IInv
<1>1. IInv /\ [Next]_vars => IInv'
  <2> SUFFICES ASSUME IInv, [Next]_vars PROVE IInv' OBVIOUS
  <2>1. CASE Environment
    BY <2>1, EnvironmentInv, HandlerInv, DrainMoves DEF Environment
  <2>2. CASE \E h \in Handlers : HandlerStep(h) BY <2>2, HandlerInv
  <2>3. CASE \E d \in Drains : DrainStep(d)
    BY <2>3, DrainAdvances, DrainMoves DEF DrainStep
  <2>4. CASE \E c \in Conns : Reconnects(c) \/ PollTick(c)
    BY <2>4, EnvironmentInv, DrainMoves DEF PollTick
  <2>5. CASE UNCHANGED vars BY <2>5, EnvironmentInv
  <2> QED BY <2>1, <2>2, <2>3, <2>4, <2>5 DEF Next
<1> QED BY <1>1, InitInv, PTL DEF Spec

(* The state of the worker stays well typed.                               *)
THEOREM WorkerTypeCorrect == Spec => []TypeOK
BY Invariance, PTL DEF IInv

(* No message at or below the persisted cursor is lost without a trace.    *)
THEOREM CursorSafe == Spec => []NoSilentLoss
BY Invariance, PTL DEF IInv
----------------------------------------------------------------------------
(***************************************************************************)
(* The worker while its callbacks do not overlap and no connect fails.     *)
(* v_unwatched and v_fork show what overlapping ones leave behind.         *)
(***************************************************************************)
Watched   == registered \in Conns /\ Live = {registered}
Unwatched == registered = NoConn /\ Live = {}
Starts    == {"boot", "start", "restart"}

(* What the only callback has still to do fits what is there.              *)
Serial(h) ==
  LET k == handlers[h] IN
  \/ k = IdleHandler /\ IF status = "CONNECTED" THEN Watched ELSE Unwatched
  \/ k.kind \in {"boot", "start"} /\ k.phase = "emitted" /\ status = "CONNECTED" /\ Unwatched
  \/ k.kind = "restart" /\ k.phase = "check" /\ status = "CONNECTED" /\ Unwatched
  \/ k.kind \in Starts /\ k.phase \in {"open", "read"} /\ k.conn \in Conns /\ status = "CONNECTED" /\ Unwatched
  \/ /\ k.kind \in Starts /\ k.phase = "register" /\ k.conn \in Conns /\ status = "CONNECTED"
     /\ registered = NoConn /\ Live = {k.conn}
  \/ /\ k.kind \in {"stop", "restart"} /\ k.phase = "emitted" /\ (Watched \/ Unwatched)
     /\ k.kind = "restart" <=> status = "CONNECTED"
  \/ /\ k.kind \in {"stop", "restart"} /\ k.phase = "logout" /\ Live = {}
     /\ k.kind = "restart" <=> status = "CONNECTED"

LEMMA EmittedIs ==
  \A k : Emitted(k).kind = k /\ Emitted(k).phase = "emitted"
BY DEF Emitted, IdleHandler

(* What runs beside the callbacks changes sockets and lastUids, not what   *)
(* is live.                                                                *)
LEMMA LiveStands ==
  ASSUME TypeOK, NEW c \in Conns, NEW x, conns' = [conns EXCEPT ![c] = x], x.state = conns[c].state
  PROVE  Live' = Live
BY DEF Live, TypeOK

LEMMA DrainsLeaveLive ==
  ASSUME IInv, NEW d \in Drains, DrainStep(d) \/ PersistFails(d)
  PROVE  Live' = Live /\ UNCHANGED worker
<1>1. CASE UNCHANGED conns /\ UNCHANGED worker BY <1>1 DEF Live
<1>2. CASE DrainIngests(d) \/ DrainSkips(d)
  <2> DEFINE c == drains[d].conn
             x == [conns[c] EXCEPT !.lastUid = Larger(@, drains[d].uid)]
  <2>1. c \in Conns /\ conns' = [conns EXCEPT ![c] = x] /\ UNCHANGED worker
    BY <1>2 DEF IInv, DrainsHaveConn, DrainIngests, DrainSkips, Advanced
  <2>2. conns[c] \in Conn BY <2>1 DEF IInv, TypeOK
  <2>3. x.state = conns[c].state BY <2>2 DEF Conn
  <2> HIDE DEF x, c
  <2> QED BY <2>1, <2>3, LiveStands DEF IInv
<1> QED BY <1>1, <1>2 DEF DrainStep, DrainTakes, DrainEnds, DrainPersists, PersistFails, worker

LEMMA SocketsLeaveLive ==
  ASSUME IInv, NEW c \in Conns, SocketDrops(c) \/ Reconnects(c) \/ PollTick(c)
  PROVE  Live' = Live /\ UNCHANGED worker
<1>1. CASE PollTick(c) BY <1>1 DEF PollTick, DrainBegins, Live
<1>2. CASE SocketDrops(c) \/ Reconnects(c)
  <2>1. PICK b \in BOOLEAN : conns' = [conns EXCEPT ![c].socket = b] /\ UNCHANGED worker
    BY <1>2 DEF SocketDrops, Reconnects, worker
  <2> DEFINE x == [conns[c] EXCEPT !.socket = b]
  <2>2. conns[c] \in Conn /\ conns' = [conns EXCEPT ![c] = x] BY <2>1 DEF IInv, TypeOK
  <2>3. x.state = conns[c].state BY <2>2 DEF Conn
  <2> HIDE DEF x
  <2> QED BY <2>1, <2>2, <2>3, LiveStands DEF IInv
<1> QED BY <1>1, <1>2

LEMMA SerialStands ==
  ASSUME NEW h \in Handlers, Serial(h), Live' = Live, UNCHANGED worker
  PROVE  Serial(h)'
BY DEF Serial, Watched, Unwatched, worker

LEMMA SerialRequests ==
  ASSUME IInv, NEW h \in Handlers, Serial(h),
         \/ \E s \in {"CONNECTED", "DISCONNECTED"} : ChangeStatus(h, s)
         \/ SaveCredentials(h) \/ Remove(h)
  PROVE  Serial(h)'
<1>1. PICK k \in {"start", "stop", "restart"} :
        /\ handlers[h].kind = "none" /\ handlers' = [handlers EXCEPT ![h] = Emitted(k)]
        /\ UNCHANGED <<registered, conns>>
        /\ k = "start" => status # "CONNECTED" /\ status' = "CONNECTED"
        /\ k = "restart" <=> status' = "CONNECTED" /\ k # "start"
        /\ k = "stop" => status' # "CONNECTED"
  BY DEF ChangeStatus, SaveCredentials, Remove, Emit
<1>2. handlers'[h] = Emitted(k) BY <1>1 DEF IInv, TypeOK
<1>3. IF status = "CONNECTED" THEN Watched ELSE Unwatched
  <2>1. IdleHandler.kind = "none" BY DEF IdleHandler
  <2> QED BY <1>1, <2>1 DEF Serial, Starts
<1>4. Live' = Live BY <1>1 DEF Live
<1>5. (Watched => Watched') /\ (Unwatched => Unwatched') BY <1>1, <1>4 DEF Watched, Unwatched
<1> QED BY <1>1, <1>2, <1>3, <1>5, EmittedIs DEF Serial

LEMMA SerialSteps ==
  ASSUME IInv, NEW h \in Handlers, Serial(h), HandlerStep(h)
  PROVE  Serial(h)'
<1> DEFINE k == handlers[h]
<1>0. /\ k \in Handler /\ conns \in [Conns -> Conn] /\ handlers = [x \in Handlers |-> handlers[x]]
      /\ NoConn \notin Conns
  BY ConnsAssumption DEF IInv, TypeOK
<1>1. CASE StopBegins(h)
  <2>1. k.kind \in {"stop", "restart"} /\ k.phase = "emitted" /\ (Watched \/ Unwatched)
        /\ (k.kind = "restart" <=> status = "CONNECTED") /\ UNCHANGED <<status, registered>>
    BY <1>1 DEF StopBegins, Serial, IdleHandler
  <2>2. CASE registered = NoConn
    <3>1. handlers' = AfterStop(h) /\ UNCHANGED conns BY <1>1, <2>2 DEF StopBegins
    <3>2. Unwatched /\ Live' = Live /\ Unwatched' BY <1>0, <2>1, <2>2, <3>1 DEF Watched, Unwatched, Live
    <3>3. handlers'[h] = IF k.kind = "restart" THEN [Emitted("restart") EXCEPT !.phase = "check"] ELSE IdleHandler
      BY <1>0, <3>1 DEF AfterStop
    <3>4. k.kind = "restart" => handlers'[h].kind = "restart" /\ handlers'[h].phase = "check"
      BY <3>3 DEF Emitted, IdleHandler
    <3> QED BY <2>1, <3>2, <3>3, <3>4 DEF Serial
  <2>3. CASE registered # NoConn
    <3>1. /\ handlers' = [handlers EXCEPT ![h].phase = "logout", ![h].conn = registered]
          /\ conns' = [conns EXCEPT ![registered].state = "stopped"]
      BY <1>1, <2>3 DEF StopBegins
    <3>2. Watched BY <2>1, <2>3 DEF Unwatched
    <3>3. /\ \A c \in Conns : c # registered => conns'[c] = conns[c]
          /\ conns'[registered].state = "stopped"
      BY <1>0, <3>1, <3>2 DEF Watched, Conn
    <3>4. Live' = {} BY <3>2, <3>3 DEF Watched, Live
    <3>5. handlers'[h] = [k EXCEPT !.phase = "logout", !.conn = registered] BY <1>0, <3>1
    <3>6. handlers'[h].kind = k.kind /\ handlers'[h].phase = "logout" BY <1>0, <3>5 DEF Handler
    <3> QED BY <2>1, <3>4, <3>6 DEF Serial
  <2> QED BY <2>2, <2>3
<1>2. CASE StopEnds(h)
  <2>1. k.phase = "logout" /\ registered' = NoConn /\ handlers' = AfterStop(h) /\ UNCHANGED <<status, conns>>
    BY <1>2 DEF StopEnds
  <2>2. k.kind \in {"stop", "restart"} /\ Live = {} /\ (k.kind = "restart" <=> status = "CONNECTED")
    BY <2>1 DEF Serial, IdleHandler
  <2>3. Unwatched' BY <2>1, <2>2 DEF Unwatched, Live
  <2>4. handlers'[h] = IF k.kind = "restart" THEN [Emitted("restart") EXCEPT !.phase = "check"] ELSE IdleHandler
    BY <1>0, <2>1 DEF AfterStop
  <2>5. k.kind = "restart" => handlers'[h].kind = "restart" /\ handlers'[h].phase = "check"
    BY <2>4 DEF Emitted, IdleHandler
  <2> QED BY <2>1, <2>2, <2>3, <2>4, <2>5 DEF Serial
<1>3. ASSUME Starting(h) PROVE k.kind \in Starts /\ status = "CONNECTED" /\ Unwatched
  BY <1>3 DEF Starting, Serial, IdleHandler, Starts
<1>4. CASE StartIsNoop(h)
  BY <1>3, <1>4 DEF StartIsNoop, Unwatched
<1>5. CASE \E c \in Conns : StartConnects(h, c)
  <2>1. PICK c \in Conns : StartConnects(h, c) BY <1>5
  <2>2. /\ Starting(h) /\ Reusable(c) /\ UNCHANGED <<status, registered>>
        /\ handlers' = [handlers EXCEPT ![h].phase = "open", ![h].conn = c]
        /\ conns' = [conns EXCEPT ![c] = [UnusedConn EXCEPT !.state = "starting"]]
    BY <2>1 DEF StartConnects
  <2>3. handlers'[h] = [k EXCEPT !.phase = "open", !.conn = c] BY <1>0, <2>2
  <2>4. handlers'[h].kind = k.kind /\ handlers'[h].phase = "open" /\ handlers'[h].conn = c
    BY <1>0, <2>3 DEF Handler
  <2>5. conns'[c].state = "starting" /\ \A x \in Conns : x # c => conns'[x] = conns[x]
    BY <1>0, <2>2 DEF UnusedConn
  <2>6. Unwatched' BY <1>3, <2>2, <2>5 DEF Unwatched, Live
  <2> QED BY <1>3, <2>1, <2>2, <2>4, <2>6 DEF Serial
<1>6. CASE StartOpens(h)
  <2>1. handlers'[h] = [k EXCEPT !.phase = "read", !.base = box] /\ k.phase = "open"
        /\ UNCHANGED <<status, registered, conns>>
    BY <1>0, <1>6 DEF StartOpens
  <2>2. handlers'[h].kind = k.kind /\ handlers'[h].phase = "read" /\ handlers'[h].conn = k.conn
    BY <1>0, <2>1 DEF Handler
  <2>3. k.kind \in Starts /\ k.conn \in Conns /\ status = "CONNECTED" /\ Unwatched
    BY <2>1 DEF Serial, IdleHandler
  <2>4. Unwatched' BY <2>1, <2>3 DEF Unwatched, Live
  <2> QED BY <2>1, <2>2, <2>3, <2>4 DEF Serial
<1>7. CASE StartReadsCursor(h)
  <2>1. /\ handlers'[h] = [k EXCEPT !.phase = "register"] /\ k.phase = "read" /\ UNCHANGED <<status, registered>>
        /\ conns' = [conns EXCEPT ![k.conn] =
             [state |-> "live", socket |-> TRUE, lastUid |-> IF cursor = Null THEN k.base ELSE cursor]]
    BY <1>0, <1>7 DEF StartReadsCursor
  <2>2. handlers'[h].kind = k.kind /\ handlers'[h].phase = "register" /\ handlers'[h].conn = k.conn
    BY <1>0, <2>1 DEF Handler
  <2>3. k.kind \in Starts /\ k.conn \in Conns /\ status = "CONNECTED" /\ Unwatched
    BY <2>1 DEF Serial, IdleHandler
  <2>4. conns'[k.conn].state = "live" /\ \A x \in Conns : x # k.conn => conns'[x] = conns[x]
    BY <1>0, <2>1, <2>3
  <2>5. Live' = {k.conn} BY <2>3, <2>4 DEF Unwatched, Live
  <2> QED BY <2>1, <2>2, <2>3, <2>5 DEF Serial, Unwatched
<1>8. CASE StartRegisters(h)
  <2>1. handlers'[h] = IdleHandler /\ k.phase = "register" /\ registered' = k.conn /\ UNCHANGED <<status, conns>>
    BY <1>0, <1>8 DEF StartRegisters
  <2>2. k.conn \in Conns /\ status = "CONNECTED" /\ Live = {k.conn} BY <2>1 DEF Serial, IdleHandler
  <2>3. Watched' BY <2>1, <2>2 DEF Watched, Live
  <2> QED BY <2>1, <2>2, <2>3 DEF Serial
<1> QED BY <1>1, <1>2, <1>4, <1>5, <1>6, <1>7, <1>8 DEF HandlerStep

LEMMA SerialBoots ==
  ASSUME NEW h, Handlers = {h}, Init \/ (Crash /\ IInv)
  PROVE  (Init => Serial(h)) /\ (Crash => Serial(h)')
<1>1. Booted("boot")[h] = Emitted("boot") /\ UnusedConn.state = "unused"
  BY DEF Booted, UnusedConn
<1>2. Init => Serial(h) BY <1>1, EmittedIs DEF Init, Serial, Unwatched, Live
<1>3. ASSUME Crash PROVE Serial(h)'
  <2>1. Unwatched' /\ status' = status BY <1>1, <1>3 DEF Crash, Unwatched, Live
  <2>2. handlers'[h] = IF status = "CONNECTED" THEN Emitted("boot") ELSE IdleHandler BY <1>1, <1>3 DEF Crash
  <2> QED BY <2>1, <2>2, EmittedIs DEF Serial
<1> QED BY <1>2, <1>3

(* While one callback of the channel runs at a time and no connect fails,  *)
(* the worker follows the channel's status through restarts, new           *)
(* credentials and broken sockets: once it is through there is one live    *)
(* connection, which it knows, or none (email-inbox.worker.ts,             *)
(* startForChannel, stopForChannel and the @OnEvent handlers).             *)
THEOREM WorkerServes ==
  ASSUME NEW CONSTANT h, Handlers = {h}, "startfail" \notin Requests
  PROVE  Spec => []WorkerFollows
<1>1. Init => Serial(h) BY SerialBoots
<1>2. IInv /\ Serial(h) /\ [Next]_vars => Serial(h)'
  <2> SUFFICES ASSUME IInv, Serial(h), [Next]_vars PROVE Serial(h)' OBVIOUS
  <2>1. CASE MailArrives \/ UNCHANGED vars
    BY <2>1, SerialStands DEF MailArrives, vars, worker, Live
  <2>2. CASE Crash BY <2>2, SerialBoots
  <2>3. CASE \E x \in Handlers : \/ \E s \in {"CONNECTED", "DISCONNECTED"} : ChangeStatus(x, s)
                                 \/ SaveCredentials(x) \/ Remove(x)
    BY <2>3, SerialRequests
  <2>4. CASE \E c \in Conns : SocketDrops(c) \/ Reconnects(c) \/ PollTick(c)
    BY <2>4, SocketsLeaveLive, SerialStands
  <2>5. CASE \E d \in Drains : DrainStep(d) \/ PersistFails(d) BY <2>5, DrainsLeaveLive, SerialStands
  <2>6. CASE \E x \in Handlers : HandlerStep(x) BY <2>6, SerialSteps
  <2>7. ~\E x \in Handlers : StartFails(x) BY DEF StartFails, Happens
  <2> QED BY <2>1, <2>2, <2>3, <2>4, <2>5, <2>6, <2>7 DEF Next, Environment
<1>3. Serial(h) => WorkerFollows
  <2> SUFFICES ASSUME Serial(h), Quiet PROVE WorkerFollows
    BY DEF WorkerFollows, WatchedWhenConnected
  <2>1. handlers[h].kind = "none" BY DEF Quiet
  <2>2. IF status = "CONNECTED" THEN Watched ELSE Unwatched BY <2>1 DEF Serial, Starts
  <2> QED BY <2>2, ConnsAssumption DEF WorkerFollows, WatchedWhenConnected, Watching, Watched, Unwatched
<1> QED BY <1>1, <1>2, <1>3, Invariance, PTL DEF Spec
=============================================================================
