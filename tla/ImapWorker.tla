----------------------------- MODULE ImapWorker -----------------------------
(***************************************************************************)
(* How mail of one EMAIL channel reaches the database: the worker that     *)
(* starts and stops a connection on the channel's events                   *)
(* (email-inbox.worker.ts), the connection and its drains                  *)
(* (imap-connection.ts) and the cursor it persists                         *)
(* (imap-resume-store.service.ts).  The mailbox is INBOX; the Sent Mail    *)
(* connection runs the same code on a cursor of its own.                   *)
(*                                                                         *)
(* Node runs one callback at a time, so a step is what runs between two    *)
(* awaits.  A handler is one @OnEvent callback of the worker (or           *)
(* onModuleInit), a drain is one call of drainNewMessages.                 *)
(***************************************************************************)
EXTENDS Naturals, FiniteSets

CONSTANTS
  Conns,     \* ImapConnection objects that may exist at once
  NoConn,
  Null,      \* no cursor persisted yet
  Handlers,  \* worker callbacks that may overlap
  Drains,    \* drainNewMessages calls that may overlap
  Unwanted,  \* uids the gates drop, or without a usable envelope
  Requests,  \* which events happen (see the guards below)
  MaxMail,   \* uids the mailbox reaches
  MaxEvents  \* requests, outages and restarts in a behaviour

ASSUME ConnsAssumption == NoConn \notin Conns
ASSUME NullAssumption == Null \notin Nat
ASSUME BoundsAssumption == MaxMail \in Nat /\ MaxEvents \in Nat

VARIABLES
  status,      \* channel.status, or that the row is deleted
  registered,  \* connections.get(channelId)
  conns,       \* the connection objects, with lastUid
  handlers,    \* worker callbacks between two awaits
  drains,      \* drainNewMessages calls between two awaits
  box,         \* uids 1..box are in the mailbox: uidNext is box + 1
  cursor,      \* channel.last_processed_inbox_uid
  stored,      \* uids whose email_message is committed
  logged,      \* uids an error line "ingest failed - SKIPPING" names
  floor,       \* highest uid a first boot took as already there
  budget

vars   == <<status, registered, conns, handlers, drains, box, cursor, stored, logged, floor, budget>>
worker == <<status, registered, handlers>>
mail   == <<box, cursor, stored, logged, floor>>

Conn    == [state: {"unused", "starting", "live", "stopped"}, lastUid: Nat, socket: BOOLEAN]
Handler == [kind: {"none", "boot", "start", "stop", "restart"},
            phase: {"emitted", "logout", "check", "open", "read", "register"},
            conn: Conns \cup {NoConn}, base: Nat]
Drain   == [conn: Conns \cup {NoConn}, phase: {"idle", "fetch", "ingest", "persist"},
            uid: Nat, top: Nat, broken: BOOLEAN]

UnusedConn  == [state |-> "unused", lastUid |-> 0, socket |-> FALSE]
IdleHandler == [kind |-> "none", phase |-> "emitted", conn |-> NoConn, base |-> 0]
IdleDrain   == [conn |-> NoConn, phase |-> "idle", uid |-> 0, top |-> 0, broken |-> FALSE]
Emitted(k)  == [IdleHandler EXCEPT !.kind = k]

Larger(a, b) == IF a > b THEN a ELSE b
Happens(e)   == e \in Requests /\ budget > 0 /\ budget' = budget - 1
Booting      == \E h \in Handlers : handlers[h].kind = "boot"

(* Garbage: nothing refers to the object any more.                         *)
Reusable(c) ==
  \/ conns[c].state = "unused"
  \/ /\ conns[c].state = "stopped" /\ registered # c
     /\ \A d \in Drains : drains[d].conn # c
     /\ \A h \in Handlers : handlers[h].conn # c
----------------------------------------------------------------------------
(* onModuleInit starts the CONNECTED channel before any request is served. *)
Booted(k) == [h \in Handlers |-> IF h = CHOOSE x \in Handlers : TRUE
                                 THEN Emitted(k) ELSE IdleHandler]

Init ==
  /\ status = "CONNECTED" /\ registered = NoConn
  /\ conns = [c \in Conns |-> UnusedConn]
  /\ handlers = Booted("boot")
  /\ drains = [d \in Drains |-> IdleDrain]
  /\ box = 1 /\ cursor \in {Null, 0}
  /\ stored = {} /\ logged = {} /\ floor = 0 /\ budget = MaxEvents

MailArrives ==
  /\ box < MaxMail /\ box' = box + 1
  /\ UNCHANGED <<worker, conns, drains, cursor, stored, logged, floor, budget>>
----------------------------------------------------------------------------
(* Requests (ChannelsService): the column first, then the event.           *)

Emit(h, k) == handlers[h].kind = "none" /\ handlers' = [handlers EXCEPT ![h] = Emitted(k)]

ChangeStatus(h, s) ==
  /\ status \notin {s, "GONE"} /\ ~Booting /\ Happens("status")
  /\ status' = s
  /\ Emit(h, IF s = "CONNECTED" THEN "start" ELSE "stop")
  /\ UNCHANGED <<registered, conns, drains, mail>>

SaveCredentials(h) ==
  /\ status # "GONE" /\ ~Booting /\ Happens("oauth")
  /\ status' = "CONNECTED"
  /\ Emit(h, "restart")
  /\ UNCHANGED <<registered, conns, drains, mail>>

Remove(h) ==
  /\ status # "GONE" /\ ~Booting /\ Happens("delete")
  /\ status' = "GONE"
  /\ Emit(h, "stop")
  /\ UNCHANGED <<registered, conns, drains, mail>>
----------------------------------------------------------------------------
(* stopForChannel                                                          *)

AfterStop(h) == [handlers EXCEPT ![h] =
  IF @.kind = "restart" THEN [Emitted("restart") EXCEPT !.phase = "check"] ELSE IdleHandler]

(* Mutant: the sockets are closed and the poller keeps running.            *)
StopBeginsKeepingPoller(h) ==
  /\ handlers[h].kind \in {"stop", "restart"} /\ handlers[h].phase = "emitted"
  /\ handlers' = IF registered = NoConn THEN AfterStop(h)
                 ELSE [handlers EXCEPT ![h].phase = "logout", ![h].conn = registered]
  /\ UNCHANGED <<status, registered, conns, drains, mail, budget>>

StopBegins(h) ==
  /\ handlers[h].kind \in {"stop", "restart"} /\ handlers[h].phase = "emitted"
  /\ \/ /\ registered = NoConn
        /\ handlers' = AfterStop(h)
        /\ UNCHANGED <<conns, drains>>
     \/ /\ registered # NoConn
        /\ handlers' = [handlers EXCEPT ![h].phase = "logout", ![h].conn = registered]
        /\ conns' = [conns EXCEPT ![registered].state = "stopped"]
        /\ drains' = [d \in Drains |-> [drains[d] EXCEPT !.broken = @ \/ drains[d].conn = registered]]
  /\ UNCHANGED <<status, registered, mail, budget>>

(* Mutant: the map keeps the stopped connection.                           *)
StopEndsKeepingEntry(h) ==
  /\ handlers[h].phase = "logout"
  /\ handlers' = AfterStop(h)
  /\ UNCHANGED <<status, registered, conns, drains, mail, budget>>

StopEnds(h) ==
  /\ handlers[h].phase = "logout"
  /\ registered' = NoConn
  /\ handlers' = AfterStop(h)
  /\ UNCHANGED <<status, conns, drains, mail, budget>>
----------------------------------------------------------------------------
(* startForChannel and ImapConnection.start: a no-op when the map has the  *)
(* channel or the row is gone; otherwise connect and open the mailbox,     *)
(* read the cursor, launch the pollers, and only then enter the map.       *)

Starting(h) == \/ handlers[h].kind \in {"boot", "start"} /\ handlers[h].phase = "emitted"
               \/ handlers[h].phase = "check"

StartIsNoop(h) ==
  /\ Starting(h) /\ (registered # NoConn \/ status = "GONE")
  /\ handlers' = [handlers EXCEPT ![h] = IdleHandler]
  /\ UNCHANGED <<status, registered, conns, drains, mail, budget>>

StartConnects(h, c) ==
  /\ Starting(h) /\ registered = NoConn /\ status # "GONE" /\ Reusable(c)
  /\ handlers' = [handlers EXCEPT ![h].phase = "open", ![h].conn = c]
  /\ conns' = [conns EXCEPT ![c] = [UnusedConn EXCEPT !.state = "starting"]]
  /\ UNCHANGED <<status, registered, drains, mail, budget>>

StartOpens(h) ==
  /\ handlers[h].phase = "open"
  /\ handlers' = [handlers EXCEPT ![h].phase = "read", ![h].base = box]
  /\ UNCHANGED <<status, registered, conns, drains, mail, budget>>

StartFails(h) ==
  /\ handlers[h].phase \in {"open", "read"} /\ Happens("startfail")
  /\ handlers' = [handlers EXCEPT ![h] = IdleHandler]
  /\ conns' = [conns EXCEPT ![handlers[h].conn] = UnusedConn]
  /\ UNCHANGED <<status, registered, drains, mail>>

(* Mutant: no fallback to uidNext - 1 while no cursor is persisted.        *)
StartReadsCursorBare(h) ==
  /\ handlers[h].phase = "read"
  /\ conns' = [conns EXCEPT ![handlers[h].conn] =
       [state |-> "live", socket |-> TRUE, lastUid |-> cursor]]
  /\ floor' = IF cursor = Null THEN Larger(floor, handlers[h].base) ELSE floor
  /\ handlers' = [handlers EXCEPT ![h].phase = "register"]
  /\ UNCHANGED <<status, registered, drains, box, cursor, stored, logged, budget>>

StartReadsCursor(h) ==
  LET base == handlers[h].base IN
  /\ handlers[h].phase = "read"
  /\ conns' = [conns EXCEPT ![handlers[h].conn] =
       [state |-> "live", socket |-> TRUE,
        lastUid |-> IF cursor = Null THEN base ELSE cursor]]
  /\ floor' = IF cursor = Null THEN Larger(floor, base) ELSE floor
  /\ handlers' = [handlers EXCEPT ![h].phase = "register"]
  /\ UNCHANGED <<status, registered, drains, box, cursor, stored, logged, budget>>

StartRegisters(h) ==
  /\ handlers[h].phase = "register"
  /\ registered' = handlers[h].conn
  /\ handlers' = [handlers EXCEPT ![h] = IdleHandler]
  /\ UNCHANGED <<status, conns, drains, mail, budget>>
----------------------------------------------------------------------------
(* The socket dies and idleLoop reconnects, keeping lastUid.               *)

SocketDrops(c) ==
  /\ conns[c].state = "live" /\ conns[c].socket /\ Happens("drop")
  /\ conns' = [conns EXCEPT ![c].socket = FALSE]
  /\ drains' = [d \in Drains |-> [drains[d] EXCEPT !.broken = @ \/ drains[d].conn = c]]
  /\ UNCHANGED <<worker, mail>>

(* Mutant: every reconnect starts from uidNext - 1.                        *)
ReconnectsAtTop(c) ==
  /\ conns[c].state = "live" /\ ~conns[c].socket
  /\ conns' = [conns EXCEPT ![c].socket = TRUE, ![c].lastUid = box]
  /\ UNCHANGED <<worker, drains, mail, budget>>

Reconnects(c) ==
  /\ conns[c].state = "live" /\ ~conns[c].socket
  /\ conns' = [conns EXCEPT ![c].socket = TRUE]
  /\ UNCHANGED <<worker, drains, mail, budget>>
----------------------------------------------------------------------------
(* drainNewMessages, on an EXISTS event or a poll tick; without a socket   *)
(* the fetch throws at once.  Messages at or below lastUid, which others   *)
(* may have raised meanwhile, are passed over.                             *)

DrainBegins(d, c) ==
  /\ conns[c].state = "live" /\ drains[d].phase = "idle"
  /\ drains' = [drains EXCEPT ![d] =
       [conn |-> c, phase |-> IF conns[c].socket THEN "fetch" ELSE "persist",
        uid |-> conns[c].lastUid, top |-> box, broken |-> FALSE]]
  /\ UNCHANGED <<worker, conns, mail, budget>>

Fetched(d)  == {u \in drains[d].uid + 1 .. drains[d].top : u > conns[drains[d].conn].lastUid}
Advanced(d) == [conns EXCEPT ![drains[d].conn].lastUid = Larger(@, drains[d].uid)]

(* Mutant: lastUid moves when a message is fetched.                        *)
DrainTakesAdvancing(d, u) ==
  /\ drains[d].phase = "fetch"
  /\ u \in Fetched(d) /\ \A v \in Fetched(d) : u <= v
  /\ drains' = [drains EXCEPT ![d].phase = "ingest", ![d].uid = u]
  /\ conns' = [conns EXCEPT ![drains[d].conn].lastUid = Larger(@, u)]
  /\ UNCHANGED <<worker, mail, budget>>

DrainTakes(d, u) ==
  /\ drains[d].phase = "fetch"
  /\ u \in Fetched(d) /\ \A v \in Fetched(d) : u <= v
  /\ drains' = [drains EXCEPT ![d].phase = "ingest", ![d].uid = u]
  /\ UNCHANGED <<worker, conns, mail, budget>>

(* The ingest commits, or finds the message stored or not wanted.          *)
DrainIngests(d) ==
  /\ drains[d].phase = "ingest" /\ status # "GONE"
  /\ stored' = IF drains[d].uid \in Unwanted THEN stored ELSE stored \cup {drains[d].uid}
  /\ conns' = Advanced(d)
  /\ drains' = [drains EXCEPT ![d].phase = "fetch"]
  /\ UNCHANGED <<worker, box, cursor, logged, floor, budget>>

(* The ingest throws (also on external_message_id, when another drain      *)
(* stored the message after this one looked): logged, and passed over.     *)
DrainSkips(d) ==
  /\ drains[d].phase = "ingest"
  /\ logged' = logged \cup {drains[d].uid}
  /\ conns' = Advanced(d)
  /\ drains' = [drains EXCEPT ![d].phase = "fetch"]
  /\ UNCHANGED <<worker, box, cursor, stored, floor, budget>>

(* The fetch is exhausted, or throws because its client is gone; lastUid   *)
(* as it is now is what will be written.                                   *)
DrainEnds(d) ==
  /\ drains[d].phase = "fetch" /\ (Fetched(d) = {} \/ drains[d].broken)
  /\ drains' = [drains EXCEPT ![d].phase = "persist", ![d].uid = conns[drains[d].conn].lastUid]
  /\ UNCHANGED <<worker, conns, mail, budget>>

DrainPersists(d) ==
  /\ drains[d].phase = "persist"
  /\ cursor' = IF status = "GONE" THEN cursor ELSE drains[d].uid
  /\ drains' = [drains EXCEPT ![d] = IdleDrain]
  /\ UNCHANGED <<worker, conns, box, stored, logged, floor, budget>>

(* ImapResumeStore.write swallows its error.                               *)
PersistFails(d) ==
  /\ drains[d].phase = "persist" /\ Happens("persistfail")
  /\ drains' = [drains EXCEPT ![d] = IdleDrain]
  /\ UNCHANGED <<worker, conns, mail>>
----------------------------------------------------------------------------
Crash ==
  /\ Happens("crash")
  /\ registered' = NoConn
  /\ conns' = [c \in Conns |-> UnusedConn]
  /\ drains' = [d \in Drains |-> IdleDrain]
  /\ handlers' = IF status = "CONNECTED" THEN Booted("boot")
                 ELSE [h \in Handlers |-> IdleHandler]
  /\ UNCHANGED <<status, mail>>

HandlerStep(h) == \/ StopBegins(h) \/ StopEnds(h)
                  \/ StartIsNoop(h) \/ \E c \in Conns : StartConnects(h, c)
                  \/ StartOpens(h) \/ StartReadsCursor(h) \/ StartRegisters(h)
DrainStep(d)   == \/ \E u \in 1 .. drains[d].top : DrainTakes(d, u)
                  \/ DrainIngests(d) \/ DrainSkips(d) \/ DrainEnds(d) \/ DrainPersists(d)
PollTick(c)    == \E d \in Drains : DrainBegins(d, c)

Environment ==
  \/ MailArrives \/ Crash
  \/ \E h \in Handlers : \/ \E s \in {"CONNECTED", "DISCONNECTED"} : ChangeStatus(h, s)
                         \/ SaveCredentials(h) \/ Remove(h) \/ StartFails(h)
  \/ \E c \in Conns : SocketDrops(c)
  \/ \E d \in Drains : PersistFails(d)

Next ==
  \/ Environment
  \/ \E h \in Handlers : HandlerStep(h)
  \/ \E d \in Drains : DrainStep(d)
  \/ \E c \in Conns : Reconnects(c) \/ PollTick(c)

Spec == Init /\ [][Next]_vars

(* Callbacks run, awaited calls return, setInterval ticks and idleLoop     *)
(* reconnects; nothing makes mail arrive or requests be sent.              *)
Fairness ==
  /\ \A h \in Handlers : WF_vars(HandlerStep(h))
  /\ \A d \in Drains : WF_vars(DrainStep(d))
  /\ \A c \in Conns : WF_vars(Reconnects(c)) /\ WF_vars(PollTick(c))

LiveSpec == Spec /\ Fairness
----------------------------------------------------------------------------
(* The variables range over what the fields and columns hold.              *)
TypeOK ==
  /\ status \in {"CONNECTED", "DISCONNECTED", "GONE"}
  /\ registered \in Conns \cup {NoConn}
  /\ conns \in [Conns -> Conn] /\ handlers \in [Handlers -> Handler]
  /\ drains \in [Drains -> Drain]
  /\ box \in Nat /\ cursor \in Nat \cup {Null} /\ floor \in Nat /\ budget \in Nat
  /\ stored \subseteq Nat /\ logged \subseteq Nat

Accounted(u) == u <= floor \/ u \in stored \cup logged \cup Unwanted

(* The cursor never runs ahead of the mail: with drains overlapping on one *)
(* lastUid, replaced connections writing late, failures and restarts,      *)
(* every message at or below the persisted cursor is stored, was dropped   *)
(* by a gate, or has its "SKIPPING" line; so no restart loses one silently *)
(* (imap-connection.ts 245-352).                                           *)
NoSilentLoss == cursor # Null => \A u \in 1 .. cursor : Accounted(u)

Quiet    == \A h \in Handlers : handlers[h].kind = "none"
Live     == {c \in Conns : conns[c].state = "live"}
Watching == registered # NoConn /\ registered \in Live

(* Once the worker's callbacks are through, a CONNECTED channel has its    *)
(* worker, and one connection to the mailbox (email-inbox.worker.ts        *)
(* 33-36, 129-132).                                                        *)
WatchedWhenConnected == Quiet /\ status = "CONNECTED" => Watching /\ Live = {registered}

(* So the worker follows the channel's status: one live connection while   *)
(* it is CONNECTED, none while it is not.                                  *)
WorkerFollows == WatchedWhenConnected /\ (Quiet /\ status # "CONNECTED" => Live = {})

(* While the channel stays CONNECTED, every message above the first boot's *)
(* mark is taken up in the end, through restarts, new credentials, broken  *)
(* sockets and lost cursor writes (imap-connection.ts 190-205).            *)
MailReached ==
  \A u \in 1 .. MaxMail :
    u <= box /\ u > floor /\ Watching ~> Accounted(u) \/ status # "CONNECTED"
=============================================================================
