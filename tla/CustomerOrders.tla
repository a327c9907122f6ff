--------------------------- MODULE CustomerOrders ---------------------------
(***************************************************************************)
(* The orders shown beside a ticket, read by pages from the shop's         *)
(* operations database while snapshots of orders come in.                  *)
(*                                                                         *)
(* An order has a row for each snapshot of it. A snapshot tells whether    *)
(* its first fulfilment has a tracking URL, whether a later one has, and   *)
(* whether it has an AWB; "at" is ordered_at, 0 when it is null.           *)
(***************************************************************************)
EXTENDS Naturals, FiniteSets, SequencesExt

CONSTANTS OrdersLimit,  \* clampLimit of the request
          OrdersCases   \* [contact, ops, comes]
ASSUME OrdersAssumption ==
  /\ OrdersLimit \in Nat \ {0}
  /\ \A c \in OrdersCases : IsFiniteSet(c.ops) /\ \A o \in c.ops \cup c.comes : o.at \in Nat /\ {o.url, o.later, o.awb} \subseteq BOOLEAN

VARIABLES contact,      \* who opened the ticket: [mail, tail, digits]
          ops,          \* orders: a set of snapshots
          opsDue,       \* snapshots to come
          ordersRead    \* what the reader has: rows, and whether there is more

ordersVars == <<contact, ops, opsDue, ordersRead>>
----------------------------------------------------------------------------
(* The customer's mail, or else his telephone by its last ten digits.      *)
OfCustomer(o) ==
  IF contact.mail # "" THEN o.mail = contact.mail
  ELSE contact.digits >= 7 /\ o.tail = contact.tail
Snapshots  == {o \in ops : OfCustomer(o)}
OrderOf(o) == IF o.order = "null" THEN o.id ELSE o.order
TheirOrders == {OrderOf(o) : o \in Snapshots}

(* Nulls last.                                                             *)
NotBefore(o, p) == o.at >= p.at
ByTimeAlone(o, p) == NotBefore(o, p)
AsRich(o, p) ==
  \/ o.url /\ ~p.url
  \/ o.url = p.url /\ o.awb /\ ~p.awb
  \/ o.url = p.url /\ o.awb = p.awb /\ NotBefore(o, p)

(* One snapshot for each order, the richest of it; those in order of time. *)
(* Where two are alike the database takes either.                          *)
Richest(x) == {o \in Snapshots : OrderOf(o) = x /\ \A p \in Snapshots : OrderOf(p) = x => AsRich(o, p)}
OnePerOrder(r) == \A x \in TheirOrders : Cardinality({o \in r : OrderOf(o) = x}) = 1
InTime(s) == \A i, j \in DOMAIN s : i < j => NotBefore(s[i], s[j])
Lists == LET best == UNION {Richest(x) : x \in TheirOrders} IN
  {s \in UNION {SetToSeqs(r) : r \in {q \in SUBSET best : OnePerOrder(q)}} : InTime(s)}

(* toCustomerOrder: the first URL of any fulfilment is the one to follow.  *)
Shown(o) == [order |-> OrderOf(o), track |-> o.url \/ o.later,
             could |-> \E p \in Snapshots : OrderOf(p) = OrderOf(o) /\ p.url]

(* One row more than the page tells whether there is another page.         *)
UpTo(s, first, n) == SubSeq(s, first, IF first + n <= Len(s) THEN first + n - 1 ELSE Len(s))
FetchedNoMore(s, offset) == UpTo(s, offset + 1, OrdersLimit)
Fetched(s, offset) == UpTo(s, offset + 1, OrdersLimit + 1)

ReadsPage ==
  /\ ordersRead.more
  /\ \E s \in Lists :
       LET rows == Fetched(s, Len(ordersRead.rows))
           more == Len(rows) > OrdersLimit
           page == IF more THEN SubSeq(rows, 1, OrdersLimit) ELSE rows IN
       ordersRead' = [ordersRead EXCEPT !.rows = @ \o [i \in DOMAIN page |-> Shown(page[i])], !.more = more]
  /\ UNCHANGED <<contact, ops, opsDue>>
ReadsAnew ==
  /\ ~ordersRead.more /\ ordersRead' = [rows |-> <<>>, more |-> TRUE, moved |-> FALSE]
  /\ UNCHANGED <<contact, ops, opsDue>>

(* findLatestOrderByEmail and ByPhone: the newest snapshot, of any order.  *)
Latest == {o \in Snapshots : \A p \in Snapshots : NotBefore(o, p)}

(* The shop's side.                                                        *)
OpsMoves(x) ==
  /\ opsDue' = opsDue \ {x}
  /\ ops' = ops \cup {x}
  /\ ordersRead' = [ordersRead EXCEPT !.moved = TRUE]
  /\ UNCHANGED contact

OrdersInit(c) ==
  /\ contact = c.contact /\ ops = c.ops /\ opsDue = c.comes
  /\ ordersRead = [rows |-> <<>>, more |-> TRUE, moved |-> FALSE]
OrdersNext == ReadsPage \/ ReadsAnew \/ \E x \in opsDue : OpsMoves(x)
OrdersSpec == (\E c \in OrdersCases : OrdersInit(c)) /\ [][OrdersNext]_ordersVars
----------------------------------------------------------------------------
Distinct == \A o, p \in Snapshots : o.at > 0 /\ (o.at = p.at => OrderOf(o) = OrderOf(p))
SameTime == \A o, p \in Snapshots : OrderOf(o) = OrderOf(p) => o.at = p.at

(* Whoever pages to the end has each order of the customer once, when      *)
(* their times tell them apart and nothing came in meanwhile               *)
(* (listForTicket, listByPhone).                                           *)
OrdersCovered ==
  ~ordersRead.more /\ ~ordersRead.moved /\ Distinct =>
    /\ {ordersRead.rows[i].order : i \in DOMAIN ordersRead.rows} = TheirOrders
    /\ Len(ordersRead.rows) = Cardinality(TheirOrders)

(* A snapshot that can be followed is not hidden by one that cannot        *)
(* (listForTicket: prefer the fulfilled snapshot).                         *)
TrackingShown == \A i \in DOMAIN ordersRead.rows : ordersRead.rows[i].could => ordersRead.rows[i].track

(* The latest order that a template names is the first one of the list,    *)
(* though the one reads snapshots and the other orders, as long as an      *)
(* order's snapshots bear one time (findLatestOrderByEmail).               *)
LatestIsFirst ==
  Distinct /\ SameTime /\ Snapshots # {} => \A o \in Latest, s \in Lists : OrderOf(o) = OrderOf(s[1])

OrdersSound == OrdersCovered /\ TrackingShown /\ LatestIsFirst
=============================================================================
