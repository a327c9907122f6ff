-------------------------------- MODULE Sends --------------------------------
(***************************************************************************)
(* What goes out by itself, templates over WhatsApp and by mail and what   *)
(* the bot says; and what staff are shown, the orders beside a ticket and  *)
(* what an admin is told of his rules. The parts share no rows; each       *)
(* behaves by its own specification.                                       *)
(***************************************************************************)
EXTENDS WhatsappTemplates, MailTemplates, CustomerOrders, RoutingRules

(***************************************************************************)
(* What the bot and the agents say over WhatsApp: one message after the    *)
(* other, whatever Meta answers and whether or not the row can be kept.    *)
(***************************************************************************)
CONSTANTS Says,    \* the bot's messages: [n, long, body], options and their labels
          Files,   \* an agent's attachments: [mime, mb, stored, upload]
          MaxSaid  \* messages in all
ASSUME SaysAssumption == \A m \in Says : m.n \in Nat /\ m.long \in BOOLEAN /\ m.body \in BOOLEAN

VARIABLES said,   \* messages tried
          taken,  \* by Meta
          talkRows,   \* kept as sent
          unfit   \* would have been taken, and were refused here

talkVars == <<said, taken, talkRows, unfit>>

Count(b) == IF b THEN 1 ELSE 0
Counted(fine, o) ==
  /\ said < MaxSaid /\ said' = said + 1
  /\ taken' = taken + Count(o.taken) /\ talkRows' = talkRows + Count(o.row) /\ unfit' = unfit + Count(fine /\ ~o.taken)

(* WhatsappChannelAdapter.send, for a ticket that is still there or not.   *)
BotSays(m, reachable, a, kept) ==
  Counted(reachable /\ m.body /\ a.taken, AdapterSend(reachable, m.n, m.long, m.body, a, kept))

(* An attachment of an agent's reply; its row comes from the id.           *)
AgentAttaches(f, a) ==
  LET o == SendAttachment(f.mime, f.mb, f.stored, f.upload, a) IN
  Counted(FALSE, [taken |-> o.taken, row |-> o.result = "wamid"])

TalkInit == said = 0 /\ taken = 0 /\ talkRows = 0 /\ unfit = 0
TalkNext ==
  \/ \E m \in Says, a \in MetaAnswers, reachable, kept \in BOOLEAN : BotSays(m, reachable, a, kept)
  \/ \E f \in Files, a \in MetaAnswers : AgentAttaches(f, a)
TalkSpec == TalkInit /\ [][TalkNext]_talkVars

(* A row of what was sent is a message that Meta took, whatever its answer *)
(* looked like (the sender's parse of a 2xx; the adapter's insert).        *)
RowsAreTaken == talkRows <= taken

(* The bot's message finds a form for any number of options and any labels *)
(* (WhatsappChannelAdapter.send): none that Meta would take stays behind.  *)
AnyChoiceFits == unfit = 0
(***************************************************************************)

SendsSpec == TemplatesSpec /\ MailTemplatesSpec /\ TalkSpec
ShownSpec == OrdersSpec /\ RulesSpec

(* What is sent by template or by the bot is what the customer gets, and   *)
(* rows are kept of it only (WhatsappTemplatesService, the adapter).       *)
SendsSound == TemplatesSound /\ RowsAreTaken /\ AnyChoiceFits /\ MailsSound

(* What an agent is shown by pages and an admin told of his rules is true  *)
(* (CustomerOrdersService, RuleValidatorService).                          *)
ShownSound == OrdersSound /\ AnswersTrue
=============================================================================
