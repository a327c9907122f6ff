---------------------------- MODULE MailTemplates ----------------------------
(***************************************************************************)
(* Mail templates: made with the fallbacks of their variables, tried on an *)
(* address, and sent on a ticket by a rule, while the customer and the     *)
(* agents write to it and the Sent folder's copies come in.                *)
(***************************************************************************)
EXTENDS FiniteSets, TemplateVariables

CONSTANT MailCases  \* [letters, sender, order, words, asks, faults]

(* A placeholder has a name.                                               *)
MailDtoOK(dto) ==
  /\ dto.kind \in {"REPLY", "OUTREACH"} /\ dto.subject \in Seq(STRING) /\ dto.body \in Seq(STRING)
  /\ "" \notin ToSet(dto.subject) \cup ToSet(dto.body)
(* The ids of messages are their own, a test's and a create's too.         *)
MailCaseOK(c) ==
  /\ c.letters \in Seq([id: STRING, inbound: BOOLEAN])
  /\ \A i, j \in DOMAIN c.letters : c.letters[i].id = c.letters[j].id => i = j
  /\ \A p, q \in c.asks : p.id = q.id => p = q
  /\ \A q \in c.asks :
       /\ q.id \in STRING /\ \A i \in DOMAIN c.letters : c.letters[i].id # q.id
       /\ q.op = "create" => MailDtoOK(q.dto)
       /\ q.op = "letter" => q.inbound \in BOOLEAN
ASSUME MailCasesAssumption == \A c \in MailCases : MailCaseOK(c)

VARIABLES mailRows,       \* email_template: by channel and name
          mailCalls,      \* requests under way
          mailDue,        \* requests still to come
          letters,        \* the ticket's messages, by createdAt: [id, inbound]
          correspondent,  \* who writes, and what his orders tell
          mailed,         \* what SMTP took
          repliedLog,     \* AGENT_REPLIED in the activity log
          rowsLost,       \* mails whose row failed (a history)
          mailFaults      \* failures still to come

mailTemplateVars == <<mailRows, mailCalls, mailDue, letters, correspondent, mailed, repliedLog, rowsLost, mailFaults>>
----------------------------------------------------------------------------
(* create: what is refused, and the row it makes                           *)

MailRefsOfBody(dto) == References(dto.body)

(* A REPLY has no subject of its own: one that is given is left out.       *)
SubjectOf(dto) == IF dto.kind = "OUTREACH" THEN dto.subject ELSE <<>>
MailRefs(dto) == References(SubjectOf(dto) \o dto.body)
MayMissInMail(n) == "EMAIL" \in Nullable[n]
FallbackOf(dto, n) == IF n \in DOMAIN dto.given THEN dto.given[n] ELSE "null"
MailAcceptable(dto) ==
  /\ dto.kind = "OUTREACH" => dto.titled
  /\ \A n \in ToSet(MailRefs(dto)) :
       n \in DOMAIN Nullable /\ (MayMissInMail(n) => FallbackOf(dto, n) \notin {"", "null"})
MailRow(dto) ==
  [kind |-> dto.kind, subject |-> SubjectOf(dto), body |-> dto.body,
   mapping |-> [i \in DOMAIN MailRefs(dto) |->
     [name |-> MailRefs(dto)[i],
      fallback |-> IF MayMissInMail(MailRefs(dto)[i]) THEN FallbackOf(dto, MailRefs(dto)[i]) ELSE "null"]]]

MailArrives(q, phase, anchor) ==
  /\ mailDue' = mailDue \ {q}
  /\ mailCalls' = IF phase = "refused" THEN mailCalls
                  ELSE mailCalls \cup {[req |-> q, phase |-> phase, anchor |-> anchor, refs |-> <<>>]}
MailGoesOn(c, d) == mailCalls' = (mailCalls \ {c}) \cup {d}
MailEnds(c)      == mailCalls' = mailCalls \ {c}

MailCreateLooks(q) ==
  /\ q.op = "create"
  /\ MailArrives(q, IF q.key \notin DOMAIN mailRows /\ MailAcceptable(q.dto) THEN "save" ELSE "refused", "null")
  /\ UNCHANGED <<mailRows, letters, correspondent, mailed, repliedLog, rowsLost, mailFaults>>
(* A name is unique in its channel: the second of two creates fails here.  *)
MailCreateSaves(c) ==
  /\ c.req.op = "create" /\ c.phase = "save" /\ MailEnds(c)
  /\ mailRows' = IF c.req.key \in DOMAIN mailRows THEN mailRows
                 ELSE [k \in DOMAIN mailRows \cup {c.req.key} |-> IF k = c.req.key THEN MailRow(c.req.dto) ELSE mailRows[k]]
  /\ UNCHANGED <<mailDue, letters, correspondent, mailed, repliedLog, rowsLost, mailFaults>>
----------------------------------------------------------------------------
(* testSend and sendOnTicket                                               *)

MailsIn == {i \in DOMAIN letters : letters[i].inbound}
MailFacts   == [order |-> correspondent.order, words |-> correspondent.words, whatsapp |-> FALSE, mail |-> MailsIn # {}]

(* Override, resolver, fallback, in this order; "null" refuses the send.   *)
MailValues(row, over, resolved) ==
  [i \in DOMAIN row.mapping |-> LET n == row.mapping[i].name IN
     IF n \in over THEN n ELSE IF resolved[n] # "" THEN resolved[n] ELSE row.mapping[i].fallback]
ForTicket  == [n \in DOMAIN Nullable |-> ResolvedForTicket(n, MailFacts)]
ForAddress == [n \in DOMAIN Nullable |-> ResolvedForEmail(n, MailFacts)]
LeftOpen(row) == ToSet(row.subject \o row.body) \ {row.mapping[i].name : i \in DOMAIN row.mapping}

MailPosts(id, row, values, anchor, refs) ==
  mailed' = mailed \cup {[id |-> id, kind |-> row.kind, values |-> values, open |-> LeftOpen(row),
                          anchor |-> anchor, refs |-> refs]}

MailTests(q) ==
  /\ q.op = "test" /\ MailArrives(q, "refused", "null")
  /\ IF q.key \in DOMAIN mailRows
       THEN LET values == MailValues(mailRows[q.key], q.over, ForAddress) IN
            IF "null" \in ToSet(values) THEN UNCHANGED mailed
            ELSE MailPosts(q.id, [mailRows[q.key] EXCEPT !.kind = "TEST"], values, "null", <<>>)
       ELSE UNCHANGED mailed
  /\ UNCHANGED <<mailRows, letters, correspondent, repliedLog, rowsLost, mailFaults>>

(* The template must be of the ticket's inbox; nothing is sent to an       *)
(* address that nobody reads.                                              *)
SendFinds(q) ==
  /\ q.op = "send"
  /\ MailArrives(q, IF q.key \in DOMAIN mailRows /\ q.key[1] = "ours" /\ correspondent.sender = "somebody"
                      THEN "anchor" ELSE "refused", "null")
  /\ UNCHANGED <<mailRows, letters, correspondent, mailed, repliedLog, rowsLost, mailFaults>>
SendAnchors(c) ==
  /\ c.phase = "anchor"
  /\ IF mailRows[c.req.key].kind = "OUTREACH" THEN MailGoesOn(c, [c EXCEPT !.phase = "gather"])
     ELSE IF MailsIn = {} THEN MailEnds(c)
     ELSE MailGoesOn(c, [c EXCEPT !.phase = "gather", !.anchor = letters[Max(MailsIn)].id])
  /\ UNCHANGED <<mailRows, mailDue, letters, correspondent, mailed, repliedLog, rowsLost, mailFaults>>
SendGathers(c) ==
  /\ c.phase = "gather"
  /\ MailGoesOn(c, [c EXCEPT !.phase = "post",
                      !.refs = IF mailRows[c.req.key].kind = "REPLY" THEN [i \in DOMAIN letters |-> letters[i].id] ELSE <<>>])
  /\ UNCHANGED <<mailRows, mailDue, letters, correspondent, mailed, repliedLog, rowsLost, mailFaults>>
SmtpOrRowFails == mailFaults > 0 /\ mailFaults' = mailFaults - 1
SendPosts(c) ==
  /\ c.phase = "post"
  /\ LET values == MailValues(mailRows[c.req.key], {}, ForTicket) IN
     \/ "null" \in ToSet(values) /\ MailEnds(c) /\ UNCHANGED <<mailed, rowsLost, mailFaults>>
     \/ SmtpOrRowFails /\ MailEnds(c) /\ UNCHANGED <<mailed, rowsLost>>
     \/ /\ "null" \notin ToSet(values)
        /\ MailPosts(c.req.id, mailRows[c.req.key], values, c.anchor, c.refs)
        /\ MailGoesOn(c, [c EXCEPT !.phase = "keep"]) /\ UNCHANGED <<rowsLost, mailFaults>>
  /\ UNCHANGED <<mailRows, mailDue, letters, correspondent, repliedLog>>

IsLetter(id) == \E i \in DOMAIN letters : letters[i].id = id
(* The row and the entry are one transaction; external ids are unique.     *)
KeepsRow(c) ==
  IF IsLetter(c.req.id) THEN UNCHANGED <<letters, repliedLog, rowsLost, mailFaults>>
  ELSE \/ /\ letters' = Append(letters, [id |-> c.req.id, inbound |-> FALSE])
          /\ repliedLog' = repliedLog \cup {c.req.id} /\ UNCHANGED <<rowsLost, mailFaults>>
       \/ SmtpOrRowFails /\ rowsLost' = rowsLost \cup {c.req.id} /\ UNCHANGED <<letters, repliedLog>>
SendKeeps(c) ==
  /\ c.phase = "keep" /\ MailEnds(c) /\ KeepsRow(c)
  /\ UNCHANGED <<mailRows, mailDue, correspondent, mailed>>

(* The ingest puts a customer's mail on the ticket, and the Sent folder's  *)
(* copy of a reply unless its id is there; the copy of a fresh mail names  *)
(* no ticket and is dropped.                                               *)
LetterComes(q) ==
  /\ q.op = "letter" /\ MailArrives(q, "refused", "null")
  /\ letters' = Append(letters, [id |-> q.id, inbound |-> q.inbound])
  /\ UNCHANGED <<mailRows, correspondent, mailed, repliedLog, rowsLost, mailFaults>>
CopyComes(m) ==
  /\ ~IsLetter(m.id) /\ \E id \in ToSet(m.refs) : IsLetter(id)
  /\ letters' = Append(letters, [id |-> m.id, inbound |-> FALSE])
  /\ UNCHANGED <<mailRows, mailCalls, mailDue, correspondent, mailed, repliedLog, rowsLost, mailFaults>>

MailTemplatesInit(c) ==
  /\ mailRows = <<>> /\ mailCalls = {} /\ mailDue = c.asks /\ letters = c.letters
  /\ correspondent = [sender |-> c.sender, order |-> c.order, words |-> c.words]
  /\ mailed = {} /\ repliedLog = {} /\ rowsLost = {} /\ mailFaults = c.faults
MailTemplatesNext ==
  \/ \E q \in mailDue : MailCreateLooks(q) \/ MailTests(q) \/ SendFinds(q) \/ LetterComes(q)
  \/ \E c \in mailCalls : MailCreateSaves(c) \/ SendAnchors(c) \/ SendGathers(c) \/ SendPosts(c) \/ SendKeeps(c)
  \/ \E m \in mailed : CopyComes(m)
MailTemplatesSpec == (\E c \in MailCases : MailTemplatesInit(c)) /\ [][MailTemplatesNext]_mailTemplateVars
----------------------------------------------------------------------------
(* No mail goes out with a name left in it or a blank put for one: what    *)
(* create asks for is what every send needs (create, testSend,             *)
(* sendOnTicket).                                                          *)
NothingLeftOpen == \A m \in mailed : m.open = {} /\ ToSet(m.values) \cap {"", "null"} = {}

(* In-Reply-To names a message that References names too, whatever comes   *)
(* between the two reads, and a fresh mail names none (sendOnTicket).      *)
ThreadedAsAnswered ==
  \A m \in mailed : IF m.kind = "REPLY" THEN m.anchor \in ToSet(m.refs) ELSE m.anchor = "null" /\ m.refs = <<>>

(* What went out on the ticket is on it once, by the send or by the Sent   *)
(* copy, and missing only where the transaction failed; an entry in the    *)
(* log is of a mail that is there (sendOnTicket, ingestSent).              *)
MailAccounted ==
  /\ \A id \in repliedLog : IsLetter(id)
  /\ \A i, j \in DOMAIN letters : letters[i].id = letters[j].id => i = j
  /\ \A m \in mailed : m.kind # "TEST" /\ (\A c \in mailCalls : c.req.id # m.id) =>
       m.id \in rowsLost \/ IsLetter(m.id)

(* What a mail template promises who sends by it.                          *)
MailsSound == NothingLeftOpen /\ ThreadedAsAnswered /\ MailAccounted
=============================================================================
