-------------------------- MODULE TemplateVariables --------------------------
(***************************************************************************)
(* The variables of templates, for WhatsApp and for mail: which may be     *)
(* missing, which a text refers to, where their values come from.          *)
(*                                                                         *)
(* A text is the sequence of its placeholders; a variable that resolves    *)
(* has its own name as its value, "" is no value and "null" no fallback.   *)
(***************************************************************************)
EXTENDS Naturals, Sequences, FiniteSets, SequencesExt

At(seq, x) == SelectInSeq(seq, LAMBDA y : y = x)
Null(x)    == x = "null"

(* TEMPLATE_VARIABLES: the channels on which each may be missing.          *)
Nullable == [ticket_id |-> {}, inbox |-> {}, customer_id |-> {}, order_id |-> {"WHATSAPP", "EMAIL"},
             first_name |-> {"WHATSAPP", "EMAIL"}, last_name |-> {"WHATSAPP", "EMAIL"},
             email |-> {"WHATSAPP"}, phone_number |-> {"EMAIL"}]

(* Each name once, in the order of first use; a text without one is "".    *)
Firsts(text) == {i \in DOMAIN text : text[i] # "" /\ \A j \in 1..i - 1 : text[j] # text[i]}
References(text) ==
  [k \in 1..Cardinality(Firsts(text)) |->
     text[CHOOSE i \in Firsts(text) : Cardinality({j \in Firsts(text) : j <= i}) = k]]

(* renderNamedBody                                                         *)
RenderNamed(body, names, values) ==
  [i \in DOMAIN body |-> IF body[i] \in ToSet(names) THEN values[At(names, body[i])] ELSE body[i]]

(* TemplateVariableResolverService: the names come from the ticket, its    *)
(* first messages and the customer's latest order. Its errors are blanks.  *)
FromOrder(n, t) ==
  CASE n = "order_id"   -> t.order
    [] n = "first_name" -> t.order /\ t.words >= 1
    [] n = "last_name"  -> t.order /\ t.words >= 2
    [] OTHER            -> FALSE
ResolvedForTicket(n, t) ==
  IF \/ n \in {"ticket_id", "inbox", "customer_id"} \/ (n = "phone_number" /\ t.whatsapp)
     \/ (n = "email" /\ t.mail) \/ FromOrder(n, t) THEN n ELSE ""
ResolvedForPhone(n, t) == IF n \in {"customer_id", "phone_number"} \/ FromOrder(n, t) THEN n ELSE ""
(* By mail address: the ticket's own variables are blank, and phones are   *)
(* not looked for.                                                         *)
ResolvedForEmail(n, t) == IF n \in {"customer_id", "email"} \/ FromOrder(n, t) THEN n ELSE ""
=============================================================================
