--------------------------- MODULE WhatsappSender ---------------------------
(***************************************************************************)
(* WhatsappSenderService and the adapter the bot talks through: which      *)
(* requests are refused before they leave, and what a caller learns of one *)
(* that left.  Meta may have taken a message whose answer never arrived or *)
(* could not be read; the sender then throws as for any other failure.     *)
(***************************************************************************)
EXTENDS Naturals, Sequences

(* Meta's side of one POST: whether the message was taken, and what came   *)
(* back.  "none" is a failed fetch, "garbled" an answer that is not JSON.  *)
MetaAnswers ==
  {a \in [taken: BOOLEAN, reply: {"none", "garbled", "error", "no id", "id"}] :
     (a.reply = "error" => ~a.taken) /\ (a.reply = "id" => a.taken)}

NotSent == [taken |-> FALSE, result |-> "throws"]

(* Mutant: a 2xx without a message id passes for a success.                *)
PostedTrustingStatus(a) ==
  [taken |-> a.taken,
   result |-> IF a.reply \in {"id", "no id"} THEN "wamid" ELSE "throws"]

Posted(a) == [taken |-> a.taken,
              result |-> IF a.reply = "id" THEN "wamid" ELSE "throws"]

----------------------------------------------------------------------------
(* The operations: wa is "the recipient has digits", body is "the text is  *)
(* not blank", n counts buttons or rows.                                   *)

SendText(wa, body, a) == IF wa /\ body THEN Posted(a) ELSE NotSent

SendInteractiveButtons(wa, body, n, a) ==
  IF wa /\ body /\ n \in 1 .. 3 THEN Posted(a) ELSE NotSent

SendInteractiveList(wa, body, n, a) ==
  IF wa /\ body /\ n \in 1 .. 10 THEN Posted(a) ELSE NotSent

SendMedia(wa, a) == IF wa THEN Posted(a) ELSE NotSent

SendTemplate(wa, a) == IF wa THEN Posted(a) ELSE NotSent

(* An upload or a download gives its result or throws; nothing reaches the *)
(* customer.  The download asks for the address first, then for the bytes. *)
UploadMediaToMeta(a) == IF a.reply = "id" THEN "media id" ELSE "throws"

DownloadMetaMedia(meta, bytes) ==
  IF meta.reply = "id" /\ bytes # "none" THEN "bytes" ELSE "throws"

(* The template's components in the order of the request; bid is the       *)
(* multiplier, dropped unless it is a number other than 1 on the marketing *)
(* endpoint.                                                               *)
TemplateRequest(header, variables, urls, replies, marketing, bid) ==
  [endpoint |-> IF marketing THEN "marketing_messages" ELSE "messages",
   components |-> (IF header THEN <<"header">> ELSE <<>>)
                  \o (IF variables > 0 THEN <<"body">> ELSE <<>>)
                  \o [i \in 1 .. urls |-> "url"] \o [i \in 1 .. replies |-> "quick_reply"],
   parameters |-> variables,
   bid |-> marketing /\ bid \notin {"none", "zero", "one"}]
----------------------------------------------------------------------------
(* WhatsappChannelAdapter.send: text, buttons, a list, or the options      *)
(* written out, by how many there are and how long their labels are.       *)

(* Mutant: any number of short labels becomes buttons.                     *)
FormByLabels(n, long) ==
  CASE n = 0 -> "text" [] n > 0 /\ ~long -> "buttons" [] OTHER -> "list"

Form(n, long) ==
  IF n = 0 THEN "text"
  ELSE IF n <= 3 /\ ~long THEN "buttons" ELSE IF n <= 10 THEN "list" ELSE "enumerated"

SentForm(n, long, body, a) ==
  CASE Form(n, long) = "text"    -> SendText(TRUE, body, a)
    [] Form(n, long) = "buttons" -> SendInteractiveButtons(TRUE, body, n, a)
    [] Form(n, long) = "list"    -> SendInteractiveList(TRUE, body, n, a)
    [] OTHER                     -> SendText(TRUE, TRUE, a)

(* send drops the message when the ticket is gone, is not WhatsApp's or    *)
(* has no number in its key, swallows every error of the sender, and keeps *)
(* a SENT row only when a wamid came back and the insert worked.           *)
AdapterSend(reachable, n, long, body, a, kept) ==
  LET o == SentForm(n, long, body, a) IN
  IF ~reachable THEN [taken |-> FALSE, row |-> FALSE]
  ELSE [taken |-> o.taken, row |-> o.result = "wamid" /\ kept]

(* resolveMediaKind and the caps, in MB, per kind.                         *)
MediaKind(mime) ==
  CASE mime \in {"image/jpeg", "image/png"} -> "image"
    [] mime \in {"video/mp4", "video/3gp", "video/3gpp"} -> "video"
    [] mime \in {"audio/ogg", "audio/mpeg"} -> "audio"
    [] mime \in {"application/pdf", "text/plain", "application/msword"} -> "document"
    [] OTHER -> "none"

MediaCap == [image |-> 5, video |-> 16, audio |-> 16, document |-> 100]

(* An attachment of a reply: checked, fetched, uploaded, then sent.        *)
Accepted(mime, mb) == MediaKind(mime) # "none" /\ mb <= MediaCap[MediaKind(mime)]
SendAttachment(mime, mb, stored, upload, a) ==
  IF Accepted(mime, mb) /\ stored /\ UploadMediaToMeta(upload) # "throws" THEN SendMedia(TRUE, a) ELSE NotSent

(* The sample of a template's header: the bucket and Meta's session side   *)
(* by side, then the bytes, then the handle.                               *)
UploadHeader(mime, mb, stored, session, bytes) ==
  IF /\ mime \in {"image/jpeg", "image/png"} /\ mb <= 5
     /\ stored /\ session.reply = "id" /\ UploadMediaToMeta(bytes) # "throws" THEN "handle" ELSE "throws"

(* resolveInboundMedia: any failure leaves the message without its media.  *)
InboundMedia(type, id, meta, bytes, stored) ==
  IF type \in DOMAIN MediaCap /\ id /\ DownloadMetaMedia(meta, bytes) # "throws" /\ stored THEN "media" ELSE "none"
=============================================================================
