------------------------------ MODULE Settings ------------------------------
(***************************************************************************)
(* The app_setting rows (AppSettingsService, SettingsController), and the  *)
(* secret that signs the custom events posted to WebhooksController. The   *)
(* secret is made by whoever first needs it: a read, then a write.         *)
(***************************************************************************)
EXTENDS Naturals, FiniteSets, Sequences

CONSTANTS MaxSecrets,  \* bound on the secrets made
          Unset        \* no row

SettingKeys == {"email", "whatsapp", "legacy", "requireTag"}
DefaultHours == 2

VARIABLES rows,     \* [SettingKeys -> a number, a boolean or Unset]
          secret,   \* the stored secret, 0 for no row
          secrets,  \* secrets made so far
          call,     \* the phase of each request [id, op, writes, secret] that comes
          shown,    \* the secret it has in hand, 0 for none
          replaced  \* secrets overwritten, by a rotation or by another first reader

settingVars == <<rows, secret, secrets, call, shown, replaced>>

(* readWindowHours: the channel's own row, the old common one, the default.*)
WindowHours(key) ==
  IF rows[key] # Unset THEN rows[key]
  ELSE IF rows["legacy"] # Unset THEN rows["legacy"] ELSE DefaultHours
RequireTag == rows["requireTag"] # Unset /\ rows["requireTag"]

Stays == UNCHANGED <<rows, secret, secrets, replaced>>
On(q, phase, s) == call' = [call EXCEPT ![q] = phase] /\ shown' = [shown EXCEPT ![q] = s]

(* getWebhookSecret: the row, or a fresh secret to be written.             *)
SecretReads(q) ==
  /\ q.op \in {"show", "post"} /\ call[q] = "ready"
  /\ IF secret # 0 THEN On(q, "has", secret) /\ Stays
     ELSE /\ secrets < MaxSecrets /\ secrets' = secrets + 1 /\ On(q, "making", secrets + 1)
          /\ UNCHANGED <<rows, secret, replaced>>

UpsertsIfNone(s) == secret' = (IF secret = 0 THEN s ELSE secret) /\ replaced' = replaced

Upserts(s) == secret' = s /\ replaced' = IF secret = 0 THEN replaced ELSE replaced \cup {secret}
SecretWrites(q) ==
  /\ call[q] = "making" /\ Upserts(shown[q])
  /\ On(q, "has", shown[q]) /\ UNCHANGED <<rows, secrets>>

SecretRotates(q) ==
  /\ q.op = "rotate" /\ call[q] = "ready" /\ secrets < MaxSecrets
  /\ secrets' = secrets + 1 /\ Upserts(secrets + 1)
  /\ On(q, "has", secrets + 1) /\ UNCHANGED rows

(* customEvent: the header against the secret read, then the event.        *)
EventPosted(q) ==
  /\ q.op = "post" /\ call[q] = "has"
  /\ On(q, IF q.secret = shown[q] THEN "emitted" ELSE "unauthorized", shown[q]) /\ Stays

(* updateGeneral: one upsert after another, each on its own.               *)
GeneralWrites(q) ==
  /\ q.op = "general" /\ call[q] \in {"ready", "writing"} /\ q.writes # <<>>
  /\ LET k == IF call[q] = "ready" THEN 1 ELSE shown[q] + 1 IN
     /\ rows' = [rows EXCEPT ![q.writes[k][1]] = q.writes[k][2]]
     /\ On(q, IF k = Cardinality(DOMAIN q.writes) THEN "has" ELSE "writing", k)
  /\ UNCHANGED <<secret, secrets, replaced>>

(* The requests that can come: a rotation, a look at the secret, an event, *)
(* or writes of settings, hours or the switch.                             *)
SettingRequest(q) ==
  q.op = "general" =>
    q.writes \in Seq((({"email", "whatsapp"} \X Nat) \cup ({"requireTag"} \X BOOLEAN)))

SettingsInit(legacy, comes) ==
  /\ rows = [k \in SettingKeys |-> IF k = "legacy" THEN legacy ELSE Unset]
  /\ secret = 0 /\ secrets = 0 /\ replaced = {}
  /\ call = [q \in comes |-> "ready"]
  /\ shown = [q \in comes |-> 0]

SettingsNext ==
  \E q \in DOMAIN call : \/ SecretReads(q) \/ SecretWrites(q) \/ SecretRotates(q)
                             \/ EventPosted(q) \/ GeneralWrites(q)

SettingsTypeOK ==
  /\ \A k \in {"email", "whatsapp"} : WindowHours(k) \in Nat
  /\ RequireTag \in BOOLEAN /\ secret \in 0..secrets /\ replaced \subseteq 1..secrets

(* A secret an admin was shown signs events until it is rotated; the first *)
(* one may also be overwritten by another request that found none while it *)
(* was being made.                                                         *)
Rotations == {q \in DOMAIN call : q.op = "rotate" /\ call[q] = "has"}
SecretShownWorks ==
  \A q \in DOMAIN call :
    /\ q.op = "show" /\ call[q] = "has" /\ Rotations = {} /\ Cardinality(replaced) = 0
    => secret = shown[q]
=============================================================================
