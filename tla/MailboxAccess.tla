--------------------------- MODULE MailboxAccess ---------------------------
(***************************************************************************)
(* Getting at a Gmail mailbox: an admin connects a channel through OAuth   *)
(* (ChannelsController, GoogleOAuthService, ChannelsService), and senders  *)
(* and the IMAP connection take access tokens from one cache per process   *)
(* (AccessTokenCache). A grant is the refresh token of one consent; an     *)
(* access token is known by the grant it was refreshed from.               *)
(***************************************************************************)
EXTENDS Naturals, FiniteSets

CONSTANTS Channels,
          Consents, \* <<id, channel>>: OAuth round trips an admin may make
          Getters,  \* <<id, channel>>: sends and connects that need a token
          MaxUpsets \* bound on expiries, invalidations and revocations

ASSUME MailAssumption ==
  IsFiniteSet(Consents) /\ \A c \in Consents \cup Getters : c[2] \in Channels

NoGrant == 0

VARIABLES grant,   \* [Channels -> number of the stored refresh token]
          was,     \* [Channels -> the refresh tokens it has had]
          grants,  \* refresh tokens Google has given out
          revoked, \* those the mailbox owner has taken back
          consent, \* [Consents -> phase]
          entry,   \* [Channels -> grant of the cached access token, NoGrant for none]
          calls,   \* [Channels -> grants of the refreshes under way at Google]
          getter,  \* [Getters -> [phase, knows, token]]
          gone,    \* channels deleted
          upsets

mailVars == <<grant, was, grants, revoked, consent, entry, calls, getter, gone, upsets>>

Idle == [phase |-> "idle", knows |-> NoGrant, token |-> NoGrant]

(***************************************************************************)
(* Connecting                                                              *)
(***************************************************************************)
(* encodeOAuthState: the link is signed for this channel, for ten minutes. *)
Authorize(c) ==
  /\ consent[c] = "none" /\ consent' = [consent EXCEPT ![c] = "asked"]
  /\ UNCHANGED <<grant, was, grants, revoked, entry, calls, getter, gone, upsets>>

StateLapses(c) ==
  /\ consent[c] = "asked" /\ consent' = [consent EXCEPT ![c] = "lapsed"]
  /\ UNCHANGED <<grant, was, grants, revoked, entry, calls, getter, gone, upsets>>

DecodesAny(phase) == phase \in {"asked", "lapsed"}

(* decodeOAuthState, at Google's redirect: only a link in date is followed *)
(* by the exchange of its code.                                            *)
Decodes(phase) == phase = "asked"
Callback(c) ==
  /\ consent[c] \in {"asked", "lapsed"}
  /\ consent' = [consent EXCEPT ![c] = IF Decodes(@)
                                         THEN (IF @ = "asked" THEN "exchanging" ELSE "overdue")
                                         ELSE "refused"]
  /\ UNCHANGED <<grant, was, grants, revoked, entry, calls, getter, gone, upsets>>

(* exchangeCode gives a refresh token, or fails; saveEmailOAuthCredentials *)
(* stores it and announces it. The cache is not told.                      *)
Saves(c) ==
  /\ consent[c] \in {"exchanging", "overdue"}
  /\ grants' = grants + 1
  /\ IF c[2] \in gone
       THEN consent' = [consent EXCEPT ![c] = "refused"] /\ UNCHANGED <<grant, was>>
       ELSE /\ grant' = [grant EXCEPT ![c[2]] = grants + 1]
            /\ was' = [was EXCEPT ![c[2]] = @ \cup {grants + 1}]
            /\ consent' = [consent EXCEPT ![c] = IF @ = "overdue" THEN "saved late" ELSE "saved"]
  /\ UNCHANGED <<revoked, entry, calls, getter, gone, upsets>>

ExchangeFails(c) ==
  /\ consent[c] \in {"exchanging", "overdue"} /\ consent' = [consent EXCEPT ![c] = "refused"]
  /\ UNCHANGED <<grant, was, grants, revoked, entry, calls, getter, gone, upsets>>

ChannelRemoved(ch) ==
  /\ ch \notin gone /\ gone' = gone \cup {ch}
  /\ UNCHANGED <<grant, was, grants, revoked, consent, entry, calls, getter, upsets>>

(***************************************************************************)
(* Tokens                                                                  *)
(***************************************************************************)
(* The caller has the channel's row with its credentials in hand.          *)
OpensRow(g) ==
  /\ getter[g].phase = "idle" /\ grant[g[2]] # NoGrant /\ g[2] \notin gone
  /\ getter' = [getter EXCEPT ![g].phase = "row", ![g].knows = grant[g[2]]]
  /\ UNCHANGED <<grant, was, grants, revoked, consent, entry, calls, gone, upsets>>

JoinsNone(ch) == FALSE

Joins(ch) == calls[ch] # {}
CachedAnywhere(g) == IF entry[g[2]] # NoGrant THEN entry[g[2]]
                     ELSE IF \E ch \in Channels : entry[ch] # NoGrant
                            THEN entry[CHOOSE ch \in Channels : entry[ch] # NoGrant] ELSE NoGrant

Cached(g) == entry[g[2]]
(* get: the cached token, else the refresh under way, else a new refresh.  *)
Gets(g) ==
  /\ getter[g].phase = "row"
  /\ IF Cached(g) # NoGrant
       THEN /\ getter' = [getter EXCEPT ![g].phase = "got", ![g].token = Cached(g)]
            /\ UNCHANGED calls
       ELSE /\ getter' = [getter EXCEPT ![g].phase = "waiting"]
            /\ calls' = IF Joins(g[2]) THEN calls
                          ELSE [calls EXCEPT ![g[2]] = @ \cup {<<g, getter[g].knows>>}]
  /\ UNCHANGED <<grant, was, grants, revoked, consent, entry, gone, upsets>>

WaitingFirst(ch, call) == {call[1]}

Waiting(ch, call) == {g \in Getters : g[2] = ch /\ getter[g].phase = "waiting"}
(* Google answers a refresh: everyone who waits has the token or the error,*)
(* and the next caller begins anew.                                        *)
RefreshAnswers(ch) ==
  \E call \in calls[ch] :
    LET ok == call[2] \notin revoked IN
    /\ calls' = [calls EXCEPT ![ch] = @ \ {call}]
    /\ entry' = IF ok THEN [entry EXCEPT ![ch] = call[2]] ELSE entry
    /\ getter' = [g \in Getters |->
                    IF g \notin Waiting(ch, call) THEN getter[g]
                    ELSE IF ok THEN [getter[g] EXCEPT !.phase = "got", !.token = call[2]]
                    ELSE [getter[g] EXCEPT !.phase = "failed"]]
    /\ UNCHANGED <<grant, was, grants, revoked, consent, gone, upsets>>

(* A token within a minute of its end is not served; a connection whose    *)
(* login fails drops it.                                                   *)
Dropped(ch) ==
  /\ entry[ch] # NoGrant /\ upsets < MaxUpsets /\ upsets' = upsets + 1
  /\ entry' = [entry EXCEPT ![ch] = NoGrant]
  /\ UNCHANGED <<grant, was, grants, revoked, consent, calls, getter, gone>>

Revoked(n) ==
  /\ n \in 1..grants \ revoked /\ upsets < MaxUpsets /\ upsets' = upsets + 1
  /\ revoked' = revoked \cup {n}
  /\ UNCHANGED <<grant, was, grants, consent, entry, calls, getter, gone>>

MailInit(comes) ==
  /\ grant = [ch \in Channels |-> NoGrant] /\ was = [ch \in Channels |-> {}] /\ grants = 0 /\ revoked = {}
  /\ consent = [c \in Consents |-> IF c \in comes THEN "none" ELSE "refused"]
  /\ entry = [ch \in Channels |-> NoGrant] /\ calls = [ch \in Channels |-> {}]
  /\ getter = [g \in Getters |-> Idle] /\ gone = {} /\ upsets = 0

GetterMoves(ch) == \/ \E g \in Getters : g[2] = ch /\ Gets(g)
                   \/ RefreshAnswers(ch)

MailNext ==
  \/ \E c \in Consents : \/ Authorize(c) \/ StateLapses(c) \/ Callback(c) \/ Saves(c) \/ ExchangeFails(c)
  \/ \E g \in Getters : OpensRow(g)
  \/ \E ch \in Channels : ChannelRemoved(ch) \/ GetterMoves(ch) \/ Dropped(ch)
  \/ \E n \in 1..Cardinality(Consents) : Revoked(n)

MailTypeOK ==
  /\ grant \in [Channels -> 0..grants] /\ grants \in 0..Cardinality(Consents)
  /\ entry \in [Channels -> 0..grants] /\ revoked \subseteq 1..grants
  /\ \A g \in Getters : getter[g].phase \in {"idle", "row", "waiting", "got", "failed"}

(* However many ask at once, one refresh per channel is under way (the     *)
(* cache's in-flight map).                                                 *)
OneRefreshPerChannel == \A ch \in Channels : Cardinality(calls[ch]) <= 1

(* A caller is handed a token of its own mailbox: of a grant this channel  *)
(* has had. It may be an older one: a reconnect does not touch the cache,  *)
(* nor a refresh under way.                                                *)
TokenOfItsChannel ==
  \A g \in Getters : getter[g].phase = "got" => getter[g].token \in was[g[2]]

(* Credentials are stored only by a round trip begun in the last ten       *)
(* minutes (oauth-state).                                                  *)
ConnectedInTime == \A c \in Consents : consent[c] # "saved late"

(* Nobody waits for a token for ever: a failed refresh clears the way.     *)
GettersAnswered ==
  []<>(\A g \in Getters : getter[g].phase # "waiting")
=============================================================================
