------------------------------- MODULE Office -------------------------------
(***************************************************************************)
(* The console's own records: accounts and sessions, teams and routing,    *)
(* mailbox access, settings. They share the database and the process but   *)
(* no rows, so a behaviour takes the requests of one of them.              *)
(***************************************************************************)
EXTENDS Accounts, Teams, MailboxAccess, Settings

CONSTANT Cases  \* [accounts, teams, mail, settings]: what there is and what comes

ASSUME CasesAssumption ==
  \A c \in Cases :
    /\ AccountRows(c.rows, c.held) /\ \A r \in c.requests : AccountRequest(r)
    /\ TeamRows(c.there, c.ruled) /\ \A q \in c.asked : TeamRequest(q)
    /\ c.consents \subseteq Consents
    /\ c.legacy \in Nat \cup {Unset} /\ \A q \in c.settings : SettingRequest(q)

officeVars == <<accountVars, teamVars, mailVars, settingVars>>

OfficeCase(c) ==
  /\ AccountsInit(c.rows, c.held, c.requests)
  /\ TeamsInit(c.there, c.ruled, c.asked)
  /\ MailInit(c.consents)
  /\ SettingsInit(c.legacy, c.settings)
OfficeInit == \E c \in Cases : OfficeCase(c)

OfficeNext ==
  \/ AccountsNext /\ UNCHANGED <<teamVars, mailVars, settingVars>>
  \/ TeamsNext /\ UNCHANGED <<accountVars, mailVars, settingVars>>
  \/ MailNext /\ UNCHANGED <<accountVars, teamVars, settingVars>>
  \/ SettingsNext /\ UNCHANGED <<accountVars, teamVars, mailVars>>

OfficeSpec == OfficeInit /\ [][OfficeNext]_officeVars

(* Google answers a refresh, and the event loop goes on.                   *)
OfficeFairness ==
  \A ch \in Channels : WF_officeVars(GetterMoves(ch) /\ UNCHANGED <<accountVars, teamVars, settingVars>>)

OfficeTypeOK == AccountsTypeOK /\ TeamsTypeOK /\ MailTypeOK /\ SettingsTypeOK

(* Teams end only as they may, keep the bot and their order; channels hand *)
(* out their own tokens and connect in time; the secret shown works        *)
(* (TeamsService, GoogleOAuthService and its cache, AppSettingsService).   *)
OfficeSound ==
  /\ OfficeTypeOK
  /\ RemovalStopsOnlyByRace /\ BotEverywhere /\ ReorderKept
  /\ OneRefreshPerChannel /\ TokenOfItsChannel /\ ConnectedInTime
  /\ SecretShownWorks
=============================================================================
