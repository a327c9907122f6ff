------------------------------ MODULE Accounts ------------------------------
(***************************************************************************)
(* Who may work in the console: sign-in with Google, the one refresh token *)
(* a user has, and the admins' changes of the roster (AuthService,         *)
(* GoogleOAuthStrategy, JwtStrategy and the guards, UsersService).         *)
(*                                                                         *)
(* Every method is a read, one or more checks, and a write by id: nothing  *)
(* is locked, so requests interleave between the steps below. A request    *)
(* counts under "during" the requests that wrote while it was under way.   *)
(***************************************************************************)
EXTENDS Naturals, FiniteSets

CONSTANTS Users,     \* people, one e-mail address each
          Subs,      \* Google account ids
          Browsers,
          MaxTokens  \* bound on the refresh tokens issued

ASSUME TokensAssumption == MaxTokens \in Nat

SessionOps == {"login", "refresh", "logout"}
AdminOps   == {"deactivate", "reactivate", "remove", "invite"}
Roles      == {"ADMIN", "AGENT"}
NoSub      == "none"

VARIABLES users,   \* the rows of "user"
          tokens,  \* refresh tokens issued so far
          cookie,  \* [Browsers -> the refresh cookie, 0 for none]
          lapsed,  \* tokens past their seven days
          at,      \* the phase of each request [id, op, by, on, arg] that comes
          seen,    \* what it remembers across an await
          during,  \* the requests that wrote while it was under way
          spent    \* the refresh token it gave up, 0 for none

accountVars == <<users, tokens, cookie, lapsed, at, seen, during, spent>>

Over == {"done", "refused"}
UnderWay(r) == at[r] \notin Over \cup {"ready"}

Row == [there : BOOLEAN, role : Roles, approved : BOOLEAN, active : BOOLEAN,
        sub : Subs \cup {NoSub}, token : 0..MaxTokens]
Absent == [there |-> FALSE, role |-> "AGENT", approved |-> FALSE, active |-> TRUE,
           sub |-> NoSub, token |-> 0]

ActiveAdmins == {u \in Users : users[u].there /\ users[u].role = "ADMIN" /\ users[u].active}

Goes(r, phase, memo) ==
  /\ at' = [at EXCEPT ![r] = phase] /\ seen' = [seen EXCEPT ![r] = memo]

Wrote(r) == during' = [q \in DOMAIN at |->
                         IF q # r /\ UnderWay(q) THEN during[q] \cup {r} ELSE during[q]]

Refuses(r) == Goes(r, "refused", seen[r]) /\ UNCHANGED <<users, tokens, cookie, lapsed, during, spent>>

(***************************************************************************)
(* Sessions                                                                *)
(***************************************************************************)
Live(u, t) == /\ users[u].there /\ users[u].token = t /\ t # 0

(* resolveUser: the Google account first, then the e-mail it claims.       *)
Claims(r) ==
  LET bySub == {u \in Users : users[u].there /\ users[u].sub = r.arg}
      row   == users[r.on] IN
  IF bySub # {} THEN <<"known", CHOOSE u \in bySub : TRUE>>
  ELSE IF ~row.there THEN <<"new", r.on>>
  ELSE IF row.sub = NoSub THEN <<"invited", r.on>> ELSE <<"other", r.on>>

LoginFinds(r) ==
  /\ r.op = "login" /\ at[r] = "ready"
  /\ IF Claims(r)[1] = "other" THEN Refuses(r)
     ELSE Goes(r, "claimed", Claims(r)) /\ UNCHANGED <<users, tokens, cookie, lapsed, during, spent>>

(* The write of resolveUser and the look at deactivatedAt after it.        *)
LoginResolves(r) ==
  LET kind == seen[r][1]
      u    == seen[r][2]
      row  == users[u]
      bound == CASE kind = "known" -> row
                 [] kind = "invited" -> [row EXCEPT !.sub = r.arg]
                 [] kind = "new" -> [Absent EXCEPT !.there = TRUE, !.sub = r.arg] IN
  /\ r.op = "login" /\ at[r] = "claimed"
  /\ IF (kind = "new") = row.there  \* the row was deleted, or the insert lost the e-mail
       THEN Refuses(r)
       ELSE /\ users' = [users EXCEPT ![u] = bound]
            /\ Goes(r, IF row.active THEN "found" ELSE "refused", u)
            /\ Wrote(r) /\ UNCHANGED <<tokens, cookie, lapsed, spent>>

RefreshFinds(r) ==
  LET t == cookie[r.by]
      owners == {u \in Users : Live(u, t)} IN
  /\ r.op = "refresh" /\ at[r] = "ready"
  /\ IF owners = {} \/ t \in lapsed \/ \E u \in owners : ~users[u].active
       THEN Refuses(r)
       ELSE /\ \E u \in owners : Goes(r, "found", u)
            /\ spent' = [spent EXCEPT ![r] = t] /\ UNCHANGED <<users, tokens, cookie, lapsed, during>>

IssuedBesides(row, t) == IF row.there /\ row.token = 0 THEN [row EXCEPT !.token = t] ELSE row

(* issueSession: the new hash takes the place of the old one, by user id.  *)
Issued(row, t) == IF row.there THEN [row EXCEPT !.token = t] ELSE row
Issues(r) ==
  /\ at[r] = "found" /\ tokens < MaxTokens
  /\ tokens' = tokens + 1
  /\ users' = [users EXCEPT ![seen[r]] = Issued(@, tokens + 1)]
  /\ Goes(r, "issued", tokens + 1) /\ Wrote(r) /\ UNCHANGED <<cookie, lapsed, spent>>

(* revokeRefresh: one UPDATE by hash.                                      *)
Logout(r) ==
  LET t == cookie[r.by] IN
  /\ r.op = "logout" /\ at[r] = "ready"
  /\ users' = [u \in Users |-> IF Live(u, t) THEN [users[u] EXCEPT !.token = 0] ELSE users[u]]
  /\ Goes(r, "issued", 0) /\ Wrote(r) /\ spent' = [spent EXCEPT ![r] = t]
  /\ UNCHANGED <<tokens, cookie, lapsed>>

AnsweredWithout(b, t) == IF cookie[b] # 0 /\ t # 0 THEN cookie ELSE [cookie EXCEPT ![b] = t]

(* The answer reaches the browser, which stores the cookie it sets.        *)
Answered(b, t) == [cookie EXCEPT ![b] = t]
Answers(r) ==
  /\ at[r] = "issued"
  /\ cookie' = Answered(r.by, seen[r])
  /\ Goes(r, "done", seen[r]) /\ UNCHANGED <<users, tokens, lapsed, during, spent>>

Lapses(t) ==
  /\ t \in 1..tokens \ lapsed /\ lapsed' = lapsed \cup {t}
  /\ UNCHANGED <<users, tokens, cookie, at, seen, during, spent>>

(***************************************************************************)
(* The roster                                                              *)
(***************************************************************************)
(* JwtStrategy.validate, ApprovedGuard and RolesGuard, on a fresh row; the *)
(* bearer of an access token has signed in.                                *)
Admitted(r) ==
  LET row == users[r.by] IN
  /\ row.there /\ row.sub # NoSub /\ row.active /\ row.approved
  /\ r.op \in AdminOps => row.role = "ADMIN"

Arrives(r) ==
  /\ r.op \notin SessionOps /\ at[r] = "ready"
  /\ IF Admitted(r)
       THEN Goes(r, "in", users[r.by].role) /\ UNCHANGED <<users, tokens, cookie, lapsed, during, spent>>
       ELSE Refuses(r)

OthersLeft == Cardinality(ActiveAdmins) > 1

AllowedSelf(r) ==
  LET row == users[r.on] IN
  CASE r.op = "role" -> seen[r] = "ADMIN" /\ row.there
    [] r.op = "deactivate" -> r.by # r.on /\ row.there
    [] r.op = "reactivate" -> row.there
    [] r.op = "remove" -> r.by # r.on /\ row.there
    [] r.op = "invite" -> ~row.there

Allowed(r) ==
  LET row == users[r.on] IN
  CASE r.op = "role" -> /\ seen[r] = "ADMIN" /\ row.there
                        /\ r.by = r.on /\ r.arg # "ADMIN" => OthersLeft
    [] r.op = "deactivate" -> r.by # r.on /\ row.there /\ (row.role = "ADMIN" => OthersLeft)
    [] r.op = "reactivate" -> row.there
    [] r.op = "remove" -> r.by # r.on /\ row.there /\ row.sub = NoSub
    [] r.op = "invite" -> ~row.there

Checks(r) ==
  /\ r.op \notin SessionOps /\ at[r] = "in"
  /\ IF Allowed(r)
       THEN Goes(r, "checked", seen[r]) /\ UNCHANGED <<users, tokens, cookie, lapsed, during, spent>>
       ELSE Refuses(r)

Changed(r, row) ==
  CASE r.op = "role" -> [row EXCEPT !.role = r.arg]
    [] r.op = "deactivate" -> [row EXCEPT !.active = FALSE]
    [] r.op = "reactivate" -> [row EXCEPT !.active = TRUE]
    [] r.op = "remove" -> Absent
    [] r.op = "invite" -> [Absent EXCEPT !.there = TRUE, !.role = r.arg, !.approved = TRUE]

(* The write by id; the unique e-mail refuses a second invite.             *)
Writes(r) ==
  /\ r.op \notin SessionOps /\ at[r] = "checked"
  /\ IF (r.op = "invite") = users[r.on].there
       THEN Refuses(r)
       ELSE /\ users' = [users EXCEPT ![r.on] = Changed(r, @)]
            /\ Goes(r, "done", seen[r]) /\ Wrote(r) /\ UNCHANGED <<tokens, cookie, lapsed, spent>>

(* The requests that can come, and what there can be before they do: an    *)
(* administrator, and sessions with a token of their own each.             *)
AccountRequest(r) ==
  \/ r.op \in SessionOps /\ r.by \in Browsers /\ r.on \in Users /\ (r.op = "login" => r.arg \in Subs)
  \/ /\ r.op \in AdminOps \cup {"role"} /\ r.by \in Users /\ r.on \in Users
     /\ r.op \in {"role", "invite"} => r.arg \in Roles
AccountRows(rows, held) ==
  /\ DOMAIN rows \subseteq Users /\ \A u \in DOMAIN rows : rows[u] \in Row /\ rows[u].there
  /\ \E u \in DOMAIN rows : rows[u].role = "ADMIN" /\ rows[u].active
  /\ DOMAIN held \subseteq Browsers /\ Cardinality(DOMAIN held) \in 0..MaxTokens
  /\ \A b \in DOMAIN held : /\ held[b] \in 1..Cardinality(DOMAIN held)
                            /\ \E u \in DOMAIN rows : rows[u].token = held[b]
  /\ \A b, d \in DOMAIN held : b # d => held[b] # held[d]
  /\ \A u, v \in DOMAIN rows : /\ rows[u].token <= Cardinality(DOMAIN held)
                               /\ u # v => rows[u].token = 0 \/ rows[u].token # rows[v].token

AccountsInit(rows, held, comes) ==
  /\ users = [u \in Users |-> IF u \in DOMAIN rows THEN rows[u] ELSE Absent]
  /\ cookie = [b \in Browsers |-> IF b \in DOMAIN held THEN held[b] ELSE 0]
  /\ tokens = Cardinality(DOMAIN held) /\ lapsed = {}
  /\ at = [r \in comes |-> "ready"]
  /\ seen = [r \in comes |-> 0] /\ during = [r \in comes |-> {}] /\ spent = [r \in comes |-> 0]

AccountsNext ==
  \/ \E r \in DOMAIN at : \/ LoginFinds(r) \/ LoginResolves(r) \/ RefreshFinds(r) \/ Issues(r)
                         \/ Logout(r) \/ Answers(r) \/ Arrives(r) \/ Checks(r) \/ Writes(r)
  \/ \E t \in 1..MaxTokens : Lapses(t)

AccountsTypeOK ==
  /\ users \in [Users -> Row] /\ tokens \in 0..MaxTokens
  /\ cookie \in [Browsers -> 0..tokens] /\ lapsed \subseteq 1..tokens
  /\ during \in [DOMAIN at -> SUBSET DOMAIN at]

(* "Cannot demote the last active admin", "Cannot deactivate the last      *)
(* active admin" (users.service): no request alone leaves the console      *)
(* without one, be it the deletion of an invited admin, which counts       *)
(* nobody. It takes two that were under way together.                      *)
LastAdminKept ==
  ActiveAdmins = {} =>
    \E r \in DOMAIN at : at[r] = "done" /\ r.op \in {"role", "deactivate", "remove"} /\ during[r] # {}

(* A user who has signed in is deactivated, never deleted (users.service   *)
(* remove), unless the sign-in came while the deletion was under way.      *)
SignedInKept ==
  [][\A u \in Users : users[u].sub # NoSub =>
       \/ users'[u].there
       \/ \E r \in DOMAIN at : r.op = "remove" /\ r.on = u /\ at'[r] = "done" /\ during[r] # {}]_accountVars

(* A browser that has its session to itself keeps it: between its requests *)
(* the cookie it holds is the one stored, unless the account was signed in *)
(* elsewhere, its own requests overlapped, or the roster changed.          *)
Mine(b) == {r \in DOMAIN at : r.op \in SessionOps /\ r.by = b}
Alone(b) ==
  /\ \A r \in Mine(b) : ~UnderWay(r) /\ during[r] = {}
  /\ \A r \in DOMAIN at \ Mine(b) : at[r] \in {"ready", "refused"}
CookieWorks == \A b \in Browsers : Alone(b) /\ cookie[b] # 0 => \E u \in Users : Live(u, cookie[b])

(* A refresh token is good for one rotation or logout (auth.service        *)
(* rotateRefresh, revokeRefresh): two requests that both came through on   *)
(* the same token were under way together.                                 *)
TokenSpentOnce ==
  \A r1, r2 \in DOMAIN at :
    /\ r1 # r2 /\ spent[r1] # 0 /\ spent[r1] = spent[r2]
    /\ r1.op = "refresh" /\ at[r1] \in {"issued", "done"} /\ at[r2] \in {"issued", "done"}
    => r1 \in during[r2] \/ r2 \in during[r1]

(* An administrator remains, a session's cookie works, and a refresh token *)
(* is spent once, however logins, refreshes and admins' writes overlap     *)
(* (AuthService, UsersService).                                            *)
AccountsSound == AccountsTypeOK /\ LastAdminKept /\ CookieWorks /\ TokenSpentOnce
=============================================================================
