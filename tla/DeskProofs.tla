----------------------------- MODULE DeskProofs -----------------------------
(* Proofs about the console's own records, for every set of users, teams,  *)
(* channels and requests. The parts share no rows, so each has an          *)
(* invariant of its own, which the steps of the others leave alone.        *)
EXTENDS Office, FlowEditor, TicketConsole, Inbox, FiniteSetTheorems, SequenceTheorems,
        WellFoundedInduction, TLAPS

(***************************************************************************)
(* Accounts. A write is known to every request it falls into (during), so  *)
(* whatever a request has checked still holds while its during is empty.   *)
(***************************************************************************)
Requests == DOMAIN at
Phases   == {"ready", "claimed", "found", "issued", "in", "checked"} \cup Over
Kinds    == {"known", "invited", "new"}

(* A request goes through the phases of its kind, and what it remembers    *)
(* depends on where it is.                                                 *)
RequestOK(r) ==
  /\ AccountRequest(r) /\ at[r] \in Phases
  /\ at[r] \in {"claimed", "found", "issued"} => r.op \in SessionOps
  /\ at[r] \in {"in", "checked"} => r.op \notin SessionOps
  /\ at[r] = "claimed" => seen[r] \in Kinds \X Users
  /\ at[r] = "found" => seen[r] \in Users
  /\ at[r] = "issued" => seen[r] \in 0..tokens

AccountsTyped ==
  /\ AccountsTypeOK
  /\ DOMAIN seen = Requests /\ spent \in [Requests -> 0..tokens]
  /\ \A u \in Users : users[u].token <= tokens /\ (~users[u].there => users[u] = Absent)
  /\ \A r \in Requests : RequestOK(r)

(* What a change of the roster has checked is still so, as far as nothing  *)
(* was written since.                                                      *)
StillHolds(r) ==
  /\ at[r] \in {"in", "checked"} /\ during[r] = {}
  => /\ seen[r] = "ADMIN" \/ r.op \in AdminOps => r.by \in ActiveAdmins
     /\ at[r] = "checked" /\ r.op = "remove" => users[r.on].sub = NoSub
     /\ at[r] = "checked" => /\ r.op = "role" => seen[r] = "ADMIN"
                             /\ r.op \in {"remove", "deactivate"} => r.by # r.on
                             /\ r.op = "role" /\ r.by = r.on /\ r.arg # "ADMIN" => OthersLeft
ChecksHold == \A r \in Requests : StillHolds(r)

(* Nobody but the requests of a browser has done anything to a session,    *)
(* and these did not overlap.                                              *)
Undisturbed(b) ==
  /\ \A r \in Requests \ Mine(b) : at[r] \notin {"issued", "done"}
  /\ \A r \in Mine(b) : during[r] = {}

LiveToken(t) == \E u \in Users : Live(u, t)

(* Then the token it is about to be handed works, and with none on the way *)
(* the one it has.                                                         *)
SessionWorks(b) ==
  /\ \A r \in Mine(b) : /\ at[r] = "found" => users[seen[r]].there
                        /\ at[r] = "issued" => seen[r] = 0 \/ LiveToken(seen[r])
  /\ (\A r \in Mine(b) : at[r] # "issued") => cookie[b] = 0 \/ LiveToken(cookie[b])
SessionsKept == \A b \in Browsers : Undisturbed(b) => SessionWorks(b)

(* A token is in one row, in one browser or on its way to one.             *)
TokensApart ==
  /\ \A u, v \in Users : u # v => users[u].token = 0 \/ users[u].token # users[v].token
  /\ \A b, d \in Browsers : b # d => cookie[b] = 0 \/ cookie[b] # cookie[d]
  /\ \A r \in Requests : at[r] = "issued" /\ seen[r] # 0 =>
       /\ \A b \in Browsers : cookie[b] # seen[r]
       /\ \A q \in Requests : q # r /\ at[q] = "issued" => seen[q] # seen[r]

(* The token a rotation has in hand comes back from nowhere, and once it   *)
(* or a logout is through no row has it.                                   *)
SpentGone(r) ==
  spent[r] # 0 =>
    /\ r.op \in {"refresh", "logout"} /\ at[r] \in {"found", "issued", "done"}
    /\ r.op = "logout" => at[r] # "found"
    /\ at[r] = "found" => \A u \in Users : users[u].token = spent[r] => u = seen[r]
    /\ at[r] \in {"issued", "done"} => \A u \in Users : users[u].token # spent[r]
    /\ r.op = "refresh" =>
         /\ \A q \in Requests : at[q] = "issued" => seen[q] # spent[r]
         /\ \A b \in Browsers : cookie[b] = spent[r] => b = r.by /\ at[r] # "done"
SpentAreGone == \A r \in Requests : SpentGone(r)

(* Of two that have the same token in hand, the second to write was under  *)
(* way when the first did.                                                 *)
MetUnderWay ==
  \A r, q \in Requests :
    /\ r # q /\ spent[r] # 0 /\ spent[r] = spent[q] /\ r.op = "refresh"
    /\ at[r] \in {"found", "issued", "done"} /\ at[q] \in {"issued", "done"}
    => q \in during[r] \/ (at[r] # "found" /\ r \in during[q])

AccountsInv ==
  /\ AccountsTyped /\ LastAdminKept /\ ChecksHold /\ SessionsKept
  /\ TokensApart /\ SpentAreGone /\ MetUnderWay
----------------------------------------------------------------------------
LEMMA GoesStep ==
  ASSUME AccountsTyped, NEW r \in Requests, NEW phase, NEW note, Goes(r, phase, note)
  PROVE  /\ Requests' = Requests /\ DOMAIN seen' = Requests
         /\ at'[r] = phase /\ seen'[r] = note
         /\ \A q \in Requests \ {r} : at'[q] = at[q] /\ seen'[q] = seen[q]
BY DEF Goes, AccountsTyped, Requests

(* What a write does to the requests it falls into.                        *)
LEMMA WroteStep ==
  ASSUME AccountsTyped, NEW r \in Requests, Wrote(r)
  PROVE  /\ during' \in [Requests -> SUBSET Requests]
         /\ \A q \in Requests : q = r \/ ~UnderWay(q) => during'[q] = during[q]
         /\ \A q \in Requests : q # r /\ UnderWay(q) => during'[q] = during[q] \cup {r}
BY DEF Wrote, AccountsTyped, AccountsTypeOK, Requests

(* The requests that do not move keep their form.                          *)
LEMMA RequestsKeepForm ==
  ASSUME AccountsTyped, NEW r \in Requests, NEW phase, NEW note, Goes(r, phase, note),
         tokens' \in Nat, tokens <= tokens', RequestOK(r)'
  PROVE  \A q \in Requests' : RequestOK(q)'
<1>1. /\ Requests' = Requests
      /\ \A q \in Requests \ {r} : at'[q] = at[q] /\ seen'[q] = seen[q]
  BY GoesStep
<1>2. tokens \in Nat BY DEF AccountsTyped, AccountsTypeOK
<1>3. ASSUME NEW q \in Requests \ {r} PROVE RequestOK(q)'
  <2>1. at[q] = "issued" => seen[q] \in 0..tokens BY DEF AccountsTyped, RequestOK
  <2>2. at'[q] = "issued" => seen'[q] \in 0..tokens' BY <1>1, <1>2, <2>1
  <2> QED BY <1>1, <2>2 DEF AccountsTyped, RequestOK
<1> QED BY <1>1, <1>3

LEMMA NumbersTyped ==
  ASSUME AccountsTyped
  PROVE  /\ tokens \in Nat /\ \A u \in Users : users[u] \in Row /\ users[u].token \in Nat
         /\ \A b \in Browsers : cookie[b] \in Nat
         /\ \A r \in Requests : spent[r] \in Nat
BY DEF AccountsTyped, AccountsTypeOK, Row
----------------------------------------------------------------------------
(* Steps that write nothing and end no session.                            *)
LEMMA QuietStep ==
  ASSUME AccountsInv, NEW r \in Requests, NEW phase, NEW note, Goes(r, phase, note),
         UNCHANGED <<users, tokens, cookie, lapsed, during, spent>>,
         at[r] \in {"ready", "claimed", "in", "checked"},
         phase \in {"claimed", "in", "checked", "refused"},
         RequestOK(r)', StillHolds(r)'
  PROVE  AccountsInv'
<1>1. /\ Requests' = Requests /\ DOMAIN seen' = Requests
      /\ at'[r] = phase /\ seen'[r] = note
      /\ \A q \in Requests \ {r} : at'[q] = at[q] /\ seen'[q] = seen[q]
  BY GoesStep DEF AccountsInv
<1>2. spent[r] = 0 BY DEF AccountsInv, SpentAreGone, SpentGone
<1>3. AccountsTyped'
  <2>1. \A q \in Requests' : RequestOK(q)'
    BY RequestsKeepForm, NumbersTyped DEF AccountsInv
  <2> QED BY <1>1, <2>1 DEF AccountsInv, AccountsTyped, AccountsTypeOK, Requests
<1>4. LastAdminKept'
  BY <1>1 DEF AccountsInv, LastAdminKept, ActiveAdmins, Requests
<1>5. ChecksHold'
  <2>1. ASSUME NEW q \in Requests \ {r} PROVE StillHolds(q)'
    BY <1>1 DEF AccountsInv, ChecksHold, StillHolds, ActiveAdmins, OthersLeft
  <2> QED BY <1>1, <2>1 DEF ChecksHold
<1>6. SessionsKept'
  <2> SUFFICES ASSUME NEW b \in Browsers, Undisturbed(b)' PROVE SessionWorks(b)'
    BY DEF SessionsKept
  <2>1. Mine(b)' = Mine(b) BY <1>1 DEF Mine, Requests
  <2>2. Undisturbed(b) BY <1>1, <2>1 DEF Undisturbed
  <2>3. SessionWorks(b) BY <2>2 DEF AccountsInv, SessionsKept
  <2>4. users' = users /\ cookie' = cookie OBVIOUS
  <2>5. \A q \in Mine(b) : q \in Requests BY DEF Mine, Requests
  <2> QED BY <1>1, <2>1, <2>3, <2>4, <2>5 DEF SessionWorks, LiveToken, Live
<1>7. TokensApart' BY <1>1 DEF AccountsInv, TokensApart
<1>8. SpentAreGone'
  BY <1>1, <1>2 DEF AccountsInv, SpentAreGone, SpentGone
<1>9. MetUnderWay'
  BY <1>1, <1>2 DEF AccountsInv, MetUnderWay
<1> QED BY <1>3, <1>4, <1>5, <1>6, <1>7, <1>8, <1>9 DEF AccountsInv

LEMMA RefusesInv ==
  ASSUME AccountsInv, NEW r \in Requests, Refuses(r),
         at[r] \in {"ready", "claimed", "in", "checked"}
  PROVE  AccountsInv'
<1>1. Goes(r, "refused", seen[r]) /\ UNCHANGED <<users, tokens, cookie, lapsed, during, spent>>
  BY DEF Refuses
<1>2. at'[r] = "refused" /\ seen'[r] = seen[r] BY <1>1, GoesStep DEF AccountsInv
<1>3. RequestOK(r)' BY <1>2 DEF AccountsInv, AccountsTyped, RequestOK, Phases, Over
<1>4. StillHolds(r)' BY <1>2 DEF StillHolds
<1> QED BY <1>1, <1>3, <1>4, QuietStep

LEMMA LoginFindsInv ==
  ASSUME AccountsInv, NEW r \in Requests, LoginFinds(r) PROVE AccountsInv'
<1>1. r.op = "login" /\ at[r] = "ready" BY DEF LoginFinds
<1>2. CASE Claims(r)[1] = "other" BY <1>1, <1>2, RefusesInv DEF LoginFinds
<1>3. CASE Claims(r)[1] # "other"
  <2>1. /\ Goes(r, "claimed", Claims(r))
        /\ UNCHANGED <<users, tokens, cookie, lapsed, during, spent>>
    BY <1>3 DEF LoginFinds
  <2>2. r.on \in Users BY DEF AccountsInv, AccountsTyped, RequestOK, AccountRequest
  <2>3. Claims(r) \in Kinds \X Users
    BY <1>3, <2>2 DEF Claims, Kinds
  <2>4. at'[r] = "claimed" /\ seen'[r] = Claims(r) BY <2>1, GoesStep DEF AccountsInv
  <2>5. RequestOK(r)'
    BY <1>1, <2>3, <2>4 DEF AccountsInv, AccountsTyped, RequestOK, Phases, SessionOps
  <2>6. StillHolds(r)' BY <2>4 DEF StillHolds
  <2> QED BY <1>1, <2>1, <2>5, <2>6, QuietStep
<1> QED BY <1>2, <1>3

LEMMA ArrivesInv ==
  ASSUME AccountsInv, NEW r \in Requests, Arrives(r) PROVE AccountsInv'
<1>1. r.op \notin SessionOps /\ at[r] = "ready" BY DEF Arrives
<1>2. CASE ~Admitted(r) BY <1>1, <1>2, RefusesInv DEF Arrives
<1>3. CASE Admitted(r)
  <2>1. /\ Goes(r, "in", users[r.by].role)
        /\ UNCHANGED <<users, tokens, cookie, lapsed, during, spent>>
    BY <1>3 DEF Arrives
  <2>2. at'[r] = "in" /\ seen'[r] = users[r.by].role BY <2>1, GoesStep DEF AccountsInv
  <2>3. RequestOK(r)'
    BY <1>1, <2>2 DEF AccountsInv, AccountsTyped, RequestOK, Phases
  <2>4. r.by \in Users
    BY <1>1 DEF AccountsInv, AccountsTyped, RequestOK, AccountRequest
  <2>5. StillHolds(r)' BY <1>3, <2>1, <2>2, <2>4 DEF StillHolds, Admitted, ActiveAdmins
  <2> QED BY <1>1, <2>1, <2>3, <2>5, QuietStep
<1> QED BY <1>2, <1>3

LEMMA ChecksInv ==
  ASSUME AccountsInv, NEW r \in Requests, Checks(r) PROVE AccountsInv'
<1>1. r.op \notin SessionOps /\ at[r] = "in" BY DEF Checks
<1>2. CASE ~Allowed(r) BY <1>1, <1>2, RefusesInv DEF Checks
<1>3. CASE Allowed(r)
  <2>1. /\ Goes(r, "checked", seen[r])
        /\ UNCHANGED <<users, tokens, cookie, lapsed, during, spent>>
    BY <1>3 DEF Checks
  <2>2. at'[r] = "checked" /\ seen'[r] = seen[r] BY <2>1, GoesStep DEF AccountsInv
  <2>3. RequestOK(r)'
    BY <1>1, <2>2 DEF AccountsInv, AccountsTyped, RequestOK, Phases
  <2>4. StillHolds(r) BY DEF AccountsInv, ChecksHold
  <2>5. StillHolds(r)'
    BY <1>1, <1>3, <2>1, <2>2, <2>4 DEF StillHolds, Allowed, ActiveAdmins, OthersLeft
  <2> QED BY <1>1, <2>1, <2>3, <2>5, QuietStep
<1> QED BY <1>2, <1>3

(* A refresh takes the token of the cookie in hand.                        *)
LEMMA RefreshFindsInv ==
  ASSUME AccountsInv, NEW r \in Requests, RefreshFinds(r) PROVE AccountsInv'
<1> DEFINE t == cookie[r.by]
           owners == {u \in Users : Live(u, t)}
<1>1. r.op = "refresh" /\ at[r] = "ready" BY DEF RefreshFinds
<1>2. CASE owners = {} \/ t \in lapsed \/ \E u \in owners : ~users[u].active
  BY <1>1, <1>2, RefusesInv DEF RefreshFinds
<1>3. CASE ~(owners = {} \/ t \in lapsed \/ \E u \in owners : ~users[u].active)
  <2>1. PICK u \in owners : Goes(r, "found", u) BY <1>3 DEF RefreshFinds
  <2>2. /\ spent' = [spent EXCEPT ![r] = t]
        /\ UNCHANGED <<users, tokens, cookie, lapsed, during>>
    BY <1>3 DEF RefreshFinds
  <2>3. /\ Requests' = Requests /\ DOMAIN seen' = Requests
        /\ at'[r] = "found" /\ seen'[r] = u
        /\ \A q \in Requests \ {r} : at'[q] = at[q] /\ seen'[q] = seen[q]
    BY <2>1, GoesStep DEF AccountsInv
  <2>4. u \in Users /\ users[u].there /\ users[u].token = t /\ t # 0 BY DEF Live
  <2>5. r.by \in Browsers
    BY <1>1 DEF AccountsInv, AccountsTyped, RequestOK, AccountRequest, AdminOps
  <2>6. t \in 0..tokens BY <2>5 DEF AccountsInv, AccountsTyped, AccountsTypeOK
  <2>7. spent \in [Requests -> 0..tokens] BY DEF AccountsInv, AccountsTyped
  <2>8. spent'[r] = t /\ \A q \in Requests \ {r} : spent'[q] = spent[q]
    BY <2>2, <2>7
  <2>9. AccountsTyped'
    <3>1. RequestOK(r)'
      BY <1>1, <2>3, <2>4 DEF AccountsInv, AccountsTyped, RequestOK, Phases, SessionOps
    <3>2. \A q \in Requests' : RequestOK(q)'
      BY <2>1, <2>2, <3>1, RequestsKeepForm, NumbersTyped DEF AccountsInv
    <3>3. spent' \in [Requests -> 0..tokens] BY <2>2, <2>6, <2>7
    <3> QED BY <2>2, <2>3, <3>2, <3>3 DEF AccountsInv, AccountsTyped, AccountsTypeOK, Requests
  <2>10. LastAdminKept'
    BY <1>1, <2>2, <2>3 DEF AccountsInv, LastAdminKept, ActiveAdmins, Requests
  <2>11. ChecksHold'
    <3>1. ASSUME NEW q \in Requests \ {r} PROVE StillHolds(q)'
      BY <2>2, <2>3 DEF AccountsInv, ChecksHold, StillHolds, ActiveAdmins, OthersLeft
    <3>2. StillHolds(r)' BY <2>3 DEF StillHolds
    <3> QED BY <2>3, <3>1, <3>2 DEF ChecksHold
  <2>12. SessionsKept'
    <3> SUFFICES ASSUME NEW b \in Browsers, Undisturbed(b)' PROVE SessionWorks(b)'
      BY DEF SessionsKept
    <3>1. Mine(b)' = Mine(b) BY <2>3 DEF Mine, Requests
    <3>2. Undisturbed(b) BY <1>1, <2>2, <2>3, <3>1 DEF Undisturbed
    <3>3. SessionWorks(b) BY <3>2 DEF AccountsInv, SessionsKept
    <3>4. \A q \in Mine(b) : q \in Requests BY DEF Mine, Requests
    <3> QED BY <1>1, <2>2, <2>3, <2>4, <3>1, <3>3, <3>4 DEF SessionWorks, LiveToken, Live
  <2>13. TokensApart' BY <1>1, <2>2, <2>3 DEF AccountsInv, TokensApart
  <2>14. SpentAreGone'
    <3>1. ASSUME NEW q \in Requests \ {r} PROVE SpentGone(q)'
      <4>1. SpentGone(q) BY DEF AccountsInv, SpentAreGone
      <4> QED BY <1>1, <2>2, <2>3, <2>8, <4>1 DEF SpentGone
    <3>2. SpentGone(r)'
      <4>1. \A v \in Users : users[v].token = t => v = u
        BY <2>4 DEF AccountsInv, TokensApart
      <4>2. \A q \in Requests : at[q] = "issued" => seen[q] # t
        BY <2>4, <2>5 DEF AccountsInv, TokensApart
      <4>3. \A b \in Browsers : cookie[b] = t => b = r.by
        BY <2>4, <2>5 DEF AccountsInv, TokensApart
      <4> HIDE DEF t
      <4> QED BY <1>1, <2>2, <2>3, <2>8, <4>1, <4>2, <4>3 DEF SpentGone
    <3> QED BY <2>3, <3>1, <3>2 DEF SpentAreGone
  <2>15. MetUnderWay'
    <3>1. \A q \in Requests \ {r} : at[q] \in {"issued", "done"} => spent[q] # t
      BY <2>4 DEF AccountsInv, SpentAreGone, SpentGone
    <3> HIDE DEF t
    <3> QED BY <1>1, <2>2, <2>3, <2>8, <3>1 DEF AccountsInv, MetUnderWay
  <2> QED BY <2>9, <2>10, <2>11, <2>12, <2>13, <2>14, <2>15 DEF AccountsInv
<1> QED BY <1>2, <1>3
----------------------------------------------------------------------------
(* What every write has in common: it is known to the checks it overtakes. *)
LEMMA WriteChecks ==
  ASSUME AccountsInv, NEW r \in Requests, NEW phase, NEW note, Goes(r, phase, note),
         phase \notin {"in", "checked"}, Wrote(r)
  PROVE  ChecksHold'
<1>1. Requests' = Requests /\ at'[r] = phase /\ \A q \in Requests \ {r} : at'[q] = at[q]
  BY GoesStep DEF AccountsInv
<1>2. \A q \in Requests \ {r} : UnderWay(q) => during'[q] # {}
  BY WroteStep DEF AccountsInv
<1>3. ASSUME NEW q \in Requests PROVE StillHolds(q)'
  BY <1>1, <1>2 DEF StillHolds, UnderWay, Over
<1> QED BY <1>1, <1>3 DEF ChecksHold

LEMMA WriteAdmins ==
  ASSUME AccountsInv, NEW r \in Requests, NEW phase, NEW note, Goes(r, phase, note), Wrote(r),
         at[r] # "done", ActiveAdmins \subseteq ActiveAdmins'
  PROVE  LastAdminKept'
<1> SUFFICES ASSUME ActiveAdmins' = {}
             PROVE  \E q \in Requests' : /\ at'[q] = "done" /\ during'[q] # {}
                                         /\ q.op \in {"role", "deactivate", "remove"}
  BY DEF LastAdminKept, Requests
<1>1. PICK q \in Requests : /\ at[q] = "done" /\ during[q] # {}
                            /\ q.op \in {"role", "deactivate", "remove"}
  BY DEF AccountsInv, LastAdminKept, Requests
<1>2. Requests' = Requests /\ at'[q] = at[q] BY <1>1, GoesStep DEF AccountsInv
<1>3. during'[q] = during[q] BY <1>1, WroteStep DEF AccountsInv, UnderWay, Over
<1> QED BY <1>1, <1>2, <1>3

(* A write that only takes tokens out of rows.                             *)
LEMMA TokensLeave ==
  ASSUME AccountsInv, NEW r \in Requests, NEW phase, NEW note, Goes(r, phase, note), Wrote(r),
         UNCHANGED <<tokens, cookie, spent>>, spent[r] = 0, at[r] # "issued", phase # "issued",
         \A u \in Users : users'[u].token \in {users[u].token, 0}
  PROVE  TokensApart' /\ SpentAreGone' /\ MetUnderWay'
<1>1. /\ Requests' = Requests /\ at'[r] = phase
      /\ \A q \in Requests \ {r} : at'[q] = at[q] /\ seen'[q] = seen[q]
  BY GoesStep DEF AccountsInv
<1>2. \A q \in Requests : during[q] \subseteq during'[q] BY WroteStep DEF AccountsInv
<1>3. TokensApart' BY <1>1 DEF AccountsInv, TokensApart
<1>4. ASSUME NEW q \in Requests \ {r} PROVE SpentGone(q)'
  <2>1. SpentGone(q) BY DEF AccountsInv, SpentAreGone
  <2> QED BY <1>1, <2>1 DEF SpentGone
<1>5. SpentGone(r)' BY DEF SpentGone
<1>6. SpentAreGone' BY <1>1, <1>4, <1>5 DEF SpentAreGone
<1>7. MetUnderWay' BY <1>1, <1>2 DEF AccountsInv, MetUnderWay
<1> QED BY <1>3, <1>6, <1>7

(* A login binds the Google account to the row it has found.               *)
LEMMA LoginResolvesInv ==
  ASSUME AccountsInv, NEW r \in Requests, LoginResolves(r) PROVE AccountsInv'
<1> DEFINE kind == seen[r][1]
           u == seen[r][2]
           row == users[u]
           bound == CASE kind = "known" -> row
                      [] kind = "invited" -> [row EXCEPT !.sub = r.arg]
                      [] kind = "new" -> [Absent EXCEPT !.there = TRUE, !.sub = r.arg]
           phase == IF row.active THEN "found" ELSE "refused"
<1>1. r.op = "login" /\ at[r] = "claimed" BY DEF LoginResolves
<1>2. CASE (kind = "new") = row.there BY <1>1, <1>2, RefusesInv DEF LoginResolves
<1>3. CASE (kind = "new") # row.there
  <2>1. /\ users' = [users EXCEPT ![u] = bound] /\ Goes(r, phase, u) /\ Wrote(r)
        /\ UNCHANGED <<tokens, cookie, lapsed, spent>>
    BY <1>3 DEF LoginResolves
  <2>2. kind \in Kinds /\ u \in Users /\ r.arg \in Subs
    BY <1>1 DEF AccountsInv, AccountsTyped, RequestOK, AccountRequest, AdminOps
  <2>3. users \in [Users -> Row] /\ row \in Row /\ row.token <= tokens
        /\ (~row.there => row = Absent) /\ tokens \in Nat
    BY <2>2 DEF AccountsInv, AccountsTyped, AccountsTypeOK
  <2>4. /\ bound \in Row /\ bound.there = TRUE /\ bound.token = row.token
        /\ row.there => bound.role = row.role /\ bound.active = row.active
    <3>1. CASE kind = "known" BY <1>3, <2>3, <3>1 DEF Row
    <3>2. CASE kind = "invited" BY <1>3, <2>2, <2>3, <3>2 DEF Row
    <3>3. CASE kind = "new"
      <4>1. ~row.there BY <1>3, <2>3, <3>3 DEF Row
      <4>2. bound = [Absent EXCEPT !.there = TRUE, !.sub = r.arg] BY <3>3
      <4>3. row = Absent BY <2>3, <4>1
      <4>4. row \in Row BY <2>3
      <4> HIDE DEF bound, row, kind
      <4>5. bound \in Row /\ bound.there = TRUE /\ bound.token = row.token
        BY <2>2, <4>2, <4>3, <4>4 DEF Absent, Row, Roles
      <4>6. bound.active = row.active BY <4>2, <4>3 DEF Absent
      <4> QED BY <4>1, <4>5, <4>6
    <3> QED BY <2>2, <3>1, <3>2, <3>3 DEF Kinds
  <2> HIDE DEF bound, phase
  <2>5. users'[u] = bound /\ \A v \in Users \ {u} : users'[v] = users[v]
    BY <2>1, <2>2, <2>3
  <2>6. users' \in [Users -> Row] BY <2>1, <2>3, <2>4
  <2>7. phase \in {"found", "refused"} BY DEF phase
  <2>8. /\ Requests' = Requests /\ DOMAIN seen' = Requests
        /\ at'[r] = phase /\ seen'[r] = u
        /\ \A q \in Requests \ {r} : at'[q] = at[q] /\ seen'[q] = seen[q]
    BY <2>1, GoesStep DEF AccountsInv
  <2>9. spent[r] = 0 BY <1>1 DEF AccountsInv, SpentAreGone, SpentGone
  <2>10. AccountsTyped'
    <3>1. RequestOK(r)'
      BY <1>1, <2>2, <2>7, <2>8
         DEF AccountsInv, AccountsTyped, RequestOK, Phases, Over, SessionOps
    <3>2. \A q \in Requests' : RequestOK(q)'
      BY <2>1, <2>3, <3>1, RequestsKeepForm DEF AccountsInv
    <3>3. during' \in [Requests -> SUBSET Requests] BY <2>1, WroteStep DEF AccountsInv
    <3>4. \A v \in Users : users'[v].token <= tokens /\ (~users'[v].there => users'[v] = Absent)
      BY <2>3, <2>4, <2>5 DEF AccountsInv, AccountsTyped
    <3> QED BY <2>1, <2>6, <2>8, <3>2, <3>3, <3>4
            DEF AccountsInv, AccountsTyped, AccountsTypeOK, Requests
  <2>11. ActiveAdmins \subseteq ActiveAdmins'
    BY <2>4, <2>5 DEF ActiveAdmins
  <2>12. LastAdminKept' BY <1>1, <2>1, <2>11, WriteAdmins
  <2>13. ChecksHold' BY <2>1, <2>7, WriteChecks
  <2>14. \A v \in Users : users'[v].token = users[v].token /\ (users[v].there => users'[v].there)
    BY <2>4, <2>5
  <2>15. TokensApart' /\ SpentAreGone' /\ MetUnderWay'
    BY <1>1, <2>1, <2>7, <2>9, <2>14, TokensLeave
  <2>16. SessionsKept'
    <3> SUFFICES ASSUME NEW b \in Browsers, Undisturbed(b)' PROVE SessionWorks(b)'
      BY DEF SessionsKept
    <3>1. Mine(b)' = Mine(b) /\ \A q \in Mine(b) : q \in Requests
      BY <2>8 DEF Mine, Requests
    <3>2. \A q \in Requests : during[q] \subseteq during'[q] BY <2>1, WroteStep DEF AccountsInv
    <3>3. Undisturbed(b) BY <1>1, <2>8, <3>1, <3>2 DEF Undisturbed
    <3>4. SessionWorks(b) BY <3>3 DEF AccountsInv, SessionsKept
    <3>5. \A t : LiveToken(t) => LiveToken(t)' BY <2>14 DEF LiveToken, Live
    <3>6. \A q \in Mine(b) : at'[q] = "found" => users'[seen'[q]].there
      <4>1. \A q \in Mine(b) \ {r} : at[q] = "found" => seen[q] \in Users /\ users[seen[q]].there
        BY <3>1, <3>4 DEF SessionWorks, AccountsInv, AccountsTyped, RequestOK
      <4> QED BY <2>4, <2>5, <2>8, <2>14, <3>1, <4>1
    <3>7. \A q \in Mine(b) : at'[q] = "issued" =>
            q # r /\ (seen[q] = 0 \/ LiveToken(seen[q]))
      BY <2>7, <2>8, <3>1, <3>4 DEF SessionWorks
    <3>8. (\A q \in Mine(b) : at'[q] # "issued") => cookie[b] = 0 \/ LiveToken(cookie[b])
      <4>1. \A q \in Mine(b) : at[q] = "issued" => at'[q] = "issued"
        BY <1>1, <2>8, <3>1
      <4> QED BY <3>4, <4>1 DEF SessionWorks
    <3>9. cookie' = cookie BY <2>1
    <3> QED BY <2>8, <3>1, <3>5, <3>6, <3>7, <3>8, <3>9 DEF SessionWorks, LiveToken, Live
  <2> QED BY <2>10, <2>12, <2>13, <2>15, <2>16 DEF AccountsInv
<1> QED BY <1>2, <1>3

(* A new refresh token takes the place of the old one.                     *)
LEMMA IssuesInv ==
  ASSUME AccountsInv, NEW r \in Requests, Issues(r) PROVE AccountsInv'
<1> DEFINE u == seen[r]
           n == tokens + 1
           row == Issued(users[u], n)
<1>1. /\ at[r] = "found" /\ tokens < MaxTokens /\ tokens' = n /\ Goes(r, "issued", n) /\ Wrote(r)
      /\ users' = [users EXCEPT ![u] = row] /\ UNCHANGED <<cookie, lapsed, spent>>
  BY DEF Issues
<1>2. /\ u \in Users /\ r.op \in SessionOps
      /\ (r.op = "logout" => spent[r] = 0) /\ tokens \in 0..MaxTokens
  BY <1>1 DEF AccountsInv, AccountsTyped, AccountsTypeOK, RequestOK, SpentAreGone, SpentGone
<1>3. n \in Nat /\ tokens \in Nat /\ tokens < n /\ n \in 0..MaxTokens
  BY <1>1, <1>2, TokensAssumption
<1>4. /\ users \in [Users -> Row] /\ \A v \in Users : users[v].token \in 0..tokens
      /\ \A v \in Users : ~users[v].there => users[v] = Absent
  BY <1>2 DEF AccountsInv, AccountsTyped, AccountsTypeOK, Row
<1>5. /\ row \in Row /\ row.there = users[u].there /\ row.role = users[u].role
      /\ row.active = users[u].active
      /\ users[u].there => row.token = n
      /\ ~users[u].there => row = users[u] /\ row.token = 0
  BY <1>2, <1>3, <1>4 DEF Issued, Row, Absent
<1> HIDE DEF row
<1>6. users'[u] = row /\ \A v \in Users \ {u} : users'[v] = users[v]
  BY <1>1, <1>2, <1>4
<1>7. users' \in [Users -> Row] BY <1>1, <1>4, <1>5
<1> HIDE DEF n
<1>8. /\ Requests' = Requests /\ DOMAIN seen' = Requests
      /\ at'[r] = "issued" /\ seen'[r] = n
      /\ \A q \in Requests \ {r} : at'[q] = at[q] /\ seen'[q] = seen[q]
  BY <1>1, GoesStep DEF AccountsInv
<1>9. /\ during' \in [Requests -> SUBSET Requests] /\ during'[r] = during[r]
      /\ \A q \in Requests : during[q] \subseteq during'[q]
      /\ \A q \in Requests \ {r} : at[q] \in {"found", "issued"} => r \in during'[q]
  BY <1>1, WroteStep DEF AccountsInv, UnderWay, Over
<1>10. /\ \A q \in Requests : spent[q] \in 0..tokens
       /\ \A b \in Browsers : cookie[b] \in 0..tokens
       /\ \A q \in Requests : at[q] = "issued" => seen[q] \in 0..tokens
  BY DEF AccountsInv, AccountsTyped, AccountsTypeOK, RequestOK
<1>11. \A v \in Users : users'[v].token \in 0..n
         /\ users'[v].token \in {users[v].token, n}
  BY <1>3, <1>4, <1>5, <1>6
<1>12. AccountsTyped'
  <2>1. RequestOK(r)'
    <3>1. n \in 0..n BY <1>3
    <3> QED BY <1>1, <1>2, <1>8, <3>1 DEF AccountsInv, AccountsTyped, RequestOK, Phases, SessionOps
  <2>2. \A q \in Requests' : RequestOK(q)'
    BY <1>1, <1>3, <2>1, RequestsKeepForm DEF AccountsInv
  <2>3. cookie' \in [Browsers -> 0..tokens'] /\ lapsed' \subseteq 1..tokens'
    BY <1>1, <1>3 DEF AccountsInv, AccountsTyped, AccountsTypeOK
  <2>4. spent' \in [Requests -> 0..tokens']
    BY <1>1, <1>3, <1>10 DEF AccountsInv, AccountsTyped
  <2>5. \A v \in Users : users'[v].token <= tokens' /\ (~users'[v].there => users'[v] = Absent)
    BY <1>1, <1>3, <1>4, <1>5, <1>6, <1>11
  <2> QED BY <1>1, <1>3, <1>7, <1>8, <1>9, <2>2, <2>3, <2>4, <2>5
          DEF AccountsTyped, AccountsTypeOK, Requests
<1>13. LastAdminKept'
  <2>1. ActiveAdmins \subseteq ActiveAdmins' BY <1>5, <1>6 DEF ActiveAdmins
  <2> QED BY <1>1, <2>1, WriteAdmins
<1>14. ChecksHold' BY <1>1, WriteChecks
<1>15. SessionsKept'
  <2> SUFFICES ASSUME NEW b \in Browsers, Undisturbed(b)' PROVE SessionWorks(b)'
    BY DEF SessionsKept
  <2>1. Mine(b)' = Mine(b) /\ \A q \in Mine(b) : q \in Requests
    BY <1>8 DEF Mine, Requests
  <2>2. r \in Mine(b) BY <1>8, <2>1 DEF Undisturbed
  <2>3. Undisturbed(b) BY <1>1, <1>8, <1>9, <2>1 DEF Undisturbed
  <2>4. SessionWorks(b) BY <2>3 DEF AccountsInv, SessionsKept
  <2>5. users[u].there BY <1>1, <2>2, <2>4 DEF SessionWorks
  <2>6. \E v \in Users : users'[v].there /\ users'[v].token = n /\ n # 0
    <3>1. n # 0 BY <1>3
    <3>2. users'[u].there /\ users'[u].token = n BY <1>5, <1>6, <2>5
    <3> QED BY <1>2, <3>1, <3>2
  <2>7. \A q \in Mine(b) \ {r} : at[q] # "issued"
    BY <1>9, <2>1 DEF Undisturbed
  <2>8. \A q \in Mine(b) \ {r} : at'[q] = "found" => users'[seen'[q]].there
    <3>1. \A q \in Mine(b) \ {r} : at[q] = "found" => seen[q] \in Users /\ users[seen[q]].there
      BY <2>1, <2>4 DEF SessionWorks, AccountsInv, AccountsTyped, RequestOK
    <3> QED BY <1>5, <1>6, <1>8, <2>1, <3>1
  <2>9. LiveToken(seen[r])' BY <1>8, <2>6 DEF LiveToken, Live
  <2> QED BY <1>8, <2>1, <2>2, <2>7, <2>8, <2>9 DEF SessionWorks
<1>16. TokensApart'
  <2>1. \A v, w \in Users : v # w => users'[v].token = 0 \/ users'[v].token # users'[w].token
    <3>1. \A v \in Users \ {u} : users'[v].token \in 0..tokens BY <1>4, <1>6
    <3>2. \A v, w \in Users \ {u} :
            v # w => users'[v].token = 0 \/ users'[v].token # users'[w].token
      BY <1>6 DEF AccountsInv, TokensApart
    <3>3. CASE users[u].there
      <4>1. users'[u].token = n BY <1>5, <1>6, <3>3
      <4>2. \A v \in Users \ {u} : users'[v].token # n BY <1>3, <3>1
      <4> QED BY <3>2, <4>1, <4>2
    <3>4. CASE ~users[u].there
      <4>1. users'[u].token = 0 BY <1>5, <1>6, <3>4
      <4> QED BY <3>2, <4>1
    <3> QED BY <3>3, <3>4
  <2>2. \A b, d \in Browsers : b # d => cookie'[b] = 0 \/ cookie'[b] # cookie'[d]
    BY <1>1 DEF AccountsInv, TokensApart
  <2>3. \A b \in Browsers : cookie[b] # n BY <1>3, <1>10
  <2>4. \A q \in Requests \ {r} : at[q] = "issued" => seen[q] # n BY <1>3, <1>10
  <2>5. \A q \in Requests : at'[q] = "issued" /\ seen'[q] # 0 =>
          /\ \A b \in Browsers : cookie'[b] # seen'[q]
          /\ \A p \in Requests : p # q /\ at'[p] = "issued" => seen'[p] # seen'[q]
    BY <1>1, <1>8, <2>3, <2>4 DEF AccountsInv, TokensApart
  <2> QED BY <1>8, <2>1, <2>2, <2>5 DEF TokensApart
<1>17. SpentAreGone'
  <2>1. \A q \in Requests : spent[q] # n BY <1>3, <1>10
  <2>2. ASSUME NEW q \in Requests \ {r} PROVE SpentGone(q)'
    <3>1. SpentGone(q) BY DEF AccountsInv, SpentAreGone
    <3>2. \A v \in Users : users'[v].token = spent[q] => users[v].token = spent[q]
      BY <1>11, <2>1
    <3> QED BY <1>1, <1>8, <2>1, <3>1, <3>2 DEF SpentGone
  <2>3. SpentGone(r)'
    <3>1. SpentGone(r) BY DEF AccountsInv, SpentAreGone
    <3>2. spent[r] # 0 => \A v \in Users : users'[v].token # spent[r]
      BY <1>1, <1>2, <1>5, <1>6, <2>1, <3>1 DEF SpentGone
    <3> QED BY <1>1, <1>8, <2>1, <3>1, <3>2 DEF SpentGone
  <2> QED BY <1>8, <2>2, <2>3 DEF SpentAreGone
<1>18. MetUnderWay'
  <2>1. spent[r] # 0 => r.op = "refresh"
    BY <1>1 DEF AccountsInv, SpentAreGone, SpentGone
  <2>2. \A q \in Requests \ {r} : spent[r] # 0 /\ spent[r] = spent[q] /\ at[q] \in {"issued", "done"}
          => q \in during'[r]
    BY <1>1, <1>9, <2>1 DEF AccountsInv, MetUnderWay
  <2> QED BY <1>1, <1>8, <1>9, <2>2 DEF AccountsInv, MetUnderWay
<1> QED BY <1>12, <1>13, <1>14, <1>15, <1>16, <1>17, <1>18 DEF AccountsInv

(* A logout empties the row that has the token of the cookie, whoever else *)
(* has it in hand.                                                         *)
LEMMA LogoutInv ==
  ASSUME AccountsInv, NEW r \in Requests, Logout(r) PROVE AccountsInv'
<1> DEFINE t == cookie[r.by]
<1>1. /\ r.op = "logout" /\ at[r] = "ready" /\ Goes(r, "issued", 0) /\ Wrote(r)
      /\ spent' = [spent EXCEPT ![r] = t] /\ UNCHANGED <<tokens, cookie, lapsed>>
      /\ users' = [u \in Users |-> IF Live(u, t) THEN [users[u] EXCEPT !.token = 0] ELSE users[u]]
  BY DEF Logout
<1>2. r.by \in Browsers
  BY <1>1 DEF AccountsInv, AccountsTyped, RequestOK, AccountRequest, AdminOps
<1>3. t \in 0..tokens /\ tokens \in Nat /\ spent \in [Requests -> 0..tokens]
  BY <1>2 DEF AccountsInv, AccountsTyped, AccountsTypeOK
<1>4. /\ users \in [Users -> Row] /\ \A v \in Users : users[v].token <= tokens
      /\ \A v \in Users : ~users[v].there => users[v] = Absent
  BY DEF AccountsInv, AccountsTyped, AccountsTypeOK
<1>5. ASSUME NEW v \in Users
      PROVE  /\ users'[v] \in Row /\ users'[v].there = users[v].there
             /\ users'[v].role = users[v].role /\ users'[v].active = users[v].active
             /\ users'[v].token \in {users[v].token, 0} /\ users'[v].token <= tokens
             /\ t # 0 => users'[v].token # t
             /\ ~users'[v].there => users'[v] = Absent
  <2>1. users[v] \in Row /\ users[v].token <= tokens /\ (~users[v].there => users[v] = Absent)
    BY <1>4
  <2>2. CASE Live(v, t)
    <3>1. users'[v] = [users[v] EXCEPT !.token = 0] BY <1>1, <2>2
    <3>2. 0 \in 0..MaxTokens BY TokensAssumption
    <3>3. users[v].there = TRUE BY <2>1, <2>2 DEF Live, Row
    <3> HIDE DEF t
    <3> QED BY <1>3, <2>1, <3>1, <3>2, <3>3 DEF Row
  <2>3. CASE ~Live(v, t)
    <3>1. users'[v] = users[v] BY <1>1, <2>3
    <3>2. t # 0 => users[v].token # t BY <2>1, <2>3 DEF Live, Absent
    <3> QED BY <2>1, <3>1, <3>2
  <2> QED BY <2>2, <2>3
<1> HIDE DEF t
<1>6. users' \in [Users -> Row] BY <1>1, <1>5
<1>7. /\ Requests' = Requests /\ DOMAIN seen' = Requests
      /\ at'[r] = "issued" /\ seen'[r] = 0
      /\ \A q \in Requests \ {r} : at'[q] = at[q] /\ seen'[q] = seen[q]
  BY <1>1, GoesStep DEF AccountsInv
<1>8. /\ during' \in [Requests -> SUBSET Requests] /\ during'[r] = during[r]
      /\ \A q \in Requests : during[q] \subseteq during'[q]
      /\ \A q \in Requests \ {r} : at[q] \in {"found", "issued"} => r \in during'[q]
  BY <1>1, WroteStep DEF AccountsInv, UnderWay, Over
<1>9. spent'[r] = t /\ \A q \in Requests \ {r} : spent'[q] = spent[q] BY <1>1, <1>3
<1>10. AccountsTyped'
  <2>1. RequestOK(r)'
    BY <1>1, <1>3, <1>7 DEF AccountsInv, AccountsTyped, RequestOK, Phases, SessionOps
  <2>2. \A q \in Requests' : RequestOK(q)'
    BY <1>1, <1>3, <2>1, RequestsKeepForm DEF AccountsInv
  <2>3. spent' \in [Requests -> 0..tokens] BY <1>1, <1>3
  <2> QED BY <1>1, <1>5, <1>6, <1>7, <1>8, <2>2, <2>3
          DEF AccountsInv, AccountsTyped, AccountsTypeOK, Requests
<1>11. LastAdminKept'
  <2>1. ActiveAdmins \subseteq ActiveAdmins' BY <1>5 DEF ActiveAdmins
  <2> QED BY <1>1, <2>1, WriteAdmins
<1>12. ChecksHold' BY <1>1, WriteChecks
<1>13. SessionsKept'
  <2> SUFFICES ASSUME NEW b \in Browsers, Undisturbed(b)' PROVE SessionWorks(b)'
    BY DEF SessionsKept
  <2>1. Mine(b)' = Mine(b) /\ \A q \in Mine(b) : q \in Requests
    BY <1>7 DEF Mine, Requests
  <2>2. r \in Mine(b) BY <1>7, <2>1 DEF Undisturbed
  <2>3. \A q \in Mine(b) \ {r} : at'[q] \notin {"found", "issued"}
    BY <1>7, <1>8, <2>1 DEF Undisturbed
  <2> QED BY <1>7, <2>1, <2>2, <2>3 DEF SessionWorks
<1>14. TokensApart' BY <1>1, <1>5, <1>7 DEF AccountsInv, TokensApart
<1>15. SpentAreGone'
  <2>1. ASSUME NEW q \in Requests \ {r} PROVE SpentGone(q)'
    <3>1. SpentGone(q) BY DEF AccountsInv, SpentAreGone
    <3> QED BY <1>1, <1>5, <1>7, <1>9, <3>1 DEF SpentGone
  <2>2. SpentGone(r)' BY <1>1, <1>5, <1>7, <1>9 DEF SpentGone
  <2> QED BY <1>7, <2>1, <2>2 DEF SpentAreGone
<1>16. MetUnderWay'
  <2>1. \A q \in Requests \ {r} : q.op = "refresh" /\ spent[q] = t /\ t # 0
          => at[q] \in {"found", "issued"}
    BY <1>2 DEF t, AccountsInv, SpentAreGone, SpentGone
  <2> QED BY <1>1, <1>7, <1>8, <1>9, <2>1 DEF AccountsInv, MetUnderWay
<1> QED BY <1>10, <1>11, <1>12, <1>13, <1>14, <1>15, <1>16 DEF AccountsInv

(* The token on the way becomes the cookie.                                *)
LEMMA AnswersInv ==
  ASSUME AccountsInv, NEW r \in Requests, Answers(r) PROVE AccountsInv'
<1> DEFINE n == seen[r]
<1>1. /\ at[r] = "issued" /\ Goes(r, "done", n) /\ UNCHANGED <<users, tokens, lapsed, during, spent>>
      /\ cookie' = [cookie EXCEPT ![r.by] = n]
  BY DEF Answers, Answered
<1>2. r.op \in SessionOps /\ r.by \in Browsers /\ n \in 0..tokens
  BY <1>1 DEF AccountsInv, AccountsTyped, RequestOK, AccountRequest, SessionOps, AdminOps
<1>3. cookie \in [Browsers -> 0..tokens] BY DEF AccountsInv, AccountsTyped, AccountsTypeOK
<1>4. cookie'[r.by] = n /\ \A b \in Browsers \ {r.by} : cookie'[b] = cookie[b]
  BY <1>1, <1>2, <1>3
<1>5. /\ Requests' = Requests /\ DOMAIN seen' = Requests
      /\ at'[r] = "done" /\ seen'[r] = n
      /\ \A q \in Requests \ {r} : at'[q] = at[q] /\ seen'[q] = seen[q]
  BY <1>1, GoesStep DEF AccountsInv
<1>6. AccountsTyped'
  <2>1. RequestOK(r)'
    BY <1>5 DEF AccountsInv, AccountsTyped, RequestOK, Phases, Over
  <2>2. \A q \in Requests' : RequestOK(q)'
    BY <1>1, <2>1, RequestsKeepForm, NumbersTyped DEF AccountsInv
  <2>3. cookie' \in [Browsers -> 0..tokens] BY <1>1, <1>2, <1>3
  <2> QED BY <1>1, <1>5, <2>2, <2>3 DEF AccountsInv, AccountsTyped, AccountsTypeOK, Requests
<1>7. LastAdminKept'
  BY <1>1, <1>5 DEF AccountsInv, LastAdminKept, ActiveAdmins, Requests
<1>8. ChecksHold'
  <2>1. ASSUME NEW q \in Requests \ {r} PROVE StillHolds(q)'
    BY <1>1, <1>5 DEF AccountsInv, ChecksHold, StillHolds, ActiveAdmins, OthersLeft
  <2>2. StillHolds(r)' BY <1>5 DEF StillHolds
  <2> QED BY <1>5, <2>1, <2>2 DEF ChecksHold
<1>9. SessionsKept'
  <2> SUFFICES ASSUME NEW b \in Browsers, Undisturbed(b)' PROVE SessionWorks(b)'
    BY DEF SessionsKept
  <2>1. Mine(b)' = Mine(b) /\ \A q \in Mine(b) : q \in Requests
    BY <1>5 DEF Mine, Requests
  <2>2. r \in Mine(b) BY <1>5, <2>1 DEF Undisturbed
  <2>3. Undisturbed(b) BY <1>1, <1>5, <2>1, <2>2 DEF Undisturbed
  <2>4. SessionWorks(b) BY <2>3 DEF AccountsInv, SessionsKept
  <2>5. r.by = b BY <2>2 DEF Mine
  <2>6. cookie'[b] = 0 \/ LiveToken(cookie'[b]) BY <1>1, <1>4, <2>2, <2>4, <2>5 DEF SessionWorks
  <2> HIDE DEF n
  <2> QED BY <1>1, <1>5, <2>1, <2>4, <2>6 DEF SessionWorks, LiveToken, Live
<1>10. TokensApart'
  <2>1. n # 0 => /\ \A b \in Browsers : cookie[b] # n
                 /\ \A q \in Requests \ {r} : at[q] = "issued" => seen[q] # n
    BY <1>1 DEF AccountsInv, TokensApart
  <2> HIDE DEF n
  <2>2. \A b, d \in Browsers : b # d => cookie'[b] = 0 \/ cookie'[b] # cookie'[d]
    BY <1>4, <2>1 DEF AccountsInv, TokensApart
  <2>3. ASSUME NEW q \in Requests, at'[q] = "issued", seen'[q] # 0
        PROVE  /\ \A b \in Browsers : cookie'[b] # seen'[q]
               /\ \A p \in Requests : p # q /\ at'[p] = "issued" => seen'[p] # seen'[q]
    BY <1>4, <1>5, <2>1, <2>3 DEF AccountsInv, TokensApart
  <2> QED BY <1>1, <1>5, <2>2, <2>3 DEF AccountsInv, TokensApart
<1>11. SpentAreGone'
  <2>1. \A q \in Requests : spent[q] # 0 /\ q.op = "refresh" => spent[q] # n
    BY <1>1 DEF AccountsInv, SpentAreGone, SpentGone
  <2> HIDE DEF n
  <2>2. ASSUME NEW q \in Requests PROVE SpentGone(q)'
    <3>1. SpentGone(q) BY DEF AccountsInv, SpentAreGone
    <3>2. at'[q] = at[q] \/ (q = r /\ at'[q] = "done") BY <1>5
    <3>3. \A p \in Requests : at'[p] = "issued" => at[p] = "issued" /\ seen'[p] = seen[p]
      BY <1>5
    <3>4. spent[q] # 0 /\ q.op = "refresh" =>
            \A b \in Browsers : cookie'[b] = spent[q] => cookie[b] = spent[q] /\ b # r.by
      BY <1>4, <2>1
    <3>5. at'[q] = "found" => seen'[q] = seen[q] BY <1>5
    <3> QED BY <1>1, <1>5, <3>1, <3>2, <3>3, <3>4, <3>5 DEF SpentGone
  <2> QED BY <1>5, <2>2 DEF SpentAreGone
<1>12. MetUnderWay' BY <1>1, <1>5 DEF AccountsInv, MetUnderWay
<1> QED BY <1>6, <1>7, <1>8, <1>9, <1>10, <1>11, <1>12 DEF AccountsInv

(* The write of a change to the roster: what it has checked still holds,   *)
(* or it has met another.                                                  *)
LEMMA ChangedRow ==
  ASSUME AccountsInv, NEW r \in Requests, at[r] = "checked", r.op \notin SessionOps,
         (r.op = "invite") # users[r.on].there
  PROVE  LET row == Changed(r, users[r.on]) IN
           /\ row \in Row /\ row.token \in {users[r.on].token, 0}
           /\ (~row.there => row = Absent) /\ (~row.there => r.op = "remove")
           /\ r.op \in {"reactivate", "invite"} => (r.on \in ActiveAdmins => row.role = "ADMIN" /\ row.active /\ row.there)
           /\ r.op = "role" => row.active = users[r.on].active /\ row.role = r.arg /\ row.there
<1> DEFINE old == users[r.on]
           row == Changed(r, old)
<1>1. /\ r.op \in AdminOps \cup {"role"} /\ r.on \in Users
      /\ r.op \in {"role", "invite"} => r.arg \in Roles
  BY DEF AccountsInv, AccountsTyped, RequestOK, AccountRequest
<1>2. old \in Row /\ (~old.there => old = Absent) /\ old.there \in BOOLEAN
  BY <1>1 DEF AccountsInv, AccountsTyped, AccountsTypeOK, Row
<1>3. Absent \in Row /\ Absent.token = 0 /\ Absent.there = FALSE
  BY TokensAssumption DEF Absent, Row, Roles
<1>4. r.op = "invite" => old = Absent BY <1>2
<1>5. r.op # "invite" => old.there = TRUE BY <1>2
<1>6. ActiveAdmins \subseteq {u \in Users : users[u].there /\ users[u].role = "ADMIN" /\ users[u].active}
  BY DEF ActiveAdmins
<1> HIDE DEF old
<1>7. CASE r.op = "role"
  <2>1. row = [old EXCEPT !.role = r.arg] BY <1>7 DEF Changed
  <2>2. row \in Row /\ row.token = old.token /\ row.there = TRUE /\ row.active = old.active
        /\ row.role = r.arg
    BY <1>1, <1>2, <1>5, <1>7, <2>1 DEF Row
  <2> QED BY <1>7, <2>2 DEF old
<1>8. CASE r.op = "deactivate"
  <2>1. row = [old EXCEPT !.active = FALSE] BY <1>8 DEF Changed
  <2>2. row \in Row /\ row.token = old.token /\ row.there = TRUE
    BY <1>2, <1>5, <1>8, <2>1 DEF Row
  <2> QED BY <1>8, <2>2 DEF old
<1>9. CASE r.op = "reactivate"
  <2>1. row = [old EXCEPT !.active = TRUE] BY <1>9 DEF Changed
  <2>2. row \in Row /\ row.token = old.token /\ row.there = TRUE /\ row.role = old.role
        /\ row.active = TRUE
    BY <1>2, <1>5, <1>9, <2>1 DEF Row
  <2> QED BY <1>6, <1>9, <2>2 DEF old
<1>10. CASE r.op = "remove"
  <2>1. row = Absent BY <1>10 DEF Changed
  <2> QED BY <1>3, <1>10, <2>1 DEF old
<1>11. CASE r.op = "invite"
  <2>1. row = [Absent EXCEPT !.there = TRUE, !.role = r.arg, !.approved = TRUE]
    BY <1>11 DEF Changed
  <2>2. row \in Row /\ row.token = 0 /\ row.there = TRUE
    BY <1>1, <1>3, <1>11, <2>1 DEF Row, Absent
  <2>3. r.on \notin ActiveAdmins BY <1>3, <1>4, <1>6, <1>11 DEF old
  <2> QED BY <1>11, <2>2, <2>3 DEF old
<1> QED BY <1>1, <1>7, <1>8, <1>9, <1>10, <1>11 DEF AdminOps, old

LEMMA WritesInv ==
  ASSUME AccountsInv, NEW r \in Requests, Writes(r) PROVE AccountsInv'
<1> DEFINE row == Changed(r, users[r.on])
<1>1. r.op \notin SessionOps /\ at[r] = "checked" BY DEF Writes
<1>2. CASE (r.op = "invite") = users[r.on].there BY <1>1, <1>2, RefusesInv DEF Writes
<1>3. CASE (r.op = "invite") # users[r.on].there
  <2>1. /\ users' = [users EXCEPT ![r.on] = row] /\ Goes(r, "done", seen[r]) /\ Wrote(r)
        /\ UNCHANGED <<tokens, cookie, lapsed, spent>>
    BY <1>3 DEF Writes
  <2>2. /\ r.op \in AdminOps \cup {"role"} /\ r.on \in Users /\ r.by \in Users
        /\ users \in [Users -> Row] /\ tokens \in Nat /\ users[r.on].token \in 0..tokens
    BY <1>1, NumbersTyped DEF AccountsInv, AccountsTyped, AccountsTypeOK, RequestOK, AccountRequest
  <2>3. /\ row \in Row /\ row.token \in {users[r.on].token, 0} /\ (~row.there => row = Absent)
        /\ r.op \in {"reactivate", "invite"} => (r.on \in ActiveAdmins => row.role = "ADMIN" /\ row.active /\ row.there)
        /\ r.op = "role" => row.active = users[r.on].active /\ row.role = r.arg /\ row.there
    BY <1>1, <1>3, ChangedRow
  <2> HIDE DEF row
  <2>4. users'[r.on] = row /\ \A v \in Users \ {r.on} : users'[v] = users[v]
    BY <2>1, <2>2
  <2>5. users' \in [Users -> Row] BY <2>1, <2>2, <2>3
  <2>6. /\ Requests' = Requests /\ DOMAIN seen' = Requests /\ at'[r] = "done"
        /\ \A q \in Requests \ {r} : at'[q] = at[q]
    BY <2>1, GoesStep DEF AccountsInv
  <2>7. during' \in [Requests -> SUBSET Requests] /\ during'[r] = during[r]
    BY <2>1, WroteStep DEF AccountsInv
  <2>8. AccountsTyped'
    <3>1. RequestOK(r)'
      BY <2>6 DEF AccountsInv, AccountsTyped, RequestOK, Phases, Over
    <3>2. \A q \in Requests' : RequestOK(q)'
      BY <2>1, <2>2, <3>1, RequestsKeepForm DEF AccountsInv
    <3>3. \A v \in Users : users'[v].token <= tokens /\ (~users'[v].there => users'[v] = Absent)
      BY <2>2, <2>3, <2>4 DEF AccountsInv, AccountsTyped
    <3> QED BY <2>1, <2>5, <2>6, <2>7, <3>2, <3>3
            DEF AccountsInv, AccountsTyped, AccountsTypeOK, Requests
  <2>9. LastAdminKept'
    <3>1. CASE during[r] # {} /\ r.op \in {"role", "deactivate", "remove"}
      BY <2>6, <2>7, <3>1 DEF LastAdminKept, Requests
    <3>2. CASE r.op \in {"reactivate", "invite"}
      <4>1. ActiveAdmins \subseteq ActiveAdmins' BY <2>3, <2>4, <3>2 DEF ActiveAdmins
      <4> QED BY <1>1, <2>1, <4>1, WriteAdmins
    <3>3. CASE during[r] = {} /\ r.op \in {"deactivate", "remove"}
      <4>1. r.by \in ActiveAdmins /\ r.by # r.on
        BY <1>1, <3>3 DEF AccountsInv, ChecksHold, StillHolds, AdminOps
      <4>2. r.by \in ActiveAdmins' BY <2>4, <4>1 DEF ActiveAdmins
      <4> QED BY <4>2 DEF LastAdminKept
    <3>4. CASE during[r] = {} /\ r.op = "role"
      <4>1. r.by \in ActiveAdmins /\ (r.by = r.on /\ r.arg # "ADMIN" => OthersLeft)
        BY <1>1, <3>4 DEF AccountsInv, ChecksHold, StillHolds
      <4>2. CASE r.by # r.on \/ r.arg = "ADMIN"
        <5>1. r.by \in ActiveAdmins' BY <2>3, <2>4, <3>4, <4>1, <4>2 DEF ActiveAdmins
        <5> QED BY <5>1 DEF LastAdminKept
      <4>3. CASE ~(r.by # r.on \/ r.arg = "ADMIN")
        <5>1. ActiveAdmins # {r.on}
          <6>1. Cardinality({r.on}) = 1 BY FS_Singleton
          <6>2. Cardinality(ActiveAdmins) > 1 BY <4>1, <4>3 DEF OthersLeft
          <6> QED BY <6>1, <6>2
        <5>2. PICK v \in ActiveAdmins : v # r.on BY <4>1, <4>3, <5>1
        <5>3. v \in ActiveAdmins' BY <2>4, <5>2 DEF ActiveAdmins
        <5> QED BY <5>3 DEF LastAdminKept
      <4> QED BY <4>2, <4>3
    <3> QED BY <2>2, <3>1, <3>2, <3>3, <3>4 DEF AdminOps
  <2>10. ChecksHold' BY <2>1, WriteChecks
  <2>11. SessionsKept'
    <3>1. \A b \in Browsers : r \notin Mine(b)' BY <1>1 DEF Mine
    <3>2. \A b \in Browsers : ~Undisturbed(b)' BY <2>6, <3>1 DEF Undisturbed
    <3> QED BY <3>2 DEF SessionsKept
  <2>12. spent[r] = 0 BY <1>1 DEF AccountsInv, SpentAreGone, SpentGone
  <2>13. TokensApart' /\ SpentAreGone' /\ MetUnderWay'
    <3>1. \A v \in Users : users'[v].token \in {users[v].token, 0} BY <2>3, <2>4
    <3> QED BY <1>1, <2>1, <2>12, <3>1, TokensLeave
  <2> QED BY <2>8, <2>9, <2>10, <2>11, <2>13 DEF AccountsInv
<1> QED BY <1>2, <1>3

(* The seven days of a token pass, and nothing else.                       *)
LEMMA LapsesInv ==
  ASSUME AccountsInv, UNCHANGED <<users, tokens, cookie, at, seen, during, spent>>,
         lapsed' \subseteq 1..tokens
  PROVE  AccountsInv'
<1>1. AccountsTyped'
  BY DEF AccountsInv, AccountsTyped, AccountsTypeOK, RequestOK, Requests
<1>2. LastAdminKept' BY DEF AccountsInv, LastAdminKept, ActiveAdmins
<1>3. ChecksHold'
  BY DEF AccountsInv, ChecksHold, StillHolds, ActiveAdmins, OthersLeft, Requests
<1>4. SessionsKept'
  BY DEF AccountsInv, SessionsKept, Undisturbed, SessionWorks, LiveToken, Live, Mine, Requests
<1>5. TokensApart' BY DEF AccountsInv, TokensApart, Requests
<1>6. SpentAreGone' BY DEF AccountsInv, SpentAreGone, SpentGone, Requests
<1>7. MetUnderWay' BY DEF AccountsInv, MetUnderWay, Requests
<1> QED BY <1>1, <1>2, <1>3, <1>4, <1>5, <1>6, <1>7 DEF AccountsInv

LEMMA AccountsStep ==
  ASSUME AccountsInv, [AccountsNext]_accountVars PROVE AccountsInv'
<1>1. CASE AccountsNext
  <2>1. ASSUME NEW r \in Requests,
               \/ LoginFinds(r) \/ LoginResolves(r) \/ RefreshFinds(r) \/ Issues(r)
               \/ Logout(r) \/ Answers(r) \/ Arrives(r) \/ Checks(r) \/ Writes(r)
        PROVE  AccountsInv'
    BY <2>1, LoginFindsInv, LoginResolvesInv, RefreshFindsInv, IssuesInv, LogoutInv,
       AnswersInv, ArrivesInv, ChecksInv, WritesInv
  <2>2. ASSUME NEW t \in 1..MaxTokens, Lapses(t) PROVE AccountsInv'
    <3>1. lapsed' \subseteq 1..tokens /\ UNCHANGED <<users, tokens, cookie, at, seen, during, spent>>
      BY <2>2 DEF Lapses, AccountsInv, AccountsTyped, AccountsTypeOK
    <3> QED BY <3>1, LapsesInv
  <2> QED BY <1>1, <2>1, <2>2 DEF AccountsNext, Requests
<1>2. CASE UNCHANGED accountVars
  <2>1. lapsed' \subseteq 1..tokens /\ UNCHANGED <<users, tokens, cookie, at, seen, during, spent>>
    BY <1>2 DEF accountVars, AccountsInv, AccountsTyped, AccountsTypeOK
  <2> QED BY <2>1, LapsesInv
<1> QED BY <1>1, <1>2
----------------------------------------------------------------------------
LEMMA AccountsBegin ==
  ASSUME NEW roster, NEW held, NEW comes, AccountRows(roster, held),
         \A r \in comes : AccountRequest(r), AccountsInit(roster, held, comes)
  PROVE  AccountsInv
<1> DEFINE h == Cardinality(DOMAIN held)
<1>1. /\ users = [u \in Users |-> IF u \in DOMAIN roster THEN roster[u] ELSE Absent]
      /\ cookie = [b \in Browsers |-> IF b \in DOMAIN held THEN held[b] ELSE 0]
      /\ tokens = h /\ lapsed = {} /\ at = [r \in comes |-> "ready"]
      /\ seen = [r \in comes |-> 0] /\ during = [r \in comes |-> {}] /\ spent = [r \in comes |-> 0]
  BY DEF AccountsInit
<1>2. /\ \A u \in DOMAIN roster : u \in Users /\ roster[u] \in Row /\ roster[u].there /\ roster[u].token <= h
      /\ \E u \in DOMAIN roster : roster[u].role = "ADMIN" /\ roster[u].active
      /\ h \in 0..MaxTokens
      /\ \A b \in DOMAIN held : held[b] \in 1..h /\ \E u \in DOMAIN roster : roster[u].token = held[b]
      /\ \A b, d \in DOMAIN held : b # d => held[b] # held[d]
      /\ \A u, v \in DOMAIN roster : u # v => roster[u].token = 0 \/ roster[u].token # roster[v].token
  BY DEF AccountRows
<1> HIDE DEF h
<1>3. h \in Nat BY <1>2, TokensAssumption
<1>4. Absent \in Row /\ Absent.token = 0 /\ Absent.there = FALSE
  BY TokensAssumption DEF Absent, Row, Roles
<1>5. \A u \in Users : users[u] = (IF u \in DOMAIN roster THEN roster[u] ELSE Absent) BY <1>1
<1>6. \A b \in Browsers : cookie[b] = (IF b \in DOMAIN held THEN held[b] ELSE 0) BY <1>1
<1>7. /\ Requests = comes /\ DOMAIN seen = Requests
      /\ \A r \in Requests : at[r] = "ready" /\ during[r] = {} /\ spent[r] = 0
  BY <1>1 DEF Requests
<1>8. AccountsTyped
  <2>1. users \in [Users -> Row] BY <1>1, <1>2, <1>4
  <2>2. cookie \in [Browsers -> 0..tokens] BY <1>1, <1>2, <1>3
  <2>3. \A u \in Users : users[u].token <= tokens /\ (~users[u].there => users[u] = Absent)
    BY <1>1, <1>2, <1>3, <1>4, <1>5
  <2>4. \A r \in Requests : RequestOK(r) BY <1>7 DEF RequestOK, Phases
  <2>5. spent \in [Requests -> 0..tokens] BY <1>1, <1>3, <1>7
  <2> QED BY <1>1, <1>2, <1>7, <2>1, <2>2, <2>3, <2>4, <2>5
          DEF AccountsTyped, AccountsTypeOK, Requests
<1>9. LastAdminKept
  <2>1. ActiveAdmins # {} BY <1>2, <1>5 DEF ActiveAdmins
  <2> QED BY <2>1 DEF LastAdminKept
<1>10. ChecksHold BY <1>7 DEF ChecksHold, StillHolds
<1>11. SessionsKept
  <2> SUFFICES ASSUME NEW b \in Browsers PROVE SessionWorks(b) BY DEF SessionsKept
  <2>1. cookie[b] = 0 \/ LiveToken(cookie[b])
    <3>1. CASE b \in DOMAIN held
      <4>1. PICK u \in DOMAIN roster : roster[u].token = held[b] BY <1>2, <3>1
      <4>2. held[b] # 0 /\ cookie[b] = held[b] BY <1>2, <1>3, <1>6, <3>1
      <4>3. u \in Users /\ users[u].there /\ users[u].token = held[b] BY <1>2, <1>5, <4>1
      <4> QED BY <4>2, <4>3 DEF LiveToken, Live
    <3> QED BY <1>6, <3>1
  <2> QED BY <1>7, <2>1 DEF SessionWorks, Mine, Requests
<1>12. TokensApart
  <2>1. \A u, v \in Users : u # v => users[u].token = 0 \/ users[u].token # users[v].token
    BY <1>2, <1>4, <1>5
  <2>2. \A b, d \in Browsers : b # d => cookie[b] = 0 \/ cookie[b] # cookie[d]
    BY <1>2, <1>6
  <2> QED BY <1>7, <2>1, <2>2 DEF TokensApart
<1>13. SpentAreGone /\ MetUnderWay BY <1>7 DEF SpentAreGone, SpentGone, MetUnderWay
<1> QED BY <1>8, <1>9, <1>10, <1>11, <1>12, <1>13 DEF AccountsInv

(* What the invariant is for: a browser that has its session to itself is  *)
(* undisturbed, and two that spent one token are over.                     *)
LEMMA AccountsFine ==
  ASSUME AccountsInv PROVE AccountsSound
<1>1. CookieWorks
  <2> SUFFICES ASSUME NEW b \in Browsers, Alone(b), cookie[b] # 0
               PROVE  \E u \in Users : Live(u, cookie[b])
    BY DEF CookieWorks
  <2>1. Undisturbed(b)
    BY DEF Alone, Undisturbed, Requests, Mine
  <2>2. \A r \in Mine(b) : at[r] # "issued" BY DEF Alone, UnderWay, Over
  <2> QED BY <2>1, <2>2 DEF AccountsInv, SessionsKept, SessionWorks, LiveToken
<1>2. TokenSpentOnce
  BY DEF AccountsInv, MetUnderWay, TokenSpentOnce, Requests
<1> QED BY <1>1, <1>2 DEF AccountsInv, AccountsTyped, AccountsSound

(* A row ends by a deletion alone, which has looked at sub.                *)
LEMMA RowsStay ==
  ASSUME AccountsInv, AccountsNext, NEW u \in Users, users[u].there
  PROVE  \/ users'[u].there
         \/ \E r \in DOMAIN at : /\ r.op = "remove" /\ r.on = u /\ at'[r] = "done"
                                 /\ during[r] # {} \/ users[u].sub = NoSub
<1>1. CASE users' = users BY <1>1
<1>2. ASSUME NEW r \in Requests, LoginResolves(r) PROVE users'[u].there
  <2>1. CASE UNCHANGED users BY <2>1
  <2>2. CASE ~UNCHANGED users
    <3> DEFINE kind == seen[r][1]
               row == users[seen[r][2]]
               bound == CASE kind = "known" -> row
                          [] kind = "invited" -> [row EXCEPT !.sub = r.arg]
                          [] kind = "new" -> [Absent EXCEPT !.there = TRUE, !.sub = r.arg]
    <3>1. /\ (kind = "new") # row.there /\ at[r] = "claimed"
          /\ users' = [users EXCEPT ![seen[r][2]] = bound]
      BY <1>2, <2>2 DEF LoginResolves, Refuses
    <3>2. kind \in Kinds /\ row \in Row /\ seen[r][2] \in Users /\ users \in [Users -> Row]
      BY <3>1 DEF AccountsInv, AccountsTyped, AccountsTypeOK, RequestOK
    <3>3. bound.there
      <4>1. CASE kind = "known" BY <3>1, <3>2, <4>1 DEF Row
      <4>2. CASE kind = "invited" BY <3>1, <3>2, <4>2 DEF Row
      <4>3. CASE kind = "new" BY <4>3 DEF Absent
      <4> QED BY <3>2, <4>1, <4>2, <4>3 DEF Kinds
    <3> HIDE DEF bound
    <3> QED BY <3>1, <3>2, <3>3
  <2> QED BY <2>1, <2>2
<1>3. ASSUME NEW r \in Requests, Issues(r) PROVE users'[u].there
  <2>1. users' = [users EXCEPT ![seen[r]] = Issued(@, tokens + 1)] /\ at[r] = "found"
    BY <1>3 DEF Issues
  <2>2. seen[r] \in Users /\ users \in [Users -> Row] /\ users[u] \in Row
    BY <2>1 DEF AccountsInv, AccountsTyped, AccountsTypeOK, RequestOK
  <2>3. \A t : Issued(users[u], t).there BY <2>2 DEF Issued, Row
  <2> QED BY <2>1, <2>2, <2>3
<1>4. ASSUME NEW r \in Requests, Logout(r) PROVE users'[u].there
  <2>1. users'[u] = users[u] \/ users'[u] = [users[u] EXCEPT !.token = 0]
    BY <1>4 DEF Logout
  <2>2. users[u] \in Row BY DEF AccountsInv, AccountsTyped, AccountsTypeOK
  <2> QED BY <2>1, <2>2 DEF Row
<1>5. ASSUME NEW r \in Requests, Writes(r), ~users'[u].there
      PROVE  r.op = "remove" /\ r.on = u /\ at'[r] = "done" /\ (during[r] # {} \/ users[u].sub = NoSub)
  <2> DEFINE row == Changed(r, users[r.on])
  <2>1. /\ (r.op = "invite") # users[r.on].there /\ users' = [users EXCEPT ![r.on] = row]
        /\ Goes(r, "done", seen[r]) /\ at[r] = "checked" /\ r.op \notin SessionOps
    BY <1>5 DEF Writes, Refuses
  <2>2. users \in [Users -> Row] BY DEF AccountsInv, AccountsTyped, AccountsTypeOK
  <2>3. ~row.there => r.op = "remove" BY <2>1, ChangedRow
  <2>4. at'[r] = "done" BY <2>1, GoesStep DEF AccountsInv
  <2>5. r.op = "remove" /\ during[r] = {} => users[r.on].sub = NoSub
    BY <2>1 DEF AccountsInv, ChecksHold, StillHolds
  <2> HIDE DEF row
  <2>6. r.on = u /\ ~row.there BY <1>5, <2>1, <2>2
  <2> QED BY <2>3, <2>4, <2>5, <2>6
<1>6. ASSUME NEW r \in Requests,
             LoginFinds(r) \/ RefreshFinds(r) \/ Answers(r) \/ Arrives(r) \/ Checks(r)
      PROVE  users' = users
  BY <1>6 DEF LoginFinds, RefreshFinds, Answers, Arrives, Checks, Refuses
<1>7. \A t : Lapses(t) => users' = users BY DEF Lapses
<1> QED BY <1>1, <1>2, <1>3, <1>4, <1>5, <1>6, <1>7 DEF AccountsNext, Requests

LEMMA OfficeAccounts == OfficeSpec => []AccountsInv
<1>1. OfficeInit => AccountsInv
  BY CasesAssumption, AccountsBegin DEF OfficeInit, OfficeCase
<1>2. AccountsInv /\ [OfficeNext]_officeVars => AccountsInv'
  BY AccountsStep DEF OfficeNext, officeVars
<1> QED BY <1>1, <1>2, PTL DEF OfficeSpec

(* "Cannot demote the last active admin" and the rest of AccountsSound: an *)
(* active administrator is left unless two changes of the roster met, the  *)
(* cookie of a session left to itself works, and a refresh token is spent  *)
(* once (UsersService, AuthService), for any users, browsers and requests. *)
THEOREM AccountsCorrect == OfficeSpec => []AccountsSound
<1>1. AccountsInv => AccountsSound BY AccountsFine
<1> QED BY <1>1, OfficeAccounts, PTL

(* A user who has signed in is never deleted but by a deletion that was    *)
(* under way when they did (UsersService.remove).                          *)
THEOREM SignInsKept == OfficeSpec => SignedInKept
<1> DEFINE Kept == \A u \in Users : users[u].sub # NoSub =>
                     \/ users'[u].there
                     \/ \E r \in DOMAIN at : r.op = "remove" /\ r.on = u /\ at'[r] = "done" /\ during[r] # {}
<1>1. AccountsInv /\ AccountsNext => Kept
  <2> SUFFICES ASSUME AccountsInv, AccountsNext, NEW u \in Users, users[u].sub # NoSub
               PROVE  \/ users'[u].there
                      \/ \E r \in DOMAIN at : r.op = "remove" /\ r.on = u /\ at'[r] = "done" /\ during[r] # {}
    OBVIOUS
  <2>1. users[u].there
    <3>1. users[u] \in Row /\ (~users[u].there => users[u] = Absent)
      BY DEF AccountsInv, AccountsTyped, AccountsTypeOK
    <3> QED BY <3>1 DEF Absent
  <2> QED BY <2>1, RowsStay
<1>2. AccountsInv /\ [OfficeNext]_officeVars => [Kept]_accountVars
  BY <1>1 DEF OfficeNext, officeVars, accountVars
<1>3. OfficeSpec => [][Kept]_accountVars
  BY <1>2, OfficeAccounts, PTL DEF OfficeSpec
<1> QED BY <1>3 DEF SignedInKept
----------------------------------------------------------------------------
(***************************************************************************)
(* Teams. A write is known to every request it falls into (raced): one     *)
(* that is not, finds the teams as it left them.                           *)
(***************************************************************************)
Asks      == DOMAIN asks
AskPhases == {"ready", "routed", "created", "found", "moved", "sorting"} \cup TeamEnded

AskOK(q) ==
  /\ TeamRequest(q) /\ asks[q] \in AskPhases
  /\ asks[q] = "routed" => q.op = "ticket"
  /\ asks[q] = "created" => q.op = "create"
  /\ asks[q] = "found" => q.op \in {"remove", "join", "rule"}
  /\ asks[q] = "moved" => q.op = "remove"
  /\ asks[q] = "sorting" => q.op = "reorder"
  /\ q.op = "remove" /\ asks[q] \in {"found", "moved"} => q.team # DefaultTeam
  /\ q.op = "reorder" /\ asks[q] \in {"sorting", "done"} =>
       memo[q] \in [left : SUBSET DOMAIN Orders[q], next : Nat]

StoredTyped ==
  /\ TeamsTypeOK /\ tickets \in [Facts -> TeamIds \cup {NoTeam}]
  /\ rules \in [Rules -> [team : TeamIds \cup {NoTeam, "absent"}, active : BOOLEAN]]

(* A removal that has moved the tickets finds none, unless one came since. *)
CanDelete(q) ==
  q.op = "remove" /\ asks[q] = "moved" /\ q \notin raced => \A f \in Facts : tickets[f] # q.team

(* A reorder has numbered a first part of what it found, in its order.     *)
Quiet(q) ==
  /\ q \notin raced /\ IsInjective(Orders[q])
  /\ \A p \in Asks \ {q} : /\ asks[p] # "done" /\ (p.op = "reorder" => asks[p] # "sorting")
                           /\ p.op = "create" => asks[p] \notin {"created", "failed"}
KnownOf(q)  == {k \in DOMAIN Orders[q] : Orders[q][k] \in teams}
Written(q)  == KnownOf(q) \ memo[q].left
NumberOf(q, k) == priority[Orders[q][k]]
SortedSoFar(q) ==
  q.op = "reorder" /\ asks[q] \in {"sorting", "done"} /\ Quiet(q) =>
    /\ memo[q].left \subseteq KnownOf(q) /\ (asks[q] = "done" => memo[q].left = {})
    /\ \A i \in Written(q) : /\ NumberOf(q, i) < memo[q].next
                             /\ \A j \in memo[q].left : i < j
                             /\ \A j \in Written(q) : i < j => NumberOf(q, i) < NumberOf(q, j)

AskKept(q) == AskOK(q) /\ CanDelete(q) /\ SortedSoFar(q)
TeamsInv ==
  /\ StoredTyped /\ DOMAIN memo = Asks /\ raced \subseteq Asks
  /\ \A q \in Asks : AskKept(q)
  /\ RemovalStopsOnlyByRace /\ BotEverywhere
----------------------------------------------------------------------------
LEMMA TurnsStep ==
  ASSUME TeamsInv, NEW q \in Asks, NEW phase, NEW m, Turns(q, phase, m)
  PROVE  /\ Asks' = Asks /\ DOMAIN memo' = Asks
         /\ asks'[q] = phase /\ memo'[q] = m
         /\ \A p \in Asks \ {q} : asks'[p] = asks[p] /\ memo'[p] = memo[p]
BY DEF Turns, TeamsInv, Asks

(* A request that only looks disturbs no other.                            *)
LEMMA TeamLooks ==
  ASSUME TeamsInv, NEW q \in Asks, NEW phase, NEW m, Looks(q, phase, m),
         asks[q] \notin TeamEnded \cup {"sorting"}, phase \notin {"moved", "created"},
         asks[q] = "created" => phase = "failed",
         q.op = "remove" /\ phase = "failed" => q \in raced,
         AskOK(q)', SortedSoFar(q)'
  PROVE  TeamsInv'
<1>1. Turns(q, phase, m) /\ UNCHANGED <<teams, priority, members, rules, tickets, raced>>
  BY DEF Looks, stored
<1>2. /\ Asks' = Asks /\ DOMAIN memo' = Asks /\ asks'[q] = phase
      /\ \A p \in Asks \ {q} : asks'[p] = asks[p] /\ memo'[p] = memo[p]
  BY <1>1, TurnsStep
<1>3. StoredTyped' BY <1>1 DEF TeamsInv, StoredTyped, TeamsTypeOK
<1>4. AskKept(q)' BY <1>2 DEF AskKept, CanDelete
<1>5. ASSUME NEW p \in Asks \ {q} PROVE AskKept(p)'
  <2>1. AskKept(p) BY DEF TeamsInv
  <2>2. AskOK(p)' BY <1>2, <2>1 DEF AskKept, AskOK, TeamRequest
  <2>3. CanDelete(p)' BY <1>1, <1>2, <2>1 DEF AskKept, CanDelete
  <2>4. Quiet(p)' => Quiet(p)
    <3>1. AskOK(q) BY DEF TeamsInv, AskKept
    <3> QED BY <1>1, <1>2, <3>1 DEF Quiet, AskOK, TeamEnded
  <2>5. SortedSoFar(p)'
    BY <1>1, <1>2, <2>1, <2>4 DEF AskKept, SortedSoFar, KnownOf, Written, NumberOf
  <2> QED BY <2>2, <2>3, <2>5 DEF AskKept
<1>6. RemovalStopsOnlyByRace' BY <1>1, <1>2 DEF TeamsInv, RemovalStopsOnlyByRace, Asks
<1>7. BotEverywhere'
  <2>1. ASSUME NEW t \in teams
        PROVE  Bot \in members[t] \/ \E p \in Asks : p.op = "create" /\ p.team = t /\ asks'[p] \in {"created", "failed"}
    <3>1. CASE Bot \in members[t] BY <3>1
    <3>2. CASE Bot \notin members[t]
      <4>1. PICK p \in Asks : p.op = "create" /\ p.team = t /\ asks[p] \in {"created", "failed"}
        BY <3>2 DEF TeamsInv, BotEverywhere, Asks
      <4>2. asks'[p] \in {"created", "failed"} BY <1>2, <4>1 DEF TeamEnded
      <4> QED BY <4>1, <4>2
    <3> QED BY <3>1, <3>2
  <2> QED BY <1>1, <1>2, <2>1 DEF BotEverywhere, Asks
<1> QED BY <1>1, <1>2, <1>3, <1>4, <1>5, <1>6, <1>7 DEF TeamsInv

(* A request that writes: whoever it falls into knows.                     *)
LEMMA TeamWrites ==
  ASSUME TeamsInv, NEW q \in Asks, NEW phase \in {"done", "created", "moved", "sorting"}, NEW m,
         Turns(q, phase, m), Races(q), asks[q] \notin TeamEnded,
         phase = "moved" => UNCHANGED <<teams, priority>>,
         StoredTyped', AskKept(q)', BotEverywhere'
  PROVE  TeamsInv'
<1>1. /\ Asks' = Asks /\ DOMAIN memo' = Asks /\ asks'[q] = phase
      /\ \A p \in Asks \ {q} : asks'[p] = asks[p] /\ memo'[p] = memo[p]
  BY TurnsStep
<1>2. /\ raced \subseteq raced' /\ raced' \subseteq Asks
      /\ \A p \in Asks \ {q} : asks[p] \in {"moved", "sorting"} => p \in raced'
  BY DEF Races, Pending, TeamEnded, TeamsInv, Asks
<1>3. ASSUME NEW p \in Asks \ {q} PROVE AskKept(p)'
  <2>1. AskKept(p) BY DEF TeamsInv
  <2>2. AskOK(p)' BY <1>1, <2>1 DEF AskKept, AskOK, TeamRequest
  <2>3. CanDelete(p)' BY <1>1, <1>2 DEF CanDelete
  <2>4. SortedSoFar(p)'
    <3>1. CASE phase = "moved" /\ asks[p] = "done"
      <4>1. Quiet(p)' => Quiet(p)
        <5>1. AskOK(q) /\ AskOK(q)' BY DEF TeamsInv, AskKept
        <5> QED BY <1>1, <1>2, <3>1, <5>1 DEF Quiet, AskOK, TeamEnded
      <4> QED BY <1>1, <2>1, <3>1, <4>1 DEF AskKept, SortedSoFar, KnownOf, Written, NumberOf
    <3>2. CASE asks[p] = "sorting" BY <1>2, <3>2 DEF SortedSoFar, Quiet
    <3>3. CASE phase # "moved"
      <4>1. phase = "created" => q.op = "create" BY <1>1 DEF AskKept, AskOK
      <4>2. phase = "sorting" => q.op = "reorder" BY <1>1 DEF AskKept, AskOK
      <4> QED BY <1>1, <3>3, <4>1, <4>2 DEF SortedSoFar, Quiet
    <3>4. CASE asks[p] \notin {"sorting", "done"} BY <1>1, <3>4 DEF SortedSoFar
    <3> QED BY <3>1, <3>2, <3>3, <3>4
  <2> QED BY <2>2, <2>3, <2>4 DEF AskKept
<1>4. RemovalStopsOnlyByRace'
  BY <1>1, <1>2 DEF TeamsInv, RemovalStopsOnlyByRace, Asks
<1> QED BY <1>1, <1>2, <1>3, <1>4 DEF TeamsInv

(* What is no creation leaves the bot where it is.                         *)
LEMMA BotStays ==
  ASSUME TeamsInv, NEW q \in Asks, NEW phase, NEW m, Turns(q, phase, m), q.op # "create",
         teams' \subseteq teams, \A t \in teams' : Bot \in members[t] => Bot \in members'[t]
  PROVE  BotEverywhere'
<1>1. Asks' = Asks /\ \A p \in Asks \ {q} : asks'[p] = asks[p] BY TurnsStep
<1> QED BY <1>1 DEF TeamsInv, BotEverywhere, Asks

(* A request that ends without a write.                                    *)
LEMMA AskEndsInv ==
  ASSUME TeamsInv, NEW q \in Asks, NEW phase \in {"refused", "failed"}, AskEnds(q, phase),
         asks[q] \notin TeamEnded \cup {"sorting"}, asks[q] = "created" => phase = "failed",
         q.op = "remove" /\ phase = "failed" => q \in raced
  PROVE  TeamsInv'
<1>1. Looks(q, phase, memo[q]) /\ Turns(q, phase, memo[q]) BY DEF AskEnds, Looks
<1>2. asks'[q] = phase BY <1>1, TurnsStep
<1>3. AskOK(q)'
  <2>1. TeamRequest(q) BY DEF TeamsInv, AskKept, AskOK
  <2> QED BY <1>2, <2>1 DEF AskOK, AskPhases, TeamEnded, TeamRequest
<1>4. SortedSoFar(q)' BY <1>2 DEF SortedSoFar
<1> QED BY <1>1, <1>3, <1>4, TeamLooks

(* A request that has found its team goes on, for now without a write.     *)
LEMMA AskFoundInv ==
  ASSUME TeamsInv, NEW q \in Asks, AskEnds(q, "found"), asks[q] = "ready",
         q.op \in {"remove", "join", "rule"}, q.op = "remove" => q.team # DefaultTeam
  PROVE  TeamsInv'
<1>1. Looks(q, "found", memo[q]) /\ Turns(q, "found", memo[q]) BY DEF AskEnds, Looks
<1>2. asks'[q] = "found" BY <1>1, TurnsStep
<1>3. AskOK(q)'
  <2>1. TeamRequest(q) BY DEF TeamsInv, AskKept, AskOK
  <2> QED BY <1>2, <2>1 DEF AskOK, AskPhases, TeamRequest
<1>4. SortedSoFar(q)' BY <1>2 DEF SortedSoFar
<1> QED BY <1>1, <1>3, <1>4, TeamLooks DEF TeamEnded

(* A request whose write is its last.                                      *)
LEMMA LastWrite ==
  ASSUME TeamsInv, NEW q \in Asks, NEW m, Turns(q, "done", m), Races(q), asks[q] \notin TeamEnded,
         q.op # "reorder", StoredTyped', BotEverywhere'
  PROVE  TeamsInv'
<1>1. asks'[q] = "done" BY TurnsStep
<1>2. AskKept(q)'
  <2>1. TeamRequest(q) BY DEF TeamsInv, AskKept, AskOK
  <2> QED BY <1>1, <2>1 DEF AskKept, AskOK, AskPhases, TeamEnded, TeamRequest, CanDelete, SortedSoFar
<1> QED BY <1>2, TeamWrites
----------------------------------------------------------------------------
LEMMA TicketsRoutedInv ==
  ASSUME TeamsInv, NEW q \in Asks, Arrive(q) \/ Insert(q) PROVE TeamsInv'
<1>1. TeamRequest(q) /\ StoredTyped BY DEF TeamsInv, AskKept, AskOK
<1>2. CASE Arrive(q)
  <2>1. PICK t \in RouteFacts(q.on) : Looks(q, "routed", t) BY <1>2 DEF Arrive
  <2>2. q.op = "ticket" /\ asks[q] = "ready" BY <1>2 DEF Arrive
  <2>3. asks'[q] = "routed" BY <2>1, TurnsStep DEF Looks
  <2>4. AskOK(q)' BY <1>1, <2>2, <2>3 DEF AskOK, AskPhases, TeamRequest
  <2>5. SortedSoFar(q)' BY <2>3 DEF SortedSoFar
  <2> QED BY <2>1, <2>2, <2>4, <2>5, TeamLooks DEF TeamEnded
<1>3. CASE Insert(q)
  <2>1. q.op = "ticket" /\ asks[q] = "routed" BY <1>3 DEF Insert
  <2>2. CASE memo[q] \notin teams
    <3>1. AskEnds(q, "failed") BY <1>3, <2>2 DEF Insert
    <3> QED BY <2>1, <3>1, AskEndsInv DEF TeamEnded
  <2>3. CASE memo[q] \in teams
    <3>1. /\ tickets' = [tickets EXCEPT ![q.on] = memo[q]]
          /\ Turns(q, "done", memo[q]) /\ Races(q) /\ UNCHANGED <<teams, priority, members, rules>>
      BY <1>3, <2>3 DEF Insert
    <3>2. StoredTyped'
      <4>1. q.on \in Facts BY <1>1, <2>1 DEF TeamRequest
      <4>2. \A f \in Facts : tickets'[f] \in teams \cup {NoTeam}
        BY <1>1, <2>3, <3>1, <4>1 DEF StoredTyped, TeamsTypeOK
      <4>3. tickets' \in [Facts -> TeamIds \cup {NoTeam}]
        BY <1>1, <2>3, <3>1 DEF StoredTyped, TeamsTypeOK
      <4> QED BY <1>1, <3>1, <4>2, <4>3 DEF StoredTyped, TeamsTypeOK
    <3>3. BotEverywhere' BY <2>1, <3>1, BotStays
    <3> QED BY <2>1, <3>1, <3>2, <3>3, LastWrite DEF TeamEnded
  <2> QED BY <2>2, <2>3
<1> QED BY <1>2, <1>3

(* The row first, then the bot in it.                                      *)
LEMMA CreationInv ==
  ASSUME TeamsInv, NEW q \in Asks, CreateTeam(q) \/ AutoAddBot(q) \/ CreateDies(q) PROVE TeamsInv'
<1>1. TeamRequest(q) /\ StoredTyped BY DEF TeamsInv, AskKept, AskOK
<1>2. CASE CreateTeam(q)
  <2>1. q.op = "create" /\ asks[q] = "ready" /\ q.team \in TeamIds
    BY <1>1, <1>2 DEF CreateTeam, TeamRequest
  <2>2. CASE q.team \in teams
    <3>1. AskEnds(q, "refused") BY <1>2, <2>2 DEF CreateTeam
    <3> QED BY <2>1, <3>1, AskEndsInv DEF TeamEnded
  <2>3. CASE q.team \notin teams
    <3>1. /\ teams' = teams \cup {q.team} /\ Turns(q, "created", 0) /\ Races(q)
          /\ UNCHANGED <<priority, members, rules, tickets>>
      BY <1>2, <2>3 DEF CreateTeam
    <3>2. /\ Asks' = Asks /\ asks'[q] = "created"
          /\ \A p \in Asks \ {q} : asks'[p] = asks[p]
      BY <3>1, TurnsStep
    <3>3. StoredTyped' BY <1>1, <2>1, <3>1 DEF StoredTyped, TeamsTypeOK
    <3>4. AskKept(q)'
      BY <1>1, <2>1, <3>2 DEF AskKept, AskOK, AskPhases, TeamRequest, CanDelete, SortedSoFar
    <3>5. BotEverywhere' BY <2>1, <3>1, <3>2 DEF TeamsInv, BotEverywhere, Asks
    <3> QED BY <2>1, <3>1, <3>3, <3>4, <3>5, TeamWrites DEF TeamEnded
  <2> QED BY <2>2, <2>3
<1>3. CASE AutoAddBot(q)
  <2>1. q.op = "create" /\ asks[q] = "created" BY <1>3 DEF AutoAddBot
  <2>2. CASE q.team \notin teams
    <3>1. AskEnds(q, "failed") BY <1>3, <2>2 DEF AutoAddBot
    <3> QED BY <2>1, <3>1, AskEndsInv DEF TeamEnded
  <2>3. CASE q.team \in teams
    <3>1. /\ members' = [members EXCEPT ![q.team] = @ \cup {Bot}]
          /\ Turns(q, "done", 0) /\ Races(q) /\ UNCHANGED <<teams, priority, rules, tickets>>
      BY <1>3, <2>3 DEF AutoAddBot
    <3>2. StoredTyped' BY <1>1, <2>3, <3>1 DEF StoredTyped, TeamsTypeOK
    <3>3. /\ Asks' = Asks /\ \A p \in Asks \ {q} : asks'[p] = asks[p] BY <3>1, TurnsStep
    <3>4. BotEverywhere'
      <4>1. /\ q.team \in TeamIds /\ members \in [TeamIds -> SUBSET (Agents \cup {Bot})]
            /\ teams \subseteq TeamIds
        BY <1>1, <2>3 DEF StoredTyped, TeamsTypeOK
      <4>2. Bot \in members'[q.team] /\ \A t \in teams \ {q.team} : members'[t] = members[t]
        BY <3>1, <4>1
      <4>3. ASSUME NEW t \in teams \ {q.team}, Bot \notin members'[t]
            PROVE  \E p \in Asks : p.op = "create" /\ p.team = t /\ asks'[p] \in {"created", "failed"}
        <5>1. PICK p \in Asks : p.op = "create" /\ p.team = t /\ asks[p] \in {"created", "failed"}
          BY <4>2, <4>3 DEF TeamsInv, BotEverywhere, Asks
        <5> QED BY <3>3, <5>1
      <4> QED BY <3>1, <3>3, <4>2, <4>3 DEF BotEverywhere, Asks
    <3> QED BY <2>1, <3>1, <3>2, <3>4, LastWrite DEF TeamEnded
  <2> QED BY <2>2, <2>3
<1>4. CASE CreateDies(q) BY <1>4, AskEndsInv DEF CreateDies, TeamEnded
<1> QED BY <1>2, <1>3, <1>4

(* The tickets move to the default team before the row goes.               *)
LEMMA RemovalInv ==
  ASSUME TeamsInv, NEW q \in Asks, RemoveFinds(q) \/ RemoveMoves(q) \/ RemoveDeletes(q)
  PROVE  TeamsInv'
<1>1. AskOK(q) /\ TeamRequest(q) /\ CanDelete(q) /\ StoredTyped
  BY DEF TeamsInv, AskKept, AskOK
<1>2. CASE RemoveFinds(q)
  <2>1. q.op = "remove" /\ asks[q] = "ready" BY <1>2 DEF RemoveFinds
  <2>2. CASE q.team \in teams \ {DefaultTeam}
    <3>1. AskEnds(q, "found") BY <1>2, <2>2 DEF RemoveFinds
    <3> QED BY <2>1, <2>2, <3>1, AskFoundInv
  <2>3. CASE q.team \notin teams \ {DefaultTeam}
    <3>1. AskEnds(q, "refused") BY <1>2, <2>3 DEF RemoveFinds
    <3> QED BY <2>1, <3>1, AskEndsInv DEF TeamEnded
  <2> QED BY <2>2, <2>3
<1>3. CASE RemoveMoves(q)
  <2>1. /\ q.op = "remove" /\ asks[q] = "found" /\ tickets' = Moved(q.team)
        /\ Turns(q, "moved", 0) /\ Races(q) /\ UNCHANGED <<teams, priority, members, rules>>
    BY <1>3 DEF RemoveMoves
  <2>2. q.team # DefaultTeam BY <1>1, <2>1 DEF AskOK
  <2>3. \A f \in Facts : tickets'[f] # q.team /\ tickets'[f] \in {tickets[f], DefaultTeam}
    BY <2>1, <2>2 DEF Moved
  <2>4. StoredTyped'
    <3>1. tickets' \in [Facts -> TeamIds \cup {NoTeam}]
      BY <1>1, <2>1, TeamsAssumption DEF Moved, StoredTyped
    <3> QED BY <1>1, <2>1, <2>3, <3>1 DEF StoredTyped, TeamsTypeOK
  <2>5. asks'[q] = "moved" BY <2>1, TurnsStep
  <2>6. AskKept(q)'
    BY <1>1, <2>1, <2>2, <2>3, <2>5 DEF AskKept, AskOK, AskPhases, TeamRequest, CanDelete, SortedSoFar
  <2>7. BotEverywhere' BY <2>1, BotStays
  <2> QED BY <2>1, <2>4, <2>6, <2>7, TeamWrites DEF TeamEnded
<1>4. CASE RemoveDeletes(q)
  <2>1. q.op = "remove" /\ asks[q] = "moved" BY <1>4 DEF RemoveDeletes
  <2>2. CASE \E f \in Facts : tickets[f] = q.team
    <3>1. AskEnds(q, "failed") BY <1>4, <2>2 DEF RemoveDeletes
    <3>2. q \in raced BY <1>1, <2>1, <2>2 DEF CanDelete
    <3> QED BY <2>1, <3>1, <3>2, AskEndsInv DEF TeamEnded
  <2>3. CASE ~\E f \in Facts : tickets[f] = q.team
    <3>1. /\ teams' = teams \ {q.team} /\ members' = [members EXCEPT ![q.team] = {}]
          /\ rules' = Cleared(q.team)
          /\ Turns(q, "done", 0) /\ Races(q) /\ UNCHANGED <<priority, tickets>>
      BY <1>4, <2>3 DEF RemoveDeletes
    <3>2. q.team # DefaultTeam /\ q.team \in TeamIds BY <1>1, <2>1 DEF AskOK, TeamRequest
    <3>3. StoredTyped'
      <4>1. ASSUME NEW r \in Rules
            PROVE  /\ rules'[r] \in [team : TeamIds \cup {NoTeam, "absent"}, active : BOOLEAN]
                   /\ rules'[r].team \in teams' \cup {NoTeam, "absent"}
        <5>1. /\ rules[r] \in [team : TeamIds \cup {NoTeam, "absent"}, active : BOOLEAN]
              /\ rules[r].team \in teams \cup {NoTeam, "absent"}
          BY <1>1 DEF StoredTyped, TeamsTypeOK
        <5>2. rules'[r] = IF rules[r].team = q.team THEN [rules[r] EXCEPT !.team = NoTeam] ELSE rules[r]
          BY <3>1 DEF Cleared
        <5> QED BY <3>1, <5>1, <5>2
      <4>2. rules' \in [Rules -> [team : TeamIds \cup {NoTeam, "absent"}, active : BOOLEAN]]
        BY <3>1, <4>1 DEF Cleared
      <4>3. members' \in [TeamIds -> SUBSET (Agents \cup {Bot})]
            /\ \A t \in TeamIds \ teams' : members'[t] = {}
        BY <1>1, <3>1, <3>2 DEF StoredTyped, TeamsTypeOK
      <4>4. \A f \in Facts : tickets'[f] \in teams' \cup {NoTeam}
        BY <1>1, <2>3, <3>1 DEF StoredTyped, TeamsTypeOK
      <4>5. DefaultTeam \in teams' /\ teams' \subseteq TeamIds /\ priority' \in [TeamIds -> Nat]
        BY <1>1, <3>1, <3>2 DEF StoredTyped, TeamsTypeOK
      <4> QED BY <1>1, <3>1, <4>1, <4>2, <4>3, <4>4, <4>5 DEF StoredTyped, TeamsTypeOK
    <3>4. BotEverywhere'
      <4>1. \A t \in teams' : members'[t] = members[t]
        BY <1>1, <3>1 DEF StoredTyped, TeamsTypeOK
      <4> QED BY <2>1, <3>1, <4>1, BotStays
    <3> QED BY <2>1, <3>1, <3>3, <3>4, LastWrite DEF TeamEnded
  <2> QED BY <2>2, <2>3
<1> QED BY <1>2, <1>3, <1>4

(* The next of the named teams gets the next number.                       *)
LEMMA ReorderInv ==
  ASSUME TeamsInv, NEW q \in Asks, ReorderReads(q) \/ ReorderWrites(q) PROVE TeamsInv'
<1>1. AskOK(q) /\ TeamRequest(q) /\ SortedSoFar(q) /\ StoredTyped
  BY DEF TeamsInv, AskKept, AskOK
<1>2. q.op = "reorder" BY DEF ReorderReads, ReorderWrites
<1>3. /\ Orders[q] \in Seq(TeamIds) /\ DOMAIN Orders[q] \subseteq Nat
      /\ \A k \in DOMAIN Orders[q] : Orders[q][k] \in TeamIds
  <2>1. Orders[q] \in Seq(TeamIds) BY <1>1, <1>2 DEF TeamRequest
  <2>2. DOMAIN Orders[q] = 1..Len(Orders[q]) /\ Len(Orders[q]) \in Nat BY <2>1, LenProperties
  <2> QED BY <2>1, <2>2, ElementOfSeq
<1>4. CASE ReorderReads(q)
  <2> DEFINE phase == IF KnownOf(q) = {} THEN "done" ELSE "sorting"
             m == [left |-> KnownOf(q), next |-> 0]
  <2>1. asks[q] = "ready" /\ Looks(q, phase, m)
    BY <1>4 DEF ReorderReads, KnownOf
  <2>2. Turns(q, phase, m) /\ UNCHANGED <<teams, priority, members, rules, tickets, raced>>
    BY <2>1 DEF Looks, stored
  <2>3. asks'[q] = phase /\ memo'[q] = m BY <2>2, TurnsStep
  <2>4. /\ m \in [left : SUBSET DOMAIN Orders[q], next : Nat] /\ m.left = KnownOf(q)
        /\ phase \in {"done", "sorting"} /\ (phase = "done" => KnownOf(q) = {})
    BY DEF KnownOf
  <2>5. KnownOf(q)' = KnownOf(q) BY <2>2 DEF KnownOf
  <2> HIDE DEF m, phase
  <2>6. AskOK(q)'
    BY <1>1, <1>2, <2>3, <2>4 DEF AskOK, AskPhases, TeamEnded, TeamRequest
  <2>7. SortedSoFar(q)' BY <2>3, <2>4, <2>5 DEF SortedSoFar, Written
  <2> QED BY <1>2, <2>1, <2>4, <2>6, <2>7, TeamLooks DEF TeamEnded
<1>5. CASE ReorderWrites(q)
  <2>1. asks[q] = "sorting" BY <1>5 DEF ReorderWrites
  <2>2. PICK k \in memo[q].left :
          LET rest == memo[q].left \ {k} IN
          /\ \A j \in rest : k < j
          /\ priority' = Numbered(Orders[q][k], memo[q].next)
          /\ Turns(q, IF rest = {} THEN "done" ELSE "sorting", [left |-> rest, next |-> memo[q].next + 1])
          /\ Races(q) /\ UNCHANGED <<teams, members, rules, tickets>>
    BY <1>5 DEF ReorderWrites
  <2> DEFINE rest == memo[q].left \ {k}
             n == memo[q].next
             phase == IF rest = {} THEN "done" ELSE "sorting"
             m == [left |-> rest, next |-> n + 1]
             team == Orders[q][k]
  <2>3. /\ \A j \in rest : k < j
        /\ priority' = Numbered(team, n)
        /\ Turns(q, phase, m) /\ Races(q) /\ UNCHANGED <<teams, members, rules, tickets>>
    BY <2>2
  <2>4. /\ memo[q] \in [left : SUBSET DOMAIN Orders[q], next : Nat]
        /\ n \in Nat /\ memo[q].left \subseteq DOMAIN Orders[q] /\ k \in DOMAIN Orders[q]
    BY <1>1, <1>2, <2>1 DEF AskOK
  <2>5. m \in [left : SUBSET DOMAIN Orders[q], next : Nat] /\ m.left = rest /\ m.next = n + 1
    BY <2>4
  <2>6. phase \in {"done", "sorting"} /\ (phase = "done" => rest = {}) OBVIOUS
  <2>7. Asks' = Asks /\ asks'[q] = phase /\ memo'[q] = m BY <2>3, TurnsStep
  <2>8. team \in TeamIds BY <1>3, <2>4
  <2> HIDE DEF m, phase
  <2>9. priority \in [TeamIds -> Nat] BY <1>1 DEF StoredTyped, TeamsTypeOK
  <2>10. /\ priority' \in [TeamIds -> Nat]
         /\ team \in teams => priority'[team] = n
         /\ \A t \in TeamIds \ {team} : priority'[t] = priority[t]
    <3>1. n \in Nat BY <2>4
    <3> HIDE DEF team, n
    <3> QED BY <2>3, <2>8, <2>9, <3>1 DEF Numbered
  <2>11. StoredTyped' BY <1>1, <2>3, <2>10 DEF StoredTyped, TeamsTypeOK
  <2>12. AskOK(q)'
    BY <1>1, <1>2, <2>5, <2>6, <2>7 DEF AskOK, AskPhases, TeamEnded, TeamRequest
  <2>13. SortedSoFar(q)'
    <3> SUFFICES ASSUME Quiet(q)'
                 PROVE  /\ rest \subseteq KnownOf(q)
                        /\ \A i \in KnownOf(q) \ rest :
                             /\ NumberOf(q, i)' < n + 1 /\ \A j \in rest : i < j
                             /\ \A j \in KnownOf(q) \ rest : i < j => NumberOf(q, i)' < NumberOf(q, j)'
      <4>1. KnownOf(q)' = KnownOf(q) BY <2>3 DEF KnownOf
      <4> HIDE DEF rest
      <4> QED BY <2>5, <2>6, <2>7, <4>1 DEF SortedSoFar, Written
    <3>1. Quiet(q)
      <4>1. \A p \in Asks \ {q} : asks'[p] = asks[p] BY <2>3, TurnsStep
      <4>2. q \notin raced BY <2>3 DEF Quiet, Races
      <4> QED BY <2>7, <4>1, <4>2 DEF Quiet
    <3>2. /\ memo[q].left \subseteq KnownOf(q)
          /\ \A i \in Written(q) : /\ NumberOf(q, i) < n
                                   /\ \A j \in memo[q].left : i < j
                                   /\ \A j \in Written(q) : i < j => NumberOf(q, i) < NumberOf(q, j)
      BY <1>1, <1>2, <2>1, <3>1 DEF SortedSoFar
    <3>3. KnownOf(q) \ rest = Written(q) \cup {k} /\ k \notin Written(q)
      BY <3>2 DEF Written
    <3>4. Written(q) \subseteq DOMAIN Orders[q] BY DEF Written, KnownOf
    <3>5. \A i \in Written(q) : NumberOf(q, i)' = NumberOf(q, i) /\ NumberOf(q, i) \in Nat /\ i < k
      <4> SUFFICES ASSUME NEW i \in Written(q)
                   PROVE  NumberOf(q, i)' = NumberOf(q, i) /\ NumberOf(q, i) \in Nat /\ i < k
        OBVIOUS
      <4>1. i \in DOMAIN Orders[q] /\ i # k BY <3>3, <3>4
      <4>2. Orders[q][i] # team /\ Orders[q][i] \in TeamIds
        BY <1>3, <2>4, <3>1, <4>1 DEF Quiet, IsInjective
      <4> HIDE DEF team
      <4> QED BY <2>9, <2>10, <3>2, <4>2 DEF NumberOf
    <3>6. NumberOf(q, k)' = n
      <4>1. team \in teams BY <3>2 DEF KnownOf
      <4> QED BY <2>10, <4>1 DEF NumberOf
    <3>7. rest \subseteq memo[q].left /\ (\A j \in rest : k < j) /\ k \in Nat
      BY <1>3, <2>3, <2>4
    <3>8. \A i \in Written(q) : i \in Nat BY <1>3, <3>4
    <3> HIDE DEF rest, n, team
    <3>9. rest \subseteq KnownOf(q) BY <3>2, <3>7
    <3>10. ASSUME NEW i \in Written(q) \cup {k}
           PROVE  /\ NumberOf(q, i)' < n + 1 /\ \A j \in rest : i < j
                  /\ \A j \in Written(q) \cup {k} : i < j => NumberOf(q, i)' < NumberOf(q, j)'
      <4>1. n \in Nat BY <2>4
      <4>2. CASE i = k BY <3>5, <3>6, <3>7, <3>8, <4>1, <4>2
      <4>3. CASE i \in Written(q) BY <3>2, <3>5, <3>6, <3>7, <4>1, <4>3
      <4> QED BY <4>2, <4>3
    <3> QED BY <3>3, <3>9, <3>10
  <2>14. AskKept(q)' BY <1>2, <2>12, <2>13 DEF AskKept, CanDelete
  <2>15. BotEverywhere' BY <1>2, <2>3, BotStays
  <2> QED BY <2>1, <2>3, <2>6, <2>11, <2>14, <2>15, TeamWrites DEF TeamEnded
<1> QED BY <1>4, <1>5

LEMMA MembersInv ==
  ASSUME TeamsInv, NEW q \in Asks, AddMemberFinds(q) \/ AddMemberSaves(q) \/ RemoveMember(q)
  PROVE  TeamsInv'
<1>1. TeamRequest(q) /\ StoredTyped BY DEF TeamsInv, AskKept, AskOK
<1>2. members \in [TeamIds -> SUBSET (Agents \cup {Bot})] /\ teams \subseteq TeamIds
  BY <1>1 DEF StoredTyped, TeamsTypeOK
<1>3. CASE AddMemberFinds(q)
  BY <1>3, AskFoundInv, AskEndsInv DEF AddMemberFinds, TeamEnded
<1>4. CASE AddMemberSaves(q)
  <2>1. q.op = "join" /\ asks[q] = "found" BY <1>4 DEF AddMemberSaves
  <2>2. CASE q.team \notin teams
    BY <1>4, <2>1, <2>2, AskEndsInv DEF AddMemberSaves, TeamEnded
  <2>3. CASE q.team \in teams
    <3>1. /\ members' = [members EXCEPT ![q.team] = @ \cup {q.on}]
          /\ Turns(q, "done", 0) /\ Races(q) /\ UNCHANGED <<teams, priority, rules, tickets>>
      BY <1>4, <2>3 DEF AddMemberSaves
    <3>2. q.on \in Agents \cup {Bot} BY <1>1, <2>1 DEF TeamRequest
    <3>3. StoredTyped' BY <1>1, <1>2, <2>3, <3>1, <3>2 DEF StoredTyped, TeamsTypeOK
    <3>4. BotEverywhere' BY <1>2, <2>1, <3>1, BotStays
    <3> QED BY <2>1, <3>1, <3>3, <3>4, LastWrite DEF TeamEnded
  <2> QED BY <2>2, <2>3
<1>5. CASE RemoveMember(q)
  <2>1. q.op = "leave" /\ asks[q] = "ready" /\ q.team \in TeamIds
    BY <1>1, <1>5 DEF RemoveMember, TeamRequest
  <2>2. CASE ~MayLeave(q.on) \/ q.on \notin members[q.team]
    BY <1>5, <2>1, <2>2, AskEndsInv DEF RemoveMember, TeamEnded
  <2>3. CASE ~(~MayLeave(q.on) \/ q.on \notin members[q.team])
    <3>1. /\ members' = [members EXCEPT ![q.team] = @ \ {q.on}]
          /\ Turns(q, "done", 0) /\ Races(q) /\ UNCHANGED <<teams, priority, rules, tickets>>
      BY <1>5, <2>3 DEF RemoveMember
    <3>2. StoredTyped' BY <1>1, <1>2, <2>1, <3>1 DEF StoredTyped, TeamsTypeOK
    <3>3. q.on # Bot BY <2>3 DEF MayLeave
    <3>4. BotEverywhere' BY <1>2, <2>1, <3>1, <3>3, BotStays
    <3> QED BY <2>1, <3>1, <3>2, <3>4, LastWrite DEF TeamEnded
  <2> QED BY <2>2, <2>3
<1> QED BY <1>3, <1>4, <1>5

LEMMA RulesWrittenInv ==
  ASSUME TeamsInv, NEW q \in Asks, RuleFinds(q) \/ RuleWrites(q) \/ RuleRemoved(q) PROVE TeamsInv'
<1>1. TeamRequest(q) /\ StoredTyped BY DEF TeamsInv, AskKept, AskOK
<1>2. ASSUME NEW row, rules' = [rules EXCEPT ![q.on] = row], UNCHANGED <<teams, priority, members, tickets>>,
             row \in [team : teams \cup {NoTeam, "absent"}, active : BOOLEAN]
      PROVE  StoredTyped'
  <2>1. rules \in [Rules -> [team : TeamIds \cup {NoTeam, "absent"}, active : BOOLEAN]]
    BY <1>1 DEF StoredTyped
  <2>2. row \in [team : TeamIds \cup {NoTeam, "absent"}, active : BOOLEAN]
        /\ row.team \in teams \cup {NoTeam, "absent"}
    BY <1>1, <1>2 DEF StoredTyped, TeamsTypeOK
  <2>3. \A r \in Rules : rules'[r].team \in teams \cup {NoTeam, "absent"}
    BY <1>1, <1>2, <2>1, <2>2 DEF StoredTyped, TeamsTypeOK
  <2>4. rules' \in [Rules -> [team : TeamIds \cup {NoTeam, "absent"}, active : BOOLEAN]]
    BY <1>2, <2>1, <2>2
  <2> QED BY <1>1, <1>2, <2>3, <2>4 DEF StoredTyped, TeamsTypeOK
<1>3. CASE RuleFinds(q) BY <1>3, AskFoundInv, AskEndsInv DEF RuleFinds, TeamEnded
<1>4. CASE RuleWrites(q)
  <2>1. q.op = "rule" /\ asks[q] = "found" BY <1>4 DEF RuleWrites
  <2>2. CASE q.team \notin teams \cup {NoTeam}
    BY <1>4, <2>1, <2>2, AskEndsInv DEF RuleWrites, TeamEnded
  <2>3. CASE q.team \in teams \cup {NoTeam}
    <3>1. /\ rules' = [rules EXCEPT ![q.on] = [team |-> q.team, active |-> TRUE]]
          /\ Turns(q, "done", 0) /\ Races(q) /\ UNCHANGED <<teams, priority, members, tickets>>
      BY <1>4, <2>3 DEF RuleWrites
    <3>2. StoredTyped' BY <1>2, <2>3, <3>1
    <3>3. BotEverywhere' BY <2>1, <3>1, BotStays
    <3> QED BY <2>1, <3>1, <3>2, <3>3, LastWrite DEF TeamEnded
  <2> QED BY <2>2, <2>3
<1>5. CASE RuleRemoved(q)
  <2>1. q.op = "unrule" /\ asks[q] = "ready" BY <1>5 DEF RuleRemoved
  <2>2. CASE rules[q.on].team = "absent"
    BY <1>5, <2>1, <2>2, AskEndsInv DEF RuleRemoved, TeamEnded
  <2>3. CASE rules[q.on].team # "absent"
    <3>1. /\ rules' = [rules EXCEPT ![q.on] = [team |-> "absent", active |-> FALSE]]
          /\ Turns(q, "done", 0) /\ Races(q) /\ UNCHANGED <<teams, priority, members, tickets>>
      BY <1>5, <2>3 DEF RuleRemoved
    <3>2. StoredTyped' BY <1>2, <3>1
    <3>3. BotEverywhere' BY <2>1, <3>1, BotStays
    <3> QED BY <2>1, <3>1, <3>2, <3>3, LastWrite DEF TeamEnded
  <2> QED BY <2>2, <2>3
<1> QED BY <1>3, <1>4, <1>5

LEMMA TeamsStep ==
  ASSUME TeamsInv, [TeamsNext]_teamVars PROVE TeamsInv'
<1>1. CASE TeamsNext
  BY <1>1, TicketsRoutedInv, CreationInv, RemovalInv, ReorderInv, MembersInv, RulesWrittenInv
     DEF TeamsNext, Asks
<1>2. CASE UNCHANGED teamVars
  <2>1. StoredTyped' BY <1>2 DEF TeamsInv, StoredTyped, TeamsTypeOK, teamVars
  <2>2. \A q \in Asks : AskKept(q)'
    BY <1>2 DEF TeamsInv, AskKept, AskOK, TeamRequest, CanDelete, SortedSoFar, Quiet,
                KnownOf, Written, NumberOf, Asks, teamVars
  <2> QED BY <1>2, <2>1, <2>2 DEF TeamsInv, RemovalStopsOnlyByRace, BotEverywhere, Asks, teamVars
<1> QED BY <1>1, <1>2

LEMMA TeamsBegin ==
  ASSUME NEW there, NEW ruled, NEW comes, TeamRows(there, ruled), \A q \in comes : TeamRequest(q),
         TeamsInit(there, ruled, comes)
  PROVE  TeamsInv
<1>1. StoredTyped
  <2>1. /\ DefaultTeam \in there /\ there \subseteq TeamIds
        /\ \A r \in DOMAIN ruled : ruled[r] \in there \cup {NoTeam}
    BY DEF TeamRows
  <2>2. /\ teams = there /\ priority = [t \in TeamIds |-> 0]
        /\ members = [t \in TeamIds |-> IF t \in there THEN {Bot} ELSE {}]
        /\ tickets = [f \in Facts |-> NoTeam]
    BY DEF TeamsInit
  <2>3. ASSUME NEW r \in Rules
        PROVE  /\ rules[r] \in [team : TeamIds \cup {NoTeam, "absent"}, active : BOOLEAN]
               /\ rules[r].team \in teams \cup {NoTeam, "absent"}
    BY <2>1 DEF TeamsInit
  <2>4. rules \in [Rules -> [team : TeamIds \cup {NoTeam, "absent"}, active : BOOLEAN]]
    BY <2>3 DEF TeamsInit
  <2> QED BY <2>1, <2>2, <2>3, <2>4 DEF StoredTyped, TeamsTypeOK
<1>2. Asks = comes /\ DOMAIN memo = Asks /\ raced = {} /\ \A q \in Asks : asks[q] = "ready"
  BY DEF TeamsInit, Asks
<1>3. \A q \in Asks : AskKept(q)
  BY <1>2 DEF AskKept, AskOK, AskPhases, CanDelete, SortedSoFar
<1>4. BotEverywhere BY DEF TeamsInit, TeamRows, BotEverywhere
<1>5. RemovalStopsOnlyByRace BY <1>2 DEF RemovalStopsOnlyByRace, Asks
<1> QED BY <1>1, <1>2, <1>3, <1>4, <1>5 DEF TeamsInv

LEMMA TeamsFine ==
  ASSUME TeamsInv PROVE TeamsTypeOK /\ RemovalStopsOnlyByRace /\ BotEverywhere /\ ReorderKept
<1>1. ReorderKept
  <2> SUFFICES ASSUME NEW q \in DOMAIN asks,
                      q.op = "reorder" /\ asks[q] = "done" /\ Settled /\ q \notin raced,
                      IsInjective(Orders[q]),
                      \A p \in DOMAIN asks \ {q} : /\ asks[p] # "done"
                                                   /\ p.op = "create" => asks[p] # "failed",
                      NEW i \in DOMAIN Orders[q], NEW j \in DOMAIN Orders[q],
                      i < j, {Orders[q][i], Orders[q][j]} \subseteq teams
               PROVE  priority[Orders[q][i]] < priority[Orders[q][j]]
    BY DEF ReorderKept
  <2>1. \A p \in DOMAIN asks : asks[p] \notin {"created", "sorting"}
    BY DEF Settled, Pending, TeamEnded
  <2>2. Quiet(q) BY <2>1 DEF Quiet, Asks
  <2>3. SortedSoFar(q) BY DEF TeamsInv, AskKept, Asks
  <2>4. i \in Written(q) /\ j \in Written(q) BY <2>2, <2>3 DEF SortedSoFar, Written, KnownOf
  <2> QED BY <2>2, <2>3, <2>4 DEF SortedSoFar, NumberOf
<1> QED BY <1>1 DEF TeamsInv, StoredTyped
----------------------------------------------------------------------------
(***************************************************************************)
(* Mailbox access. Whatever is in a cache, a refresh or a caller's hands   *)
(* was a grant of its own channel, and grants are counted by the round     *)
(* trips that are over.                                                    *)
(***************************************************************************)
ConsentPhases == {"none", "asked", "lapsed", "exchanging", "saved", "refused"}
TripsOver == {c \in Consents : consent[c] \in {"saved", "refused"}}

OwnGrants(ch) ==
  /\ was[ch] \subseteq 1..grants
  /\ grant[ch] \in was[ch] \cup {NoGrant} /\ entry[ch] \in was[ch] \cup {NoGrant}
  /\ \A call1 \in calls[ch] : call1[2] \in was[ch] /\ \A call2 \in calls[ch] : call1 = call2
GetterOK(g) ==
  /\ getter[g] \in [phase : {"idle", "row", "waiting", "got", "failed"}, knows : Nat, token : Nat]
  /\ getter[g].phase # "idle" => getter[g].knows \in was[g[2]]
  /\ getter[g].phase = "got" => getter[g].token \in was[g[2]]

MailInv ==
  /\ grants \in Nat /\ grants <= Cardinality(TripsOver) /\ revoked \subseteq 1..grants
  /\ consent \in [Consents -> ConsentPhases]
  /\ grant \in [Channels -> Nat] /\ entry \in [Channels -> Nat] /\ DOMAIN was = Channels
  /\ DOMAIN calls = Channels /\ DOMAIN getter = Getters
  /\ \A ch \in Channels : OwnGrants(ch)
  /\ \A g \in Getters : GetterOK(g)
----------------------------------------------------------------------------
LEMMA MailKeeps ==
  ASSUME MailInv, UNCHANGED <<grant, was, entry, calls, grants>>
  PROVE  \A ch \in Channels : OwnGrants(ch)'
BY DEF MailInv, OwnGrants

LEMMA CallersKeep ==
  ASSUME MailInv, UNCHANGED getter, \A ch \in Channels : was[ch] \subseteq was'[ch]
  PROVE  \A g \in Getters : GetterOK(g)'
<1> SUFFICES ASSUME NEW g \in Getters PROVE GetterOK(g)' OBVIOUS
<1>1. GetterOK(g) /\ g[2] \in Channels BY MailAssumption DEF MailInv
<1> QED BY <1>1 DEF GetterOK

(* A round trip goes on; once over it stays so.                            *)
LEMMA TripGoesOn ==
  ASSUME MailInv, NEW c \in Consents, consent[c] \notin {"saved", "refused"},
         NEW phase \in ConsentPhases, consent' = [consent EXCEPT ![c] = phase],
         UNCHANGED <<grant, was, grants, revoked, entry, calls, getter>>
  PROVE  MailInv'
<1>1. consent' \in [Consents -> ConsentPhases] BY DEF MailInv
<1>2. TripsOver \subseteq TripsOver' BY DEF MailInv, TripsOver
<1>3. IsFiniteSet(TripsOver') BY MailAssumption, FS_Subset DEF TripsOver
<1>4. /\ Cardinality(TripsOver) <= Cardinality(TripsOver')
      /\ Cardinality(TripsOver) \in Nat /\ Cardinality(TripsOver') \in Nat
  BY <1>2, <1>3, FS_Subset, FS_CardinalityType
<1>5. \A ch \in Channels : OwnGrants(ch)' BY MailKeeps
<1>6. \A g \in Getters : GetterOK(g)' BY CallersKeep
<1>7. grants <= Cardinality(TripsOver') BY <1>4 DEF MailInv
<1> QED BY <1>1, <1>5, <1>6, <1>7 DEF MailInv

LEMMA SavesInv ==
  ASSUME MailInv, NEW c \in Consents, Saves(c) PROVE MailInv'
<1> DEFINE n == grants + 1
           ch == c[2]
           stored1 == ch \notin gone
<1>1. /\ consent[c] = "exchanging" /\ grants' = n /\ UNCHANGED <<revoked, entry, calls, getter>>
      /\ ~stored1 => consent' = [consent EXCEPT ![c] = "refused"] /\ UNCHANGED <<grant, was>>
      /\ stored1 => /\ grant' = [grant EXCEPT ![ch] = n]
                    /\ was' = [was EXCEPT ![ch] = @ \cup {n}]
                    /\ consent' = [consent EXCEPT ![c] = "saved"]
  BY DEF Saves, MailInv, ConsentPhases
<1>2. /\ ch \in Channels /\ grants \in Nat /\ consent \in [Consents -> ConsentPhases]
      /\ grants <= Cardinality(TripsOver)
  BY MailAssumption DEF MailInv
<1>3. /\ consent' \in [Consents -> ConsentPhases] /\ consent'[c] \in {"saved", "refused"}
      /\ \A d \in Consents \ {c} : consent'[d] = consent[d]
  BY <1>1, <1>2 DEF ConsentPhases
<1>4. grants' <= Cardinality(TripsOver')
  <2>1. TripsOver' = TripsOver \cup {c} /\ c \notin TripsOver BY <1>1, <1>3 DEF TripsOver
  <2>2. IsFiniteSet(TripsOver) BY MailAssumption, FS_Subset DEF TripsOver
  <2>3. Cardinality(TripsOver') = Cardinality(TripsOver) + 1 /\ Cardinality(TripsOver) \in Nat
    BY <2>1, <2>2, FS_AddElement, FS_CardinalityType
  <2> QED BY <1>1, <1>2, <2>3
<1>5. \A h \in Channels : was[h] \subseteq was'[h] /\ was'[h] \subseteq was[h] \cup {n}
  BY <1>1 DEF MailInv
<1>6. \A h \in Channels : OwnGrants(h)'
  <2> SUFFICES ASSUME NEW h \in Channels PROVE OwnGrants(h)' OBVIOUS
  <2>1. OwnGrants(h) /\ grant \in [Channels -> Nat] /\ DOMAIN was = Channels BY DEF MailInv
  <2>2. was'[h] \subseteq 1..grants' BY <1>1, <1>2, <1>5, <2>1 DEF OwnGrants
  <2>3. grant'[h] \in was'[h] \cup {NoGrant}
    <3>1. CASE stored1 /\ h = ch BY <1>1, <1>2, <2>1, <3>1
    <3>2. CASE ~(stored1 /\ h = ch)
      <4>1. grant'[h] = grant[h] BY <1>1, <2>1, <3>2
      <4> QED BY <1>5, <2>1, <4>1 DEF OwnGrants
    <3> QED BY <3>1, <3>2
  <2> QED BY <1>1, <1>5, <2>1, <2>2, <2>3 DEF OwnGrants
<1>7. \A g \in Getters : GetterOK(g)' BY <1>1, <1>5, CallersKeep
<1>8. grants' \in Nat /\ revoked' \subseteq 1..grants' BY <1>1, <1>2 DEF MailInv
<1>9. grant' \in [Channels -> Nat] /\ DOMAIN was' = Channels BY <1>1, <1>2 DEF MailInv
<1> QED BY <1>1, <1>3, <1>4, <1>6, <1>7, <1>8, <1>9 DEF MailInv

LEMMA OpensRowInv ==
  ASSUME MailInv, NEW g \in Getters, OpensRow(g) PROVE MailInv'
<1> DEFINE n == grant[g[2]]
<1>1. /\ n # NoGrant /\ getter' = [getter EXCEPT ![g].phase = "row", ![g].knows = n]
      /\ UNCHANGED <<grant, was, grants, revoked, consent, entry, calls>>
      /\ getter[g].phase = "idle"
  BY DEF OpensRow
<1>2. g[2] \in Channels BY MailAssumption
<1>3. n \in was[g[2]] /\ n \in Nat
  <2>1. OwnGrants(g[2]) /\ grants \in Nat BY <1>2 DEF MailInv
  <2> QED BY <1>1, <2>1 DEF OwnGrants
<1>4. GetterOK(g)'
  <2>1. getter[g] \in [phase : {"idle", "row", "waiting", "got", "failed"}, knows : Nat, token : Nat]
    BY DEF MailInv, GetterOK
  <2>2. getter'[g] = [getter[g] EXCEPT !.phase = "row", !.knows = n] BY <1>1 DEF MailInv
  <2> HIDE DEF n
  <2>3. /\ getter'[g] \in [phase : {"idle", "row", "waiting", "got", "failed"}, knows : Nat, token : Nat]
        /\ getter'[g].phase = "row" /\ getter'[g].knows = n
    BY <1>3, <2>1, <2>2
  <2> QED BY <1>1, <1>3, <2>3 DEF GetterOK
<1>5. \A h \in Getters \ {g} : GetterOK(h)' BY <1>1 DEF MailInv, GetterOK
<1>6. \A ch \in Channels : OwnGrants(ch)' BY <1>1, MailKeeps
<1>7. TripsOver' = TripsOver BY <1>1 DEF TripsOver
<1> QED BY <1>1, <1>4, <1>5, <1>6, <1>7 DEF MailInv

(* A caller takes what its own channel's cache has, or joins or begins the *)
(* one refresh of its channel.                                             *)
LEMMA GetsInv ==
  ASSUME MailInv, NEW g \in Getters, Gets(g) PROVE MailInv'
<1> DEFINE ch == g[2]
           cell == getter[g]
<1>1. ch \in Channels BY MailAssumption
<1>2. /\ OwnGrants(ch) /\ GetterOK(g) /\ grants \in Nat /\ cell.phase = "row"
      /\ cell \in [phase : {"idle", "row", "waiting", "got", "failed"}, knows : Nat, token : Nat]
      /\ cell.knows \in was[ch]
  BY <1>1 DEF MailInv, GetterOK, Gets
<1>3. UNCHANGED <<grant, was, grants, revoked, consent, entry>> BY DEF Gets
<1>4. TripsOver' = TripsOver BY <1>3 DEF TripsOver
<1>5. CASE entry[ch] # NoGrant
  <2>1. getter' = [getter EXCEPT ![g].phase = "got", ![g].token = entry[ch]] /\ calls' = calls
    BY <1>5 DEF Gets, Cached
  <2>2. entry[ch] \in was[ch] /\ entry[ch] \in Nat BY <1>2, <1>5 DEF OwnGrants
  <2>3. getter'[g] = [cell EXCEPT !.phase = "got", !.token = entry[ch]] BY <2>1 DEF MailInv
  <2>4. GetterOK(g)'
    <3> HIDE DEF cell, ch
    <3>1. /\ getter'[g] \in [phase : {"idle", "row", "waiting", "got", "failed"}, knows : Nat, token : Nat]
          /\ getter'[g].phase = "got" /\ getter'[g].knows = cell.knows /\ getter'[g].token = entry[ch]
      BY <1>2, <2>2, <2>3
    <3> QED BY <1>2, <1>3, <2>2, <3>1 DEF GetterOK, ch
  <2>5. \A h \in Getters \ {g} : GetterOK(h)' BY <1>3, <2>1 DEF MailInv, GetterOK
  <2>6. \A h \in Channels : OwnGrants(h)' BY <1>3, <2>1, MailKeeps
  <2>7. DOMAIN getter' = Getters BY <2>1 DEF MailInv
  <2> QED BY <1>3, <1>4, <2>1, <2>4, <2>5, <2>6, <2>7 DEF MailInv
<1>6. CASE entry[ch] = NoGrant
  <2>1. /\ getter' = [getter EXCEPT ![g].phase = "waiting"]
        /\ calls' = IF Joins(ch) THEN calls ELSE [calls EXCEPT ![ch] = @ \cup {<<g, cell.knows>>}]
    BY <1>6 DEF Gets, Cached
  <2>2. getter'[g] = [cell EXCEPT !.phase = "waiting"] BY <2>1 DEF MailInv
  <2>3. GetterOK(g)'
    <3> HIDE DEF cell, ch
    <3>1. /\ getter'[g] \in [phase : {"idle", "row", "waiting", "got", "failed"}, knows : Nat, token : Nat]
          /\ getter'[g].phase = "waiting" /\ getter'[g].knows = cell.knows
      BY <1>2, <2>2
    <3> QED BY <1>2, <1>3, <3>1 DEF GetterOK, ch
  <2>4. \A h \in Getters \ {g} : GetterOK(h)' BY <1>3, <2>1 DEF MailInv, GetterOK
  <2>5. ASSUME NEW h \in Channels PROVE OwnGrants(h)'
    <3>1. OwnGrants(h) /\ DOMAIN calls = Channels BY DEF MailInv
    <3>2. CASE Joins(ch) \/ h # ch
      <4>1. calls'[h] = calls[h] BY <2>1, <3>1, <3>2
      <4> QED BY <1>3, <3>1, <4>1 DEF OwnGrants
    <3>3. CASE ~(Joins(ch) \/ h # ch)
      <4>1. calls'[h] = {<<g, cell.knows>>} BY <1>1, <2>1, <3>1, <3>3 DEF Joins
      <4> HIDE DEF cell
      <4> QED BY <1>2, <1>3, <3>1, <3>3, <4>1 DEF OwnGrants
    <3> QED BY <3>2, <3>3
  <2>6. DOMAIN getter' = Getters /\ DOMAIN calls' = Channels BY <2>1 DEF MailInv
  <2> QED BY <1>3, <1>4, <2>3, <2>4, <2>5, <2>6 DEF MailInv
<1> QED BY <1>5, <1>6

(* The answer of a refresh goes to the callers of its channel and into its *)
(* entry.                                                                  *)
LEMMA RefreshAnswersInv ==
  ASSUME MailInv, NEW ch \in Channels, RefreshAnswers(ch) PROVE MailInv'
<1>0. PICK cl \in calls[ch] :
      LET ok == cl[2] \notin revoked IN
      /\ calls' = [calls EXCEPT ![ch] = @ \ {cl}]
      /\ entry' = IF ok THEN [entry EXCEPT ![ch] = cl[2]] ELSE entry
      /\ getter' = [g \in Getters |->
                      IF g \notin Waiting(ch, cl) THEN getter[g]
                      ELSE IF ok THEN [getter[g] EXCEPT !.phase = "got", !.token = cl[2]]
                      ELSE [getter[g] EXCEPT !.phase = "failed"]]
      /\ UNCHANGED <<grant, was, grants, revoked, consent>>
  BY DEF RefreshAnswers
<1> DEFINE n == cl[2]
<1>1. OwnGrants(ch) /\ grants \in Nat BY DEF MailInv
<1>2. n \in was[ch] /\ n \in Nat
  <2>1. n \in was[ch] /\ was[ch] \subseteq 1..grants BY <1>1 DEF OwnGrants
  <2> HIDE DEF n
  <2> QED BY <1>1, <2>1
<1>3. UNCHANGED <<grant, was, grants, revoked, consent>> BY <1>0
<1>4. TripsOver' = TripsOver BY <1>3 DEF TripsOver
<1>5. ASSUME NEW h \in Channels PROVE OwnGrants(h)'
  <2>1. OwnGrants(h) /\ DOMAIN calls = Channels /\ entry \in [Channels -> Nat] BY DEF MailInv
  <2>2. calls'[h] \subseteq calls[h] BY <1>0, <2>1
  <2>3. entry'[h] \in {entry[h]} \cup (IF h = ch THEN {n} ELSE {}) BY <1>0, <2>1
  <2>4. entry'[h] \in was[h] \cup {NoGrant} BY <1>2, <2>1, <2>3 DEF OwnGrants
  <2> QED BY <1>3, <2>1, <2>2, <2>4 DEF OwnGrants
<1>6. ASSUME NEW g \in Getters PROVE GetterOK(g)'
  <2>1. GetterOK(g) BY DEF MailInv
  <2>2. getter[g] \in [phase : {"idle", "row", "waiting", "got", "failed"}, knows : Nat, token : Nat]
    BY <2>1 DEF GetterOK
  <2>3. CASE g \notin Waiting(ch, cl)
    <3>1. getter'[g] = getter[g] BY <1>0, <2>3
    <3> QED BY <1>3, <2>1, <3>1 DEF GetterOK
  <2>4. CASE g \in Waiting(ch, cl)
    <3>1. g[2] = ch /\ getter[g].phase = "waiting" BY <2>4 DEF Waiting
    <3>2. getter'[g] \in {[getter[g] EXCEPT !.phase = "got", !.token = n], [getter[g] EXCEPT !.phase = "failed"]}
      BY <1>0, <2>4
    <3> HIDE DEF n
    <3>3. /\ getter'[g] \in [phase : {"idle", "row", "waiting", "got", "failed"}, knows : Nat, token : Nat]
          /\ getter'[g].knows = getter[g].knows
          /\ getter'[g].phase = "got" => getter'[g].token = n
      BY <1>2, <2>2, <3>2
    <3> QED BY <1>2, <1>3, <2>1, <3>1, <3>3 DEF GetterOK
  <2> QED BY <2>3, <2>4
<1>7. /\ DOMAIN calls' = Channels /\ DOMAIN getter' = Getters
      /\ entry' \in [Channels -> Nat]
  <2>1. DOMAIN calls = Channels /\ entry \in [Channels -> Nat] BY DEF MailInv
  <2> HIDE DEF n
  <2>2. entry' \in {entry, [entry EXCEPT ![ch] = n]} BY <1>0 DEF n
  <2> QED BY <1>0, <1>2, <2>1, <2>2
<1> QED BY <1>3, <1>4, <1>5, <1>6, <1>7 DEF MailInv

LEMMA MailStep ==
  ASSUME MailInv, [MailNext]_mailVars PROVE MailInv'
<1>1. ASSUME NEW c \in Consents, Authorize(c) PROVE MailInv'
  BY <1>1, TripGoesOn DEF Authorize, ConsentPhases
<1>2. ASSUME NEW c \in Consents, StateLapses(c) PROVE MailInv'
  BY <1>2, TripGoesOn DEF StateLapses, ConsentPhases
<1>3. ASSUME NEW c \in Consents, Callback(c) PROVE MailInv'
  <2> DEFINE phase == IF consent[c] = "asked" THEN "exchanging" ELSE "refused"
  <2>1. /\ consent[c] \in {"asked", "lapsed"} /\ consent' = [consent EXCEPT ![c] = phase]
        /\ UNCHANGED <<grant, was, grants, revoked, entry, calls, getter>>
    BY <1>3 DEF Callback, Decodes, MailInv
  <2>2. phase \in ConsentPhases BY DEF ConsentPhases
  <2> HIDE DEF phase
  <2> QED BY <2>1, <2>2, TripGoesOn
<1>4. ASSUME NEW c \in Consents, ExchangeFails(c) PROVE MailInv'
  BY <1>4, TripGoesOn DEF ExchangeFails, ConsentPhases
<1>5. ASSUME NEW ch \in Channels, ChannelRemoved(ch) PROVE MailInv'
  BY <1>5 DEF ChannelRemoved, MailInv, OwnGrants, GetterOK, TripsOver
<1>6. ASSUME NEW ch \in Channels, Dropped(ch) PROVE MailInv'
  <2>1. /\ entry' = [entry EXCEPT ![ch] = NoGrant]
        /\ UNCHANGED <<grant, was, grants, revoked, consent, calls, getter>>
    BY <1>6 DEF Dropped
  <2>2. \A h \in Channels : OwnGrants(h)' BY <2>1 DEF MailInv, OwnGrants
  <2>3. \A g \in Getters : GetterOK(g)' BY <2>1 DEF MailInv, GetterOK
  <2>4. entry' \in [Channels -> Nat] BY <2>1 DEF MailInv, NoGrant
  <2> QED BY <2>1, <2>2, <2>3, <2>4 DEF MailInv, TripsOver
<1>7. ASSUME NEW n, Revoked(n) PROVE MailInv'
  BY <1>7 DEF Revoked, MailInv, OwnGrants, GetterOK, TripsOver
<1>8. CASE UNCHANGED mailVars
  BY <1>8 DEF mailVars, MailInv, OwnGrants, GetterOK, TripsOver
<1> QED BY <1>1, <1>2, <1>3, <1>4, <1>5, <1>6, <1>7, <1>8, SavesInv, OpensRowInv, GetsInv, RefreshAnswersInv
        DEF MailNext, GetterMoves

LEMMA MailBegin == ASSUME NEW comes, MailInit(comes) PROVE MailInv
<1>1. grants <= Cardinality(TripsOver)
  <2>1. IsFiniteSet(TripsOver) BY MailAssumption, FS_Subset DEF TripsOver
  <2>2. Cardinality(TripsOver) \in Nat BY <2>1, FS_CardinalityType
  <2> QED BY <2>2 DEF MailInit
<1>2. \A ch \in Channels : OwnGrants(ch) BY DEF MailInit, OwnGrants
<1>3. \A g \in Getters : GetterOK(g) BY DEF MailInit, GetterOK, Idle, NoGrant
<1>4. grant \in [Channels -> Nat] /\ entry \in [Channels -> Nat] BY DEF MailInit, NoGrant
<1>5. consent \in [Consents -> ConsentPhases] BY DEF MailInit, ConsentPhases
<1> QED BY <1>1, <1>2, <1>3, <1>4, <1>5 DEF MailInit, MailInv

LEMMA MailFine ==
  ASSUME MailInv
  PROVE  MailTypeOK /\ OneRefreshPerChannel /\ TokenOfItsChannel /\ ConnectedInTime
<1>1. MailTypeOK
  <2>1. IsFiniteSet(Consents) /\ TripsOver \subseteq Consents BY MailAssumption DEF TripsOver
  <2>2. Cardinality(TripsOver) <= Cardinality(Consents) /\ Cardinality(TripsOver) \in Nat
        /\ Cardinality(Consents) \in Nat
    BY <2>1, FS_Subset, FS_CardinalityType
  <2>3. grants \in 0..Cardinality(Consents) BY <2>2 DEF MailInv
  <2>4. grant \in [Channels -> 0..grants] /\ entry \in [Channels -> 0..grants]
    <3>1. \A ch \in Channels : grant[ch] \in 0..grants /\ entry[ch] \in 0..grants
      BY DEF MailInv, OwnGrants, NoGrant
    <3> QED BY <3>1 DEF MailInv
  <2>5. \A g \in Getters : getter[g].phase \in {"idle", "row", "waiting", "got", "failed"}
    BY DEF MailInv, GetterOK
  <2> QED BY <2>3, <2>4, <2>5 DEF MailTypeOK, MailInv
<1>2. OneRefreshPerChannel
  <2> SUFFICES ASSUME NEW ch \in Channels PROVE Cardinality(calls[ch]) <= 1
    BY DEF OneRefreshPerChannel
  <2>1. CASE calls[ch] = {}
    <3>1. Cardinality({}) = 0 BY FS_EmptySet
    <3> QED BY <2>1, <3>1
  <2>2. CASE calls[ch] # {}
    <3>1. PICK cl \in calls[ch] : TRUE BY <2>2
    <3>2. calls[ch] = {cl} BY <3>1 DEF MailInv, OwnGrants
    <3>3. Cardinality({cl}) = 1 BY FS_Singleton
    <3> QED BY <3>2, <3>3
  <2> QED BY <2>1, <2>2
<1>3. TokenOfItsChannel BY DEF TokenOfItsChannel, MailInv, GetterOK
<1>4. ConnectedInTime BY DEF ConnectedInTime, MailInv, ConsentPhases
<1> QED BY <1>1, <1>2, <1>3, <1>4
----------------------------------------------------------------------------
(***************************************************************************)
(* Settings. While no secret was overwritten, whoever has one in hand has  *)
(* the one stored.                                                         *)
(***************************************************************************)
RowsTyped ==
  /\ DOMAIN rows = SettingKeys
  /\ \A k \in {"email", "whatsapp", "legacy"} : rows[k] \in Nat \cup {Unset}
  /\ rows["requireTag"] \in BOOLEAN \cup {Unset}

CallOK(q) ==
  /\ SettingRequest(q) /\ shown[q] \in Nat
  /\ call[q] = "making" => q.op \in {"show", "post"} /\ shown[q] \in 1..secrets
  /\ q.op = "general" /\ call[q] = "writing" => shown[q] < Cardinality(DOMAIN q.writes)
  /\ q.op = "show" /\ call[q] = "has" /\ replaced = {} => secret = shown[q] /\ secret # 0

SettingsInv ==
  /\ RowsTyped /\ secrets \in Nat /\ secret \in 0..secrets /\ replaced \subseteq 1..secrets
  /\ DOMAIN shown = DOMAIN call /\ \A q \in DOMAIN call : CallOK(q)
----------------------------------------------------------------------------
LEMMA OnStep ==
  ASSUME SettingsInv, NEW q \in DOMAIN call, NEW phase, NEW s, On(q, phase, s)
  PROVE  /\ DOMAIN call' = DOMAIN call /\ DOMAIN shown' = DOMAIN call
         /\ call'[q] = phase /\ shown'[q] = s
         /\ \A p \in DOMAIN call \ {q} : call'[p] = call[p] /\ shown'[p] = shown[p]
BY DEF On, SettingsInv

(* A request that moves on and overwrites no secret.                       *)
LEMMA SettingMoves ==
  ASSUME SettingsInv, NEW q \in DOMAIN call, NEW phase, NEW s, On(q, phase, s), RowsTyped',
         secrets' \in Nat, secrets <= secrets', UNCHANGED <<secret, replaced>>, CallOK(q)'
  PROVE  SettingsInv'
<1>1. /\ DOMAIN call' = DOMAIN call /\ DOMAIN shown' = DOMAIN call
      /\ \A p \in DOMAIN call \ {q} : call'[p] = call[p] /\ shown'[p] = shown[p]
  BY OnStep
<1>2. ASSUME NEW p \in DOMAIN call \ {q} PROVE CallOK(p)'
  <2>1. CallOK(p) /\ secrets \in Nat BY DEF SettingsInv
  <2>2. call[p] = "making" => shown[p] \in 1..secrets' BY <2>1 DEF CallOK
  <2> QED BY <1>1, <2>1, <2>2 DEF CallOK
<1>3. secret' \in 0..secrets' /\ replaced' \subseteq 1..secrets' BY DEF SettingsInv
<1> QED BY <1>1, <1>2, <1>3 DEF SettingsInv

(* A request that stores the secret it has: the one it overwrites is known.*)
LEMMA SecretStored ==
  ASSUME SettingsInv, NEW q \in DOMAIN call, NEW s, On(q, "has", s), Upserts(s),
         q.op # "general", secrets' \in Nat, secrets <= secrets', s \in 1..secrets',
         UNCHANGED rows
  PROVE  SettingsInv'
<1>1. /\ DOMAIN call' = DOMAIN call /\ DOMAIN shown' = DOMAIN call
      /\ call'[q] = "has" /\ shown'[q] = s
      /\ \A p \in DOMAIN call \ {q} : call'[p] = call[p] /\ shown'[p] = shown[p]
  BY OnStep
<1>2. secret' = s /\ replaced' = IF secret = 0 THEN replaced ELSE replaced \cup {secret}
  BY DEF Upserts
<1>3. RowsTyped /\ secrets \in Nat /\ secret \in 0..secrets /\ replaced \subseteq 1..secrets
  BY DEF SettingsInv
<1>4. s # 0 BY <1>3
<1>5. CallOK(q)'
  <2>1. SettingRequest(q) BY DEF SettingsInv, CallOK
  <2>2. s \in Nat BY <1>3
  <2> QED BY <1>1, <1>2, <1>4, <2>1, <2>2 DEF CallOK, SettingRequest
<1>6. ASSUME NEW p \in DOMAIN call \ {q} PROVE CallOK(p)'
  <2>1. CallOK(p) BY DEF SettingsInv
  <2>2. call[p] = "making" => shown[p] \in 1..secrets' BY <1>3, <2>1 DEF CallOK
  <2>3. replaced' = {} => secret = 0 /\ replaced = {} BY <1>2
  <2> QED BY <1>1, <2>1, <2>2, <2>3 DEF CallOK, SettingRequest
<1>7. secret' \in 0..secrets' /\ replaced' \subseteq 1..secrets' BY <1>2, <1>3
<1>8. RowsTyped' BY <1>3 DEF RowsTyped
<1> QED BY <1>1, <1>5, <1>6, <1>7, <1>8 DEF SettingsInv

LEMMA GeneralWritesInv ==
  ASSUME SettingsInv, NEW q \in DOMAIN call, GeneralWrites(q) PROVE SettingsInv'
<1> DEFINE k == IF call[q] = "ready" THEN 1 ELSE shown[q] + 1
           n == Cardinality(DOMAIN q.writes)
           w == q.writes[k]
           phase == IF k = n THEN "has" ELSE "writing"
<1>1. /\ q.op = "general" /\ call[q] \in {"ready", "writing"} /\ q.writes # <<>>
      /\ rows' = [rows EXCEPT ![w[1]] = w[2]] /\ On(q, phase, k)
      /\ UNCHANGED <<secret, secrets, replaced>>
  BY DEF GeneralWrites
<1>2. CallOK(q) /\ RowsTyped /\ secrets \in Nat BY DEF SettingsInv
<1>3. q.writes \in Seq((({"email", "whatsapp"} \X Nat) \cup ({"requireTag"} \X BOOLEAN)))
  BY <1>1, <1>2 DEF CallOK, SettingRequest
<1>4. DOMAIN q.writes = 1..Len(q.writes) /\ Len(q.writes) \in Nat /\ Len(q.writes) > 0
  BY <1>1, <1>3, EmptySeq, LenProperties
<1>5. n = Len(q.writes)
  <2>1. Cardinality(1..Len(q.writes)) = Len(q.writes) BY <1>4, FS_Interval
  <2> QED BY <1>4, <2>1
<1>6. k \in 1..n
  <2>1. shown[q] \in Nat /\ (call[q] = "writing" => shown[q] < n)
    BY <1>1, <1>2 DEF CallOK
  <2> HIDE DEF n
  <2> QED BY <1>1, <1>4, <1>5, <2>1
<1>7. w \in ({"email", "whatsapp"} \X Nat) \cup ({"requireTag"} \X BOOLEAN)
  <2> HIDE DEF k, n
  <2> QED BY <1>3, <1>4, <1>5, <1>6, ElementOfSeq
<1> HIDE DEF w, k
<1>8. RowsTyped'
  <2>1. CASE w \in {"email", "whatsapp"} \X Nat BY <1>1, <1>2, <2>1 DEF RowsTyped, SettingKeys
  <2>2. CASE w \in {"requireTag"} \X BOOLEAN
    <3>1. w[1] = "requireTag" /\ w[2] \in BOOLEAN BY <2>2
    <3>2. rows' = [rows EXCEPT !["requireTag"] = w[2]] BY <1>1, <3>1
    <3>3. DOMAIN rows' = SettingKeys /\ rows'["requireTag"] = w[2]
          /\ \A j \in {"email", "whatsapp", "legacy"} : rows'[j] = rows[j]
      BY <1>2, <3>2 DEF RowsTyped, SettingKeys
    <3> QED BY <1>2, <3>1, <3>3 DEF RowsTyped
  <2> QED BY <1>7, <2>1, <2>2
<1>9. CallOK(q)'
  <2>1. call'[q] = phase /\ shown'[q] = k BY <1>1, OnStep
  <2>2. k \in Nat /\ (phase = "writing" => k < n) BY <1>4, <1>5, <1>6
  <2>3. phase \in {"has", "writing"} OBVIOUS
  <2> HIDE DEF n, phase
  <2>4. phase = "writing" => k < Cardinality(DOMAIN q.writes) BY <2>2 DEF n
  <2> QED BY <1>1, <1>2, <2>1, <2>2, <2>3, <2>4 DEF CallOK, SettingRequest
<1> QED BY <1>1, <1>2, <1>8, <1>9, SettingMoves

LEMMA SettingsStep ==
  ASSUME SettingsInv, [SettingsNext]_settingVars PROVE SettingsInv'
<1>1. RowsTyped /\ secrets \in Nat /\ secret \in 0..secrets /\ replaced \subseteq 1..secrets
      /\ \A q \in DOMAIN call : CallOK(q)
  BY DEF SettingsInv
<1>2. ASSUME NEW q \in DOMAIN call, SecretReads(q) PROVE SettingsInv'
  <2>1. CASE secret # 0
    <3>1. On(q, "has", secret) /\ UNCHANGED <<rows, secret, secrets, replaced>>
      BY <1>2, <2>1 DEF SecretReads, Stays
    <3>2. CallOK(q)'
      <4>1. call'[q] = "has" /\ shown'[q] = secret BY <3>1, OnStep
      <4> QED BY <1>1, <2>1, <3>1, <4>1 DEF CallOK, SettingRequest
    <3>3. RowsTyped' BY <1>1, <3>1 DEF RowsTyped
    <3> QED BY <1>1, <3>1, <3>2, <3>3, SettingMoves
  <2>2. CASE secret = 0
    <3>1. /\ q.op \in {"show", "post"} /\ secrets' = secrets + 1 /\ On(q, "making", secrets + 1)
          /\ UNCHANGED <<rows, secret, replaced>>
      BY <1>2, <2>2 DEF SecretReads
    <3>2. CallOK(q)'
      <4>1. call'[q] = "making" /\ shown'[q] = secrets + 1 BY <3>1, OnStep
      <4>2. secrets + 1 \in Nat /\ secrets + 1 \in 1..secrets' BY <1>1, <3>1
      <4> QED BY <1>1, <3>1, <4>1, <4>2 DEF CallOK, SettingRequest
    <3>3. RowsTyped' BY <1>1, <3>1 DEF RowsTyped
    <3> QED BY <1>1, <3>1, <3>2, <3>3, SettingMoves
  <2> QED BY <2>1, <2>2
<1>3. ASSUME NEW q \in DOMAIN call, SecretWrites(q) PROVE SettingsInv'
  <2>1. /\ call[q] = "making" /\ Upserts(shown[q]) /\ On(q, "has", shown[q])
        /\ UNCHANGED <<rows, secrets>>
    BY <1>3 DEF SecretWrites
  <2>2. shown[q] \in 1..secrets /\ q.op # "general" BY <1>1, <2>1 DEF CallOK
  <2> QED BY <1>1, <2>1, <2>2, SecretStored
<1>4. ASSUME NEW q \in DOMAIN call, SecretRotates(q) PROVE SettingsInv'
  <2>1. /\ q.op = "rotate" /\ secrets' = secrets + 1 /\ Upserts(secrets + 1)
        /\ On(q, "has", secrets + 1) /\ UNCHANGED rows
    BY <1>4 DEF SecretRotates
  <2>2. secrets' \in Nat /\ secrets <= secrets' /\ secrets + 1 \in 1..secrets'
    BY <1>1, <2>1
  <2> QED BY <2>1, <2>2, SecretStored
<1>5. ASSUME NEW q \in DOMAIN call, EventPosted(q) PROVE SettingsInv'
  <2> DEFINE phase == IF q.secret = shown[q] THEN "emitted" ELSE "unauthorized"
  <2>1. q.op = "post" /\ On(q, phase, shown[q]) /\ UNCHANGED <<rows, secret, secrets, replaced>>
    BY <1>5 DEF EventPosted, Stays
  <2>2. CallOK(q)'
    <3>1. call'[q] = phase /\ shown'[q] = shown[q] BY <2>1, OnStep
    <3>2. phase \in {"emitted", "unauthorized"} OBVIOUS
    <3> HIDE DEF phase
    <3> QED BY <1>1, <2>1, <3>1, <3>2 DEF CallOK, SettingRequest
  <2>3. RowsTyped' BY <1>1, <2>1 DEF RowsTyped
  <2> QED BY <1>1, <2>1, <2>2, <2>3, SettingMoves
<1>6. CASE UNCHANGED settingVars
  BY <1>6 DEF settingVars, SettingsInv, RowsTyped, CallOK, SettingRequest
<1> QED BY <1>2, <1>3, <1>4, <1>5, <1>6, GeneralWritesInv DEF SettingsNext

LEMMA SettingsBegin ==
  ASSUME NEW old \in Nat \cup {Unset}, NEW comes, \A q \in comes : SettingRequest(q),
         SettingsInit(old, comes)
  PROVE  SettingsInv
<1>1. RowsTyped BY DEF SettingsInit, RowsTyped, SettingKeys
<1>2. \A q \in DOMAIN call : CallOK(q) BY DEF SettingsInit, CallOK
<1> QED BY <1>1, <1>2 DEF SettingsInit, SettingsInv

LEMMA SettingsFine ==
  ASSUME SettingsInv PROVE SettingsTypeOK /\ SecretShownWorks
<1>1. RowsTyped /\ secrets \in Nat /\ secret \in 0..secrets /\ replaced \subseteq 1..secrets
  BY DEF SettingsInv
<1>2. \A key \in {"email", "whatsapp"} : WindowHours(key) \in Nat
  BY <1>1 DEF WindowHours, RowsTyped, DefaultHours
<1>3. RequireTag \in BOOLEAN BY <1>1 DEF RequireTag, RowsTyped
<1>4. SecretShownWorks
  <2>1. IsFiniteSet(1..secrets) BY <1>1, FS_Interval
  <2>2. IsFiniteSet(replaced) BY <1>1, <2>1, FS_Subset
  <2>3. Cardinality(replaced) = 0 => replaced = {} BY <2>2, FS_EmptySet
  <2> QED BY <2>3 DEF SecretShownWorks, SettingsInv, CallOK
<1> QED BY <1>1, <1>2, <1>3, <1>4 DEF SettingsTypeOK

----------------------------------------------------------------------------
LEMMA OfficeParts == OfficeSpec => [](TeamsInv /\ MailInv /\ SettingsInv)
<1>1. OfficeInit => TeamsInv /\ MailInv /\ SettingsInv
  <2> SUFFICES ASSUME NEW c \in Cases, OfficeCase(c) PROVE TeamsInv /\ MailInv /\ SettingsInv
    BY DEF OfficeInit
  <2>1. TeamsInv BY CasesAssumption, TeamsBegin DEF OfficeCase
  <2>2. MailInv BY MailBegin DEF OfficeCase
  <2>3. SettingsInv BY CasesAssumption, SettingsBegin DEF OfficeCase
  <2> QED BY <2>1, <2>2, <2>3
<1>2. TeamsInv /\ [OfficeNext]_officeVars => TeamsInv'
  BY TeamsStep DEF OfficeNext, officeVars
<1>3. MailInv /\ [OfficeNext]_officeVars => MailInv'
  BY MailStep DEF OfficeNext, officeVars
<1>4. SettingsInv /\ [OfficeNext]_officeVars => SettingsInv'
  BY SettingsStep DEF OfficeNext, officeVars
<1> QED BY <1>1, <1>2, <1>3, <1>4, PTL DEF OfficeSpec

(* A removal of a team is stopped by a race alone, every team has the bot  *)
(* once made, a reorder left alone sticks (TeamsService); a token is of    *)
(* its own mailbox and refreshed once at a time, a link works in time      *)
(* (GoogleOAuthService and the cache); the secret shown works until        *)
(* overwritten (AppSettingsService): for any teams, channels and requests. *)
THEOREM OfficeCorrect == OfficeSpec => []OfficeSound
<1>1. AccountsInv => AccountsTypeOK BY DEF AccountsInv, AccountsTyped
<1>2. TeamsInv /\ MailInv /\ SettingsInv /\ AccountsTypeOK => OfficeSound
  BY TeamsFine, MailFine, SettingsFine DEF OfficeSound, OfficeTypeOK
<1> QED BY <1>1, <1>2, OfficeAccounts, OfficeParts, PTL

(***************************************************************************)
(* The flow editor. What a request has found still holds when it writes,   *)
(* unless another one has written meanwhile (crossed).                     *)
(***************************************************************************)
EditPhases == {"ready", "found", "counted"} \cup EditOver
InHand     == {"found", "counted"}
IsFlow(r)  == r = [name |-> r.name, first |-> r.first]
IsStep(r)  == r = [flow |-> r.flow, position |-> r.position, type |-> r.type, config |-> r.config]
IsNote(r)  == r = [first |-> r.first, position |-> r.position] /\ r.position \in Nat

FlowsOK ==
  /\ \A f \in DOMAIN flows : IsFlow(flows[f]) /\ flows[f].first \in DOMAIN steps \cup {NoStep}
  /\ IsFiniteSet(DOMAIN steps) /\ DOMAIN steps \subseteq StepIds
  /\ \A s \in DOMAIN steps : IsStep(steps[s]) /\ steps[s].flow \in DOMAIN flows /\ steps[s].position \in Nat

(* A step that is still to be made is nowhere yet.                         *)
NotToCome(s) == \A p \in DOMAIN edits : p.op = "add" /\ edits[p] \notin EditOver => p.step # s

EditsOK ==
  /\ edits \in [DOMAIN edits -> EditPhases] /\ crossed \subseteq DOMAIN edits
  /\ DOMAIN notes = DOMAIN edits /\ \A q \in DOMAIN edits : IsNote(notes[q])
  /\ EditRequests(DOMAIN edits)
  /\ \A s \in DOMAIN steps : NotToCome(s)

(* The steps a request has found in its flow: where they still are, they   *)
(* are that flow's.                                                        *)
Named(q) ==
  CASE q.op = "update" -> {q.first} \ {NotGiven}
    [] q.op = "order" -> ToSet(q.ids)
    [] q.op \in {"patch", "drop"} -> {q.step}
    [] OTHER -> {}
Known(q) == \A s \in Named(q) : (s \in DOMAIN steps => steps[s].flow = q.flow) /\ NotToCome(s)

Suits(q) == LET c == Patched(q, steps[q.step]) IN ConfigValid(c.type, c.config, FALSE)
InOrder(q) ==
  Len(q.ids) = Cardinality(StepsOf(q.flow)) /\ IsInjective(q.ids) /\ ToSet(q.ids) \subseteq StepsOf(q.flow)
Remembers(q, phase, note) ==
  /\ q.op = "add" /\ phase = "counted" => note.position = Cardinality(StepsOf(q.flow))
  /\ q.op = "patch" => q.step \in DOMAIN steps /\ Suits(q)
  /\ q.op = "drop" => q.step \in StepsOf(q.flow) /\ note.position = steps[q.step].position
  /\ q.op = "order" => InOrder(q)

FoundStands ==
  \A q \in DOMAIN edits : edits[q] \in InHand =>
    /\ Known(q)
    /\ q.op = "add" => ConfigValid(q.type, One(q.config), FALSE)
    /\ q \notin crossed => Remembers(q, edits[q], notes[q])

EditorInv == FlowsOK /\ EditsOK /\ FoundStands /\ EntryIsOwn /\ PositionsDense /\ ConfigSuits

LEMMA EditorStarts ==
  ASSUME NEW comes \in Conflicts, EditorInit(comes) PROVE EditorInv
<1>1. EditorRows /\ EditRequests(comes) BY EditorAssumption
<1>2. flows = Flow0 /\ steps = Steps0 /\ crossed = {} /\ DOMAIN edits = comes /\ DOMAIN notes = comes
      /\ \A q \in comes : edits[q] = "ready" /\ notes[q] = [first |-> NoStep, position |-> 0]
  BY DEF EditorInit
<1>3. FlowsOK BY <1>1, <1>2 DEF FlowsOK, EditorRows, IsFlow, IsStep
<1>4. EditsOK
  <2>1. edits \in [DOMAIN edits -> EditPhases] BY DEF EditorInit, EditPhases
  <2>2. \A q \in DOMAIN edits : IsNote(notes[q]) BY <1>2 DEF IsNote
  <2>3. \A s \in DOMAIN steps : NotToCome(s) BY <1>1, <1>2 DEF EditRequests, NotToCome
  <2> QED BY <1>1, <1>2, <2>1, <2>2, <2>3 DEF EditsOK
<1>5. FoundStands BY <1>2 DEF FoundStands, InHand
<1>6. EntryIsOwn BY <1>1, <1>2 DEF EditorRows, EntryIsOwn, StepsOf
<1>7. PositionsDense BY <1>1, <1>2 DEF EditorRows, PositionsDense, StepsOf, Placed
<1>8. ConfigSuits BY <1>1, <1>2 DEF EditorRows, ConfigSuits
<1> QED BY <1>3, <1>4, <1>5, <1>6, <1>7, <1>8 DEF EditorInv

(* A step of a request moves its own phase and note.                       *)
LEMMA EditMoves ==
  ASSUME EditsOK, NEW q \in DOMAIN edits, NEW phase \in EditPhases, NEW note,
         edits[q] \notin EditOver, IsNote(note), EditGoes(q, phase, note),
         crossed' \subseteq DOMAIN edits
  PROVE  /\ DOMAIN edits' = DOMAIN edits
         /\ edits'[q] = phase /\ notes'[q] = note
         /\ \A p \in DOMAIN edits \ {q} : edits'[p] = edits[p] /\ notes'[p] = notes[p]
         /\ \A s : NotToCome(s) => NotToCome(s)'
         /\ (\A s \in DOMAIN steps' : NotToCome(s)') => EditsOK'
<1>1. /\ DOMAIN edits' = DOMAIN edits /\ DOMAIN notes' = DOMAIN notes
      /\ edits'[q] = phase /\ notes'[q] = note /\ edits' \in [DOMAIN edits -> EditPhases]
      /\ \A p \in DOMAIN edits \ {q} : edits'[p] = edits[p] /\ notes'[p] = notes[p]
  BY DEF EditsOK, EditGoes
<1>2. \A s : NotToCome(s) => NotToCome(s)' BY <1>1 DEF NotToCome
<1>3. \A p \in DOMAIN edits' : IsNote(notes'[p]) BY <1>1 DEF EditsOK
<1>4. EditRequests(DOMAIN edits)' BY <1>1 DEF EditsOK, EditRequests
<1> QED BY <1>1, <1>2, <1>3, <1>4 DEF EditsOK

(* A look-up keeps the invariant if what it brings is so.                  *)
LEMMA EditReads ==
  ASSUME EditorInv, NEW q \in DOMAIN edits, NEW phase \in InHand \cup {"refused"}, NEW note,
         edits[q] \notin EditOver, IsNote(note), Reads(q, phase, note),
         phase \in InHand => /\ Known(q)
                             /\ q.op = "add" => ConfigValid(q.type, One(q.config), FALSE)
                             /\ Remembers(q, phase, note)
  PROVE  EditorInv'
<1> USE DEF EditorInv
<1>1. UNCHANGED <<flows, steps, crossed>> /\ EditGoes(q, phase, note) /\ phase \in EditPhases
  BY DEF Reads, InHand, EditPhases, EditOver
<1>2. /\ DOMAIN edits' = DOMAIN edits
      /\ edits'[q] = phase /\ notes'[q] = note
      /\ \A p \in DOMAIN edits \ {q} : edits'[p] = edits[p] /\ notes'[p] = notes[p]
      /\ \A s : NotToCome(s) => NotToCome(s)'
      /\ EditsOK'
  <2>1. crossed' \subseteq DOMAIN edits BY <1>1 DEF EditsOK
  <2>2. \A s \in DOMAIN steps' : NotToCome(s) BY <1>1 DEF EditsOK
  <2> QED BY <1>1, <2>1, <2>2, EditMoves
<1>3. \A p : Known(p) => Known(p)' BY <1>1, <1>2 DEF Known
<1>4. FoundStands'
  <2> SUFFICES ASSUME NEW p \in DOMAIN edits, edits'[p] \in InHand
               PROVE  /\ Known(p)'
                      /\ p.op = "add" => ConfigValid(p.type, One(p.config), FALSE)
                      /\ p \notin crossed => Remembers(p, edits[p], notes[p])'
    BY <1>1, <1>2 DEF FoundStands
  <2>1. /\ Known(p)
        /\ p.op = "add" => ConfigValid(p.type, One(p.config), FALSE)
        /\ p \notin crossed => Remembers(p, edits'[p], notes'[p])
    <3>1. CASE p = q BY <3>1, <1>2
    <3>2. CASE p # q BY <3>2, <1>2 DEF FoundStands
    <3> QED BY <3>1, <3>2
  <2>2. Remembers(p, edits'[p], notes'[p]) => Remembers(p, edits[p], notes[p])'
    BY <1>1 DEF Remembers, StepsOf, Suits, InOrder
  <2> QED BY <2>1, <2>2, <1>3
<1>5. FlowsOK' /\ EntryIsOwn' /\ PositionsDense'
  BY <1>1 DEF FlowsOK, EntryIsOwn, StepsOf, PositionsDense
<1>6. ConfigSuits' BY <1>1 DEF ConfigSuits
<1> QED BY <1>2, <1>4, <1>5, <1>6

(* A write crosses every other request at work; what these know of the     *)
(* steps they named stays.                                                 *)
LEMMA EditWrites ==
  ASSUME EditorInv, NEW q \in DOMAIN edits, edits[q] \notin EditOver, EndsEdit(q),
         \A s \in DOMAIN steps' : \/ s \in DOMAIN steps /\ steps'[s].flow = steps[s].flow
                                  \/ q.op = "add" /\ s = q.step
  PROVE  /\ EditsOK' /\ FoundStands' /\ DOMAIN edits' = DOMAIN edits
         /\ crossed \subseteq crossed' /\ (q \in crossed' => q \in crossed)
<1> USE DEF EditorInv
<1>1. EditGoes(q, "done", notes[q]) /\ "done" \in EditPhases /\ IsNote(notes[q])
  BY DEF EndsEdit, EditPhases, EditOver, EditsOK
<1>2. crossed' = crossed \cup {p \in DOMAIN edits \ {q} : edits[p] \notin EditOver \cup {"ready"}}
  BY DEF EndsEdit, EditWrote
<1>3. crossed' \subseteq DOMAIN edits BY <1>2 DEF EditsOK
<1>4. /\ DOMAIN edits' = DOMAIN edits
      /\ edits'[q] = "done" /\ notes'[q] = notes[q]
      /\ \A p \in DOMAIN edits \ {q} : edits'[p] = edits[p] /\ notes'[p] = notes[p]
      /\ \A s : NotToCome(s) => NotToCome(s)'
      /\ (\A s \in DOMAIN steps' : NotToCome(s)') => EditsOK'
  BY <1>1, <1>3, EditMoves
<1>5. \A s \in DOMAIN steps' : NotToCome(s)'
  <2> SUFFICES ASSUME NEW s \in DOMAIN steps' PROVE NotToCome(s)' OBVIOUS
  <2>1. CASE s \in DOMAIN steps BY <2>1, <1>4 DEF EditsOK
  <2>2. CASE q.op = "add" /\ s = q.step BY <2>2, <1>4 DEF EditsOK, EditRequests, NotToCome, EditOver
  <2> QED BY <2>1, <2>2
<1>6. FoundStands'
  <2> SUFFICES ASSUME NEW p \in DOMAIN edits, edits'[p] \in InHand
               PROVE  /\ Known(p)'
                      /\ p.op = "add" => ConfigValid(p.type, One(p.config), FALSE)
                      /\ p \notin crossed' => Remembers(p, edits[p], notes[p])'
    BY <1>4 DEF FoundStands
  <2>1. p # q /\ edits[p] \in InHand BY <1>4 DEF InHand
  <2>2. p \in crossed' BY <2>1, <1>2 DEF InHand, EditOver
  <2>3. Known(p)
        /\ (p.op = "add" => ConfigValid(p.type, One(p.config), FALSE))
    BY <2>1 DEF FoundStands
  <2>4. Known(p)'
    <3> SUFFICES ASSUME NEW s \in Named(p) PROVE (s \in DOMAIN steps => steps[s].flow = p.flow)' /\ NotToCome(s)'
      BY DEF Known
    <3>1. NotToCome(s) /\ (s \in DOMAIN steps => steps[s].flow = p.flow) BY <2>3 DEF Known
    <3>2. ~(q.op = "add" /\ s = q.step) BY <3>1 DEF NotToCome
    <3> QED BY <3>1, <3>2, <1>4
  <2> QED BY <2>2, <2>3, <2>4
<1> QED BY <1>2, <1>4, <1>5, <1>6

(* A write that leaves the other flows' steps alone keeps them in order.   *)
Dense(f) == {steps[s].position : s \in StepsOf(f)} = 0 .. Cardinality(StepsOf(f)) - 1

LEMMA EditKeepsOrder ==
  ASSUME EditorInv, NEW q \in DOMAIN edits, crossed \subseteq crossed', q \in crossed' => q \in crossed,
         \A f \in DOMAIN flows' \ {q.flow} : f \in DOMAIN flows /\ StepsOf(f)' = StepsOf(f)
                                        /\ \A s \in StepsOf(f) : steps'[s].position = steps[s].position,
         q.flow \in DOMAIN flows' /\ q \notin crossed
           /\ (q.flow \in DOMAIN flows => Dense(q.flow)) => Dense(q.flow)'
  PROVE  PositionsDense'
<1> SUFFICES ASSUME NEW f \in DOMAIN flows', \A p \in crossed' : p.flow # f PROVE Dense(f)'
  BY DEF PositionsDense, Dense
<1>1. \A p \in crossed : p.flow # f OBVIOUS
<1>2. f \in DOMAIN flows => Dense(f) BY <1>1 DEF EditorInv, PositionsDense, Dense
<1>3. CASE f = q.flow
  <2>1. q \notin crossed BY <1>3, <1>1
  <2> QED BY <1>2, <1>3, <2>1
<1>4. CASE f # q.flow
  <2>1. f \in DOMAIN flows /\ StepsOf(f)' = StepsOf(f) /\ \A s \in StepsOf(f) : steps'[s].position = steps[s].position
    BY <1>4
  <2>2. {steps'[s].position : s \in StepsOf(f)'} = {steps[s].position : s \in StepsOf(f)} BY <2>1
  <2> QED BY <1>2, <2>1, <2>2 DEF Dense
<1> QED BY <1>3, <1>4

LEMMA FlowWrites ==
  ASSUME EditorInv, NEW q \in DOMAIN edits, CreateFlow(q) \/ UpdateFlowWrites(q) \/ UpdateFlowFinds(q) PROVE EditorInv'
<1> USE DEF EditorInv
<1>0. edits[q] \notin EditOver /\ IsNote(notes[q])
  BY DEF CreateFlow, UpdateFlowWrites, UpdateFlowFinds, EditOver, EditsOK
<1>1. CASE EditRefused(q) BY <1>0, <1>1, EditReads DEF EditRefused, InHand
<1>2. CASE UpdateFlowFinds(q) /\ Reads(q, "found", notes[q])
  <2>1. q.op = "update" /\ q.flow \in DOMAIN flows /\ (q.first # NotGiven => q.first \in StepsOf(q.flow))
    BY <1>2, <1>0 DEF UpdateFlowFinds, Belongs, EditRefused, Reads, EditGoes, EditsOK
  <2>2. Known(q) BY <2>1 DEF Known, Named, StepsOf, EditsOK
  <2> QED BY <1>0, <1>2, <2>1, <2>2, EditReads DEF InHand, Remembers
<1>3. CASE ~EditRefused(q) /\ ~UpdateFlowFinds(q)
  <2>1. /\ UNCHANGED steps /\ EndsEdit(q)
        /\ \/ q.op = "create" /\ flows' = WithRow(flows, q.flow, [name |-> q.name, first |-> NoStep])
           \/ /\ q.op = "update" /\ edits[q] = "found" /\ q.flow \in DOMAIN flows
              /\ q.first # NotGiven => q.first \in DOMAIN steps
              /\ flows' = [flows EXCEPT ![q.flow] = [name |-> IF q.name = NotGiven THEN @.name ELSE q.name,
                                                     first |-> IF q.first = NotGiven THEN @.first ELSE q.first]]
    BY <1>3 DEF CreateFlow, UpdateFlowWrites
  <2>2. /\ EditsOK' /\ FoundStands' /\ DOMAIN edits' = DOMAIN edits
        /\ crossed \subseteq crossed' /\ (q \in crossed' => q \in crossed)
    BY <1>0, <2>1, EditWrites
  <2>3. q.op = "update" /\ q.first # NotGiven => q.first \in StepsOf(q.flow)
    <3>1. q.op = "update" => Known(q) BY <2>1 DEF FoundStands, InHand
    <3> QED BY <3>1, <2>1 DEF Known, Named, StepsOf
  <2>4. \A f \in DOMAIN flows' :
          /\ IsFlow(flows'[f])
          /\ \/ f \in DOMAIN flows /\ flows'[f].first = flows[f].first
             \/ flows'[f].first = NoStep \/ flows'[f].first \in StepsOf(f)
    BY <2>1, <2>3 DEF FlowsOK, IsFlow, WithRow
  <2>5. DOMAIN flows \subseteq DOMAIN flows' BY <2>1 DEF WithRow
  <2>6. \A f : StepsOf(f)' = StepsOf(f) BY <2>1 DEF StepsOf
  <2>7. FlowsOK' BY <2>1, <2>4, <2>5 DEF FlowsOK, StepsOf
  <2>8. EntryIsOwn' BY <2>4, <2>6 DEF EntryIsOwn
  <2>9. PositionsDense'
    <3> SUFFICES ASSUME NEW f \in DOMAIN flows', \A p \in crossed' : p.flow # f
                 PROVE  Dense(f)'
      BY DEF PositionsDense, Dense
    <3>1. CASE f \in DOMAIN flows
      <4>1. Dense(f) BY <2>2, <3>1 DEF PositionsDense, Dense
      <4> QED BY <4>1, <2>1, <2>6 DEF Dense
    <3>2. CASE f \notin DOMAIN flows
      <4>1. StepsOf(f) = {} BY <3>2 DEF StepsOf, FlowsOK
      <4>2. StepsOf(f)' = {} BY <2>6, <4>1
      <4>3. {steps'[s].position : s \in {}} = {} /\ 0 .. 0 - 1 = {} BY SMT
      <4> QED BY <4>2, <4>3, FS_EmptySet DEF Dense
    <3> QED BY <3>1, <3>2
  <2>10. ConfigSuits' BY <2>1, <2>2 DEF ConfigSuits
  <2> QED BY <2>2, <2>7, <2>8, <2>9, <2>10
<1> QED BY <1>1, <1>2, <1>3 DEF UpdateFlowFinds

LEMMA FlowGoes ==
  ASSUME EditorInv, NEW q \in DOMAIN edits, RemoveFlow(q) PROVE EditorInv'
<1> USE DEF EditorInv
<1>0. edits[q] \notin EditOver /\ IsNote(notes[q]) BY DEF RemoveFlow, EditOver, EditsOK
<1>1. CASE EditRefused(q) BY <1>0, <1>1, EditReads DEF EditRefused, InHand
<1>2. CASE ~EditRefused(q)
  <2>1. /\ flows' = [f \in DOMAIN flows \ {q.flow} |-> flows[f]] /\ EndsEdit(q)
        /\ steps' = [s \in DOMAIN steps \ StepsOf(q.flow) |-> steps[s]] /\ q.op = "remove"
    BY <1>2 DEF RemoveFlow, Minus
  <2>2. /\ EditsOK' /\ FoundStands' /\ DOMAIN edits' = DOMAIN edits
        /\ crossed \subseteq crossed' /\ (q \in crossed' => q \in crossed)
    BY <1>0, <2>1, EditWrites
  <2>3. \A f \in DOMAIN flows' : f \in DOMAIN flows /\ f # q.flow /\ flows'[f] = flows[f] /\ StepsOf(f)' = StepsOf(f)
                                /\ \A s \in StepsOf(f) : steps'[s] = steps[s]
    BY <2>1 DEF StepsOf
  <2>4. EntryIsOwn' BY <2>3 DEF EntryIsOwn
  <2>5. FlowsOK'
    <3>1. \A f \in DOMAIN flows' : IsFlow(flows'[f]) /\ flows'[f].first \in DOMAIN steps' \cup {NoStep}
      BY <2>3, <2>4 DEF FlowsOK, EntryIsOwn, StepsOf
    <3>2. IsFiniteSet(DOMAIN steps') /\ DOMAIN steps' \subseteq StepIds
      BY <2>1, FS_Subset DEF FlowsOK
    <3>3. \A s \in DOMAIN steps' : IsStep(steps'[s]) /\ steps'[s].flow \in DOMAIN flows' /\ steps'[s].position \in Nat
      BY <2>1 DEF FlowsOK, StepsOf
    <3> QED BY <3>1, <3>2, <3>3 DEF FlowsOK
  <2>6. PositionsDense' BY <2>2, <2>3, EditKeepsOrder
  <2>7. ConfigSuits' BY <2>1, <2>2 DEF ConfigSuits
  <2> QED BY <2>2, <2>4, <2>5, <2>6, <2>7
<1> QED BY <1>1, <1>2

(* A step that is added takes the place after the last.                    *)
LEMMA StepAdded ==
  ASSUME EditorInv, NEW q \in DOMAIN edits, AddStepFinds(q) \/ AddStepCounts(q) \/ AddStepSaves(q) PROVE EditorInv'
<1> USE DEF EditorInv
<1>0. edits[q] \notin EditOver /\ IsNote(notes[q]) /\ q.op = "add"
  BY DEF AddStepFinds, AddStepCounts, AddStepSaves, EditOver, EditsOK
<1>1. CASE EditRefused(q) BY <1>0, <1>1, EditReads DEF EditRefused, InHand
<1>2. CASE AddStepFinds(q) /\ ~EditRefused(q)
  <2> DEFINE n == [first |-> flows[q.flow].first, position |-> 0]
  <2>1. Reads(q, "found", n) /\ ConfigValid(q.type, One(q.config), FALSE) BY <1>2 DEF AddStepFinds
  <2>2. IsNote(n) BY DEF IsNote
  <2>3. Known(q) /\ Remembers(q, "found", n) BY <1>0 DEF Known, Named, Remembers
  <2> HIDE DEF n
  <2> QED BY <1>0, <2>1, <2>2, <2>3, EditReads DEF InHand
<1>3. CASE AddStepCounts(q)
  <2> DEFINE n == [notes[q] EXCEPT !.position = Cardinality(StepsOf(q.flow))]
  <2>1. Reads(q, "counted", n) /\ edits[q] = "found" BY <1>3 DEF AddStepCounts
  <2>2. Cardinality(StepsOf(q.flow)) \in Nat BY FS_Subset, FS_CardinalityType DEF FlowsOK, StepsOf
  <2>3. IsNote(n) /\ n.position = Cardinality(StepsOf(q.flow)) BY <1>0, <2>2 DEF IsNote
  <2>4. Known(q) /\ ConfigValid(q.type, One(q.config), FALSE) BY <1>0, <2>1 DEF FoundStands, InHand
  <2>5. Remembers(q, "counted", n) BY <1>0, <2>3 DEF Remembers
  <2> HIDE DEF n
  <2> QED BY <1>0, <2>1, <2>3, <2>4, <2>5, EditReads DEF InHand
<1>4. CASE AddStepSaves(q) /\ ~EditRefused(q)
  <2> DEFINE row == [flow |-> q.flow, position |-> notes[q].position, type |-> q.type, config |-> One(q.config)]
  <2>1. /\ edits[q] = "counted" /\ q.flow \in DOMAIN flows /\ EndsEdit(q)
        /\ steps' = WithRow(steps, q.step, row) /\ flows' = Entered(q)
    BY <1>4 DEF AddStepSaves
  <2>2. q.step \notin DOMAIN steps /\ q.step \in StepIds BY <1>0 DEF EditsOK, NotToCome, EditRequests
  <2>3. /\ DOMAIN steps' = DOMAIN steps \cup {q.step} /\ steps'[q.step] = row
        /\ \A s \in DOMAIN steps : steps'[s] = steps[s]
    BY <2>1, <2>2 DEF WithRow
  <2>4. /\ EditsOK' /\ FoundStands' /\ DOMAIN edits' = DOMAIN edits
        /\ crossed \subseteq crossed' /\ (q \in crossed' => q \in crossed)
    BY <1>0, <2>1, <2>3, EditWrites
  <2>5. ConfigValid(q.type, One(q.config), FALSE) /\ notes[q].position \in Nat
        /\ (q \notin crossed => notes[q].position = Cardinality(StepsOf(q.flow)))
    BY <1>0, <2>1 DEF FoundStands, InHand, Remembers, IsNote
  <2>6. /\ DOMAIN flows' = DOMAIN flows
        /\ \A f \in DOMAIN flows : IsFlow(flows'[f])
        /\ \A f \in DOMAIN flows : flows'[f].first = flows[f].first \/ (f = q.flow /\ flows'[f].first = q.step)
    BY <2>1 DEF Entered, FlowsOK, IsFlow
  <2>7. /\ steps'[q.step].flow = q.flow /\ steps'[q.step].type = q.type /\ IsStep(steps'[q.step])
         /\ steps'[q.step].config = One(q.config) /\ steps'[q.step].position = notes[q].position
    BY <2>3 DEF IsStep
  <2>8. StepsOf(q.flow)' = StepsOf(q.flow) \cup {q.step} BY <2>2, <2>3, <2>7 DEF StepsOf
  <2>9. ASSUME NEW f, f # q.flow PROVE StepsOf(f)' = StepsOf(f) BY <2>2, <2>3, <2>7, <2>9 DEF StepsOf
  <2>10. FlowsOK'
    <3>1. IsFiniteSet(DOMAIN steps') BY <2>3, FS_AddElement DEF FlowsOK
    <3>2. \A s \in DOMAIN steps' : IsStep(steps'[s]) /\ steps'[s].flow \in DOMAIN flows' /\ steps'[s].position \in Nat
      BY <2>1, <2>3, <2>5, <2>6, <2>7 DEF FlowsOK
    <3>3. \A f \in DOMAIN flows' : IsFlow(flows'[f]) /\ flows'[f].first \in DOMAIN steps' \cup {NoStep}
      BY <2>3, <2>6 DEF FlowsOK
    <3>4. DOMAIN steps' \subseteq StepIds BY <2>2, <2>3 DEF FlowsOK
    <3> QED BY <3>1, <3>2, <3>3, <3>4 DEF FlowsOK
  <2>11. EntryIsOwn'
    <3> SUFFICES ASSUME NEW f \in DOMAIN flows, flows'[f].first # NoStep PROVE flows'[f].first \in StepsOf(f)'
      BY <2>6 DEF EntryIsOwn
    <3>1. StepsOf(f) \subseteq StepsOf(f)' /\ (f = q.flow => q.step \in StepsOf(f)')
      <4>1. CASE f = q.flow BY <4>1, <2>8
      <4>2. CASE f # q.flow BY <4>2, <2>9
      <4> QED BY <4>1, <4>2
    <3>2. flows[f].first # NoStep => flows[f].first \in StepsOf(f) BY DEF EntryIsOwn
    <3> QED BY <2>6, <3>1, <3>2
  <2>12. PositionsDense'
    <3>1. ASSUME q \notin crossed, Dense(q.flow) PROVE Dense(q.flow)'
      <4> DEFINE S == StepsOf(q.flow)
                 N == Cardinality(S)
      <4>1. S \subseteq DOMAIN steps /\ q.step \notin S /\ IsFiniteSet(S) /\ N \in Nat
        BY <2>2, FS_Subset, FS_CardinalityType DEF FlowsOK, StepsOf
      <4>2. Cardinality(S \cup {q.step}) = N + 1 BY <4>1, FS_AddElement
      <4>3. steps'[q.step].position = N BY <2>7, <2>5, <3>1
      <4>4. {steps'[s].position : s \in S \cup {q.step}} = {steps[s].position : s \in S} \cup {N}
        BY <2>3, <4>1, <4>3
      <4>5. (0 .. N - 1) \cup {N} = 0 .. (N + 1) - 1 BY <4>1
      <4> HIDE DEF N
      <4>6. {steps'[s].position : s \in S \cup {q.step}} = 0 .. Cardinality(S \cup {q.step}) - 1
        BY <3>1, <4>2, <4>4, <4>5 DEF Dense, N
      <4> QED BY <4>6, <2>8 DEF Dense
    <3>2. \A f \in DOMAIN flows' \ {q.flow} : f \in DOMAIN flows /\ StepsOf(f)' = StepsOf(f)
                                        /\ \A s \in StepsOf(f) : steps'[s].position = steps[s].position
      <4> SUFFICES ASSUME NEW f \in DOMAIN flows' \ {q.flow}
                   PROVE  f \in DOMAIN flows /\ StepsOf(f)' = StepsOf(f)
                          /\ \A s \in StepsOf(f) : steps'[s].position = steps[s].position
        OBVIOUS
      <4>1. \A s \in StepsOf(f) : steps'[s].position = steps[s].position BY <2>3 DEF StepsOf
      <4> QED BY <4>1, <2>6, <2>9
    <3> QED BY <2>1, <2>4, <3>1, <3>2, EditKeepsOrder
  <2>13. ConfigSuits'
    <3> SUFFICES ASSUME NEW s \in DOMAIN steps'
                 PROVE  \/ ConfigValid(steps'[s].type, steps'[s].config, FALSE)
                        \/ \E p \in crossed : p.op = "patch" /\ p.step = s
      BY <2>4 DEF ConfigSuits
    <3>1. CASE s \in DOMAIN steps BY <3>1, <2>3 DEF ConfigSuits
    <3>2. CASE s = q.step BY <3>2, <2>7, <2>5
    <3> QED BY <2>3, <3>1, <3>2
  <2> QED BY <2>4, <2>10, <2>11, <2>12, <2>13
<1> QED BY <1>1, <1>2, <1>3, <1>4

(* A change of a step writes the type and configuration it has checked,    *)
(* unless the step was written meanwhile.                                  *)
LEMMA StepPatched ==
  ASSUME EditorInv, NEW q \in DOMAIN edits, UpdateStepFinds(q) \/ UpdateStepWrites(q) PROVE EditorInv'
<1> USE DEF EditorInv
<1>0. edits[q] \notin EditOver /\ IsNote(notes[q]) /\ q.op = "patch"
  BY DEF UpdateStepFinds, UpdateStepWrites, EditOver, EditsOK
<1>1. CASE EditRefused(q) BY <1>0, <1>1, EditReads DEF EditRefused, InHand
<1>2. CASE UpdateStepFinds(q) /\ ~EditRefused(q)
  <2>1. /\ Reads(q, "found", notes[q]) /\ q.step \in StepsOf(q.flow)
        /\ LET c == Checked(q, steps[q.step]) IN ConfigValid(c.type, c.config, FALSE)
    BY <1>2 DEF UpdateStepFinds
  <2>2. q.step \in DOMAIN steps /\ steps[q.step].flow = q.flow BY <2>1 DEF StepsOf
  <2>3. Known(q) BY <1>0, <2>2 DEF Known, Named, EditsOK
  <2>4. Suits(q)
    <3>1. IsStep(steps[q.step]) BY <2>2 DEF FlowsOK
    <3>2. /\ Checked(q, steps[q.step]).type = Patched(q, steps[q.step]).type
          /\ Checked(q, steps[q.step]).config = Patched(q, steps[q.step]).config
      BY <3>1 DEF Checked, Patched, IsStep
    <3> QED BY <2>1, <3>2 DEF Suits
  <2>5. Remembers(q, "found", notes[q]) BY <1>0, <2>2, <2>4 DEF Remembers
  <2> QED BY <1>0, <2>1, <2>3, <2>5, EditReads DEF InHand
<1>3. CASE UpdateStepWrites(q)
  <2>1. /\ UNCHANGED flows /\ EndsEdit(q) /\ edits[q] = "found"
        /\ steps' = IF q.step \in DOMAIN steps THEN [steps EXCEPT ![q.step] = Patched(q, @)] ELSE steps
    BY <1>3 DEF UpdateStepWrites
  <2>2. DOMAIN steps' = DOMAIN steps /\ \A s \in DOMAIN steps \ {q.step} : steps'[s] = steps[s]
    BY <2>1
  <2>3. q.step \in DOMAIN steps => steps'[q.step] = Patched(q, steps[q.step]) BY <2>1
  <2>4. \A s \in DOMAIN steps : /\ IsStep(steps'[s])
                               /\ steps'[s].flow = steps[s].flow /\ steps'[s].position = steps[s].position
    <3> SUFFICES ASSUME NEW s \in DOMAIN steps
                 PROVE  IsStep(steps'[s]) /\ steps'[s].flow = steps[s].flow /\ steps'[s].position = steps[s].position
      OBVIOUS
    <3>1. IsStep(steps[s]) BY DEF FlowsOK
    <3>2. CASE s = q.step BY <2>3, <3>1, <3>2 DEF Patched, IsStep
    <3>3. CASE s # q.step BY <2>2, <3>1, <3>3
    <3> QED BY <3>2, <3>3
  <2>5. /\ EditsOK' /\ FoundStands' /\ DOMAIN edits' = DOMAIN edits
        /\ crossed \subseteq crossed' /\ (q \in crossed' => q \in crossed)
    BY <1>0, <2>1, <2>2, <2>4, EditWrites
  <2>6. \A f : StepsOf(f)' = StepsOf(f) BY <2>2, <2>4 DEF StepsOf
  <2>7. FlowsOK' BY <2>1, <2>2, <2>4 DEF FlowsOK
  <2>8. EntryIsOwn' BY <2>1, <2>6 DEF EntryIsOwn
  <2>9. PositionsDense'
    <3> SUFFICES ASSUME NEW f \in DOMAIN flows, \A p \in crossed' : p.flow # f PROVE Dense(f)'
      BY <2>1 DEF PositionsDense, Dense
    <3>1. Dense(f) BY <2>5 DEF PositionsDense, Dense
    <3>2. {steps'[s].position : s \in StepsOf(f)} = {steps[s].position : s \in StepsOf(f)}
      BY <2>4 DEF StepsOf
    <3> QED BY <2>6, <3>1, <3>2 DEF Dense
  <2>10. ConfigSuits'
    <3> SUFFICES ASSUME NEW s \in DOMAIN steps
                 PROVE  \/ ConfigValid(steps'[s].type, steps'[s].config, FALSE)
                        \/ \E p \in crossed' : p.op = "patch" /\ p.step = s
      BY <2>2 DEF ConfigSuits
    <3>1. CASE s # q.step BY <3>1, <2>2, <2>5 DEF ConfigSuits
    <3>2. CASE s = q.step /\ q \in crossed BY <1>0, <2>5, <3>2
    <3>3. CASE s = q.step /\ q \notin crossed
      <4>1. Suits(q) BY <1>0, <2>1, <3>3 DEF FoundStands, InHand, Remembers
      <4> QED BY <2>3, <3>3, <4>1 DEF Suits
    <3> QED BY <3>1, <3>2, <3>3
  <2> QED BY <2>5, <2>7, <2>8, <2>9, <2>10
<1> QED BY <1>1, <1>2, <1>3 DEF UpdateStepFinds

(* In a flow in order no two steps have one place.                         *)
LEMMA DenseOnce ==
  ASSUME FlowsOK, NEW f, Dense(f)
  PROVE  \A s, t \in StepsOf(f) : steps[s].position = steps[t].position => s = t
<1> DEFINE S == StepsOf(f)
           N == Cardinality(S)
           at0 == [s \in S |-> steps[s].position]
<1>1. IsFiniteSet(S) /\ N \in Nat BY FS_Subset, FS_CardinalityType DEF FlowsOK, StepsOf
<1>2. Cardinality(0 .. N - 1) = N BY <1>1, FS_Interval
<1>3. at0 \in Surjection(S, 0 .. N - 1) BY DEF Dense, Surjection
<1>4. at0 \in Injection(S, 0 .. N - 1) BY <1>1, <1>2, <1>3, FS_SurjSameCardinalityImpliesInj
<1> QED BY <1>4 DEF Injection, IsInjective

(* When one step goes and those after it move down, the rest is in order.  *)
LEMMA DenseWithout ==
  ASSUME FlowsOK, NEW f, Dense(f), NEW x \in StepsOf(f),
         StepsOf(f)' = StepsOf(f) \ {x},
         \A s \in StepsOf(f) \ {x} :
           steps'[s].position = IF steps[s].position > steps[x].position THEN steps[s].position - 1 ELSE steps[s].position
  PROVE  Dense(f)'
<1> DEFINE S == StepsOf(f)
           N == Cardinality(S)
           T == {steps'[s].position : s \in S \ {x}}
<1>1. IsFiniteSet(S) /\ N \in Nat BY FS_Subset, FS_CardinalityType DEF FlowsOK, StepsOf
<1>2. Cardinality(S \ {x}) = N - 1 BY <1>1, FS_RemoveElement
<1>3. \A s \in S : steps[s].position \in 0 .. N - 1 BY DEF Dense
<1>4. \A i \in 0 .. N - 1 : \E s \in S : steps[s].position = i
  <2>1. 0 .. N - 1 = {steps[s].position : s \in S} BY DEF Dense
  <2> QED BY <2>1
<1>5. \A s \in S \ {x} : steps[s].position # steps[x].position BY DenseOnce
<1>6. T \subseteq 0 .. N - 1 - 1
  <2> SUFFICES ASSUME NEW s \in S \ {x} PROVE steps'[s].position \in 0 .. N - 1 - 1 OBVIOUS
  <2>1. steps[s].position \in 0 .. N - 1 /\ steps[x].position \in 0 .. N - 1 /\ steps[s].position # steps[x].position
    BY <1>3, <1>5
  <2>2. steps'[s].position = IF steps[s].position > steps[x].position THEN steps[s].position - 1 ELSE steps[s].position
    OBVIOUS
  <2> HIDE DEF N
  <2> QED BY <1>1, <2>1, <2>2
<1>7. 0 .. N - 1 - 1 \subseteq T
  <2> SUFFICES ASSUME NEW i \in 0 .. N - 1 - 1 PROVE \E s \in S \ {x} : steps'[s].position = i OBVIOUS
  <2>0. steps[x].position \in 0 .. N - 1 /\ i \in Nat /\ i \in 0 .. N - 1 /\ i + 1 \in 0 .. N - 1
    <3>1. steps[x].position \in 0 .. N - 1 BY <1>3
    <3> HIDE DEF N
    <3> QED BY <1>1, <3>1
  <2>1. CASE i < steps[x].position
    <3>1. PICK s \in S : steps[s].position = i BY <1>4, <2>0
    <3>2. s # x /\ ~(steps[s].position > steps[x].position)
      <4> HIDE DEF N
      <4> QED BY <1>1, <2>0, <2>1, <3>1
    <3> QED BY <3>1, <3>2
  <2>2. CASE ~(i < steps[x].position)
    <3>1. PICK s \in S : steps[s].position = i + 1 BY <1>4, <2>0
    <3>2. s # x /\ steps[s].position > steps[x].position /\ steps[s].position - 1 = i
      <4> HIDE DEF N
      <4> QED BY <1>1, <2>0, <2>2, <3>1
    <3> QED BY <3>1, <3>2
  <2> QED BY <2>1, <2>2
<1>8. T = 0 .. Cardinality(S \ {x}) - 1 BY <1>2, <1>6, <1>7
<1> QED BY <1>8 DEF Dense

LEMMA StepRemoved ==
  ASSUME EditorInv, NEW q \in DOMAIN edits, RemoveStepFinds(q) \/ RemoveStepWrites(q) PROVE EditorInv'
<1> USE DEF EditorInv
<1>0. edits[q] \notin EditOver /\ IsNote(notes[q]) /\ q.op = "drop"
  BY DEF RemoveStepFinds, RemoveStepWrites, EditOver, EditsOK
<1>1. CASE EditRefused(q) BY <1>0, <1>1, EditReads DEF EditRefused, InHand
<1>2. CASE RemoveStepFinds(q) /\ ~EditRefused(q)
  <2> DEFINE n == [first |-> NoStep, position |-> steps[q.step].position]
  <2>1. Reads(q, "found", n) /\ q.step \in StepsOf(q.flow) BY <1>2 DEF RemoveStepFinds
  <2>2. q.step \in DOMAIN steps /\ steps[q.step].flow = q.flow BY <2>1 DEF StepsOf
  <2>3. IsNote(n) /\ n.position = steps[q.step].position BY <2>2 DEF FlowsOK, IsNote
  <2>4. Known(q) BY <1>0, <2>2 DEF Known, Named, EditsOK
  <2>5. Remembers(q, "found", n) BY <1>0, <2>1, <2>3 DEF Remembers
  <2> HIDE DEF n
  <2> QED BY <1>0, <2>1, <2>3, <2>4, <2>5, EditReads DEF InHand
<1>3. CASE RemoveStepWrites(q) /\ ~EditRefused(q)
  <2> DEFINE pos == notes[q].position
             moved(s) == steps[s].flow = q.flow /\ steps[s].position > pos
  <2>1. /\ edits[q] = "found" /\ q.flow \in DOMAIN flows /\ EndsEdit(q)
        /\ steps' = Compacted(Minus(steps, {q.step}), q.flow, pos) /\ flows' = WithoutEntry(q.step)
    BY <1>3 DEF RemoveStepWrites
  <2>2. DOMAIN steps' = DOMAIN steps \ {q.step} BY <2>1 DEF Compacted, Minus
  <2>3. \A s \in DOMAIN steps' :
          steps'[s] = IF moved(s) THEN [steps[s] EXCEPT !.position = @ - 1] ELSE steps[s]
    BY <2>1 DEF Compacted, Minus
  <2>4. \A s \in DOMAIN steps' :
          /\ IsStep(steps'[s]) /\ steps'[s].flow = steps[s].flow
          /\ steps'[s].type = steps[s].type /\ steps'[s].config = steps[s].config
          /\ steps'[s].position = IF moved(s) THEN steps[s].position - 1 ELSE steps[s].position
    <3> SUFFICES ASSUME NEW s \in DOMAIN steps'
                 PROVE  /\ IsStep(steps'[s]) /\ steps'[s].flow = steps[s].flow
                        /\ steps'[s].type = steps[s].type /\ steps'[s].config = steps[s].config
                        /\ steps'[s].position = IF moved(s) THEN steps[s].position - 1 ELSE steps[s].position
      OBVIOUS
    <3>1. IsStep(steps[s]) BY <2>2 DEF FlowsOK
    <3>2. CASE moved(s)
      <4>1. steps'[s] = [steps[s] EXCEPT !.position = @ - 1] BY <2>3, <3>2
      <4> HIDE DEF moved
      <4> QED BY <3>1, <3>2, <4>1 DEF IsStep
    <3>3. CASE ~moved(s) BY <2>3, <3>1, <3>3
    <3> QED BY <3>2, <3>3
  <2>5. /\ EditsOK' /\ FoundStands' /\ DOMAIN edits' = DOMAIN edits
        /\ crossed \subseteq crossed' /\ (q \in crossed' => q \in crossed)
    BY <1>0, <2>1, <2>2, <2>4, EditWrites
  <2>6. Known(q) /\ (q \notin crossed => q.step \in StepsOf(q.flow) /\ pos = steps[q.step].position)
    BY <1>0, <2>1 DEF FoundStands, InHand, Remembers
  <2>7. DOMAIN flows' = DOMAIN flows
        /\ \A f \in DOMAIN flows : /\ IsFlow(flows'[f])
                                  /\ flows'[f].first = IF flows[f].first = q.step THEN NoStep ELSE flows[f].first
    BY <2>1 DEF WithoutEntry, FlowsOK, IsFlow
  <2>8. \A f : StepsOf(f)' = StepsOf(f) \ {q.step} BY <2>2, <2>4 DEF StepsOf
  <2>9. FlowsOK'
    <3>1. IsFiniteSet(DOMAIN steps') /\ DOMAIN steps' \subseteq StepIds BY <2>2, FS_Subset DEF FlowsOK
    <3>2. \A f \in DOMAIN flows' : IsFlow(flows'[f]) /\ flows'[f].first \in DOMAIN steps' \cup {NoStep}
      BY <2>2, <2>7 DEF FlowsOK
    <3>3. \A s \in DOMAIN steps' : IsStep(steps'[s]) /\ steps'[s].flow \in DOMAIN flows' /\ steps'[s].position \in Nat
      <4> SUFFICES ASSUME NEW s \in DOMAIN steps'
                   PROVE  steps'[s].flow \in DOMAIN flows' /\ steps'[s].position \in Nat
        BY <2>4
      <4>1. steps[s].flow \in DOMAIN flows /\ steps[s].position \in Nat /\ pos \in Nat
        BY <1>0, <2>2 DEF FlowsOK, IsNote
      <4> QED BY <2>4, <2>7, <4>1
    <3> QED BY <3>1, <3>2, <3>3 DEF FlowsOK
  <2>10. EntryIsOwn'
    <3> SUFFICES ASSUME NEW f \in DOMAIN flows, flows'[f].first # NoStep PROVE flows'[f].first \in StepsOf(f)'
      BY <2>7 DEF EntryIsOwn
    <3>1. flows'[f].first = flows[f].first /\ flows[f].first # q.step BY <2>7
    <3>2. flows[f].first \in StepsOf(f) BY <3>1 DEF EntryIsOwn
    <3> QED BY <2>8, <3>1, <3>2
  <2>11. PositionsDense'
    <3>1. ASSUME q \notin crossed, Dense(q.flow) PROVE Dense(q.flow)'
      <4>1. q.step \in StepsOf(q.flow) /\ pos = steps[q.step].position BY <2>6, <3>1
      <4>2. \A s \in StepsOf(q.flow) \ {q.step} :
              steps'[s].position = IF steps[s].position > steps[q.step].position THEN steps[s].position - 1
                                   ELSE steps[s].position
        BY <2>2, <2>4, <4>1 DEF StepsOf
      <4>3. StepsOf(q.flow)' = StepsOf(q.flow) \ {q.step} BY <2>8
      <4> QED BY <3>1, <4>1, <4>2, <4>3, DenseWithout
    <3>2. \A f \in DOMAIN flows' \ {q.flow} : f \in DOMAIN flows /\ StepsOf(f)' = StepsOf(f)
                                        /\ \A s \in StepsOf(f) : steps'[s].position = steps[s].position
      <4> SUFFICES ASSUME NEW f \in DOMAIN flows' \ {q.flow}
                   PROVE  f \in DOMAIN flows /\ StepsOf(f)' = StepsOf(f)
                          /\ \A s \in StepsOf(f) : steps'[s].position = steps[s].position
        OBVIOUS
      <4>1. q.step \notin StepsOf(f) BY <1>0, <2>6 DEF Known, Named, StepsOf
      <4>2. \A s \in StepsOf(f) : steps'[s].position = steps[s].position BY <2>2, <2>4, <4>1 DEF StepsOf
      <4> QED BY <2>7, <2>8, <4>1, <4>2
    <3> QED BY <2>1, <2>5, <3>1, <3>2, EditKeepsOrder
  <2>12. ConfigSuits' BY <2>2, <2>4, <2>5 DEF ConfigSuits
  <2> QED BY <2>5, <2>9, <2>10, <2>11, <2>12
<1> QED BY <1>1, <1>2, <1>3 DEF RemoveStepFinds

(* An order that names every step once puts them at 0..N-1.                *)
PlaceOf(q, s) == CHOOSE i \in DOMAIN q.ids : q.ids[i] = s

LEMMA PlaceIs ==
  ASSUME NEW q, q.ids \in Seq(StepIds), NEW s \in ToSet(q.ids)
  PROVE  PlaceOf(q, s) \in 1 .. Len(q.ids) /\ q.ids[PlaceOf(q, s)] = s
<1>1. \E i \in DOMAIN q.ids : q.ids[i] = s BY DEF ToSet
<1>2. PlaceOf(q, s) \in DOMAIN q.ids /\ q.ids[PlaceOf(q, s)] = s BY <1>1 DEF PlaceOf
<1> QED BY <1>2

LEMMA DenseSorted ==
  ASSUME FlowsOK, NEW q, q.ids \in Seq(StepIds), InOrder(q), StepsOf(q.flow)' = StepsOf(q.flow),
         \A s \in StepsOf(q.flow) : s \in ToSet(q.ids) => steps'[s].position = PlaceOf(q, s) - 1
  PROVE  Dense(q.flow)'
<1> DEFINE S == StepsOf(q.flow)
           N == Len(q.ids)
<1>1. IsFiniteSet(S) BY FS_Subset DEF FlowsOK, StepsOf
<1>2. N \in Nat /\ DOMAIN q.ids = 1 .. N /\ N = Cardinality(S) /\ IsInjective(q.ids) /\ ToSet(q.ids) \subseteq S
  BY DEF InOrder
<1>3. IsFiniteSet(1 .. N) /\ Cardinality(1 .. N) = N BY <1>2, FS_Interval
<1>4. q.ids \in Surjection(1 .. N, ToSet(q.ids)) /\ q.ids \in Injection(1 .. N, ToSet(q.ids))
  <2>1. q.ids = [i \in 1 .. N |-> q.ids[i]] /\ \A i \in 1 .. N : q.ids[i] \in ToSet(q.ids) BY <1>2 DEF ToSet
  <2>2. q.ids \in [1 .. N -> ToSet(q.ids)] BY <2>1
  <2> QED BY <1>2, <2>2 DEF Surjection, Injection, IsInjective, ToSet
<1>5. Cardinality(ToSet(q.ids)) = N BY <1>3, <1>4, FS_Surjection
<1>6. ToSet(q.ids) = S BY <1>1, <1>2, <1>5, FS_Subset
<1>7. \A s \in S : steps'[s].position \in 0 .. N - 1
  <2> SUFFICES ASSUME NEW s \in S PROVE steps'[s].position \in 0 .. N - 1 OBVIOUS
  <2>1. PlaceOf(q, s) \in 1 .. N /\ steps'[s].position = PlaceOf(q, s) - 1 BY <1>6, PlaceIs
  <2> HIDE DEF N
  <2> QED BY <1>2, <2>1
<1>8. \A i \in 0 .. N - 1 : \E s \in S : steps'[s].position = i
  <2> SUFFICES ASSUME NEW i \in 0 .. N - 1 PROVE \E s \in S : steps'[s].position = i OBVIOUS
  <2>1. i + 1 \in DOMAIN q.ids /\ i \in Nat BY <1>2
  <2>2. q.ids[i + 1] \in S BY <2>1, <1>6 DEF ToSet
  <2>3. PlaceOf(q, q.ids[i + 1]) \in DOMAIN q.ids /\ q.ids[PlaceOf(q, q.ids[i + 1])] = q.ids[i + 1]
    BY <1>2, <1>6, <2>2, PlaceIs
  <2>4. PlaceOf(q, q.ids[i + 1]) = i + 1 BY <1>2, <2>1, <2>3 DEF IsInjective
  <2>5. steps'[q.ids[i + 1]].position = PlaceOf(q, q.ids[i + 1]) - 1 BY <1>6, <2>2
  <2> QED BY <2>1, <2>2, <2>4, <2>5
<1>9. {steps'[s].position : s \in S} = 0 .. Cardinality(S) - 1 BY <1>2, <1>7, <1>8
<1> QED BY <1>9 DEF Dense

LEMMA StepsSorted ==
  ASSUME EditorInv, NEW q \in DOMAIN edits, ReorderStepsFinds(q) \/ ReorderStepsWrites(q) PROVE EditorInv'
<1> USE DEF EditorInv
<1>0. edits[q] \notin EditOver /\ IsNote(notes[q]) /\ q.op = "order" /\ q.ids \in Seq(StepIds)
  BY DEF ReorderStepsFinds, ReorderStepsWrites, EditOver, EditsOK, EditRequests
<1>1. CASE EditRefused(q) BY <1>0, <1>1, EditReads DEF EditRefused, InHand
<1>2. CASE ReorderStepsFinds(q) /\ ~EditRefused(q)
  <2>1. Reads(q, "found", notes[q]) /\ InOrder(q) BY <1>2 DEF ReorderStepsFinds, InOrder
  <2>2. Known(q)
    <3>1. \A s \in ToSet(q.ids) : s \in DOMAIN steps /\ steps[s].flow = q.flow BY <2>1 DEF InOrder, StepsOf
    <3> QED BY <1>0, <3>1 DEF Known, Named, EditsOK
  <2>3. Remembers(q, "found", notes[q]) BY <1>0, <2>1 DEF Remembers
  <2> QED BY <1>0, <2>1, <2>2, <2>3, EditReads DEF InHand
<1>3. CASE ReorderStepsWrites(q)
  <2>1. /\ edits[q] = "found" /\ EndsEdit(q) /\ UNCHANGED flows /\ DOMAIN steps' = DOMAIN steps
        /\ \A s \in DOMAIN steps : steps'[s] = IF s \in ToSet(q.ids) THEN [steps[s] EXCEPT !.position = PlaceOf(q, s) - 1]
                                               ELSE steps[s]
    BY <1>3 DEF ReorderStepsWrites, PlaceOf
  <2>2. \A s \in DOMAIN steps :
          /\ IsStep(steps'[s]) /\ steps'[s].flow = steps[s].flow
          /\ steps'[s].type = steps[s].type /\ steps'[s].config = steps[s].config
          /\ steps'[s].position = IF s \in ToSet(q.ids) THEN PlaceOf(q, s) - 1 ELSE steps[s].position
    <3> SUFFICES ASSUME NEW s \in DOMAIN steps
                 PROVE  /\ IsStep(steps'[s]) /\ steps'[s].flow = steps[s].flow
                        /\ steps'[s].type = steps[s].type /\ steps'[s].config = steps[s].config
                        /\ steps'[s].position = IF s \in ToSet(q.ids) THEN PlaceOf(q, s) - 1 ELSE steps[s].position
      OBVIOUS
    <3>1. IsStep(steps[s]) BY DEF FlowsOK
    <3>2. CASE s \in ToSet(q.ids)
      <4>1. steps'[s] = [steps[s] EXCEPT !.position = PlaceOf(q, s) - 1] BY <2>1, <3>2
      <4> QED BY <3>1, <3>2, <4>1 DEF IsStep
    <3>3. CASE s \notin ToSet(q.ids) BY <2>1, <3>1, <3>3
    <3> QED BY <3>2, <3>3
  <2>3. /\ EditsOK' /\ FoundStands' /\ DOMAIN edits' = DOMAIN edits
        /\ crossed \subseteq crossed' /\ (q \in crossed' => q \in crossed)
    BY <1>0, <2>1, <2>2, EditWrites
  <2>4. Known(q) /\ (q \notin crossed => InOrder(q)) BY <1>0, <2>1 DEF FoundStands, InHand, Remembers
  <2>5. \A f : StepsOf(f)' = StepsOf(f) BY <2>1, <2>2 DEF StepsOf
  <2>6. FlowsOK'
    <3>1. \A s \in DOMAIN steps : steps'[s].position \in Nat
      <4> SUFFICES ASSUME NEW s \in DOMAIN steps PROVE steps'[s].position \in Nat OBVIOUS
      <4>1. s \in ToSet(q.ids) => PlaceOf(q, s) - 1 \in Nat
        <5>1. Len(q.ids) \in Nat BY <1>0
        <5>2. s \in ToSet(q.ids) => PlaceOf(q, s) \in 1 .. Len(q.ids) BY <1>0, PlaceIs
        <5> QED BY <5>1, <5>2
      <4> QED BY <2>2, <4>1 DEF FlowsOK
    <3>2. \A s \in DOMAIN steps : IsStep(steps'[s]) /\ steps'[s].flow \in DOMAIN flows' BY <2>1, <2>2 DEF FlowsOK
    <3>3. \A f \in DOMAIN flows' : IsFlow(flows'[f]) /\ flows'[f].first \in DOMAIN steps' \cup {NoStep}
      BY <2>1 DEF FlowsOK
    <3>4. IsFiniteSet(DOMAIN steps') /\ DOMAIN steps' \subseteq StepIds BY <2>1 DEF FlowsOK
    <3> QED BY <2>1, <3>1, <3>2, <3>3, <3>4 DEF FlowsOK
  <2>7. EntryIsOwn' BY <2>1, <2>5 DEF EntryIsOwn
  <2>8. PositionsDense'
    <3>1. ASSUME q \notin crossed PROVE Dense(q.flow)'
      <4>1. \A s \in StepsOf(q.flow) : s \in ToSet(q.ids) => steps'[s].position = PlaceOf(q, s) - 1
        BY <2>2 DEF StepsOf
      <4>2. StepsOf(q.flow)' = StepsOf(q.flow) BY <2>5
      <4> QED BY <1>0, <2>4, <3>1, <4>1, <4>2, DenseSorted
    <3>2. \A f \in DOMAIN flows' \ {q.flow} : f \in DOMAIN flows /\ StepsOf(f)' = StepsOf(f)
                                        /\ \A s \in StepsOf(f) : steps'[s].position = steps[s].position
      <4> SUFFICES ASSUME NEW f \in DOMAIN flows' \ {q.flow}
                   PROVE  f \in DOMAIN flows /\ StepsOf(f)' = StepsOf(f)
                          /\ \A s \in StepsOf(f) : steps'[s].position = steps[s].position
        OBVIOUS
      <4>1. \A s \in StepsOf(f) : s \notin ToSet(q.ids) BY <1>0, <2>4 DEF Known, Named, StepsOf
      <4>2. \A s \in StepsOf(f) : steps'[s].position = steps[s].position BY <2>2, <4>1 DEF StepsOf
      <4> QED BY <2>1, <2>5, <4>2
    <3> QED BY <2>1, <2>3, <3>1, <3>2, EditKeepsOrder
  <2>9. ConfigSuits' BY <2>1, <2>2, <2>3 DEF ConfigSuits
  <2> QED BY <2>3, <2>6, <2>7, <2>8, <2>9
<1> QED BY <1>1, <1>2, <1>3 DEF ReorderStepsFinds

(* However the edits of an admin or two overlap, every flow that is left   *)
(* has one of its own steps for its entry, its steps at 0..N-1 unless two  *)
(* edits of it crossed, and configurations that suit their steps           *)
(* (FlowsService).                                                         *)
THEOREM EditorCorrect == EditorSpec => []EditorSound
<1>1. ASSUME NEW comes \in Conflicts PROVE EditorInit(comes) => EditorInv BY EditorStarts
<1>2. EditorInv /\ [EditorNext]_editorVars => EditorInv'
  <2> SUFFICES ASSUME EditorInv, [EditorNext]_editorVars PROVE EditorInv' OBVIOUS
  <2>1. CASE EditorNext
    BY <2>1, FlowWrites, FlowGoes, StepAdded, StepPatched, StepRemoved, StepsSorted DEF EditorNext, EditStep
  <2>2. CASE UNCHANGED editorVars
    <3> USE <2>2 DEF editorVars
    <3>1. FlowsOK' BY DEF EditorInv, FlowsOK
    <3>2. EditsOK' BY DEF EditorInv, EditsOK, NotToCome
    <3>3. FoundStands'
      <4>1. \A p : Known(p) => Known(p)' BY DEF Known, NotToCome
      <4>2. \A p : Remembers(p, edits[p], notes[p]) => Remembers(p, edits[p], notes[p])'
        BY DEF Remembers, Suits, InOrder, StepsOf
      <4> QED BY <4>1, <4>2 DEF EditorInv, FoundStands
    <3>4. EntryIsOwn' /\ PositionsDense'
      <4>1. \A f : StepsOf(f)' = StepsOf(f) BY DEF StepsOf
      <4>2. EntryIsOwn' BY <4>1 DEF EditorInv, EntryIsOwn
      <4>3. PositionsDense' BY <4>1 DEF EditorInv, PositionsDense
      <4> QED BY <4>2, <4>3
    <3>5. ConfigSuits' BY DEF EditorInv, ConfigSuits
    <3> QED BY <3>1, <3>2, <3>3, <3>4, <3>5 DEF EditorInv
  <2> QED BY <2>1, <2>2
<1>3. EditorInv => EditorSound
  <2> SUFFICES ASSUME EditorInv PROVE EditorTypeOK BY DEF EditorInv, EditorSound
  <2> QED BY DEF EditorInv, EditorTypeOK, FlowsOK, EditsOK, EditPhases
<1>4. (\E comes \in Conflicts : EditorInit(comes)) => EditorInv BY <1>1
<1> QED BY <1>2, <1>3, <1>4, PTL DEF EditorSpec

(***************************************************************************)
(* Requests on tickets. While nobody has written since a request began     *)
(* (overlap), what it has checked and read is so still.                    *)
(***************************************************************************)
ListedTags   == TagNames \ {"unlisted"}
TicketIs == [status: Statuses, tags: SUBSET ListedTags]
JobPhases == Finished \cup {"ready", "asserting", "asserted", "read", "written", "sending", "storing",
                            "salvaging", "compensating"}
IsJob(j) == j = [phase |-> j.phase, todo |-> j.todo, overlay |-> j.overlay, row |-> j.row, out |-> j.out,
                 rows |-> j.rows, logged |-> j.logged, hits |-> j.hits]
AtTicket == {"asserted", "read", "written"}

JobOK(a) ==
  /\ ConsoleRequest(a) /\ IsJob(job[a]) /\ job[a].phase \in JobPhases
  /\ job[a].row \in TicketIs /\ job[a].out \in Seq(BOOLEAN) /\ job[a].hits \in Nat
  /\ job[a].phase = "asserting" => a.op = "bulk"
  /\ job[a].phase \in AtTicket => a.op \in Patching /\ (a.op = "bulk" => job[a].todo # <<>>)
  /\ a.op = "bulk" /\ Busy(a) => job[a].todo \in Seq(Tickets) /\ job[a].overlay \in [Tickets -> SUBSET ListedTags]
  /\ job[a].phase = "read" /\ a.tags # NoTags => BodyTags(a) \subseteq ListedTags

(* A reply has failed as often as its phase says, and quotes at its head.  *)
ReplyOK(a) ==
  /\ job[a].phase \in {"sending", "storing", "salvaging", "compensating"} => a.op \in Replying
  /\ a.op \in Replying =>
       /\ job[a].phase = "ready" => job[a].out = <<>>
       /\ job[a].phase \in {"ready", "sending", "storing"} => job[a].hits = 0
       /\ job[a].phase = "salvaging" => job[a].hits = 1
       /\ job[a].phase = "compensating" => job[a].hits = 1 /\ a.op # "template"
       /\ job[a].phase \in {"done", "refused"} /\ job[a].out # <<>>
            => \/ job[a].rows = Len(job[a].out) \/ job[a].logged
               \/ job[a].hits >= 2 \/ (a.op = "template" /\ job[a].hits = 1)
  /\ job[a].out # <<>> => job[a].out[1] = a.quote /\ \A i \in 2 .. Len(job[a].out) : ~job[a].out[i]

(* What a patch that nobody crossed relies on.                             *)
Satisfied(a, row) == required /\ Closing(a) /\ row.status # a.status => Effective(a, row) # {}
Relies(a) ==
  ~overlap[a] =>
    /\ job[a].phase = "asserted" => Satisfied(a, ticket[Current(a)])
    /\ job[a].phase = "read" => job[a].row = ticket[Current(a)] /\ Satisfied(a, job[a].row)
    /\ a.op = "bulk" /\ Busy(a) /\ a.tags # NoTags => \A t \in Tickets : ticket[t].tags \subseteq job[a].overlay[t] \cup a.tags

ConsoleTyped ==
  /\ ticket \in [Tickets -> TicketIs] /\ known \subseteq ListedTags /\ faults \in Nat
  /\ last \in [Tickets -> {"none", "RESOLVED", "REOPENED", "unknown"}]
  /\ overlap \in [DOMAIN job -> BOOLEAN]

(* The last event tells of the status, unless one is to be told still.     *)
Tells(e, s) == (e = "RESOLVED" => s = "RESOLVED") /\ (e = "REOPENED" => s # "RESOLVED")
Speaking(t) == {a \in DOMAIN job : job[a].phase = "written" /\ Current(a) = t /\ Event(a, job[a].row) # "none"}
InTune ==
  /\ \A a, b \in DOMAIN job : job[a].phase = "written" /\ job[b].phase = "written" => a = b
  /\ \A t \in Tickets :
       /\ Speaking(t) = {} => Tells(last[t], ticket[t].status)
       /\ \A a \in Speaking(t) : last[t] # Event(a, job[a].row) /\ Tells(Event(a, job[a].row), ticket[t].status)

ConsoleInv ==
  /\ ConsoleTyped /\ \A a \in DOMAIN job : JobOK(a) /\ ReplyOK(a) /\ Relies(a)
  /\ (\A a \in DOMAIN job : ~overlap[a]) => InTune

(* The console starts so.                                                  *)
LEMMA ConsoleStarts ==
  ASSUME NEW c \in ConsoleCases, ConsoleInit(c.tags, c.policy, c.comes, c.breaks) PROVE ConsoleInv
<1>1. /\ c.tags \in [Tickets -> SUBSET ListedTags] /\ c.breaks \in Nat /\ \A a \in c.comes : ConsoleRequest(a)
  BY ConsoleAssumption DEF ListedTags
<1>2. DOMAIN job = c.comes /\ \A a \in c.comes : job[a] = Job /\ overlap[a] = FALSE
  BY DEF ConsoleInit, Job
<1>3. ConsoleTyped BY <1>1, <1>2 DEF ConsoleInit, ConsoleTyped, TicketIs, Statuses, ListedTags
<1>4. ASSUME NEW a \in DOMAIN job PROVE JobOK(a) /\ ReplyOK(a) /\ Relies(a)
  <2>1. job[a] = Job /\ ConsoleRequest(a) BY <1>1, <1>2
  <2>2. job[a].phase = "ready" /\ job[a].out = <<>> /\ job[a].hits = 0 BY <2>1 DEF Job
  <2>3. job[a].row \in TicketIs BY <2>1 DEF Job, TicketIs, Statuses
  <2>4. IsJob(job[a]) BY <2>1 DEF Job, IsJob
  <2>5. <<>> \in Seq(BOOLEAN) OBVIOUS
  <2>6. ~Busy(a) BY <2>2 DEF Busy
  <2>7. JobOK(a) BY <2>1, <2>2, <2>3, <2>4, <2>5, <2>6 DEF JobOK, JobPhases, AtTicket
  <2> QED BY <2>2, <2>6, <2>7 DEF ReplyOK, Relies
<1>5. InTune
  <2>1. \A a \in DOMAIN job : job[a].phase # "written" BY <1>2 DEF Job
  <2>2. \A t \in Tickets : last[t] = "none" BY DEF ConsoleInit
  <2> QED BY <2>1, <2>2 DEF InTune, Speaking, Tells
<1> QED BY <1>3, <1>4, <1>5 DEF ConsoleInv

(* A request keeps what it relies on while nobody else writes.             *)
LEMMA OthersRely ==
  ASSUME ConsoleInv, NEW b \in DOMAIN job, job'[b] = job[b], required' = required,
         overlap[b] => overlap'[b], ticket' = ticket \/ overlap'[b] \/ ~Busy(b)
  PROVE  (JobOK(b) /\ ReplyOK(b) /\ Relies(b))'
<1>0. JobOK(b) /\ ReplyOK(b) /\ Relies(b) BY DEF ConsoleInv
<1>1. Current(b)' = Current(b) /\ Busy(b)' = Busy(b) BY DEF Current, Busy
<1>2. BodyTags(b)' = BodyTags(b) BY <1>1 DEF BodyTags, Merged
<1>3. JobOK(b)'
  <2> DEFINE P == ConsoleRequest(b) /\ IsJob(job[b]) /\ job[b].phase \in JobPhases
  <2>1. P' BY <1>0 DEF JobOK, IsJob
  <2> QED BY <1>0, <1>1, <1>2, <2>1 DEF JobOK
<1>4. ReplyOK(b)' BY <1>0 DEF ReplyOK
<1>5. \A row : Satisfied(b, row)' = Satisfied(b, row) BY <1>2 DEF Satisfied, Effective, Closing
<1>6. Relies(b)'
  <2> SUFFICES ASSUME ~overlap'[b] PROVE Relies(b)' BY DEF Relies
  <2>1. CASE ticket' = ticket
    <3>1. Satisfied(b, ticket[Current(b)]) = Satisfied(b, ticket[Current(b)])'
      BY <1>1, <1>2, <2>1 DEF Satisfied, Effective, Closing
    <3>2. Satisfied(b, job[b].row) = Satisfied(b, job[b].row)' BY <1>2 DEF Satisfied, Effective, Closing
    <3> QED BY <1>0, <1>1, <2>1, <3>1, <3>2 DEF Relies
  <2>2. CASE ~Busy(b)
    <3>1. job[b].phase \notin {"asserted", "read"} BY <2>2 DEF Busy, Finished
    <3> QED BY <1>1, <2>2, <3>1 DEF Relies
  <2> QED BY <2>1, <2>2
<1> QED BY <1>3, <1>4, <1>6

(* A step that neither writes nor speaks.                                  *)
LEMMA ConsoleQuiet ==
  ASSUME ConsoleInv, NEW a \in DOMAIN job,
         DOMAIN job' = DOMAIN job, \A b \in DOMAIN job \ {a} : job'[b] = job[b],
         UNCHANGED <<ticket, required, last>>, known' \subseteq known, faults' \in Nat,
         overlap' \in [DOMAIN job -> BOOLEAN], \A b \in DOMAIN job : overlap[b] => overlap'[b],
         job[a].phase # "written", job'[a].phase # "written", (JobOK(a) /\ ReplyOK(a) /\ Relies(a))'
  PROVE  ConsoleInv'
<1>1. ConsoleTyped' BY DEF ConsoleInv, ConsoleTyped
<1>2. \A b \in DOMAIN job' : (JobOK(b) /\ ReplyOK(b) /\ Relies(b))'
  <2> SUFFICES ASSUME NEW b \in DOMAIN job PROVE (JobOK(b) /\ ReplyOK(b) /\ Relies(b))' OBVIOUS
  <2>1. CASE b = a BY <2>1
  <2>2. CASE b # a BY <2>2, OthersRely
  <2> QED BY <2>1, <2>2
<1>3. ASSUME InTune PROVE InTune'
  <2>1. \A b \in DOMAIN job : (job'[b].phase = "written") = (job[b].phase = "written")
                             /\ (job[b].phase = "written" => job'[b] = job[b])
    OBVIOUS
  <2>2. \A t : Speaking(t)' = Speaking(t)
    <3> SUFFICES ASSUME NEW t, NEW b \in DOMAIN job, job[b].phase = "written"
                 PROVE  Current(b)' = Current(b) /\ Event(b, job[b].row)' = Event(b, job[b].row)
      BY <2>1 DEF Speaking
    <3> QED BY <2>1 DEF Current, Event, Moves
  <2>3. \A t \in Tickets : \A b \in Speaking(t) : Event(b, job[b].row)' = Event(b, job[b].row)
    BY <2>1 DEF Speaking, Event, Moves
  <2> QED BY <1>3, <2>1, <2>2, <2>3 DEF InTune
<1> QED BY <1>1, <1>2, <1>3 DEF ConsoleInv

(* Replies.                                                                *)
LEMMA ReplySteps ==
  ASSUME ConsoleInv, NEW a \in DOMAIN job,
         \/ ReplyLooks(a) \/ Sends(a) \/ SendFails(a) \/ Stores(a) \/ StoreFails(a)
         \/ Compensates(a) \/ CompensationFails(a)
  PROVE  ConsoleInv'
<1> DEFINE j == job[a]
           k == job'[a]
<1>0. JobOK(a) /\ ReplyOK(a) /\ Relies(a) /\ ConsoleTyped BY DEF ConsoleInv
<1>1. /\ a.op \in Replying /\ j.phase \in {"ready", "sending", "storing", "salvaging", "compensating"}
      /\ ConsoleRequest(a) /\ IsJob(j) /\ j.row \in TicketIs /\ j.out \in Seq(BOOLEAN) /\ j.hits \in Nat
      /\ a.quote \in BOOLEAN
  BY <1>0 DEF ReplyLooks, Sends, SendFails, Stores, StoreFails, Compensates, CompensationFails,
              JobOK, ReplyOK, ConsoleRequest
<1>2. /\ DOMAIN job' = DOMAIN job /\ \A b \in DOMAIN job \ {a} : job'[b] = job[b]
      /\ UNCHANGED <<ticket, required, last, overlap, known>> /\ faults' \in Nat
  BY <1>0 DEF ReplyLooks, Sends, SendFails, Stores, StoreFails, Compensates, CompensationFails, To, Else,
              ConsoleTyped
<1>3. /\ IsJob(k) /\ k.row = j.row
      /\ \/ k.phase = "sending" /\ j.phase = "ready" /\ k.out = j.out /\ k.hits = j.hits
         \/ k.phase = "refused" /\ j.phase = "ready" /\ k.out = j.out /\ k.hits = j.hits
         \/ k.phase \in {"sending", "storing"} /\ j.phase = "sending" /\ k.out = Append(j.out, Quotes(a)) /\ k.hits = j.hits
         \/ k.phase = AfterRefusal(a) /\ j.phase = "sending" /\ k.out = j.out /\ k.hits = j.hits + 1
         \/ k.phase \in {"done", "refused"} /\ k.rows = Len(j.out) /\ k.out = j.out /\ k.hits = j.hits
         \/ /\ k.phase = (IF j.phase = "storing" /\ a.op # "template" THEN "compensating" ELSE "refused")
            /\ j.phase \in {"storing", "salvaging"} /\ k.out = j.out /\ k.hits = j.hits + 1
         \/ k.phase = "refused" /\ j.phase = "compensating" /\ k.logged = TRUE /\ k.out = j.out /\ k.hits = j.hits
         \/ k.phase = "refused" /\ j.phase = "compensating" /\ k.out = j.out /\ k.hits = j.hits + 1
  <2>1. CASE ReplyLooks(a) BY <1>1, <2>1 DEF ReplyLooks, To, IsJob
  <2>2. CASE Sends(a) BY <1>1, <2>2 DEF Sends, IsJob
  <2>3. CASE SendFails(a) BY <1>1, <2>3 DEF SendFails, IsJob
  <2>4. CASE Stores(a) BY <1>1, <2>4 DEF Stores, IsJob
  <2>5. CASE StoreFails(a) BY <1>1, <2>5 DEF StoreFails, IsJob
  <2>6. CASE Compensates(a) BY <1>1, <2>6 DEF Compensates, IsJob
  <2>7. CASE CompensationFails(a) BY <1>1, <2>7 DEF CompensationFails, IsJob
  <2> QED BY <2>1, <2>2, <2>3, <2>4, <2>5, <2>6, <2>7
<1>4. k.out \in Seq(BOOLEAN) /\ (k.out = j.out \/ k.out = Append(j.out, Quotes(a))) /\ k.hits \in Nat
      /\ k.phase \in JobPhases \ (AtTicket \cup {"asserting"})
  <2> HIDE DEF j, k
  <2>1. Quotes(a) \in BOOLEAN BY <1>1 DEF Quotes
  <2>2. k.out = j.out \/ k.out = Append(j.out, Quotes(a)) BY <1>3
  <2>3. k.out \in Seq(BOOLEAN) BY <1>1, <2>1, <2>2
  <2>4. k.hits \in Nat BY <1>1, <1>3
  <2>5. k.phase \in {"done", "refused", "sending", "storing", "salvaging", "compensating"}
    BY <1>3 DEF AfterRefusal
  <2> QED BY <2>2, <2>3, <2>4, <2>5 DEF JobPhases, Finished, AtTicket
<1>5. k.out # <<>> => k.out[1] = a.quote /\ \A i \in 2 .. Len(k.out) : ~k.out[i]
  <2>1. CASE k.out = j.out BY <1>0, <2>1 DEF ReplyOK
  <2>2. CASE k.out = Append(j.out, Quotes(a))
    <3>1. Len(k.out) = Len(j.out) + 1 /\ Len(j.out) \in Nat
          /\ \A i \in 1 .. Len(k.out) : k.out[i] = IF i <= Len(j.out) THEN j.out[i] ELSE Quotes(a)
      BY <1>1, <2>2 DEF Quotes
    <3>2. CASE j.out = <<>>
      <4>1. Len(j.out) = 0 /\ Quotes(a) = a.quote BY <1>1, <3>2 DEF Quotes
      <4> QED BY <3>1, <4>1
    <3>3. CASE j.out # <<>>
      <4>1. Len(j.out) >= 1 BY <1>1, <3>1, <3>3
      <4>2. j.out[1] = a.quote /\ \A i \in 2 .. Len(j.out) : ~j.out[i] BY <1>0, <3>3 DEF ReplyOK
      <4>3. ~Quotes(a) BY <4>1, <4>2, <3>1 DEF Quotes
      <4>4. k.out[1] = j.out[1]
        <5>1. 1 \in 1 .. Len(k.out) /\ 1 <= Len(j.out) BY <3>1, <4>1
        <5> HIDE DEF j, k
        <5> QED BY <3>1, <5>1
      <4>5. ASSUME NEW i \in 2 .. Len(k.out) PROVE ~k.out[i]
        <5> HIDE DEF j, k
        <5>1. i \in 1 .. Len(k.out) /\ i \in Nat BY <3>1
        <5>2. CASE i <= Len(j.out)
          <6>1. i \in 2 .. Len(j.out) BY <3>1, <5>1, <5>2
          <6>2. k.out[i] = j.out[i] BY <3>1, <5>1, <5>2
          <6> QED BY <4>2, <6>1, <6>2
        <5>3. CASE ~(i <= Len(j.out))
          <6>1. k.out[i] = Quotes(a) BY <3>1, <5>1, <5>3
          <6> QED BY <4>3, <6>1
        <5> QED BY <5>2, <5>3
      <4> QED BY <4>2, <4>4, <4>5
    <3> QED BY <3>2, <3>3
  <2>3. k.out = j.out \/ k.out = Append(j.out, Quotes(a)) BY <1>4, Zenon
  <2> QED BY <2>1, <2>2, <2>3, Zenon
<1>6. ReplyOK(a)'
  <2> HIDE DEF k
  <2>1. /\ k.phase \in {"ready", "sending", "storing"} => k.hits = 0
        /\ k.phase # "ready" /\ (k.phase = "salvaging" => k.hits = 1)
        /\ k.phase = "compensating" => k.hits = 1 /\ a.op # "template"
    BY <1>0, <1>1, <1>3 DEF ReplyOK, AfterRefusal
  <2>2. k.phase \in {"done", "refused"} /\ k.out # <<>>
          => \/ k.rows = Len(k.out) \/ k.logged \/ k.hits >= 2 \/ (a.op = "template" /\ k.hits = 1)
    BY <1>0, <1>1, <1>3 DEF ReplyOK, AfterRefusal
  <2> QED BY <1>1, <1>5, <2>1, <2>2 DEF ReplyOK, k
<1>7. JobOK(a)' /\ Relies(a)'
  <2>1. (ConsoleRequest(a) /\ IsJob(job[a]))' BY <1>1, <1>3 DEF IsJob
  <2>2. a.op \notin Patching /\ a.op # "bulk" BY <1>1 DEF Replying, Patching
  <2> QED BY <1>1, <1>3, <1>4, <2>1, <2>2 DEF JobOK, Relies, AtTicket
<1>8. j.phase # "written" /\ k.phase # "written" BY <1>1, <1>4 DEF AtTicket
<1> QED BY <1>0, <1>2, <1>6, <1>7, <1>8, ConsoleQuiet DEF ConsoleTyped

(* Patches.                                                                *)
LEMMA CurrentIs ==
  ASSUME ConsoleInv, NEW a \in DOMAIN job, a.op \in Patching, a.op = "bulk" => Busy(a) /\ job[a].todo # <<>>
  PROVE  Current(a) \in Tickets
<1>1. JobOK(a) BY DEF ConsoleInv
<1>2. CASE a.op = "bulk"
  <2>1. job[a].todo \in Seq(Tickets) /\ job[a].todo # <<>> BY <1>1, <1>2 DEF JobOK
  <2> QED BY <1>2, <2>1 DEF Current
<1>3. CASE a.op # "bulk" BY <1>1, <1>3 DEF JobOK, ConsoleRequest, Current
<1> QED BY <1>2, <1>3

(* A step of a patch that goes no further, or on to the next ticket.       *)
LEMMA PatchRests ==
  ASSUME ConsoleInv, NEW a \in DOMAIN job, a.op \in Patching, Stops(a) \/ Ends(a),
         a.op = "bulk" => Busy(a) /\ job[a].todo # <<>>, UNCHANGED <<ticket, overlap>>
  PROVE  /\ (JobOK(a) /\ ReplyOK(a) /\ Relies(a))'
         /\ job'[a].phase \notin AtTicket /\ DOMAIN job' = DOMAIN job
         /\ \A b \in DOMAIN job \ {a} : job'[b] = job[b]
<1> DEFINE j == job[a]
           k == job'[a]
<1>0. JobOK(a) /\ ReplyOK(a) /\ Relies(a) BY DEF ConsoleInv
<1>1. DOMAIN job' = DOMAIN job /\ \A b \in DOMAIN job \ {a} : job'[b] = job[b]
  BY DEF Stops, Ends, To
<1>2. IsJob(j) BY <1>0 DEF JobOK
<1>3. /\ IsJob(k) /\ k.row = j.row /\ k.out = j.out /\ k.hits = j.hits /\ k.overlay = j.overlay
      /\ \/ a.op # "bulk" /\ k.phase \in {"done", "refused"}
         \/ a.op = "bulk" /\ k.phase = "asserting" /\ k.todo = Tail(j.todo)
  BY <1>2 DEF Stops, Ends, To, IsJob, Patching
<1>4. a.op \notin Replying BY DEF Patching, Replying
<1>5. k.phase \notin AtTicket /\ k.phase \in JobPhases
      /\ k.phase \notin {"sending", "storing", "salvaging", "compensating"}
  BY <1>3 DEF AtTicket, JobPhases, Finished
<1>6. CASE a.op # "bulk"
  <2>1. k.phase \in {"done", "refused"} BY <1>3, <1>6
  <2>2. JobOK(a)' BY <1>0, <1>3, <1>5, <1>6, <2>1 DEF JobOK, AtTicket
  <2>3. ReplyOK(a)' BY <1>0, <1>3, <1>4, <1>5 DEF ReplyOK
  <2>4. Relies(a)' BY <1>5, <1>6 DEF Relies, AtTicket
  <2> QED BY <1>1, <1>5, <2>2, <2>3, <2>4
<1>7. CASE a.op = "bulk"
  <2>1. j.todo \in Seq(Tickets) /\ j.todo # <<>> /\ j.overlay \in [Tickets -> SUBSET ListedTags]
    BY <1>0, <1>7 DEF JobOK
  <2>2. k.todo \in Seq(Tickets)
    <3>1. Tail(j.todo) \in Seq(Tickets) BY <2>1, HeadTailProperties
    <3> QED BY <1>3, <1>7, <3>1
  <2>3. JobOK(a)' BY <1>0, <1>3, <1>5, <1>7, <2>1, <2>2 DEF JobOK, AtTicket
  <2>4. ReplyOK(a)' BY <1>0, <1>3, <1>4, <1>5 DEF ReplyOK
  <2>5. Relies(a)' BY <1>0, <1>3, <1>5, <1>7 DEF Relies, AtTicket
  <2> QED BY <1>1, <1>5, <2>3, <2>4, <2>5
<1> QED BY <1>6, <1>7

(* Each step of a patch or a bulk update, up to its transaction.           *)
LEMMA BulkReadsKeeps ==
  ASSUME ConsoleInv, NEW a \in DOMAIN job, BulkReads(a) PROVE ConsoleInv'
<1> DEFINE j == job[a]
           k == job'[a]
<1>0. JobOK(a) /\ ReplyOK(a) /\ Relies(a) /\ ConsoleTyped BY DEF ConsoleInv
<1>1. /\ DOMAIN job' = DOMAIN job /\ \A b \in DOMAIN job \ {a} : job'[b] = job[b]
      /\ UNCHANGED <<ticket, required, last, overlap, known, faults>> /\ a.op = "bulk" /\ j.phase = "ready"
  BY DEF BulkReads, Else
<1>2. IsJob(j) BY <1>0 DEF JobOK
<1>3. /\ IsJob(k) /\ k.row = j.row /\ k.out = j.out /\ k.hits = j.hits /\ k.phase = "asserting"
      /\ k.todo = a.t /\ k.overlay = [t \in Tickets |-> ticket[t].tags]
  BY <1>2 DEF BulkReads, IsJob
<1>4. a.t \in Seq(Tickets) BY <1>0, <1>1 DEF JobOK, ConsoleRequest, Patching
<1>5. k.overlay \in [Tickets -> SUBSET ListedTags] BY <1>0, <1>3 DEF ConsoleTyped, TicketIs
<1>6. JobOK(a)' BY <1>0, <1>1, <1>3, <1>4, <1>5 DEF JobOK, AtTicket, JobPhases
<1>7. ReplyOK(a)' BY <1>0, <1>1, <1>3 DEF ReplyOK, Replying
<1>8. Relies(a)' BY <1>1, <1>3 DEF Relies
<1>9. j.phase # "written" /\ k.phase # "written" BY <1>1, <1>3
<1> QED BY <1>0, <1>1, <1>6, <1>7, <1>8, <1>9, ConsoleQuiet DEF ConsoleTyped

LEMMA BulkEndsKeeps ==
  ASSUME ConsoleInv, NEW a \in DOMAIN job, BulkEnds(a) PROVE ConsoleInv'
<1> DEFINE j == job[a]
           k == job'[a]
<1>0. JobOK(a) /\ ReplyOK(a) /\ Relies(a) /\ ConsoleTyped BY DEF ConsoleInv
<1>1. /\ DOMAIN job' = DOMAIN job /\ \A b \in DOMAIN job \ {a} : job'[b] = job[b]
      /\ UNCHANGED <<ticket, required, last, overlap, known, faults>> /\ a.op = "bulk" /\ j.phase = "asserting"
  BY DEF BulkEnds, Else, To
<1>2. IsJob(j) BY <1>0 DEF JobOK
<1>3. IsJob(k) /\ k.row = j.row /\ k.out = j.out /\ k.hits = j.hits /\ k.phase = "done"
  BY <1>2 DEF BulkEnds, IsJob, To
<1>4. ~Busy(a)' BY <1>3 DEF Busy, Finished
<1>6. JobOK(a)' BY <1>0, <1>1, <1>3, <1>4 DEF JobOK, AtTicket, JobPhases, Finished
<1>7. ReplyOK(a)' BY <1>0, <1>1, <1>3 DEF ReplyOK, Replying
<1>8. Relies(a)' BY <1>3, <1>4 DEF Relies
<1>9. j.phase # "written" /\ k.phase # "written" BY <1>1, <1>3
<1> QED BY <1>0, <1>1, <1>6, <1>7, <1>8, <1>9, ConsoleQuiet DEF ConsoleTyped

LEMMA AssertsKeeps ==
  ASSUME ConsoleInv, NEW a \in DOMAIN job, Asserts(a) PROVE ConsoleInv'
<1> DEFINE j == job[a]
           k == job'[a]
           row == ticket[Current(a)]
<1>0. JobOK(a) /\ ReplyOK(a) /\ Relies(a) /\ ConsoleTyped BY DEF ConsoleInv
<1>1. /\ UNCHANGED <<ticket, required, last, overlap, known, faults>> /\ a.op \in Patching /\ Begins(a)
      /\ j.phase \in {"ready", "asserting"} /\ (a.op = "bulk" => Busy(a) /\ j.todo # <<>>)
  BY DEF Asserts, Else, Begins, Busy, Finished
<1>2. CASE Stops(a)
  <2>1. k.phase \notin AtTicket /\ (JobOK(a) /\ ReplyOK(a) /\ Relies(a))'
        /\ DOMAIN job' = DOMAIN job /\ \A b \in DOMAIN job \ {a} : job'[b] = job[b]
    BY <1>1, <1>2, PatchRests
  <2>2. j.phase # "written" /\ k.phase # "written" BY <1>1, <2>1 DEF AtTicket
  <2> QED BY <1>0, <1>1, <2>1, <2>2, ConsoleQuiet DEF ConsoleTyped
<1>3. CASE To(a, "asserted") /\ Satisfied(a, row)
  <2>1. DOMAIN job' = DOMAIN job /\ \A b \in DOMAIN job \ {a} : job'[b] = job[b] BY <1>3 DEF To
  <2>2. IsJob(j) BY <1>0 DEF JobOK
  <2>3. /\ IsJob(k) /\ k.row = j.row /\ k.out = j.out /\ k.hits = j.hits /\ k.phase = "asserted"
        /\ k.todo = j.todo /\ k.overlay = j.overlay
    BY <1>3, <2>2 DEF IsJob, To
  <2>4. Current(a)' = Current(a) BY <2>3 DEF Current
  <2>5. BodyTags(a)' = BodyTags(a) BY <2>3, <2>4 DEF BodyTags, Merged
  <2>6. JobOK(a)' BY <1>0, <1>1, <2>3 DEF JobOK, AtTicket, JobPhases
  <2>7. ReplyOK(a)'
    <3>1. a.op \notin Replying BY <1>1 DEF Patching, Replying
    <3> QED BY <1>0, <2>3, <3>1 DEF ReplyOK
  <2>8. Relies(a)'
    <3>1. Satisfied(a, ticket[Current(a)])'
      BY <1>1, <1>3, <2>4, <2>5 DEF Satisfied, Effective, Closing
    <3>2. a.op = "bulk" /\ a.tags # NoTags /\ ~overlap[a]
            => \A t \in Tickets : ticket[t].tags \subseteq j.overlay[t] \cup a.tags
      BY <1>0, <1>1 DEF Relies
    <3> QED BY <1>1, <2>3, <3>1, <3>2 DEF Relies
  <2>9. j.phase # "written" /\ k.phase # "written" BY <1>1, <2>3
  <2> QED BY <1>0, <1>1, <2>1, <2>6, <2>7, <2>8, <2>9, ConsoleQuiet DEF ConsoleTyped
<1>4. Stops(a) \/ (To(a, "asserted") /\ Satisfied(a, row)) BY DEF Asserts, Satisfied
<1> QED BY <1>2, <1>3, <1>4

LEMMA TxReadsKeeps ==
  ASSUME ConsoleInv, NEW a \in DOMAIN job, TxReads(a) PROVE ConsoleInv'
<1> DEFINE j == job[a]
           k == job'[a]
           row == ticket[Current(a)]
<1>0. JobOK(a) /\ ReplyOK(a) /\ Relies(a) /\ ConsoleTyped BY DEF ConsoleInv
<1>1. /\ UNCHANGED <<ticket, required, last, overlap, known, faults>> /\ a.op \in Patching
      /\ j.phase = "asserted" /\ Busy(a) /\ (a.op = "bulk" => j.todo # <<>>)
  BY <1>0 DEF TxReads, Else, Busy, Finished, JobOK, AtTicket
<1>2. CASE Stops(a)
  <2>1. k.phase \notin AtTicket /\ (JobOK(a) /\ ReplyOK(a) /\ Relies(a))'
        /\ DOMAIN job' = DOMAIN job /\ \A b \in DOMAIN job \ {a} : job'[b] = job[b]
    BY <1>1, <1>2, PatchRests
  <2>2. j.phase # "written" /\ k.phase # "written" BY <1>1, <2>1 DEF AtTicket
  <2> QED BY <1>0, <1>1, <2>1, <2>2, ConsoleQuiet DEF ConsoleTyped
<1>3. CASE Valid(a, row) /\ job' = [job EXCEPT ![a].phase = "read", ![a].row = row]
  <2>1. DOMAIN job' = DOMAIN job /\ \A b \in DOMAIN job \ {a} : job'[b] = job[b] BY <1>3
  <2>2. IsJob(j) BY <1>0 DEF JobOK
  <2>3. /\ IsJob(k) /\ k.row = row /\ k.out = j.out /\ k.hits = j.hits /\ k.phase = "read"
        /\ k.todo = j.todo /\ k.overlay = j.overlay
    BY <1>3, <2>2 DEF IsJob
  <2>4. Current(a)' = Current(a) BY <2>3 DEF Current
  <2>5. BodyTags(a)' = BodyTags(a) BY <2>3, <2>4 DEF BodyTags, Merged
  <2>6. row \in TicketIs BY <1>0, <1>1, CurrentIs DEF ConsoleTyped
  <2>7. a.tags # NoTags => BodyTags(a) \subseteq ListedTags
    BY <1>0, <1>3, <2>6 DEF Valid, Added, ConsoleTyped, TicketIs
  <2>8. JobOK(a)'
    <3>1. (job[a].phase = "read" /\ a.tags # NoTags => BodyTags(a) \subseteq ListedTags)' BY <2>5, <2>7
    <3> QED BY <1>0, <1>1, <2>3, <2>6, <3>1 DEF JobOK, AtTicket, JobPhases
  <2>9. ReplyOK(a)'
    <3>1. a.op \notin Replying BY <1>1 DEF Patching, Replying
    <3> QED BY <1>0, <2>3, <3>1 DEF ReplyOK
  <2>10. Relies(a)'
    <3> SUFFICES ASSUME ~overlap[a] PROVE Relies(a)' BY <1>1 DEF Relies
    <3>1. Satisfied(a, row) BY <1>0, <1>1 DEF Relies
    <3>2. Satisfied(a, job[a].row)' BY <1>1, <2>3, <2>5, <3>1 DEF Satisfied, Effective, Closing
    <3>3. a.op = "bulk" /\ a.tags # NoTags
            => \A t \in Tickets : ticket[t].tags \subseteq j.overlay[t] \cup a.tags
      BY <1>0, <1>1 DEF Relies
    <3> QED BY <1>1, <2>3, <2>4, <3>2, <3>3 DEF Relies
  <2>11. j.phase # "written" /\ k.phase # "written" BY <1>1, <2>3
  <2> QED BY <1>0, <1>1, <2>1, <2>8, <2>9, <2>10, <2>11, ConsoleQuiet DEF ConsoleTyped
<1>4. Stops(a) \/ (Valid(a, row) /\ job' = [job EXCEPT ![a].phase = "read", ![a].row = row]) BY DEF TxReads
<1> QED BY <1>2, <1>3, <1>4

(* A name taken from the tag table.                                        *)
LEMMA TagRemovedKeeps ==
  ASSUME ConsoleInv, NEW a \in DOMAIN job, TagRemoved(a) PROVE ConsoleInv'
<1> DEFINE j == job[a]
           k == job'[a]
<1>0. JobOK(a) /\ ReplyOK(a) /\ Relies(a) /\ ConsoleTyped BY DEF ConsoleInv
<1>1. /\ DOMAIN job' = DOMAIN job /\ \A b \in DOMAIN job \ {a} : job'[b] = job[b]
      /\ UNCHANGED <<ticket, required, last, faults>> /\ a.op = "untag" /\ j.phase = "ready" /\ known' \subseteq known
      /\ overlap' = [b \in DOMAIN job |-> overlap[b] \/ (b # a /\ Busy(b))]
  BY DEF TagRemoved, To, Marks
<1>2. overlap' \in [DOMAIN job -> BOOLEAN] /\ \A b \in DOMAIN job : overlap[b] => overlap'[b] BY <1>1
<1>3. IsJob(j) BY <1>0 DEF JobOK
<1>4. IsJob(k) /\ k.row = j.row /\ k.out = j.out /\ k.hits = j.hits /\ k.phase = "done"
  BY <1>3 DEF TagRemoved, IsJob, To
<1>5. a.op \notin Patching \cup Replying /\ a.op # "bulk" BY <1>1 DEF Patching, Replying
<1>6. JobOK(a)' BY <1>0, <1>4, <1>5 DEF JobOK, AtTicket, JobPhases, Finished
<1>7. ReplyOK(a)' BY <1>0, <1>4, <1>5 DEF ReplyOK
<1>8. Relies(a)' BY <1>4, <1>5 DEF Relies
<1>9. j.phase # "written" /\ k.phase # "written" BY <1>1, <1>4
<1> QED BY <1>0, <1>1, <1>2, <1>6, <1>7, <1>8, <1>9, ConsoleQuiet DEF ConsoleTyped

(* The write: it is marked in whoever else is under way.                   *)
LEMMA TxWritesKeeps ==
  ASSUME ConsoleInv, NEW a \in DOMAIN job, TxWrites(a) PROVE ConsoleInv'
<1> DEFINE j == job[a]
           k == job'[a]
           c == Current(a)
           row == job[a].row
<1>0. JobOK(a) /\ ReplyOK(a) /\ Relies(a) /\ ConsoleTyped BY DEF ConsoleInv
<1>1. /\ DOMAIN job' = DOMAIN job /\ \A b \in DOMAIN job \ {a} : job'[b] = job[b]
      /\ UNCHANGED <<required, last, known, faults>> /\ a.op \in Patching /\ j.phase = "read"
      /\ overlap' = [b \in DOMAIN job |-> overlap[b] \/ (b # a /\ Busy(b))] /\ Busy(a)
  BY DEF TxWrites, Else, To, Marks, Busy, Finished
<1>2. overlap' \in [DOMAIN job -> BOOLEAN] /\ \A b \in DOMAIN job : overlap[b] => overlap'[b] BY <1>1
<1>3. overlap'[a] = overlap[a] BY <1>0, <1>1 DEF ConsoleTyped
<1>4. IsJob(j) /\ row \in TicketIs /\ c \in Tickets BY <1>0, <1>1, CurrentIs DEF JobOK, AtTicket
<1>5. /\ IsJob(k) /\ k.row = row /\ k.out = j.out /\ k.hits = j.hits /\ k.phase = "written"
      /\ k.todo = j.todo /\ k.overlay = j.overlay
  BY <1>4 DEF TxWrites, To, IsJob
<1>6. Current(a)' = c BY <1>5 DEF Current
<1>7. ticket' = [ticket EXCEPT ![c] = [status |-> IF Moves(a, row) THEN a.status ELSE @.status,
                                       tags |-> IF a.tags = NoTags \/ BodyTags(a) = row.tags THEN @.tags ELSE BodyTags(a)]]
  BY DEF TxWrites
<1>8. /\ \A t \in Tickets \ {c} : ticket'[t] = ticket[t]
      /\ ticket'[c].status = IF Moves(a, row) THEN a.status ELSE ticket[c].status
      /\ ticket'[c].tags = IF a.tags = NoTags \/ BodyTags(a) = row.tags THEN ticket[c].tags ELSE BodyTags(a)
      /\ ticket'[c] = [status |-> ticket'[c].status, tags |-> ticket'[c].tags] /\ DOMAIN ticket' = Tickets
  BY <1>0, <1>4, <1>7 DEF ConsoleTyped
<1>9. ConsoleTyped'
  <2>1. ticket[c].status \in Statuses /\ ticket[c].tags \in SUBSET ListedTags
    BY <1>0, <1>4 DEF ConsoleTyped, TicketIs
  <2>2. Moves(a, row) => a.status \in Statuses BY <1>0, <1>1 DEF JobOK, ConsoleRequest, Moves
  <2>3. a.tags # NoTags => BodyTags(a) \in SUBSET ListedTags BY <1>0, <1>1 DEF JobOK
  <2>4. ticket'[c].status \in Statuses /\ ticket'[c].tags \in SUBSET ListedTags BY <1>8, <2>1, <2>2, <2>3
  <2>5. ticket'[c] \in TicketIs BY <1>8, <2>4 DEF TicketIs
  <2>6. \A t \in Tickets : ticket'[t] \in TicketIs BY <1>0, <1>8, <2>5 DEF ConsoleTyped
  <2>7. ticket' = [t \in Tickets |-> ticket'[t]] BY <1>0, <1>7 DEF ConsoleTyped
  <2> QED BY <1>0, <1>1, <1>2, <2>6, <2>7 DEF ConsoleTyped
<1>10. ASSUME NEW b \in DOMAIN job PROVE (JobOK(b) /\ ReplyOK(b) /\ Relies(b))'
  <2>1. CASE b # a
    <3>1. overlap'[b] \/ ~Busy(b) BY <1>1, <2>1
    <3> QED BY <1>1, <1>2, <2>1, <3>1, OthersRely
  <2>2. CASE b = a
    <3>1. JobOK(a)' BY <1>0, <1>1, <1>5 DEF JobOK, AtTicket, JobPhases
    <3>2. ReplyOK(a)'
      <4>1. a.op \notin Replying BY <1>1 DEF Patching, Replying
      <4> QED BY <1>0, <1>5, <4>1 DEF ReplyOK
    <3>3. ASSUME ~overlap[a], a.op = "bulk", a.tags # NoTags, NEW t \in Tickets
          PROVE  ticket'[t].tags \subseteq k.overlay[t] \cup a.tags
      <4>1. ticket[t].tags \subseteq k.overlay[t] \cup a.tags BY <1>0, <1>1, <1>5, <3>3 DEF Relies
      <4>2. BodyTags(a) = j.overlay[c] \cup a.tags BY <3>3 DEF BodyTags, Merged
      <4> QED BY <1>5, <1>8, <4>1, <4>2
    <3>4. Relies(a)' BY <1>3, <1>5, <3>3 DEF Relies
    <3> QED BY <2>2, <3>1, <3>2, <3>4
  <2> QED BY <2>1, <2>2
<1>11. ASSUME \A b \in DOMAIN job' : ~overlap'[b] PROVE InTune'
  <2>1. (\A b \in DOMAIN job : ~overlap[b]) /\ (\A b \in DOMAIN job \ {a} : ~Busy(b)) BY <1>1, <1>2, <1>11
  <2>2. InTune /\ row = ticket[c] BY <1>0, <1>1, <2>1 DEF ConsoleInv, Relies
  <2>3. \A b \in DOMAIN job : job[b].phase # "written"
    <3> SUFFICES ASSUME NEW b \in DOMAIN job, job[b].phase = "written" PROVE FALSE OBVIOUS
    <3>1. b # a BY <1>1
    <3> QED BY <2>1, <3>1 DEF Busy, Finished
  <2>4. \A t \in Tickets : Tells(last[t], ticket[t].status) BY <2>2, <2>3 DEF InTune, Speaking
  <2>5. \A b \in DOMAIN job' : job'[b].phase = "written" => b = a BY <1>1, <2>3
  <2>6. Event(a, job[a].row)' = Event(a, row) BY <1>5 DEF Event, Moves
  <2>7. \A t : \A b \in Speaking(t)' : b = a /\ t = c /\ Event(a, row) # "none"
    BY <1>6, <2>5, <2>6 DEF Speaking
  <2>8. ASSUME NEW t, t = c, Event(a, row) # "none" PROVE Speaking(t)' # {}
    <3>1. a \in Speaking(t)' BY <1>1, <1>5, <1>6, <2>6, <2>8 DEF Speaking
    <3> QED BY <3>1
  <2>9. ASSUME Event(a, row) # "none"
        PROVE  last[c] # Event(a, row) /\ Tells(Event(a, row), ticket'[c].status)
    <3>1. Moves(a, row) /\ ticket'[c].status = a.status /\ Tells(last[c], row.status)
      BY <1>4, <1>8, <2>2, <2>4, <2>9 DEF Event
    <3> QED BY <2>9, <3>1 DEF Event, Tells, Moves
  <2>10. ASSUME Event(a, row) = "none" PROVE Tells(last[c], ticket'[c].status)
    <3>1. Tells(last[c], row.status) BY <1>4, <2>2, <2>4
    <3>2. CASE Moves(a, row)
      <4>1. ticket'[c].status # "RESOLVED" /\ row.status # "RESOLVED" BY <1>8, <2>10, <3>2 DEF Event
      <4> QED BY <3>1, <4>1 DEF Tells
    <3>3. CASE ~Moves(a, row) BY <1>8, <2>2, <3>1, <3>3
    <3> QED BY <3>2, <3>3
  <2>11. ASSUME NEW t \in Tickets, Speaking(t)' = {} PROVE Tells(last'[t], ticket'[t].status)
    <3>1. CASE t = c
      <4>1. Event(a, row) = "none" BY <2>8, <2>11, <3>1
      <4> QED BY <1>1, <2>10, <3>1, <4>1
    <3>2. CASE t # c BY <1>1, <1>8, <2>4, <3>2
    <3> QED BY <3>1, <3>2
  <2>12. ASSUME NEW t \in Tickets, NEW b \in Speaking(t)'
         PROVE  last'[t] # Event(b, job[b].row)' /\ Tells(Event(b, job[b].row)', ticket'[t].status)
    <3>1. b = a /\ t = c /\ Event(a, row) # "none" BY <2>7
    <3> QED BY <1>1, <2>6, <2>9, <3>1
  <2>13. \A b, d \in DOMAIN job' : job'[b].phase = "written" /\ job'[d].phase = "written" => b = d BY <2>5
  <2> QED BY <2>11, <2>12, <2>13 DEF InTune
<1> QED BY <1>1, <1>9, <1>10, <1>11 DEF ConsoleInv

(* The commit is told, or is not.                                          *)
LEMMA SpeechKeeps ==
  ASSUME ConsoleInv, NEW a \in DOMAIN job, Speaks(a) \/ SpeechLost(a) PROVE ConsoleInv'
<1> DEFINE c == Current(a)
           e == Event(a, job[a].row)
<1>0. JobOK(a) /\ ConsoleTyped BY DEF ConsoleInv
<1>1. /\ UNCHANGED <<ticket, required, overlap, known>> /\ a.op \in Patching /\ job[a].phase = "written"
      /\ Ends(a) /\ Busy(a) /\ faults' \in Nat
  BY <1>0 DEF Speaks, SpeechLost, Else, Busy, Finished, ConsoleTyped
<1>2. a.op = "bulk" => job[a].todo # <<>> BY <1>0, <1>1 DEF JobOK, AtTicket
<1>3. c \in Tickets BY <1>1, <1>2, CurrentIs
<1>4. /\ (JobOK(a) /\ ReplyOK(a) /\ Relies(a))' /\ job'[a].phase \notin AtTicket /\ DOMAIN job' = DOMAIN job
      /\ \A b \in DOMAIN job \ {a} : job'[b] = job[b]
  BY <1>1, <1>2, PatchRests
<1>5. ASSUME NEW b \in DOMAIN job PROVE (JobOK(b) /\ ReplyOK(b) /\ Relies(b))'
  <2>1. CASE b = a BY <1>4, <2>1
  <2>2. CASE b # a BY <1>1, <1>4, <2>2, OthersRely
  <2> QED BY <2>1, <2>2
<1>6. /\ DOMAIN last' = Tickets /\ \A t \in Tickets \ {c} : last'[t] = last[t]
      /\ last'[c] \in {e, "unknown"} \/ (e = "none" /\ last'[c] = last[c])
      /\ last' = [t \in Tickets |-> last'[t]]
  BY <1>0, <1>3 DEF Speaks, SpeechLost, ConsoleTyped
<1>7. e \in {"none", "RESOLVED", "REOPENED"} BY DEF Event
<1>8. ConsoleTyped'
  <2>1. \A t \in Tickets : last'[t] \in {"none", "RESOLVED", "REOPENED", "unknown"}
    BY <1>0, <1>3, <1>6, <1>7 DEF ConsoleTyped
  <2> QED BY <1>0, <1>1, <1>4, <1>6, <2>1 DEF ConsoleTyped
<1>9. ASSUME \A b \in DOMAIN job' : ~overlap'[b] PROVE InTune'
  <2>1. InTune BY <1>1, <1>4, <1>9 DEF ConsoleInv
  <2>2. \A b \in DOMAIN job : job[b].phase = "written" => b = a BY <1>1, <2>1 DEF InTune
  <2>3. \A b \in DOMAIN job' : job'[b].phase # "written" BY <1>4, <2>2 DEF AtTicket
  <2>4. ASSUME NEW t \in Tickets PROVE Tells(last'[t], ticket'[t].status)
    <3>1. CASE t # c
      <4>1. Speaking(t) = {} BY <2>2, <3>1 DEF Speaking
      <4> QED BY <1>1, <1>6, <2>1, <3>1, <4>1 DEF InTune
    <3>2. CASE t = c /\ last'[c] = "unknown" BY <3>2 DEF Tells
    <3>3. CASE t = c /\ e # "none" /\ last'[c] = e
      <4>1. a \in Speaking(c) BY <1>1, <3>3 DEF Speaking
      <4>2. Tells(e, ticket[c].status) BY <1>3, <2>1, <4>1 DEF InTune
      <4> QED BY <1>1, <3>3, <4>2
    <3>4. CASE t = c /\ e = "none" /\ last'[c] = last[c]
      <4>1. Speaking(c) = {} BY <2>2, <3>4 DEF Speaking
      <4> QED BY <1>1, <1>3, <2>1, <3>4, <4>1 DEF InTune
    <3>5. CASE t = c /\ e = "none" /\ last'[c] = e BY <3>5 DEF Tells
    <3>6. last'[c] = "unknown" \/ last'[c] = e \/ (e = "none" /\ last'[c] = last[c]) BY <1>6
    <3> QED BY <3>1, <3>2, <3>3, <3>4, <3>5, <3>6, Zenon
  <2>5. \A t : Speaking(t)' = {} BY <2>3 DEF Speaking
  <2> QED BY <2>3, <2>4, <2>5 DEF InTune
<1> QED BY <1>4, <1>5, <1>8, <1>9 DEF ConsoleInv

(* Whoever was under way is gone.                                          *)
LEMMA ConsoleCrashKeeps == ASSUME ConsoleInv, ConsoleCrash PROVE ConsoleInv'
<1>0. ConsoleTyped BY DEF ConsoleInv
<1>1. /\ UNCHANGED <<ticket, required, overlap, known>> /\ faults' \in Nat
      /\ DOMAIN job' = DOMAIN job
      /\ \A a \in DOMAIN job : job'[a] = IF Busy(a) THEN [job[a] EXCEPT !.phase = "dead"] ELSE job[a]
      /\ last' = [t \in Tickets |-> IF t \in Unspoken THEN "unknown" ELSE last[t]]
  BY <1>0 DEF ConsoleCrash, ConsoleTyped
<1>2. ConsoleTyped' BY <1>0, <1>1 DEF ConsoleTyped
<1>3. ASSUME NEW a \in DOMAIN job PROVE (JobOK(a) /\ ReplyOK(a) /\ Relies(a))'
  <2>0. JobOK(a) /\ ReplyOK(a) BY DEF ConsoleInv
  <2>1. CASE ~Busy(a) BY <1>1, <2>1, OthersRely
  <2>2. CASE Busy(a)
    <3>1. IsJob(job[a]) BY <2>0 DEF JobOK
    <3>2. /\ IsJob(job'[a]) /\ job'[a].phase = "dead" /\ job'[a].row = job[a].row /\ job'[a].out = job[a].out
          /\ job'[a].hits = job[a].hits
      BY <1>1, <2>2, <3>1 DEF IsJob
    <3>3. ~Busy(a)' BY <3>2 DEF Busy, Finished
    <3>4. JobOK(a)' BY <2>0, <3>2, <3>3 DEF JobOK, JobPhases, Finished, AtTicket
    <3>5. ReplyOK(a)' BY <2>0, <3>2 DEF ReplyOK
    <3>6. Relies(a)' BY <3>2, <3>3 DEF Relies
    <3> QED BY <3>4, <3>5, <3>6
  <2> QED BY <2>1, <2>2
<1>4. ASSUME InTune PROVE InTune'
  <2>1. ASSUME NEW a \in DOMAIN job PROVE job'[a].phase # "written"
    <3>1. CASE Busy(a)
      <4>1. IsJob(job[a]) BY DEF ConsoleInv, JobOK
      <4> QED BY <1>1, <3>1, <4>1 DEF IsJob
    <3>2. CASE ~Busy(a) BY <1>1, <3>2 DEF Busy, Finished
    <3> QED BY <3>1, <3>2
  <2>2. \A t : Speaking(t)' = {} BY <1>1, <2>1 DEF Speaking
  <2>3. ASSUME NEW t \in Tickets PROVE Tells(last'[t], ticket'[t].status)
    <3>1. CASE t \in Unspoken BY <1>1, <3>1 DEF Tells
    <3>2. CASE t \notin Unspoken
      <4>1. Speaking(t) = {} BY <3>2 DEF Speaking, Unspoken
      <4> QED BY <1>1, <1>4, <3>2, <4>1 DEF InTune
    <3> QED BY <3>1, <3>2
  <2> QED BY <1>1, <2>1, <2>2, <2>3 DEF InTune
<1> QED BY <1>1, <1>2, <1>3, <1>4 DEF ConsoleInv

LEMMA ConsoleKeeps == ASSUME ConsoleInv, [ConsoleNext]_consoleVars PROVE ConsoleInv'
<1>1. CASE UNCHANGED <<ticket, known, required, last, job, overlap, faults>>
  <2>1. ConsoleTyped' BY <1>1 DEF ConsoleInv, ConsoleTyped
  <2>2. \A b \in DOMAIN job' : (JobOK(b) /\ ReplyOK(b) /\ Relies(b))' BY <1>1, OthersRely
  <2>3. \A t : Speaking(t)' = Speaking(t) BY <1>1 DEF Speaking, Current, Event, Moves
  <2>4. \A b : Event(b, job[b].row)' = Event(b, job[b].row) BY <1>1 DEF Event, Moves
  <2>5. InTune => InTune' BY <1>1, <2>3, <2>4 DEF InTune
  <2> QED BY <1>1, <2>1, <2>2, <2>5 DEF ConsoleInv
<1>2. CASE ConsoleCrash BY <1>2, ConsoleCrashKeeps
<1>3. ASSUME NEW a \in DOMAIN job,
             \/ BulkReads(a) \/ Asserts(a) \/ TxReads(a) \/ TxWrites(a) \/ Speaks(a) \/ SpeechLost(a)
             \/ BulkEnds(a) \/ ReplyLooks(a) \/ Sends(a) \/ SendFails(a) \/ Stores(a) \/ StoreFails(a)
             \/ Compensates(a) \/ CompensationFails(a) \/ TagRemoved(a)
      PROVE  ConsoleInv'
  BY <1>3, BulkReadsKeeps, AssertsKeeps, TxReadsKeeps, TxWritesKeeps, SpeechKeeps, BulkEndsKeeps, ReplySteps,
     TagRemovedKeeps
<1> QED BY <1>1, <1>2, <1>3 DEF ConsoleNext, WindowCloses, Else, consoleVars

(* In every behaviour of the console, whatever the requests and failures:  *)
(* what reached the customer is on the ticket or said to be missing, and a *)
(* quote goes with one piece.                                              *)
THEOREM ConsoleCorrect == ConsoleSpec => []ConsoleSound
<1>1. ASSUME NEW c \in ConsoleCases, ConsoleInit(c.tags, c.policy, c.comes, c.breaks) PROVE ConsoleInv
  BY <1>1, ConsoleStarts
<1>2. ConsoleInv /\ [ConsoleNext]_consoleVars => ConsoleInv' BY ConsoleKeeps
<1>3. ConsoleInv => ConsoleSound
  <2> SUFFICES ASSUME ConsoleInv PROVE ConsoleSound OBVIOUS
  <2>1. ConsoleTypeOK BY DEF ConsoleInv, ConsoleTyped, ConsoleTypeOK, TicketIs, ListedTags
  <2>2. \A a \in DOMAIN job : ReplyOK(a) BY DEF ConsoleInv
  <2>3. RepliesAccounted BY <2>2 DEF RepliesAccounted, ReplyOK
  <2>4. QuoteOnce BY <2>2 DEF QuoteOnce, ReplyOK
  <2> QED BY <2>1, <2>3, <2>4 DEF ConsoleSound
<1>4. (\E c \in ConsoleCases : ConsoleInit(c.tags, c.policy, c.comes, c.breaks)) => ConsoleInv BY <1>1
<1> QED BY <1>2, <1>3, <1>4, PTL DEF ConsoleSpec

(* Which step of a patch changes what.                                     *)
LEMMA WhoWrites ==
  ASSUME ConsoleInv, [ConsoleNext]_consoleVars
  PROVE  /\ ticket' = ticket \/ \E a \in DOMAIN job : TxWrites(a)
         /\ \A a \in DOMAIN job : job[a].phase = "read" /\ job'[a].phase = "written" => TxWrites(a)
         /\ \A a \in DOMAIN job : job[a].phase = "written" /\ job'[a].phase \notin {"written", "dead"}
                                 => Speaks(a) \/ SpeechLost(a)
<1>1. ticket' = ticket \/ \E a \in DOMAIN job : TxWrites(a)
  BY DEF ConsoleNext, BulkReads, Asserts, TxReads, Speaks, SpeechLost, BulkEnds, ReplyLooks, Sends, SendFails,
         Stores, StoreFails, Compensates, CompensationFails, TagRemoved, ConsoleCrash, WindowCloses, consoleVars
<1>2. ASSUME NEW b \in DOMAIN job, NEW a \in DOMAIN job \ {b}, job'[b] # job[b],
             \/ BulkReads(a) \/ Asserts(a) \/ TxReads(a) \/ TxWrites(a) \/ Speaks(a) \/ SpeechLost(a)
             \/ BulkEnds(a) \/ ReplyLooks(a) \/ Sends(a) \/ SendFails(a) \/ Stores(a) \/ StoreFails(a)
             \/ Compensates(a) \/ CompensationFails(a) \/ TagRemoved(a)
      PROVE  FALSE
  <2>1. CASE Asserts(a) \/ TxReads(a) \/ Speaks(a) \/ SpeechLost(a)
    BY <1>2, <2>1 DEF Asserts, TxReads, Speaks, SpeechLost, Stops, Ends, To
  <2>2. CASE BulkReads(a) \/ TxWrites(a) \/ BulkEnds(a) \/ TagRemoved(a)
    BY <1>2, <2>2 DEF BulkReads, TxWrites, BulkEnds, TagRemoved, To
  <2>3. CASE \/ ReplyLooks(a) \/ Sends(a) \/ SendFails(a) \/ Stores(a) \/ StoreFails(a)
             \/ Compensates(a) \/ CompensationFails(a)
    BY <1>2, <2>3 DEF ReplyLooks, Sends, SendFails, Stores, StoreFails, Compensates, CompensationFails, To
  <2> QED BY <1>2, <2>1, <2>2, <2>3
<1>3. ASSUME NEW b \in DOMAIN job, job[b].phase \in {"read", "written"}, job'[b].phase # job[b].phase,
             job'[b].phase # "dead"
      PROVE  \/ job[b].phase = "read" /\ (job'[b].phase = "written" => TxWrites(b))
             \/ job[b].phase = "written" /\ (Speaks(b) \/ SpeechLost(b))
  <2>1. CASE ConsoleCrash
    <3>1. job'[b] = [job[b] EXCEPT !.phase = "dead"] BY <1>3, <2>1 DEF ConsoleCrash, Busy, Finished
    <3>2. IsJob(job[b]) BY DEF ConsoleInv, JobOK
    <3> QED BY <1>3, <3>1, <3>2 DEF IsJob
  <2>2. ASSUME NEW a \in DOMAIN job,
             \/ BulkReads(a) \/ Asserts(a) \/ TxReads(a) \/ TxWrites(a) \/ Speaks(a) \/ SpeechLost(a)
             \/ BulkEnds(a) \/ ReplyLooks(a) \/ Sends(a) \/ SendFails(a) \/ Stores(a) \/ StoreFails(a)
             \/ Compensates(a) \/ CompensationFails(a) \/ TagRemoved(a)
        PROVE  \/ job[b].phase = "read" /\ (job'[b].phase = "written" => TxWrites(b))
               \/ job[b].phase = "written" /\ (Speaks(b) \/ SpeechLost(b))
    <3>1. a = b BY <1>2, <1>3, <2>2
    <3>2. \/ job[b].phase = "read" /\ TxWrites(b)
          \/ job[b].phase = "written" /\ (Speaks(b) \/ SpeechLost(b))
      BY <1>3, <2>2, <3>1 DEF BulkReads, Asserts, TxReads, TxWrites, Speaks, SpeechLost, BulkEnds, ReplyLooks, Sends,
         SendFails, Stores, StoreFails, Compensates, CompensationFails, TagRemoved, Begins
    <3> QED BY <3>2
  <2>3. CASE job' = job BY <1>3, <2>3
  <2> QED BY <2>1, <2>2, <2>3 DEF ConsoleNext, WindowCloses, consoleVars
<1> QED BY <1>1, <1>3

(* A step of the console resolves no ticket untagged, erases no tag of a   *)
(* ticket in bulk, and tells nothing twice, unless requests crossed.       *)
THEOREM ConsoleStepsCorrect == ConsoleSpec => ConsoleStepsSound
<1>1. ASSUME ConsoleInv, [ConsoleNext]_consoleVars PROVE ClosedTagged
  <2> SUFFICES ASSUME NEW t \in Tickets, required, ticket[t].status # "RESOLVED", ticket'[t].status = "RESOLVED",
                      ticket'[t].tags = {}
               PROVE  \E a \in DOMAIN job : job'[a].phase = "written" /\ overlap[a]
    BY DEF ClosedTagged
  <2>1. PICK a \in DOMAIN job : TxWrites(a) BY <1>1, WhoWrites
  <2>2. /\ JobOK(a) /\ Relies(a) /\ ConsoleTyped /\ job[a].phase = "read" /\ job'[a].phase = "written"
        /\ a.op \in Patching
    <3>1. JobOK(a) /\ Relies(a) /\ ConsoleTyped BY <1>1 DEF ConsoleInv
    <3>2. job'[a].phase = "written" BY <2>1, <3>1 DEF TxWrites, To, JobOK, IsJob
    <3> QED BY <2>1, <3>1, <3>2 DEF TxWrites
  <2>3. SUFFICES ASSUME ~overlap[a] PROVE FALSE BY <2>2
  <2> DEFINE c == Current(a)
             row == job[a].row
  <2>4. row = ticket[c] /\ Satisfied(a, row) BY <2>2, <2>3 DEF Relies
  <2>5. c = t /\ Moves(a, row) /\ a.status = "RESOLVED"
    BY <2>1, <2>2, <2>4 DEF TxWrites, ConsoleTyped
  <2>6. Effective(a, row) # {} BY <2>4, <2>5 DEF Satisfied, Closing, Moves
  <2>7. ticket'[t].tags = IF a.tags = NoTags \/ BodyTags(a) = row.tags THEN row.tags ELSE BodyTags(a)
    BY <2>1, <2>2, <2>4, <2>5 DEF TxWrites, ConsoleTyped
  <2> QED BY <2>6, <2>7 DEF Effective
<1>2. ASSUME ConsoleInv, [ConsoleNext]_consoleVars PROVE BulkKeepsTags
  <2> SUFFICES ASSUME NEW a \in DOMAIN job, a.op = "bulk", job[a].phase = "read", job'[a].phase = "written", ~overlap[a]
               PROVE  ticket[Current(a)].tags \subseteq ticket'[Current(a)].tags
    BY DEF BulkKeepsTags
  <2> DEFINE c == Current(a)
  <2>1. TxWrites(a) BY <1>2, WhoWrites
  <2>2. JobOK(a) /\ Relies(a) /\ ConsoleTyped /\ Busy(a) BY <1>2 DEF ConsoleInv, Busy, Finished
  <2>3. c \in Tickets BY <1>2, <2>2, CurrentIs DEF JobOK, AtTicket, Patching
  <2>4. ticket'[c].tags = IF a.tags = NoTags \/ BodyTags(a) = job[a].row.tags THEN ticket[c].tags ELSE BodyTags(a)
    BY <2>1, <2>2, <2>3 DEF TxWrites, ConsoleTyped
  <2>5. a.tags # NoTags => ticket[c].tags \subseteq BodyTags(a) BY <2>2, <2>3 DEF Relies, BodyTags, Merged
  <2> QED BY <2>4, <2>5
<1>3. ASSUME ConsoleInv, [ConsoleNext]_consoleVars PROVE SpokenOnce
  <2> SUFFICES ASSUME NEW a \in DOMAIN job, a.op \in Patching, job[a].phase = "written",
                      Event(a, job[a].row) # "none", \A b \in DOMAIN job : ~overlap[b]
               PROVE  last[Current(a)] # Event(a, job[a].row)
    <3>1. ConsoleTyped BY <1>3 DEF ConsoleInv
    <3> QED BY <3>1 DEF SpokenOnce
  <2>1. InTune /\ JobOK(a) BY <1>3 DEF ConsoleInv
  <2>2. Current(a) \in Tickets BY <1>3, <2>1, CurrentIs DEF JobOK, AtTicket, Busy, Finished
  <2>3. a \in Speaking(Current(a)) BY DEF Speaking
  <2> QED BY <2>1, <2>2, <2>3 DEF InTune
<1>4. ConsoleInv /\ [ConsoleNext]_consoleVars => ConsoleInv' BY ConsoleKeeps
<1>5. (\E c \in ConsoleCases : ConsoleInit(c.tags, c.policy, c.comes, c.breaks)) => ConsoleInv BY ConsoleStarts
<1>6. ConsoleInv /\ [ConsoleNext]_consoleVars => [ClosedTagged /\ BulkKeepsTags /\ SpokenOnce]_consoleVars
  BY <1>1, <1>2, <1>3
<1> QED BY <1>4, <1>5, <1>6, PTL DEF ConsoleSpec, ConsoleStepsSound

(***************************************************************************)
(* The inbox. A mark is above what was there or on its way and below what  *)
(* begins later; a step moves one ticket on or off a tab; while none       *)
(* leaves a list, who stands still on it only moves down, so that no page  *)
(* passes him by.                                                          *)
(***************************************************************************)
Messages == inboxNotes \cup arriving
QueryFormed(q) ==
  q = [scope |-> q.scope, text |-> q.text, statuses |-> q.statuses, bot |-> q.bot, owners |-> q.owners, sort |-> q.sort]
InboxTyped ==
  /\ IsFiniteSet(InboxTickets) /\ IsFiniteSet(Messages)
  /\ \A q \in inboxDue : InboxRequest(q, InboxTickets)
  /\ \A q \in marking : q.t \in InboxTickets /\ q.by \in Readers
  /\ QueryFormed(asked)

ReadingFormed ==
  /\ reading.kind \in {"none", "list", "counts", "counted"}
  /\ reading.kind = "list" =>
       /\ reading = [kind |-> "list", shown |-> reading.shown, offset |-> reading.offset, done |-> reading.done,
                     throughout |-> reading.throughout, left |-> reading.left, bumped |-> reading.bumped]
       /\ reading.offset \in Nat
  /\ reading.kind \in {"counts", "counted"} =>
       /\ reading = [kind |-> reading.kind, open |-> reading.open, bot |-> reading.bot, changes |-> reading.changes]
       /\ reading.open \in Nat /\ reading.bot \in Nat /\ reading.changes \in Nat

MarkDivides(k) ==
  /\ readAt[k] \in 0..moment /\ (readAt[k] = 0 => whatWas[k] = {}) /\ whatWas[k] \subseteq Messages
  /\ readAt[k] # 0 => \A m \in Messages : IF m \in whatWas[k] THEN m.at < readAt[k] ELSE m.at > readAt[k]
MarksHold ==
  /\ moment \in Nat /\ DOMAIN readAt = Readers \X InboxTickets /\ DOMAIN whatWas = Readers \X InboxTickets
  /\ \A m \in Messages : m.t \in InboxTickets /\ m.at \in 1..moment
  /\ \A k \in DOMAIN readAt : MarkDivides(k)

(* Times tell tickets apart, and who has no message yet is older than any  *)
(* on its way.                                                             *)
Wordless(t) == \A m \in inboxNotes : m.t # t
Timely ==
  /\ \A t \in InTheInbox : inboxRows[t].born \in 1..moment
  /\ \A m \in inboxNotes : m.t \in InTheInbox
  /\ \A n \in arriving : ~n.inbound => n.t \in InTheInbox
  /\ TimesApart(inboxRows, InTheInbox, Messages)
  /\ \A t \in InTheInbox, n \in arriving : Wordless(t) => inboxRows[t].born < n.at

(* The OPEN tickets of what the reader asked for, by tab.                  *)
OpenNow  == Matching([asked EXCEPT !.statuses = {"OPEN"}, !.bot = "any"])
HumanNow == Matching([asked EXCEPT !.statuses = {"OPEN"}, !.bot = "false"])
BotNow   == Matching([asked EXCEPT !.statuses = {"OPEN"}, !.bot = "true"])
Near(n, k, by) == n <= k + by /\ k <= n + by
CountsNear ==
  /\ reading.kind = "counts" => Near(reading.open, Cardinality(OpenNow), reading.changes)
  /\ reading.kind = "counted" => Near(reading.open, Cardinality(HumanNow) + reading.bot, reading.changes)

(* Who stood still is on the list, and shown if he stands among those      *)
(* already read.                                                           *)
Paged ==
  reading.kind = "list" /\ reading.left = {} =>
    \A t \in reading.throughout \ reading.bumped :
      t \in Matching(asked) /\ (reading.done \/ Place(asked, t) < reading.offset => t \in reading.shown)
InboxInv == InboxTyped /\ ReadingFormed /\ MarksHold /\ Timely /\ CountsNear /\ Paged

(***************************************************************************)
(* The order of a list                                                     *)
(***************************************************************************)
(* A bounded set of numbers has a greatest one, and that is its maximum.   *)
LEMMA MaxIs ==
  ASSUME NEW n \in Nat, NEW T, T \subseteq 1 .. n, T # {}
  PROVE  Max(T) \in T /\ \A j \in T : j <= Max(T)
<1> DEFINE R == {ss \in Nat \X Nat : ss[1] < ss[2]}
           U == {n - i : i \in T}
<1>1. IsWellFoundedOn(R, Nat) BY NatLessThanWellFounded DEF OpToRel
<1>2. U \subseteq Nat /\ U # {}
  <2>1. PICK i \in T : TRUE OBVIOUS
  <2>2. n - i \in U OBVIOUS
  <2>3. \A j \in T : n - j \in Nat OBVIOUS
  <2> QED BY <2>2, <2>3
<1>3. PICK u \in U : \A v \in U : <<v, u>> \notin R BY <1>1, <1>2, WFMin
<1>4. PICK i \in T : u = n - i BY <1>3
<1>5. \A j \in T : j <= i
  <2> TAKE j \in T
  <2>1. n - j \in U /\ n - j \in Nat /\ n - i \in Nat OBVIOUS
  <2>2. ~(n - j < n - i) BY <1>3, <1>4, <2>1
  <2> QED BY <2>1, <2>2
<1>6. \E x \in T : \A y \in T : x >= y BY <1>5
<1>7. Max(T) = CHOOSE x \in T : \A y \in T : x >= y BY DEF Max
<1>8. Max(T) \in T /\ \A y \in T : Max(T) >= y BY <1>6, <1>7
<1>9. Max(T) \in Nat /\ \A j \in T : j \in Nat
  <2>1. 1 .. n \subseteq Nat OBVIOUS
  <2> QED BY ONLY <1>8, <2>1, T \subseteq 1 .. n
<1> QED BY <1>8, <1>9

(* The time a ticket is listed by is one of its own.                       *)
LEMMA KeyIs ==
  ASSUME MarksHold, Timely, NEW t \in InTheInbox
  PROVE  /\ TimesOf(t) \subseteq 1 .. moment /\ LatestAt(t) \in TimesOf(t)
         /\ \A a \in TimesOf(t) : a <= LatestAt(t)
         /\ LatestAt(t) \in Nat /\ inboxRows[t].born \in Nat
<1> DEFINE ats == {m.at : m \in {n \in inboxNotes : n.t = t}}
<1>1. moment \in Nat /\ \A m \in inboxNotes : m.at \in 1 .. moment BY DEF MarksHold, Messages
<1>2. inboxRows[t].born \in 1 .. moment BY DEF Timely
<1>3. TimesOf(t) = IF ats = {} THEN {inboxRows[t].born} ELSE ats BY DEF TimesOf
<1>4. ats \subseteq 1 .. moment BY <1>1
<1> HIDE DEF ats
<1>5. TimesOf(t) \subseteq 1 .. moment /\ TimesOf(t) # {} BY <1>2, <1>3, <1>4
<1>6. LatestAt(t) \in TimesOf(t) /\ \A a \in TimesOf(t) : a <= LatestAt(t) BY <1>1, <1>5, MaxIs DEF LatestAt
<1> QED BY <1>1, <1>2, <1>5, <1>6

LEMMA TimesAre ==
  ASSUME NEW t
  PROVE  \/ Wordless(t) /\ TimesOf(t) = {inboxRows[t].born}
         \/ ~Wordless(t) /\ \A a : a \in TimesOf(t) <=> \E m \in inboxNotes : m.t = t /\ m.at = a
<1> DEFINE ats == {m.at : m \in {n \in inboxNotes : n.t = t}}
<1>1. TimesOf(t) = IF ats = {} THEN {inboxRows[t].born} ELSE ats BY DEF TimesOf
<1>2. \A a : a \in ats <=> \E m \in inboxNotes : m.t = t /\ m.at = a OBVIOUS
<1>3. ats = {} <=> Wordless(t) BY <1>2 DEF Wordless
<1> HIDE DEF ats
<1> QED BY <1>1, <1>2, <1>3

(* No two tickets have the same one.                                       *)
LEMMA KeysApart ==
  ASSUME MarksHold, Timely, NEW q, NEW s \in InTheInbox, NEW t \in InTheInbox, SortKey(q, s) = SortKey(q, t)
  PROVE  s = t
<1>1. CASE q.sort = "created"
  <2>1. inboxRows[s].born = inboxRows[t].born BY <1>1 DEF SortKey
  <2> QED BY <2>1 DEF Timely, TimesApart
<1>2. CASE q.sort # "created"
  <2>1. LatestAt(s) = LatestAt(t) BY <1>2 DEF SortKey
  <2>2. PICK a : a \in TimesOf(s) /\ a \in TimesOf(t) BY <2>1, KeyIs
  <2>3. \A m, n \in inboxNotes : m.at = n.at => m = n BY DEF Timely, TimesApart, Messages
  <2>4. \A m \in inboxNotes, u \in InTheInbox : m.at = inboxRows[u].born => m.t = u
    BY DEF Timely, TimesApart, Messages
  <2>5. \A u, v \in InTheInbox : inboxRows[u].born = inboxRows[v].born => u = v BY DEF Timely, TimesApart
  <2>6. a = inboxRows[s].born \/ \E m \in inboxNotes : m.t = s /\ m.at = a BY <2>2, TimesAre
  <2>7. a = inboxRows[t].born \/ \E m \in inboxNotes : m.t = t /\ m.at = a BY <2>2, TimesAre
  <2> QED BY <2>3, <2>4, <2>5, <2>6, <2>7
<1> QED BY <1>1, <1>2

LEMMA KeyNumber ==
  ASSUME MarksHold, Timely, NEW q, NEW t \in InTheInbox PROVE SortKey(q, t) \in Nat
BY KeyIs DEF SortKey

(* Of two tickets on a list, one is above the other, and those above it    *)
(* are above that.                                                         *)
LEMMA PlaceFacts ==
  ASSUME InboxTyped, MarksHold, Timely, NEW q
  PROVE  /\ IsFiniteSet(Matching(q)) /\ Matching(q) \subseteq InTheInbox
         /\ \A t : Place(q, t) \in Nat /\ IsFiniteSet({s \in Matching(q) : Above(q, s, t)})
         /\ \A s, t \in Matching(q) : Above(q, s, t) => Place(q, s) < Place(q, t)
         /\ \A s, t \in Matching(q) : Place(q, s) = Place(q, t) => s = t
<1> DEFINE up(t) == {s \in Matching(q) : Above(q, s, t)}
<1>1. Matching(q) \subseteq InTheInbox /\ InTheInbox \subseteq InboxTickets BY DEF Matching, InTheInbox
<1>2. IsFiniteSet(Matching(q)) BY <1>1, FS_Subset DEF InboxTyped
<1>3. \A t : IsFiniteSet(up(t)) BY <1>2, FS_Subset
<1>4. \A t : Place(q, t) = Cardinality(up(t)) BY DEF Place
<1>5. \A t : Cardinality(up(t)) \in Nat BY <1>3, FS_CardinalityType
<1>6. \A s \in Matching(q) : SortKey(q, s) \in Nat BY <1>1, KeyNumber
<1>7. ASSUME NEW s \in Matching(q), NEW t \in Matching(q), Above(q, s, t)
      PROVE  Cardinality(up(s)) < Cardinality(up(t))
  <2>1. up(s) \subseteq up(t)
    <3> SUFFICES ASSUME NEW r \in up(s) PROVE r \in up(t) OBVIOUS
    <3>1. r \in Matching(q) /\ Above(q, r, s) OBVIOUS
    <3>2. Above(q, r, t) BY <1>6, <1>7, <3>1 DEF Above
    <3> QED BY <3>1, <3>2
  <2>2. s \in up(t) BY <1>7
  <2>3. s \notin up(s) BY <1>6 DEF Above
  <2> HIDE DEF up
  <2>4. Cardinality(up(s)) <= Cardinality(up(t)) /\ (Cardinality(up(t)) = Cardinality(up(s)) => up(t) = up(s))
    BY <1>3, <2>1, FS_Subset
  <2> QED BY <1>5, <2>2, <2>3, <2>4
<1>8. ASSUME NEW s \in Matching(q), NEW t \in Matching(q), Cardinality(up(s)) = Cardinality(up(t)) PROVE s = t
  <2>1. SortKey(q, s) = SortKey(q, t) \/ Above(q, s, t) \/ Above(q, t, s) BY <1>6 DEF Above
  <2> HIDE DEF up
  <2>2. ~Above(q, s, t) /\ ~Above(q, t, s) BY <1>5, <1>7, <1>8
  <2> QED BY <1>1, <2>1, <2>2, KeysApart
<1> HIDE DEF up
<1>9. \A t : Place(q, t) \in Nat BY <1>4, <1>5
<1>10. \A s, t \in Matching(q) : Above(q, s, t) => Place(q, s) < Place(q, t) BY <1>4, <1>7
<1>11. \A s, t \in Matching(q) : Place(q, s) = Place(q, t) => s = t BY <1>4, <1>8
<1>12. \A t : IsFiniteSet({s \in Matching(q) : Above(q, s, t)}) BY <1>3 DEF up
<1> QED BY <1>1, <1>2, <1>9, <1>10, <1>11, <1>12

(* The places above a ticket are all taken.                                *)
LEMMA PlacesFill ==
  ASSUME InboxTyped, MarksHold, Timely, NEW q, NEW t \in Matching(q), NEW i \in 0 .. Place(q, t) - 1
  PROVE  \E s \in Matching(q) : Place(q, s) = i
<1> DEFINE H == {s \in Matching(q) : Above(q, s, t)}
           p == Place(q, t)
           f == [s \in H |-> Place(q, s)]
<1>1. p \in Nat /\ p = Cardinality(H) /\ IsFiniteSet(H) BY PlaceFacts DEF Place
<1>2. \A s \in H : Place(q, s) \in 0 .. p - 1
  <2> TAKE s \in H
  <2>1. Place(q, s) \in Nat /\ Place(q, s) < Place(q, t) BY PlaceFacts
  <2> QED BY <1>1, <2>1
<1>3. f \in Injection(H, 0 .. p - 1)
  <2>1. f \in [H -> 0 .. p - 1] BY <1>2
  <2>2. \A r, s \in H : f[r] = f[s] => r = s BY PlaceFacts
  <2> QED BY <2>1, <2>2 DEF Injection, IsInjective
<1>4. IsFiniteSet(0 .. p - 1) /\ Cardinality(0 .. p - 1) = p BY <1>1, FS_Interval
<1> HIDE DEF p
<1>5. f \in Surjection(H, 0 .. p - 1) BY <1>1, <1>3, <1>4, FS_Injection
<1>6. \A j \in 0 .. p - 1 : \E s \in H : f[s] = j BY <1>5 DEF Surjection
<1> QED BY <1>6 DEF p

(* A page has no more than its limit; one that is not full is the last.    *)
LEMMA PageFacts ==
  ASSUME InboxTyped, MarksHold, Timely, NEW q, NEW o \in Nat
  PROVE  /\ Cardinality(PageAt(q, o)) \in 0 .. PageSize
         /\ Cardinality(PageAt(q, o)) < PageSize => \A t \in Matching(q) : Place(q, t) < o + PageSize
<1> DEFINE P == PageAt(q, o)
           I == o .. o + PageSize - 1
           f == [s \in P |-> Place(q, s)]
<1>1. PageSize \in Nat /\ PageSize > 0 BY InboxAssumption
<1>2. IsFiniteSet(I) /\ Cardinality(I) = PageSize BY <1>1, FS_Interval
<1>3. \A s \in P : s \in Matching(q) /\ Place(q, s) \in I BY DEF PageAt
<1>4. f \in Injection(P, I)
  <2>1. \A r, s \in P : f[r] = f[s] => r = s BY <1>3, PlaceFacts
  <2> QED BY <1>3, <2>1 DEF Injection, IsInjective
<1>5. IsFiniteSet(P) /\ Cardinality(P) <= PageSize BY <1>2, <1>4, FS_Injection
<1>6. ASSUME NEW t \in Matching(q), ~(Place(q, t) < o + PageSize) PROVE Cardinality(P) >= PageSize
  <2>1. Place(q, t) \in Nat BY PlaceFacts
  <2>2. \A i \in I : i \in 0 .. Place(q, t) - 1 BY <1>1, <1>6, <2>1
  <2>3. \A i \in I : \E s \in P : f[s] = i
    <3> TAKE i \in I
    <3>1. PICK s \in Matching(q) : Place(q, s) = i BY <2>2, PlacesFill
    <3>2. s \in P BY <3>1 DEF PageAt
    <3> QED BY <3>1, <3>2
  <2>4. f \in Surjection(P, I) BY <1>3, <2>3 DEF Surjection
  <2> QED BY <1>2, <1>5, <2>4, FS_Surjection
<1>7. Cardinality(P) \in Nat BY <1>5, FS_CardinalityType
<1> QED BY <1>1, <1>5, <1>6, <1>7

(* A list that nobody leaves and on which others only rise moves whoever   *)
(* stands still down.                                                      *)
LEMMA StandsOrFalls ==
  ASSUME InboxInv, NEW q, IsFiniteSet(Matching(q)'), NEW t \in Matching(q),
         Matching(q) \subseteq Matching(q)', SortKey(q, t)' = SortKey(q, t),
         \A s \in Matching(q) : SortKey(q, s)' \in Nat /\ SortKey(q, s)' >= SortKey(q, s)
  PROVE  Place(q, t) <= Place(q, t)'
<1> DEFINE U == {s \in Matching(q) : Above(q, s, t)}
           V == {s \in Matching(q)' : Above(q, s, t)'}
<1>1. IsFiniteSet(V) BY FS_Subset
<1>2. U \subseteq V
  <2> SUFFICES ASSUME NEW s \in U PROVE s \in V OBVIOUS
  <2>1. s \in InTheInbox /\ t \in InTheInbox BY DEF Matching
  <2>2. SortKey(q, s) \in Nat /\ SortKey(q, t) \in Nat BY <2>1, KeyNumber DEF InboxInv
  <2>3. SortKey(q, s)' >= SortKey(q, s) /\ SortKey(q, s)' \in Nat /\ SortKey(q, s) > SortKey(q, t) BY DEF Above
  <2>4. SortKey(q, s)' > SortKey(q, t)' BY <2>2, <2>3
  <2>5. Above(q, s, t)' BY <2>4 DEF Above
  <2> QED BY <2>5
<1>3. Cardinality(U) <= Cardinality(V) BY <1>1, <1>2, FS_Subset
<1>4. Place(q, t) = Cardinality(U) /\ Place(q, t)' = Cardinality(V) BY DEF Place
<1> QED BY <1>3, <1>4

(***************************************************************************)
(* What the inbox starts from, and what a step does to times               *)
(***************************************************************************)
LEMMA InboxStarts == ASSUME NEW c \in InboxCases, InboxInit(c) PROVE InboxInv
<1>0. InboxCaseOK(c) BY InboxAssumption
<1>1. /\ inboxRows = c.rows /\ inboxNotes = c.notes /\ arriving = {} /\ marking = {} /\ inboxDue = c.asks
      /\ moment = c.now /\ asked = Everything /\ reading = NotReading
      /\ Messages = c.notes /\ InboxTickets = DOMAIN c.rows
      /\ InTheInbox = {t \in DOMAIN c.rows : c.rows[t].status # "none"}
  BY DEF InboxInit, Messages, InboxTickets, InTheInbox
<1>2. InboxTyped BY <1>0, <1>1 DEF InboxTyped, InboxCaseOK, QueryFormed, Everything
<1>3. ReadingFormed /\ CountsNear /\ Paged BY <1>1 DEF ReadingFormed, CountsNear, Paged, NotReading
<1>4. Timely BY <1>0, <1>1 DEF Timely, InboxCaseOK
<1>5. MarksHold
  <2>1. DOMAIN readAt = Readers \X InboxTickets /\ DOMAIN whatWas = Readers \X InboxTickets
        /\ \A k \in DOMAIN readAt : readAt[k] = 0 /\ whatWas[k] = {}
    BY <1>1 DEF InboxInit
  <2>2. \A m \in Messages : m.t \in InboxTickets /\ m.at \in 1 .. moment BY <1>0, <1>1 DEF InboxCaseOK
  <2> QED BY <1>0, <1>1, <2>1, <2>2 DEF MarksHold, MarkDivides, InboxCaseOK
<1> QED BY <1>2, <1>3, <1>4, <1>5 DEF InboxInv

(* A message committed mints its ticket at its own time, or leaves the     *)
(* time the ticket has.                                                    *)
LEMMA NoteRows ==
  ASSUME InboxInv, NEW n \in arriving, NoteCommits(n)
  PROVE  /\ asked' = asked /\ inboxDue' = inboxDue /\ InboxTickets' = InboxTickets
         /\ inboxNotes' = inboxNotes \cup {n} /\ arriving' = arriving \ {n} /\ Messages' = Messages
         /\ UNCHANGED <<readAt, whatWas, marking, moment>>
         /\ n.t \in InboxTickets
         /\ \A t \in InboxTickets \ {n.t} : inboxRows'[t] = inboxRows[t]
         /\ InTheInbox' = InTheInbox \cup {n.t}
         /\ \A t \in InTheInbox : inboxRows'[t].born = inboxRows[t].born
         /\ n.t \notin InTheInbox => inboxRows'[n.t].born = n.at
<1>1. PICK row \in IF n.inbound THEN Received(n, inboxRows[n.t]) ELSE {inboxRows[n.t]} :
        inboxRows' = [inboxRows EXCEPT ![n.t] = row]
  BY DEF NoteCommits
<1>2. /\ asked' = asked /\ inboxDue' = inboxDue /\ InboxTickets' = InboxTickets
      /\ inboxNotes' = inboxNotes \cup {n} /\ arriving' = arriving \ {n} /\ Messages' = Messages
      /\ UNCHANGED <<readAt, whatWas, marking, moment>>
  BY <1>1 DEF NoteCommits, InboxTickets, Messages
<1>3. n.t \in InboxTickets BY DEF InboxInv, MarksHold, Messages
<1>4. inboxRows'[n.t] = row /\ \A t \in InboxTickets \ {n.t} : inboxRows'[t] = inboxRows[t]
  BY <1>1, <1>3 DEF InboxTickets
<1>5. /\ row.status # "none"
      /\ inboxRows[n.t].status # "none" => row.born = inboxRows[n.t].born
      /\ inboxRows[n.t].status = "none" => row.born = n.at
  <2>1. CASE ~n.inbound
    <3>1. n.t \in InTheInbox BY <2>1 DEF InboxInv, Timely
    <3> QED BY <1>1, <2>1, <3>1 DEF InTheInbox
  <2>2. CASE n.inbound /\ inboxRows[n.t].status = "none"
    <3>1. row = [status |-> "OPEN", by |-> "bot", born |-> n.at] BY <1>1, <2>2 DEF Received
    <3> QED BY <2>2, <3>1
  <2>3. CASE n.inbound /\ inboxRows[n.t].status # "none"
    <3>1. PICK b : row = [status |-> IF inboxRows[n.t].status \in {"WAITING", "RESOLVED"} THEN "OPEN" ELSE inboxRows[n.t].status,
                          by |-> b, born |-> inboxRows[n.t].born]
      BY <1>1, <2>3 DEF Received
    <3> QED BY <2>3, <3>1
  <2> QED BY <2>1, <2>2, <2>3
<1>6. InTheInbox' = InTheInbox \cup {n.t} BY <1>2, <1>3, <1>4, <1>5 DEF InTheInbox
<1>7. \A t \in InTheInbox : inboxRows'[t].born = inboxRows[t].born BY <1>4, <1>5 DEF InTheInbox
<1>8. n.t \notin InTheInbox => inboxRows'[n.t].born = n.at BY <1>3, <1>4, <1>5 DEF InTheInbox
<1> QED BY <1>2, <1>3, <1>4, <1>6, <1>7, <1>8

LEMMA NoteTimely == ASSUME InboxInv, NEW n \in arriving, NoteCommits(n) PROVE Timely'
<1> USE NoteRows
<1>0. Timely /\ MarksHold /\ n \in Messages BY DEF InboxInv, Messages
<1>1. \A t \in InTheInbox' : inboxRows'[t].born \in 1 .. moment' BY <1>0 DEF Timely, MarksHold
<1>2. \A m \in inboxNotes' : m.t \in InTheInbox' BY <1>0 DEF Timely
<1>3. \A m \in arriving' : ~m.inbound => m.t \in InTheInbox' BY <1>0 DEF Timely
<1>4. TimesApart(inboxRows', InTheInbox', Messages')
  <2>1. TimesApart(inboxRows, InTheInbox, Messages) BY <1>0 DEF Timely
  <2>2. ASSUME NEW s \in InTheInbox', NEW t \in InTheInbox', inboxRows'[s].born = inboxRows'[t].born PROVE s = t
    BY <1>0, <2>1, <2>2 DEF TimesApart
  <2>3. ASSUME NEW m \in Messages, NEW t \in InTheInbox', m.at = inboxRows'[t].born PROVE m.t = t
    BY <1>0, <2>1, <2>3 DEF TimesApart
  <2> QED BY <2>1, <2>2, <2>3 DEF TimesApart
<1>5. ASSUME NEW t \in InTheInbox', NEW m \in arriving', Wordless(t)' PROVE inboxRows'[t].born < m.at
  <2>1. t # n.t /\ Wordless(t) BY <1>5 DEF Wordless
  <2> QED BY <1>0, <2>1 DEF Timely
<1>6. TimesApart(inboxRows, InTheInbox, Messages)' BY <1>4 DEF TimesApart
<1> QED BY <1>1, <1>2, <1>3, <1>5, <1>6 DEF Timely

(* It moves its own ticket up and no other.                                *)
LEMMA NoteKeys ==
  ASSUME InboxInv, NEW n \in arriving, NoteCommits(n), NEW q, NEW s \in InTheInbox
  PROVE  /\ SortKey(q, s)' \in Nat /\ SortKey(q, s)' >= SortKey(q, s)
         /\ s # n.t => SortKey(q, s)' = SortKey(q, s)
<1>0. MarksHold /\ Timely BY DEF InboxInv
<1>1. inboxRows'[s].born = inboxRows[s].born /\ inboxNotes' = inboxNotes \cup {n} BY NoteRows
<1>2. inboxRows[s].born \in Nat /\ LatestAt(s) \in Nat BY <1>0, KeyIs
<1>3. CASE s # n.t
  <2>1. {m.at : m \in {x \in inboxNotes : x.t = s}}' = {m.at : m \in {x \in inboxNotes : x.t = s}} BY <1>1, <1>3
  <2>2. TimesOf(s)' = TimesOf(s) BY <1>1, <2>1 DEF TimesOf
  <2>3. LatestAt(s)' = LatestAt(s) BY <2>2 DEF LatestAt
  <2> QED BY <1>1, <1>2, <2>3 DEF SortKey
<1>4. CASE s = n.t
  <2> DEFINE ats == {m.at : m \in {x \in inboxNotes' : x.t = s}}
  <2>1. n \in Messages /\ n.at \in 1 .. moment /\ moment \in Nat BY <1>0 DEF MarksHold, Messages
  <2>2. ats \subseteq 1 .. moment BY <1>0, <1>1, <2>1 DEF MarksHold, Messages
  <2>3. n.at \in ats BY <1>1, <1>4
  <2>4. ASSUME ~Wordless(s) PROVE LatestAt(s) \in ats
    <3>1. LatestAt(s) \in TimesOf(s) BY <1>0, KeyIs
    <3>2. PICK m \in inboxNotes : m.t = s /\ m.at = LatestAt(s) BY <2>4, <3>1, TimesAre
    <3> QED BY <1>1, <3>2
  <2>5. ASSUME Wordless(s) PROVE LatestAt(s) < n.at
    <3>1. LatestAt(s) \in TimesOf(s) BY <1>0, KeyIs
    <3>2. LatestAt(s) = inboxRows[s].born BY <2>5, <3>1, TimesAre
    <3> QED BY <1>0, <2>5, <3>2 DEF Timely
  <2>6. TimesOf(s)' = ats
    <3>1. TimesOf(s)' = IF ats = {} THEN {inboxRows'[s].born} ELSE ats BY DEF TimesOf
    <3> HIDE DEF ats
    <3> QED BY <2>3, <3>1
  <2>7. LatestAt(s)' = Max(ats) BY <2>6 DEF LatestAt
  <2> HIDE DEF ats
  <2>8. Max(ats) \in ats /\ \A j \in ats : j <= Max(ats) BY <2>1, <2>2, <2>3, MaxIs
  <2>9. LatestAt(s)' \in Nat /\ n.at <= LatestAt(s)'
    <3>1. Max(ats) \in 1 .. moment /\ n.at <= Max(ats) BY ONLY <2>2, <2>3, <2>8
    <3>2. Max(ats) \in Nat BY ONLY <2>1, <3>1
    <3> QED BY ONLY <2>7, <3>1, <3>2
  <2>10. LatestAt(s)' >= LatestAt(s)
    <3>1. CASE Wordless(s) BY <1>2, <2>1, <2>5, <2>9, <3>1
    <3>2. CASE ~Wordless(s) BY <1>2, <2>4, <2>7, <2>8, <2>9, <3>2
    <3> QED BY <3>1, <3>2
  <2> QED BY <1>1, <1>2, <1>4, <2>9, <2>10 DEF SortKey
<1> QED BY <1>3, <1>4

(* A change of its row leaves every ticket where it is.                    *)
LEMMA RowRows ==
  ASSUME InboxInv, NEW q \in inboxDue, RowChanges(q)
  PROVE  /\ asked' = asked /\ inboxDue' \subseteq inboxDue /\ InboxTickets' = InboxTickets /\ Messages' = Messages
         /\ UNCHANGED <<inboxNotes, arriving, readAt, whatWas, marking, moment>>
         /\ \A t \in InboxTickets \ {q.t} : inboxRows'[t] = inboxRows[t]
         /\ InTheInbox' = InTheInbox
         /\ \A t \in InTheInbox : inboxRows'[t].born = inboxRows[t].born
<1>1. /\ asked' = asked /\ inboxDue' \subseteq inboxDue /\ InboxTickets' = InboxTickets /\ Messages' = Messages
      /\ UNCHANGED <<inboxNotes, arriving, readAt, whatWas, marking, moment>>
      /\ q.t \in InboxTickets /\ inboxRows[q.t].status # "none"
  BY DEF RowChanges, InboxTickets, InTheInbox, Messages
<1>2. q.status # "none" BY DEF InboxInv, InboxTyped, InboxRequest, RowChanges
<1>3. PICK row : row = [status |-> q.status, by |-> q.by, born |-> inboxRows[q.t].born] OBVIOUS
<1>4. inboxRows' = [inboxRows EXCEPT ![q.t] = row] BY <1>3 DEF RowChanges
<1>5. inboxRows'[q.t] = row /\ \A t \in InboxTickets \ {q.t} : inboxRows'[t] = inboxRows[t]
  BY <1>1, <1>4 DEF InboxTickets
<1>6. row.status # "none" /\ row.born = inboxRows[q.t].born BY <1>2, <1>3
<1>7. InTheInbox' = InTheInbox BY <1>1, <1>5, <1>6 DEF InTheInbox
<1>8. \A t \in InTheInbox : inboxRows'[t].born = inboxRows[t].born BY <1>5, <1>6 DEF InTheInbox
<1> QED BY <1>1, <1>5, <1>7, <1>8

LEMMA SameTimes ==
  ASSUME InboxInv, InTheInbox' = InTheInbox, UNCHANGED <<inboxNotes, arriving, moment>>,
         \A t \in InTheInbox : inboxRows'[t].born = inboxRows[t].born
  PROVE  Timely' /\ \A q : \A s \in InTheInbox : SortKey(q, s)' = SortKey(q, s) /\ SortKey(q, s) \in Nat
<1>0. Timely /\ MarksHold /\ Messages' = Messages BY DEF InboxInv, Messages
<1>1. TimesApart(inboxRows, InTheInbox, Messages)' BY <1>0 DEF Timely, TimesApart
<1>2. \A t : Wordless(t)' = Wordless(t) BY DEF Wordless
<1>3. Timely' BY <1>0, <1>1, <1>2 DEF Timely
<1>4. ASSUME NEW q, NEW s \in InTheInbox PROVE SortKey(q, s)' = SortKey(q, s) /\ SortKey(q, s) \in Nat
  <2>1. TimesOf(s)' = TimesOf(s) BY DEF TimesOf
  <2>2. LatestAt(s)' = LatestAt(s) BY <2>1 DEF LatestAt
  <2>3. SortKey(q, s) \in Nat BY <1>0, KeyNumber
  <2> QED BY <2>2, <2>3 DEF SortKey
<1> QED BY <1>3, <1>4

(* A step under a reader keeps what he has read of his list sound.         *)
LEMMA NoticedPaged ==
  ASSUME InboxInv, asked' = asked, InboxTickets' = InboxTickets, NEW B,
         reading' = CASE reading.kind = "list" -> [reading EXCEPT !.left = @ \cup LeftList, !.bumped = @ \cup B]
                      [] reading.kind \in {"counts", "counted"} -> [reading EXCEPT !.changes = @ + 1]
                      [] OTHER -> reading,
         \A q : \A s \in InTheInbox :
           /\ SortKey(q, s)' \in Nat /\ SortKey(q, s)' >= SortKey(q, s)
           /\ s \notin B => SortKey(q, s)' = SortKey(q, s)
  PROVE  ReadingFormed' /\ Paged'
<1>0. ReadingFormed /\ Paged /\ InboxTyped BY DEF InboxInv
<1>1. CASE reading.kind = "none"
  <2>1. reading' = reading BY <1>1
  <2> QED BY <1>0, <1>1, <2>1 DEF ReadingFormed, Paged
<1>2. CASE reading.kind \in {"counts", "counted"}
  <2>1. reading' = [reading EXCEPT !.changes = @ + 1] BY <1>2
  <2>2. /\ reading = [kind |-> reading.kind, open |-> reading.open, bot |-> reading.bot, changes |-> reading.changes]
        /\ reading.open \in Nat /\ reading.bot \in Nat /\ reading.changes \in Nat
    BY <1>0, <1>2 DEF ReadingFormed
  <2>3. reading' = [kind |-> reading.kind, open |-> reading.open, bot |-> reading.bot, changes |-> reading.changes + 1]
    BY <2>1, <2>2
  <2>4. /\ reading'.kind = reading.kind /\ reading'.open = reading.open /\ reading'.bot = reading.bot
        /\ reading'.changes = reading.changes + 1
    BY ONLY <2>3
  <2> QED BY <1>2, <2>2, <2>3, <2>4 DEF ReadingFormed, Paged
<1>3. CASE reading.kind = "list"
  <2>1. PICK L : L = LeftList OBVIOUS
  <2>2. reading' = [reading EXCEPT !.left = @ \cup L, !.bumped = @ \cup B] BY <1>3, <2>1
  <2>3. /\ reading = [kind |-> "list", shown |-> reading.shown, offset |-> reading.offset, done |-> reading.done,
                     throughout |-> reading.throughout, left |-> reading.left, bumped |-> reading.bumped]
        /\ reading.offset \in Nat
    BY <1>0, <1>3 DEF ReadingFormed
  <2>4. reading' = [kind |-> "list", shown |-> reading.shown, offset |-> reading.offset, done |-> reading.done,
                    throughout |-> reading.throughout, left |-> reading.left \cup L, bumped |-> reading.bumped \cup B]
    BY <2>2, <2>3
  <2>5. /\ reading'.kind = "list" /\ reading'.shown = reading.shown /\ reading'.offset = reading.offset
        /\ reading'.done = reading.done /\ reading'.throughout = reading.throughout
        /\ reading'.left = reading.left \cup L /\ reading'.bumped = reading.bumped \cup B
    BY ONLY <2>4
  <2>6. ReadingFormed' BY <2>3, <2>4, <2>5 DEF ReadingFormed
  <2>7. PICK q : q = asked OBVIOUS
  <2>8. Matching(asked) = Matching(q) /\ Matching(asked)' = Matching(q)' /\ \A t : Place(asked, t)' = Place(q, t)'
    BY <2>7
  <2>9. L = Matching(q) \ Matching(q)' BY <2>1, <2>8 DEF LeftList
  <2>10. ASSUME reading'.left = {}, NEW t \in reading'.throughout \ reading'.bumped
         PROVE  t \in Matching(q)' /\ (reading'.done \/ Place(q, t)' < reading'.offset => t \in reading'.shown)
    <3>1. reading.left = {} /\ L = {} /\ t \in reading.throughout \ reading.bumped /\ t \notin B BY <2>5, <2>10
    <3>2. t \in Matching(q) /\ (reading.done \/ Place(q, t) < reading.offset => t \in reading.shown)
      BY <1>0, <1>3, <2>7, <3>1 DEF Paged
    <3>3. Matching(q) \subseteq Matching(q)' BY <2>9, <3>1
    <3>4. Matching(q) \subseteq InTheInbox BY DEF Matching
    <3>5. IsFiniteSet(Matching(q)')
      <4>1. Matching(q)' \subseteq InboxTickets' BY DEF Matching, InTheInbox
      <4> QED BY <1>0, <4>1, FS_Subset DEF InboxTyped
    <3>6. Place(q, t) <= Place(q, t)' BY <3>1, <3>2, <3>3, <3>4, <3>5, StandsOrFalls
    <3>7. Place(q, t) \in Nat /\ Place(q, t)' \in Nat
      <4>1. Place(q, t) \in Nat BY PlaceFacts DEF InboxInv
      <4>2. IsFiniteSet({s \in Matching(q)' : Above(q, s, t)'}) BY <3>5, FS_Subset
      <4>3. Place(q, t)' = Cardinality({s \in Matching(q)' : Above(q, s, t)'}) BY DEF Place
      <4> QED BY <4>1, <4>2, <4>3, FS_CardinalityType
    <3> QED BY <2>3, <2>5, <3>2, <3>3, <3>6, <3>7
  <2>11. Paged' BY <2>8, <2>10 DEF Paged
  <2> QED BY <2>6, <2>11
<1> QED BY <1>0, <1>1, <1>2, <1>3 DEF ReadingFormed

(***************************************************************************)
(* The tabs' numbers                                                       *)
(***************************************************************************)
(* Sets that differ in one element differ by one in number.                *)
LEMMA OneApart ==
  ASSUME NEW S, NEW T, IsFiniteSet(S), IsFiniteSet(T), NEW x, S \ {x} = T \ {x}
  PROVE  Cardinality(S) \in Nat /\ Cardinality(T) \in Nat /\ Near(Cardinality(S), Cardinality(T), 1)
<1>1. Cardinality(S) \in Nat /\ Cardinality(T) \in Nat BY FS_CardinalityType
<1>2. \A V : IsFiniteSet(V) => IsFiniteSet(V \ {x}) /\ Cardinality(V \ {x}) \in Nat
              /\ Cardinality(V \ {x}) <= Cardinality(V) /\ Cardinality(V) <= Cardinality(V \ {x}) + 1
  <2> SUFFICES ASSUME NEW V, IsFiniteSet(V)
               PROVE  IsFiniteSet(V \ {x}) /\ Cardinality(V \ {x}) \in Nat
                      /\ Cardinality(V \ {x}) <= Cardinality(V) /\ Cardinality(V) <= Cardinality(V \ {x}) + 1
    OBVIOUS
  <2>1. /\ IsFiniteSet(V \ {x})
        /\ Cardinality(V \ {x}) = IF x \in V THEN Cardinality(V) - 1 ELSE Cardinality(V)
    BY FS_RemoveElement
  <2>2. Cardinality(V \ {x}) \in Nat /\ Cardinality(V) \in Nat BY <2>1, FS_CardinalityType
  <2> QED BY <2>1, <2>2
<1> QED BY <1>1, <1>2 DEF Near

(* What changes one ticket's row or messages leaves the others on the tab. *)
LEMMA OneTicketMoves ==
  ASSUME asked' = asked, NEW x, InboxTickets' = InboxTickets,
         \A t \in InboxTickets \ {x} : inboxRows'[t] = inboxRows[t],
         \A m : m.t # x => (m \in inboxNotes' <=> m \in inboxNotes)
  PROVE  OpenNow \ {x} = OpenNow' \ {x} /\ HumanNow \ {x} = HumanNow' \ {x}
<1>1. ASSUME NEW q, NEW t \in InboxTickets \ {x} PROVE t \in Matching(q) <=> t \in Matching(q)'
  <2>1. Searched(q, t) <=> Searched(q, t)' BY <1>1 DEF Searched
  <2>2. HeldByBot(t) <=> HeldByBot(t)' BY <1>1 DEF HeldByBot
  <2>3. OnTab(q, t) <=> OnTab(q, t)' BY <2>2 DEF OnTab
  <2>4. InScope(q, t) <=> InScope(q, t)' BY <1>1 DEF InScope
  <2> QED BY <1>1, <2>1, <2>3, <2>4 DEF Matching, InTheInbox
<1>2. ASSUME NEW q PROVE Matching(q) \ {x} = Matching(q)' \ {x}
  <2>1. Matching(q) \subseteq InboxTickets /\ Matching(q)' \subseteq InboxTickets BY DEF Matching, InTheInbox
  <2> QED BY <1>1, <2>1
<1>3. PICK q : q = [asked EXCEPT !.statuses = {"OPEN"}, !.bot = "any"] OBVIOUS
<1>4. PICK r : r = [asked EXCEPT !.statuses = {"OPEN"}, !.bot = "false"] OBVIOUS
<1>5. OpenNow = Matching(q) /\ OpenNow' = Matching(q)' BY <1>3 DEF OpenNow
<1>6. HumanNow = Matching(r) /\ HumanNow' = Matching(r)' BY <1>4 DEF HumanNow
<1> QED BY <1>2, <1>5, <1>6

(* The tabs are counted.                                                   *)
LEMMA TabsFinite ==
  ASSUME InboxTyped
  PROVE  /\ IsFiniteSet(OpenNow) /\ IsFiniteSet(HumanNow) /\ IsFiniteSet(BotNow)
         /\ Cardinality(OpenNow) \in Nat /\ Cardinality(HumanNow) \in Nat /\ Cardinality(BotNow) \in Nat
<1>1. \A q : Matching(q) \subseteq InboxTickets BY DEF Matching, InTheInbox
<1>2. OpenNow \subseteq InboxTickets /\ HumanNow \subseteq InboxTickets /\ BotNow \subseteq InboxTickets
  BY <1>1 DEF OpenNow, HumanNow, BotNow
<1>3. IsFiniteSet(OpenNow) /\ IsFiniteSet(HumanNow) /\ IsFiniteSet(BotNow) BY <1>2, FS_Subset DEF InboxTyped
<1> QED BY <1>3, FS_CardinalityType

(* A change under the reader is noticed in what he counts.                 *)
LEMMA NoticedNear ==
  ASSUME InboxInv, asked' = asked, NEW x, InboxTickets' = InboxTickets, NEW L, NEW B,
         \A t \in InboxTickets \ {x} : inboxRows'[t] = inboxRows[t],
         \A m : m.t # x => (m \in inboxNotes' <=> m \in inboxNotes),
         reading' = CASE reading.kind = "list" -> [reading EXCEPT !.left = @ \cup L, !.bumped = @ \cup B]
                      [] reading.kind \in {"counts", "counted"} -> [reading EXCEPT !.changes = @ + 1]
                      [] OTHER -> reading
  PROVE  CountsNear'
<1>0. InboxTyped /\ ReadingFormed /\ CountsNear BY DEF InboxInv
<1>1. CASE reading.kind = "none"
  <2>1. reading' = reading BY <1>1
  <2> QED BY <1>1, <2>1 DEF CountsNear
<1>2. CASE reading.kind = "list"
  <2>1. reading' = [reading EXCEPT !.left = @ \cup L, !.bumped = @ \cup B] BY <1>2
  <2>2. reading = [kind |-> "list", shown |-> reading.shown, offset |-> reading.offset, done |-> reading.done,
                   throughout |-> reading.throughout, left |-> reading.left, bumped |-> reading.bumped]
    BY <1>0, <1>2 DEF ReadingFormed
  <2>3. reading'.kind = "list" BY ONLY <2>1, <2>2
  <2> QED BY <2>3 DEF CountsNear
<1>3. CASE reading.kind \in {"counts", "counted"}
  <2>1. reading' = [reading EXCEPT !.changes = @ + 1] BY <1>3
  <2>2. /\ reading = [kind |-> reading.kind, open |-> reading.open, bot |-> reading.bot, changes |-> reading.changes]
        /\ reading.open \in Nat /\ reading.bot \in Nat /\ reading.changes \in Nat
    BY <1>0, <1>3 DEF ReadingFormed
  <2>3. /\ reading'.kind = reading.kind /\ reading'.open = reading.open /\ reading'.bot = reading.bot
        /\ reading'.changes = reading.changes + 1
    BY ONLY <2>1, <2>2
  <2>5. OpenNow \ {x} = OpenNow' \ {x} /\ HumanNow \ {x} = HumanNow' \ {x} BY OneTicketMoves
  <2>6. IsFiniteSet(OpenNow) /\ IsFiniteSet(HumanNow) BY <1>0, TabsFinite
  <2>7. IsFiniteSet(OpenNow') /\ IsFiniteSet(HumanNow')
    <3>1. \A q : Matching(q)' \subseteq InboxTickets BY DEF Matching, InTheInbox
    <3>2. OpenNow' \subseteq InboxTickets /\ HumanNow' \subseteq InboxTickets
      <4>1. PICK q : q = [asked EXCEPT !.statuses = {"OPEN"}, !.bot = "any"] OBVIOUS
      <4>2. PICK r : r = [asked EXCEPT !.statuses = {"OPEN"}, !.bot = "false"] OBVIOUS
      <4>3. OpenNow' = Matching(q)' /\ HumanNow' = Matching(r)' BY <4>1, <4>2 DEF OpenNow, HumanNow
      <4> QED BY <3>1, <4>3
    <3> QED BY <1>0, <3>2, FS_Subset DEF InboxTyped
  <2>8. /\ Cardinality(OpenNow) \in Nat /\ Cardinality(OpenNow') \in Nat
        /\ Near(Cardinality(OpenNow), Cardinality(OpenNow'), 1)
    BY <2>5, <2>6, <2>7, OneApart
  <2>9. /\ Cardinality(HumanNow) \in Nat /\ Cardinality(HumanNow') \in Nat
        /\ Near(Cardinality(HumanNow), Cardinality(HumanNow'), 1)
    BY <2>5, <2>6, <2>7, OneApart
  <2>10. reading'.kind = "counts" => Near(reading'.open, Cardinality(OpenNow'), reading'.changes)
    BY <1>0, <2>2, <2>3, <2>8 DEF CountsNear, Near
  <2>11. reading'.kind = "counted" => Near(reading'.open, Cardinality(HumanNow') + reading'.bot, reading'.changes)
    BY <1>0, <2>2, <2>3, <2>9 DEF CountsNear, Near
  <2> QED BY <2>10, <2>11 DEF CountsNear, Near
<1> QED BY <1>0, <1>1, <1>2, <1>3 DEF ReadingFormed

(***************************************************************************)
(* The steps                                                               *)
(***************************************************************************)
(* What moves meanwhile.                                                   *)
LEMMA NoteCommitsKeeps == ASSUME InboxInv, NEW n \in arriving, NoteCommits(n) PROVE InboxInv'
<1>0. InboxTyped /\ MarksHold BY DEF InboxInv
<1>1. /\ asked' = asked /\ inboxDue' = inboxDue /\ InboxTickets' = InboxTickets
      /\ inboxNotes' = inboxNotes \cup {n} /\ Messages' = Messages
      /\ UNCHANGED <<readAt, whatWas, marking, moment>>
      /\ \A t \in InboxTickets \ {n.t} : inboxRows'[t] = inboxRows[t]
  BY NoteRows
<1>2. reading' = CASE reading.kind = "list" -> [reading EXCEPT !.left = @ \cup LeftList, !.bumped = @ \cup {n.t}]
                   [] reading.kind \in {"counts", "counted"} -> [reading EXCEPT !.changes = @ + 1]
                   [] OTHER -> reading
  BY DEF NoteCommits, Noticed
<1>3. \A q : \A s \in InTheInbox :
        /\ SortKey(q, s)' \in Nat /\ SortKey(q, s)' >= SortKey(q, s)
        /\ s \notin {n.t} => SortKey(q, s)' = SortKey(q, s)
  BY NoteKeys
<1>4. ReadingFormed' /\ Paged' BY <1>1, <1>2, <1>3, NoticedPaged
<1>5. CountsNear'
  <2>1. PICK L : L = LeftList OBVIOUS
  <2>2. \A m : m.t # n.t => (m \in inboxNotes' <=> m \in inboxNotes) BY <1>1
  <2> QED BY <1>1, <1>2, <2>1, <2>2, NoticedNear
<1>6. MarksHold'
  <2>2. \A k : MarkDivides(k)' = MarkDivides(k) BY <1>1 DEF MarkDivides
  <2> QED BY <1>0, <1>1, <2>2 DEF MarksHold
<1>7. InboxTyped' BY <1>0, <1>1 DEF InboxTyped, QueryFormed
<1>8. Timely' BY NoteTimely
<1> QED BY <1>4, <1>5, <1>6, <1>7, <1>8 DEF InboxInv

LEMMA RowChangesKeeps == ASSUME InboxInv, NEW q \in inboxDue, RowChanges(q) PROVE InboxInv'
<1>0. InboxTyped /\ MarksHold BY DEF InboxInv
<1>1. /\ asked' = asked /\ inboxDue' \subseteq inboxDue /\ InboxTickets' = InboxTickets /\ Messages' = Messages
      /\ UNCHANGED <<inboxNotes, arriving, readAt, whatWas, marking, moment>>
      /\ InTheInbox' = InTheInbox /\ \A t \in InTheInbox : inboxRows'[t].born = inboxRows[t].born
      /\ \A t \in InboxTickets \ {q.t} : inboxRows'[t] = inboxRows[t]
  BY RowRows
<1>2. reading' = CASE reading.kind = "list" -> [reading EXCEPT !.left = @ \cup LeftList, !.bumped = @ \cup {}]
                   [] reading.kind \in {"counts", "counted"} -> [reading EXCEPT !.changes = @ + 1]
                   [] OTHER -> reading
  BY DEF RowChanges, Noticed
<1>3. Timely' /\ \A p : \A s \in InTheInbox : SortKey(p, s)' = SortKey(p, s) /\ SortKey(p, s) \in Nat
  BY <1>1, SameTimes
<1>4. \A p : \A s \in InTheInbox :
        /\ SortKey(p, s)' \in Nat /\ SortKey(p, s)' >= SortKey(p, s)
        /\ s \notin {} => SortKey(p, s)' = SortKey(p, s)
  BY <1>3
<1>5. ReadingFormed' /\ Paged' BY <1>1, <1>2, <1>4, NoticedPaged
<1>6. CountsNear'
  <2>1. PICK L : L = LeftList OBVIOUS
  <2> QED BY <1>1, <1>2, <2>1, NoticedNear
<1>7. MarksHold'
  <2>2. \A k : MarkDivides(k)' = MarkDivides(k) BY <1>1 DEF MarkDivides
  <2> QED BY <1>0, <1>1, <2>2 DEF MarksHold
<1>8. InboxTyped' BY <1>0, <1>1 DEF InboxTyped, QueryFormed
<1> QED BY <1>3, <1>5, <1>6, <1>7, <1>8 DEF InboxInv

(* A step that moves no ticket and no number.                              *)
LEMMA ListStands ==
  ASSUME UNCHANGED <<inboxRows, inboxNotes>>
  PROVE  /\ InboxTickets' = InboxTickets /\ InTheInbox' = InTheInbox
         /\ \A q : Matching(q)' = Matching(q) /\ \A t : Place(q, t)' = Place(q, t)
<1>1. InboxTickets' = InboxTickets /\ InTheInbox' = InTheInbox BY DEF InboxTickets, InTheInbox
<1>2. \A q : Matching(q)' = Matching(q)
  BY <1>1 DEF Matching, Searched, OnTab, InScope, HeldByBot
<1>3. \A q, t : SortKey(q, t)' = SortKey(q, t) BY DEF SortKey, LatestAt, TimesOf
<1>4. \A q, s, t : Above(q, s, t)' = Above(q, s, t) BY <1>3 DEF Above
<1>5. \A q, t : Place(q, t)' = Place(q, t) BY <1>2, <1>4 DEF Place
<1> QED BY <1>1, <1>2, <1>5

LEMMA TabsStand ==
  ASSUME UNCHANGED <<asked, inboxRows, inboxNotes>>
  PROVE  OpenNow' = OpenNow /\ HumanNow' = HumanNow /\ BotNow' = BotNow
<1>1. \A q : Matching(q)' = Matching(q) BY ListStands
<1>2. PICK q : q = [asked EXCEPT !.statuses = {"OPEN"}, !.bot = "any"] OBVIOUS
<1>3. PICK r : r = [asked EXCEPT !.statuses = {"OPEN"}, !.bot = "false"] OBVIOUS
<1>4. PICK s : s = [asked EXCEPT !.statuses = {"OPEN"}, !.bot = "true"] OBVIOUS
<1>5. OpenNow' = Matching(q)' /\ HumanNow' = Matching(r)' /\ BotNow' = Matching(s)'
  BY <1>2, <1>3, <1>4 DEF OpenNow, HumanNow, BotNow
<1>6. OpenNow = Matching(q) /\ HumanNow = Matching(r) /\ BotNow = Matching(s)
  BY <1>2, <1>3, <1>4 DEF OpenNow, HumanNow, BotNow
<1> QED BY <1>1, <1>5, <1>6

LEMMA ReadingStands ==
  ASSUME InboxInv, UNCHANGED <<asked, inboxRows, inboxNotes, reading>>
  PROVE  /\ ReadingFormed' /\ Paged' /\ CountsNear'
         /\ InboxTickets' = InboxTickets /\ InTheInbox' = InTheInbox
<1>1. PICK q : q = asked /\ q = asked' OBVIOUS
<1>2. /\ Matching(asked) = Matching(q) /\ Matching(asked)' = Matching(q)'
      /\ \A t : Place(asked, t) = Place(q, t) /\ Place(asked, t)' = Place(q, t)'
  BY <1>1
<1>3. Matching(asked)' = Matching(asked) /\ \A t : Place(asked, t)' = Place(asked, t) BY <1>2, ListStands
<1>4. Paged' BY <1>3 DEF InboxInv, Paged
<1>5. CountsNear' BY TabsStand DEF InboxInv, CountsNear
<1>6. ReadingFormed' BY DEF InboxInv, ReadingFormed
<1> QED BY <1>4, <1>5, <1>6, ListStands

(* A message that begins is later than every mark.                         *)
LEMMA NoteBeginsKeeps == ASSUME InboxInv, NEW q \in inboxDue, NoteBegins(q) PROVE InboxInv'
<1>0. InboxTyped /\ MarksHold /\ Timely BY DEF InboxInv
<1>1. /\ UNCHANGED <<asked, reading, inboxRows, inboxNotes, readAt, whatWas, marking>> /\ inboxDue' \subseteq inboxDue
      /\ moment' = moment + 1 /\ (~q.inbound => q.t \in InTheInbox)
  BY DEF NoteBegins
<1>2. PICK n : n = [t |-> q.t, at |-> moment + 1, inbound |-> q.inbound, words |-> q.words] OBVIOUS
<1>3. arriving' = arriving \cup {n} /\ n.t = q.t /\ n.at = moment + 1 /\ n.inbound = q.inbound BY <1>2 DEF NoteBegins
<1>4. Messages' = Messages \cup {n} BY <1>1, <1>3 DEF Messages
<1>5. ReadingFormed' /\ Paged' /\ CountsNear' /\ InboxTickets' = InboxTickets /\ InTheInbox' = InTheInbox
  BY <1>1, ReadingStands
<1>6. InboxTyped'
  <2>1. IsFiniteSet(Messages') BY <1>0, <1>4, FS_AddElement DEF InboxTyped
  <2> QED BY <1>0, <1>1, <1>5, <2>1 DEF InboxTyped, QueryFormed
<1>7. q.t \in InboxTickets BY <1>0 DEF InboxTyped, InboxRequest, NoteBegins
<1>8. moment \in Nat /\ moment' \in Nat BY <1>0, <1>1 DEF MarksHold
<1>9. MarksHold'
  <2>2. ASSUME NEW m \in Messages' PROVE m.t \in InboxTickets' /\ m.at \in 1..moment'
    BY <1>0, <1>1, <1>3, <1>4, <1>5, <1>7, <1>8, <2>2 DEF MarksHold
  <2>3. ASSUME NEW k \in DOMAIN readAt PROVE MarkDivides(k)'
    <3>1. MarkDivides(k) BY <1>0 DEF MarksHold
    <3>2. readAt[k] \in 0..moment' BY <1>1, <1>8, <3>1 DEF MarkDivides
    <3>3. ASSUME readAt[k] # 0, NEW m \in Messages \cup {n}
          PROVE  IF m \in whatWas[k] THEN m.at < readAt[k] ELSE m.at > readAt[k]
      <4>1. CASE m \in Messages BY <3>1, <3>3, <4>1 DEF MarkDivides
      <4>2. CASE m \notin Messages
        <5>1. m.at = moment + 1 /\ readAt[k] \in 0..moment BY <1>3, <3>1, <3>3, <4>2 DEF MarkDivides
        <5>2. m \notin whatWas[k] BY <3>1, <4>2 DEF MarkDivides
        <5> QED BY <1>8, <5>1, <5>2
      <4> QED BY <4>1, <4>2
    <3> QED BY <1>1, <1>4, <3>1, <3>2, <3>3 DEF MarkDivides
  <2> QED BY <1>0, <1>1, <1>5, <1>8, <2>2, <2>3 DEF MarksHold
<1>10. Timely'
  <2>1. \A t \in InTheInbox : inboxRows[t].born \in 1 .. moment BY <1>0 DEF Timely
  <2>2. \A m \in Messages : m.at \in 1 .. moment BY <1>0 DEF MarksHold
  <2>3. TimesApart(inboxRows, InTheInbox, Messages)'
    <3>1. TimesApart(inboxRows, InTheInbox, Messages) BY <1>0 DEF Timely
    <3>2. ASSUME NEW m \in Messages \cup {n}, NEW o \in Messages \cup {n}, m.at = o.at PROVE m = o
      BY <1>3, <1>8, <2>2, <3>1, <3>2 DEF TimesApart
    <3>3. ASSUME NEW m \in Messages \cup {n}, NEW t \in InTheInbox, m.at = inboxRows[t].born PROVE m.t = t
      BY <1>3, <1>8, <2>1, <3>1, <3>3 DEF TimesApart
    <3> QED BY <1>1, <1>4, <1>5, <3>1, <3>2, <3>3 DEF TimesApart
  <2>4. ASSUME NEW t \in InTheInbox, NEW m \in arriving \cup {n}, Wordless(t) PROVE inboxRows[t].born < m.at
    <3>1. CASE m \in arriving BY <1>0, <2>4, <3>1 DEF Timely
    <3>2. CASE m = n BY <1>3, <1>8, <2>1, <3>2
    <3> QED BY <3>1, <3>2
  <2>5. \A t : Wordless(t)' = Wordless(t) BY <1>1 DEF Wordless
  <2>6. \A t \in InTheInbox : inboxRows[t].born \in 1 .. moment' BY <1>1, <1>8, <2>1
  <2> QED BY <1>0, <1>1, <1>3, <1>5, <2>3, <2>4, <2>5, <2>6 DEF Timely
<1> QED BY <1>5, <1>6, <1>9, <1>10 DEF InboxInv

(* Looking up who holds the ticket changes nothing he has read.            *)
LEMMA MarkLooksKeeps == ASSUME InboxInv, NEW q \in inboxDue, MarkLooks(q) PROVE InboxInv'
<1>0. InboxTyped /\ MarksHold /\ Timely BY DEF InboxInv
<1>1. /\ UNCHANGED <<asked, reading, inboxRows, inboxNotes, arriving, readAt, whatWas, moment>>
      /\ inboxDue' \subseteq inboxDue /\ marking' \subseteq marking \cup {q}
  BY DEF MarkLooks
<1>2. ReadingFormed' /\ Paged' /\ CountsNear' /\ InboxTickets' = InboxTickets /\ InTheInbox' = InTheInbox
  BY <1>1, ReadingStands
<1>3. Messages' = Messages BY <1>1 DEF Messages
<1>4. q.t \in InboxTickets /\ q.by \in Readers BY <1>0 DEF InboxTyped, InboxRequest, MarkLooks
<1>5. InboxTyped' BY <1>0, <1>1, <1>2, <1>3, <1>4 DEF InboxTyped, QueryFormed
<1>6. MarksHold'
  <2>1. \A k : MarkDivides(k)' = MarkDivides(k) BY <1>1, <1>3 DEF MarkDivides
  <2> QED BY <1>0, <1>1, <1>2, <1>3, <2>1 DEF MarksHold
<1>7. Timely' BY <1>1, <1>2, SameTimes
<1> QED BY <1>2, <1>5, <1>6, <1>7 DEF InboxInv

(* A mark is later than every message there or on its way.                 *)
LEMMA MarksReadKeeps == ASSUME InboxInv, NEW q \in marking, MarksRead(q) PROVE InboxInv'
<1>0. InboxTyped /\ MarksHold /\ Timely BY DEF InboxInv
<1>1. /\ UNCHANGED <<asked, reading, inboxRows, inboxNotes, arriving, inboxDue>> /\ marking' \subseteq marking
      /\ moment' = moment + 1
  BY DEF MarksRead
<1>2. ReadingFormed' /\ Paged' /\ CountsNear' /\ InboxTickets' = InboxTickets /\ InTheInbox' = InTheInbox
  BY <1>1, ReadingStands
<1>3. Messages' = Messages BY <1>1 DEF Messages
<1>4. InboxTyped' BY <1>0, <1>1, <1>2, <1>3 DEF InboxTyped, QueryFormed
<1>5. q.t \in InboxTickets /\ q.by \in Readers BY <1>0 DEF InboxTyped
<1> DEFINE marked == <<q.by, q.t>>
<1>6. /\ readAt' = [k \in DOMAIN readAt |-> IF k = marked THEN moment + 1 ELSE readAt[k]]
      /\ whatWas' = [whatWas EXCEPT ![marked] = Messages]
  BY DEF MarksRead, MarkFor, Messages
<1>7. DOMAIN readAt' = DOMAIN readAt /\ DOMAIN whatWas' = DOMAIN whatWas BY <1>6
<1>8. moment \in Nat /\ moment' \in Nat BY <1>0, <1>1 DEF MarksHold
<1>9. ASSUME NEW k \in DOMAIN readAt PROVE MarkDivides(k)'
  <2>0. k \in DOMAIN whatWas BY <1>0 DEF MarksHold
  <2>1. CASE readAt'[k] = readAt[k] /\ whatWas'[k] = whatWas[k]
    <3>1. MarkDivides(k) BY <1>0 DEF MarksHold
    <3> QED BY <1>1, <1>3, <1>8, <2>1, <3>1 DEF MarkDivides
  <2>2. CASE readAt'[k] = moment + 1 /\ whatWas'[k] = Messages
    <3>1. \A m \in Messages : m.at < moment + 1 BY <1>0, <1>8 DEF MarksHold
    <3> QED BY <1>1, <1>3, <1>8, <2>2, <3>1 DEF MarkDivides
  <2> QED BY <1>6, <2>0, <2>1, <2>2
<1>10. MarksHold'
  <2>1. \A m \in Messages : m.at \in 1..moment' BY <1>0, <1>1 DEF MarksHold
  <2> QED BY <1>0, <1>2, <1>3, <1>7, <1>8, <1>9, <2>1 DEF MarksHold
<1>11. Timely'
  <2>1. \A t \in InTheInbox : inboxRows[t].born \in 1 .. moment' BY <1>0, <1>1, <1>8 DEF Timely
  <2>2. TimesApart(inboxRows, InTheInbox, Messages)' BY <1>0, <1>1, <1>2, <1>3 DEF Timely, TimesApart
  <2>3. \A t : Wordless(t)' = Wordless(t) BY <1>1 DEF Wordless
  <2> QED BY <1>0, <1>1, <1>2, <2>1, <2>2, <2>3 DEF Timely
<1> QED BY <1>2, <1>4, <1>10, <1>11 DEF InboxInv

(* The reader's own steps.                                                 *)
LEMMA ReaderKeeps ==
  ASSUME InboxInv, UNCHANGED Tables
  PROVE  /\ InboxTickets' = InboxTickets /\ MarksHold' /\ Timely'
         /\ (QueryFormed(asked') => InboxTyped') /\ \A q : Matching(q)' = Matching(q) /\ \A t : Place(q, t)' = Place(q, t)
<1>0. UNCHANGED <<inboxRows, inboxNotes, arriving, readAt, whatWas, marking, moment, inboxDue>> BY DEF Tables
<1>1. InboxTickets' = InboxTickets /\ InTheInbox' = InTheInbox /\ Messages' = Messages
  BY <1>0, ListStands DEF Messages
<1>2. \A k : MarkDivides(k)' = MarkDivides(k) BY <1>0, <1>1 DEF MarkDivides
<1>3. MarksHold' BY <1>0, <1>1, <1>2 DEF InboxInv, MarksHold
<1>4. Timely' BY <1>0, <1>1, SameTimes
<1>5. QueryFormed(asked') => InboxTyped' BY <1>0, <1>1 DEF InboxInv, InboxTyped, QueryFormed
<1> QED BY <1>0, <1>1, <1>3, <1>4, <1>5, ListStands

LEMMA ListStartsKeeps ==
  ASSUME InboxInv, NEW q \in inboxDue, q.op = "list", ListStarts(q.query, q.role) PROVE InboxInv'
<1>0. InboxTyped BY DEF InboxInv
<1>1. InboxTickets' = InboxTickets /\ MarksHold' /\ Timely' /\ (QueryFormed(asked') => InboxTyped')
      /\ \A p : Matching(p)' = Matching(p) /\ \A t : Place(p, t)' = Place(p, t)
  BY ReaderKeeps DEF ListStarts
<1>2. PICK r : r = q.query OBVIOUS
<1>3. asked' = r
      /\ reading' = [kind |-> "list", shown |-> {}, offset |-> 0, done |-> FALSE, throughout |-> Matching(r), left |-> {}, bumped |-> {}]
  BY <1>2 DEF ListStarts
<1>4. QueryFormed(asked') BY <1>0, <1>2, <1>3 DEF InboxTyped, InboxRequest, QueryFormed
<1>5. PICK M : M = Matching(r) OBVIOUS
<1>6. /\ reading'.kind = "list" /\ reading'.offset = 0 /\ reading'.done = FALSE /\ reading'.throughout = M
      /\ reading' = [kind |-> "list", shown |-> reading'.shown, offset |-> reading'.offset, done |-> reading'.done,
                     throughout |-> reading'.throughout, left |-> reading'.left, bumped |-> reading'.bumped]
  BY ONLY <1>3, <1>5
<1>7. ReadingFormed' /\ CountsNear' BY <1>6 DEF ReadingFormed, CountsNear
<1>8. Paged'
  <2>1. Matching(asked)' = Matching(r) /\ \A t : Place(asked, t)' = Place(r, t) BY <1>1, <1>3
  <2>2. \A t : Place(r, t) \in Nat BY PlaceFacts DEF InboxInv
  <2>3. \A t : ~(Place(asked, t)' < 0) BY <2>1, <2>2
  <2> QED BY <1>5, <1>6, <2>1, <2>3 DEF Paged
<1> QED BY <1>1, <1>4, <1>7, <1>8 DEF InboxInv

(* A page adds those whose places it covers; after one that is not full    *)
(* there is no other.                                                      *)
LEMMA ListPagesKeeps == ASSUME InboxInv, ListPages PROVE InboxInv'
<1>0. InboxTyped /\ ReadingFormed /\ Paged /\ MarksHold /\ Timely BY DEF InboxInv
<1>1. InboxTickets' = InboxTickets /\ MarksHold' /\ Timely' /\ (QueryFormed(asked') => InboxTyped')
      /\ \A p : Matching(p)' = Matching(p) /\ \A t : Place(p, t)' = Place(p, t)
  BY ReaderKeeps DEF ListPages
<1>2. asked' = asked /\ reading.kind = "list" /\ ~reading.done BY DEF ListPages
<1>3. PICK q, page, n, d : q = asked /\ page = PageAt(q, reading.offset) /\ n = Cardinality(page) /\ d = (n < PageSize)
  OBVIOUS
<1> DEFINE sh == reading.shown \cup page
           off == reading.offset + n
<1>4. reading' = [reading EXCEPT !.shown = sh, !.offset = off, !.done = d]
  BY <1>3 DEF ListPages
<1> HIDE DEF sh, off
<1>5. /\ reading = [kind |-> "list", shown |-> reading.shown, offset |-> reading.offset, done |-> reading.done,
                   throughout |-> reading.throughout, left |-> reading.left, bumped |-> reading.bumped]
      /\ reading.offset \in Nat
  BY <1>0, <1>2 DEF ReadingFormed
<1>6. reading' = [kind |-> "list", shown |-> sh, offset |-> off, done |-> d,
                  throughout |-> reading.throughout, left |-> reading.left, bumped |-> reading.bumped]
  <2>1. PICK r : r = reading OBVIOUS
  <2>2. r = [kind |-> "list", shown |-> r.shown, offset |-> r.offset, done |-> r.done,
             throughout |-> r.throughout, left |-> r.left, bumped |-> r.bumped]
    BY ONLY <1>5, <2>1
  <2>3. PICK x : x = reading' OBVIOUS
  <2>4. x = [r EXCEPT !.shown = sh, !.offset = off, !.done = d] BY ONLY <1>4, <2>1, <2>3, Zenon
  <2>5. DOMAIN r = {"kind", "shown", "offset", "done", "throughout", "left", "bumped"} /\ r.kind = "list" BY ONLY <2>2
  <2>6. DOMAIN x = DOMAIN r /\ x.kind = r.kind /\ x.throughout = r.throughout /\ x.left = r.left /\ x.bumped = r.bumped
        /\ x.done = d /\ x.offset = off /\ x.shown = sh
    BY ONLY <2>2, <2>4, <2>5
  <2>7. x = [f \in DOMAIN x |-> x[f]] BY ONLY <2>4
  <2>8. x = [kind |-> "list", shown |-> sh, offset |-> off, done |-> d,
             throughout |-> r.throughout, left |-> r.left, bumped |-> r.bumped]
    BY ONLY <2>5, <2>6, <2>7
  <2> QED BY ONLY <2>1, <2>3, <2>8
<1>7. /\ reading'.kind = "list" /\ reading'.shown = sh /\ reading'.offset = off
      /\ reading'.done = d /\ reading'.throughout = reading.throughout
      /\ reading'.left = reading.left /\ reading'.bumped = reading.bumped
  BY ONLY <1>6
<1>8. PageSize \in Nat /\ n \in 0 .. PageSize /\ (n < PageSize => \A t \in Matching(q) : Place(q, t) < reading.offset + PageSize)
  BY <1>0, <1>3, <1>5, PageFacts, InboxAssumption
<1>9. ReadingFormed' /\ CountsNear' BY <1>5, <1>6, <1>7, <1>8 DEF ReadingFormed, CountsNear, off
<1>10. Paged'
  <2>1. Matching(asked)' = Matching(q) /\ \A t : Place(asked, t)' = Place(q, t) BY <1>1, <1>2, <1>3
  <2>2. ASSUME reading.left = {}, NEW t \in reading.throughout \ reading.bumped
        PROVE  t \in Matching(q)
               /\ (n < PageSize \/ Place(q, t) < reading.offset + n => t \in reading.shown \cup page)
    <3>1. t \in Matching(q) /\ (Place(q, t) < reading.offset => t \in reading.shown)
      BY <1>0, <1>2, <1>3, <2>2 DEF Paged
    <3>2. Place(q, t) \in Nat BY <1>0, PlaceFacts
    <3>3. ASSUME n < PageSize \/ Place(q, t) < reading.offset + n PROVE t \in reading.shown \cup page
      <4>1. Place(q, t) < reading.offset + PageSize BY <1>5, <1>8, <3>1, <3>2, <3>3
      <4>2. CASE Place(q, t) < reading.offset BY <3>1, <4>2
      <4>3. CASE ~(Place(q, t) < reading.offset)
        <5>1. Place(q, t) \in reading.offset .. reading.offset + PageSize - 1 BY <1>5, <1>8, <3>2, <4>1, <4>3
        <5> QED BY <1>3, <3>1, <5>1 DEF PageAt
      <4> QED BY <4>2, <4>3
    <3> QED BY <3>1, <3>3
  <2> QED BY <1>3, <1>7, <2>1, <2>2 DEF Paged, sh, off
<1> QED BY <1>0, <1>1, <1>2, <1>9, <1>10 DEF InboxInv, InboxTyped

LEMMA ReadingEndsKeeps == ASSUME InboxInv, ReadingEnds PROVE InboxInv'
<1>1. MarksHold' /\ Timely' /\ (QueryFormed(asked') => InboxTyped') BY ReaderKeeps DEF ReadingEnds
<1>2. asked' = asked /\ reading'.kind = "none" BY DEF ReadingEnds, NotReading
<1>3. ReadingFormed' /\ CountsNear' /\ Paged' BY <1>2 DEF ReadingFormed, CountsNear, Paged
<1> QED BY <1>1, <1>2, <1>3 DEF InboxInv, InboxTyped

(* The first query counts the OPEN tickets of every tab.                   *)
LEMMA CountsStartKeeps ==
  ASSUME InboxInv, NEW q \in inboxDue, q.op = "counts", CountsStart(q.query, q.role) PROVE InboxInv'
<1>0. InboxTyped BY DEF InboxInv
<1>1. InboxTickets' = InboxTickets /\ MarksHold' /\ Timely' /\ (QueryFormed(asked') => InboxTyped')
      /\ \A p : Matching(p)' = Matching(p)
  BY ReaderKeeps DEF CountsStart
<1>3. PICK r : r = q.query /\ QueryFormed(r) BY <1>0 DEF InboxTyped, InboxRequest, QueryFormed
<1>4. PICK s : s = [r EXCEPT !.statuses = {}, !.bot = "any"] OBVIOUS
<1>5. PICK u : u = [r EXCEPT !.statuses = {"OPEN"}, !.bot = "any"] OBVIOUS
<1>6. /\ s.scope = r.scope /\ s.text = r.text /\ s.statuses = {} /\ s.bot = "any" /\ s.owners = r.owners
      /\ u.scope = r.scope /\ u.text = r.text /\ u.statuses = {"OPEN"} /\ u.bot = "any" /\ u.owners = r.owners
  BY <1>3, <1>4, <1>5 DEF QueryFormed
<1>7. Matching(u) = {t \in Matching(s) : inboxRows[t].status = "OPEN"}
  <2>1. \A t : (Searched(s, t) <=> Searched(u, t)) /\ (OnTab(s, t) <=> OnTab(u, t)) /\ (InScope(s, t) <=> InScope(u, t))
    BY <1>6 DEF Searched, OnTab, InScope
  <2> QED BY <1>6, <2>1 DEF Matching
<1>9. asked' = r BY <1>3 DEF CountsStart
<1>10. OpenNow' = Matching(u) BY <1>1, <1>5, <1>9 DEF OpenNow
<1>11. reading' = [kind |-> "counts", open |-> Cardinality(Matching(u)), bot |-> 0, changes |-> 0]
  BY <1>3, <1>4, <1>7 DEF CountsStart
<1>12. Cardinality(Matching(u)) \in Nat BY PlaceFacts, FS_CardinalityType DEF InboxInv
<1>13. InboxTyped' BY <1>1, <1>3, <1>9 DEF QueryFormed
<1>14. PICK o : o = Cardinality(Matching(u)) OBVIOUS
<1>15. /\ reading'.kind = "counts" /\ reading'.open = o /\ reading'.bot = 0 /\ reading'.changes = 0
       /\ reading' = [kind |-> reading'.kind, open |-> reading'.open, bot |-> reading'.bot, changes |-> reading'.changes]
  BY ONLY <1>11, <1>14
<1>16. ReadingFormed' /\ Paged' BY <1>12, <1>14, <1>15 DEF ReadingFormed, Paged
<1>17. CountsNear' BY <1>10, <1>12, <1>14, <1>15 DEF CountsNear, Near
<1> QED BY <1>1, <1>13, <1>16, <1>17 DEF InboxInv

(* The second counts the bot's: the OPEN tickets are the bot's and the     *)
(* others'.                                                                *)
LEMMA CountsEndKeeps == ASSUME InboxInv, CountsEnd PROVE InboxInv'
<1>0. InboxTyped /\ CountsNear /\ ReadingFormed BY DEF InboxInv
<1>1. UNCHANGED <<asked, inboxRows, inboxNotes>> /\ reading.kind = "counts" BY DEF CountsEnd, Tables
<1>2. MarksHold' /\ Timely' /\ (QueryFormed(asked') => InboxTyped') BY ReaderKeeps DEF CountsEnd
<1>3. HumanNow' = HumanNow BY <1>1, TabsStand
<1>4. Cardinality(OpenNow) = Cardinality(HumanNow) + Cardinality(BotNow)
  <2>1. PICK q, r, s : /\ q = [asked EXCEPT !.statuses = {"OPEN"}, !.bot = "any"]
                       /\ r = [asked EXCEPT !.statuses = {"OPEN"}, !.bot = "false"]
                       /\ s = [asked EXCEPT !.statuses = {"OPEN"}, !.bot = "true"]
    OBVIOUS
  <2>2. OpenNow = Matching(q) /\ HumanNow = Matching(r) /\ BotNow = Matching(s)
    BY <2>1 DEF OpenNow, HumanNow, BotNow
  <2>3. /\ q.scope = asked.scope /\ q.text = asked.text /\ q.statuses = {"OPEN"} /\ q.bot = "any" /\ q.owners = asked.owners
        /\ r.scope = asked.scope /\ r.text = asked.text /\ r.statuses = {"OPEN"} /\ r.bot = "false" /\ r.owners = asked.owners
        /\ s.scope = asked.scope /\ s.text = asked.text /\ s.statuses = {"OPEN"} /\ s.bot = "true" /\ s.owners = asked.owners
    BY <1>0, <2>1 DEF InboxTyped, QueryFormed
  <2>4. \A t : /\ (Searched(q, t) <=> Searched(r, t)) /\ (Searched(q, t) <=> Searched(s, t))
               /\ (InScope(q, t) <=> InScope(r, t)) /\ (InScope(q, t) <=> InScope(s, t))
               /\ OnTab(q, t) /\ (OnTab(s, t) <=> HeldByBot(t)) /\ (OnTab(r, t) <=> ~HeldByBot(t))
    BY <2>3 DEF Searched, InScope, OnTab
  <2>5. OpenNow = HumanNow \cup BotNow /\ HumanNow \cap BotNow = {} BY <2>2, <2>3, <2>4 DEF Matching
  <2>6. IsFiniteSet(HumanNow) /\ IsFiniteSet(BotNow) BY <1>0, TabsFinite
  <2>7. Cardinality(OpenNow) = Cardinality(HumanNow) + Cardinality(BotNow) - Cardinality(HumanNow \cap BotNow)
    BY <2>5, <2>6, FS_Union
  <2>8. Cardinality(HumanNow \cap BotNow) = 0 BY <2>5, FS_EmptySet
  <2> QED BY <1>0, <2>7, <2>8, TabsFinite
<1>5. /\ reading = [kind |-> reading.kind, open |-> reading.open, bot |-> reading.bot, changes |-> reading.changes]
      /\ reading.open \in Nat /\ reading.bot \in Nat /\ reading.changes \in Nat
  BY <1>0, <1>1 DEF ReadingFormed
<1>6. PICK b : b = Cardinality(BotNow) /\ b \in Nat BY <1>0, TabsFinite
<1>7. reading' = [reading EXCEPT !.kind = "counted", !.bot = b] BY <1>6 DEF CountsEnd, BotNow
<1>8. reading' = [kind |-> "counted", open |-> reading.open, bot |-> b, changes |-> reading.changes]
  BY ONLY <1>5, <1>7
<1>9. /\ reading'.kind = "counted" /\ reading'.open = reading.open /\ reading'.bot = b
      /\ reading'.changes = reading.changes
      /\ reading' = [kind |-> reading'.kind, open |-> reading'.open, bot |-> reading'.bot, changes |-> reading'.changes]
  BY ONLY <1>8
<1>10. Cardinality(HumanNow) \in Nat BY <1>0, TabsFinite
<1>11. ReadingFormed' /\ Paged' BY <1>5, <1>6, <1>9 DEF ReadingFormed, Paged
<1>12. CountsNear' BY <1>0, <1>1, <1>3, <1>4, <1>6, <1>9, <1>10 DEF CountsNear, Near
<1> QED BY <1>0, <1>1, <1>2, <1>11, <1>12 DEF InboxInv, InboxTyped

(* However messages are committed, marks are set and tickets move: a       *)
(* ticket's unread number counts what was not there at the reader's mark,  *)
(* the tabs' numbers are off by no more than what moved, and the pages of  *)
(* a list show whoever stood still on it.                                  *)
THEOREM InboxCorrect == InboxSpec => []InboxSound
<1>1. (\E c \in InboxCases : InboxInit(c)) => InboxInv BY InboxStarts
<1>2. InboxInv /\ [InboxNext]_inboxVars => InboxInv'
  <2> SUFFICES ASSUME InboxInv, [InboxNext]_inboxVars PROVE InboxInv' OBVIOUS
  <2>1. CASE InboxNext
    BY <2>1, MarkLooksKeeps, MarksReadKeeps, NoteBeginsKeeps, RowChangesKeeps, ListStartsKeeps, ListPagesKeeps,
       ReadingEndsKeeps, CountsStartKeeps, CountsEndKeeps, NoteCommitsKeeps DEF InboxNext
  <2>2. CASE UNCHANGED inboxVars
    <3>1. UNCHANGED Tables /\ UNCHANGED <<asked, inboxRows, inboxNotes, reading>> BY <2>2 DEF inboxVars, Tables
    <3>2. MarksHold' /\ Timely' /\ (QueryFormed(asked') => InboxTyped') BY <3>1, ReaderKeeps
    <3>3. ReadingFormed' /\ Paged' /\ CountsNear' BY <3>1, ReadingStands
    <3> QED BY <3>1, <3>2, <3>3 DEF InboxInv, InboxTyped
  <2> QED BY <2>1, <2>2
<1>3. InboxInv => InboxSound
  <2> SUFFICES ASSUME InboxInv PROVE UnreadShown /\ TabsAddUp /\ PagesCover BY DEF InboxSound
  <2>0. MarksHold /\ CountsNear /\ Paged BY DEF InboxInv
  <2>1. ASSUME NEW a \in Readers, NEW m \in inboxNotes, m.inbound
        PROVE  m \in Unread(a, m.t) <=> m \notin whatWas[<<a, m.t>>]
    <3> DEFINE k == <<a, m.t>>
    <3>1. m \in Messages /\ k \in DOMAIN readAt BY <2>0 DEF MarksHold, Messages
    <3>2. MarkDivides(k) /\ moment \in Nat /\ m.at \in 1..moment BY <2>0, <3>1 DEF MarksHold
    <3>3. m \in Unread(a, m.t) <=> readAt[k] = 0 \/ m.at > readAt[k] BY <2>1 DEF Unread
    <3> QED BY <3>1, <3>2, <3>3 DEF MarkDivides
  <2>2. UnreadShown BY <2>1 DEF UnreadShown
  <2>3. TabsAddUp
    <3> SUFFICES ASSUME reading.kind = "counted" PROVE TabsAddUp BY DEF TabsAddUp
    <3>1. Near(reading.open, Cardinality(HumanNow) + reading.bot, reading.changes) BY <2>0 DEF CountsNear
    <3> QED BY <3>1 DEF Near, HumanNow, TabsAddUp
  <2>4. PagesCover BY <2>0 DEF Paged, PagesCover
  <2> QED BY <2>2, <2>3, <2>4
<1> QED BY <1>1, <1>2, <1>3, PTL DEF InboxSpec
=============================================================================
