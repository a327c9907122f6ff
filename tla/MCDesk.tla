------------------------------- MODULE MCDesk -------------------------------
(* The parts of the console that share no rows, in one run: the office,    *)
(* the ticket console, its inbox and the orders beside a ticket, the flow  *)
(* and rule editors, the templates of WhatsApp and of mail, and what is    *)
(* said over WhatsApp. A behaviour is that of one of them, from its own    *)
(* cases, while nothing comes to the others: the run explores the union of *)
(* their state spaces, not the product.                                    *)
EXTENDS Office, FlowEditor, TicketConsole, Inbox, Sends

(* Requests of two agents on two tickets; lists, counts and marks of a     *)
(* member and of an administrator while mails come and tickets change;     *)
(* customers known by mail, by telephone and by too few digits, with       *)
(* orders of one or two snapshots and more to come.                        *)
CONSTANTS tk1, tk2

ConsoleAsk(id, op, t) == [id |-> id, op |-> op, t |-> t, status |-> "same", waiting |-> "-", resume |-> FALSE,
                   tags |-> NoTags, pieces |-> <<>>, quote |-> FALSE]
TwoTickets == {tk1, tk2}
Names == {"a", "b", "unlisted"}
Close(id, t) == [ConsoleAsk(id, "patch", t) EXCEPT !.status = "RESOLVED"]
Auto(id, t) == [ConsoleAsk(id, "patch", t) EXCEPT !.status = "WAITING", !.waiting = "AUTO_RESOLVE", !.resume = TRUE]
Tag(id, t, s) == [ConsoleAsk(id, "patch", t) EXCEPT !.tags = s]
Bulk(id, s, status) == [ConsoleAsk(id, "bulk", <<tk1, tk2>>) EXCEPT !.tags = s, !.status = status]
Reply(id, op, n, q) == [ConsoleAsk(id, op, tk1) EXCEPT !.pieces = [i \in 1..n |-> i], !.quote = q]

Closers == {Close(1, tk1), Tag(2, tk1, {}), [Close(3, tk1) EXCEPT !.tags = {}], Tag(4, tk1, {"unlisted"})}
Bulks   == {Bulk(5, {"a"}, "same"), Tag(6, tk1, {"b"}), Bulk(7, NoTags, "RESOLVED")}
Resolvers == {Close(8, tk1), Close(9, tk1), [ConsoleAsk(10, "patch", tk1) EXCEPT !.status = "OPEN"]}
Pausers == {Auto(11, tk1), Bulk(12, NoTags, "WAITING"), [ConsoleAsk(13, "untag", tk1) EXCEPT !.tags = {"a"}],
            Tag(14, tk1, {"a"})}
ReplyAsks == {Reply(15, "mail", 1, FALSE), Reply(16, "whatsapp", 3, TRUE), Close(17, tk1)}
Others  == {Reply(18, "whatsapp", 2, FALSE), Reply(19, "template", 1, FALSE), Close(20, tk1)}

Coming(comes, tagged, policy, f) ==
  [comes |-> comes, tags |-> [t \in TwoTickets |-> tagged], policy |-> policy, breaks |-> f]
TheConsoleCases ==
  {Coming(Closers, {"a"}, TRUE, 1), Coming(Bulks, {}, TRUE, 0), Coming(Resolvers, {}, FALSE, 1),
   Coming(Pausers, {}, TRUE, 0), Coming(ReplyAsks, {}, FALSE, 2), Coming(Others, {}, FALSE, 2)}

ConsoleCasesInit == \E c \in ConsoleCases : ConsoleInit(c.tags, c.policy, c.comes, c.breaks)
----------------------------------------------------------------------------
Held(status, by, born) == [status |-> status, by |-> by, born |-> born]
Was(t, when, inbound, words) == [t |-> t, at |-> when, inbound |-> inbound, words |-> words]
NoteComes(t, inbound, words) == [op |-> "note", t |-> t, inbound |-> inbound, words |-> words]
RowMoves(t, status, by) == [op |-> "row", t |-> t, status |-> status, by |-> by]
InboxAsk(op, role, scope, text, statuses, bot) ==
  [op |-> op, role |-> role,
   query |-> [scope |-> scope, text |-> text, statuses |-> statuses, bot |-> bot, owners |-> {}, sort |-> "latest"]]
Created(ask) == [ask EXCEPT !.query.sort = "created"]
Opens(t, by) == [op |-> "mark", t |-> t, by |-> by]

(* i1 and i3 were minted by their messages; i2 by a message since deleted. *)
OldNotes == {Was("i1", 1, TRUE, {"word"}), Was("i2", 4, TRUE, {}), Was("i3", 3, FALSE, {"word", "i2"})}
Desk4(a, b, c, d) == [i1 |-> a, i2 |-> b, i3 |-> c, i4 |-> d]
NotYet == Held("none", "none", 0)
InboxCase(a, b, c, queries) == [rows |-> Desk4(a, b, c, NotYet), notes |-> OldNotes, asks |-> queries, now |-> 4]

TheInboxCases ==
  { InboxCase(Held("OPEN", "me", 1), Held("OPEN", "me", 2), Held("OPEN", "me", 3),
      {InboxAsk("list", "AGENT", "mine", "", {"OPEN"}, "false"), Created(InboxAsk("list", "AGENT", "mine", "", {}, "any")),
       InboxAsk("list", "AGENT", "all", "", {}, "any"),
       NoteComes("i1", FALSE, {}), NoteComes("i4", TRUE, {}), RowMoves("i4", "OPEN", "me"), RowMoves("i3", "RESOLVED", "me")}),
    InboxCase(Held("OPEN", "bot", 1), Held("OPEN", "none", 2), Held("OPEN", "you", 3),
      {InboxAsk("counts", "ADMIN", "all", "", {}, "any"), InboxAsk("counts", "AGENT", "mine", "word", {}, "any"),
       InboxAsk("list", "ADMIN", "unassigned", "", {}, "any"),
       NoteComes("i4", TRUE, {"word"}), NoteComes("i3", TRUE, {}), RowMoves("i1", "OPEN", "me"), RowMoves("i2", "WAITING", "you")}),
    [InboxCase(Held("OPEN", "me", 1), Held("WAITING", "me", 2), Held("RESOLVED", "you", 3),
      {[InboxAsk("list", "AGENT", "mine", "i2", {}, "any") EXCEPT !.query.owners = {"me", "you"}],
       Opens("i1", "me"), Opens("i1", "you"), Opens("i3", "me"),
       NoteComes("i1", TRUE, {}), NoteComes("i2", TRUE, {}), RowMoves("i1", "OPEN", "you")})
     EXCEPT !.notes = OldNotes \ {Was("i2", 4, TRUE, {})}] }

InboxCasesInit == \E c \in InboxCases : InboxInit(c)
----------------------------------------------------------------------------
Snap(id, order, when, url, later, awb) ==
  [id |-> id, order |-> order, at |-> when, url |-> url, later |-> later, awb |-> awb, mail |-> "c", tail |-> "c"]
ByMail == [mail |-> "c", tail |-> "", digits |-> 0]
ByPhone(n) == [mail |-> "", tail |-> "c", digits |-> n]

Shop == { Snap("1", "A", 1, FALSE, FALSE, TRUE), Snap("2", "A", 1, TRUE, FALSE, FALSE),
          Snap("3", "B", 2, FALSE, TRUE, FALSE), Snap("4", "null", 3, FALSE, FALSE, FALSE),
          [Snap("5", "C", 4, TRUE, FALSE, TRUE) EXCEPT !.mail = "d", !.tail = "d"] }
Untimed == { Snap("1", "A", 0, FALSE, FALSE, TRUE), Snap("2", "A", 2, FALSE, FALSE, FALSE), Snap("3", "B", 2, FALSE, FALSE, FALSE),
             Snap("4", "null", 0, TRUE, FALSE, FALSE) }
NewSnaps == { Snap("6", "B", 2, TRUE, FALSE, TRUE), Snap("7", "D", 5, FALSE, FALSE, FALSE), Snap("8", "D", 5, TRUE, TRUE, TRUE) }
TheOrdersCases ==
  {[contact |-> c, ops |-> o, comes |-> NewSnaps] : c \in {ByMail, ByPhone(12)}, o \in {Shop, Untimed}}
  \cup {[contact |-> ByPhone(6), ops |-> Shop, comes |-> {}]}

OrdersCasesInit == \E c \in OrdersCases : OrdersInit(c)
----------------------------------------------------------------------------
(* The office: in turn two or three people with overlapping requests, two  *)
(* teams beside the default one, two mail channels, and the settings.      *)
CONSTANTS ann, bob, cy, s1, s2, s3, b1, b2, t0, t1, t2, ag, bot, r1, r2, f1, f2, ch1, ch2

Ask(id, op, by, on, arg) == [id |-> id, op |-> op, by |-> by, on |-> on, arg |-> arg]
Person(role, sub, token) == [there |-> TRUE, role |-> role, approved |-> TRUE, active |-> TRUE,
                             sub |-> sub, token |-> token]

People == {ann, bob, cy}
ThreeSubs == {s1, s2, s3}
TwoBrowsers == {b1, b2}
Roster == {Ask(1, "role", ann, ann, "AGENT"), Ask(2, "deactivate", ann, bob, "-"),
           Ask(3, "deactivate", bob, ann, "-"), Ask(5, "reactivate", ann, bob, "-")}
Invites == {Ask(6, "invite", ann, cy, "AGENT"), Ask(8, "remove", ann, cy, "-"),
            Ask(9, "login", b2, cy, s2)}
SameMail == {Ask(6, "invite", ann, cy, "AGENT"), Ask(7, "invite", bob, cy, "ADMIN"),
             Ask(9, "login", b2, cy, s3)}
Overtaken == {Ask(8, "remove", ann, bob, "-"), Ask(9, "login", b2, bob, s2),
              Ask(3, "deactivate", bob, ann, "-")}
Sessions == {Ask(11, "refresh", b1, ann, "-"), Ask(12, "refresh", b1, ann, "-"),
             Ask(13, "logout", b1, ann, "-")}
Elsewhere == {Ask(18, "refresh", b1, ann, "-"), Ask(14, "login", b2, ann, s1)}
Ousted == {Ask(15, "refresh", b1, ann, "-"), Ask(16, "deactivate", bob, ann, "-"),
           Ask(17, "login", b2, ann, s2)}

TeamAsk(op, team, on) == [op |-> op, team |-> team, on |-> on]
TheTeams == {t0, t1, t2}
TwoAgents == {ag}
TwoRules == {r1, r2}
TwoFacts == {f1, f2}
TheMatches == {<<r1, f1>>, <<r2, f1>>, <<r2, f2>>}
Removal == {TeamAsk("remove", t1, 0), TeamAsk("ticket", t0, f1), TeamAsk("rule", t1, r2),
            TeamAsk("join", t1, ag), TeamAsk("remove", t0, 0)}
Growth  == {TeamAsk("create", t2, 0), TeamAsk("leave", t2, bot), TeamAsk("join", t2, ag),
            TeamAsk("leave", t2, ag), TeamAsk("ticket", t0, f2), TeamAsk("rule", NoTeam, r2)}
Sorting == {TeamAsk("reorder", t0, 1), TeamAsk("reorder", t0, 2), TeamAsk("ticket", t0, f1),
            TeamAsk("unrule", t0, r1)}
Renewal == {TeamAsk("reorder", t0, 1), TeamAsk("create", t2, 0), TeamAsk("join", t2, ag)}
AllAsks == Removal \cup Growth \cup Sorting \cup Renewal
TheOrders == [q \in AllAsks |-> IF q.on = 1 THEN <<t2, t1, t0>> ELSE <<t1, t0, t2>>]

TheChannels == {ch1, ch2}
TheConsents == {<<1, ch1>>, <<2, ch2>>}
TheGetters  == {<<1, ch1>>, <<2, ch1>>, <<3, ch2>>}

SetAsk(id, op, writes, key) == [id |-> id, op |-> op, writes |-> writes, secret |-> key]
TheSettings == {SetAsk(1, "show", <<>>, 0), SetAsk(2, "post", <<>>, 1), SetAsk(3, "rotate", <<>>, 0),
                SetAsk(4, "general", << <<"email", 0>>, <<"requireTag", TRUE>> >>, 0),
                SetAsk(5, "show", <<>>, 0)}

None == [rows |-> (ann :> Person("ADMIN", s1, 0)), held |-> <<>>, requests |-> {}, there |-> {t0}, ruled |-> <<>>,
         asked |-> {}, consents |-> {}, legacy |-> Unset, settings |-> {}]
Two(x, y) == (ann :> x) @@ (bob :> y)
TheCases ==
  {[None EXCEPT !.rows = Two(Person("ADMIN", s1, 0), Person("ADMIN", s2, 0)), !.requests = Roster],
   [None EXCEPT !.rows = Two(Person("ADMIN", s1, 0), Person("ADMIN", NoSub, 0)), !.requests = Invites],
   [None EXCEPT !.rows = Two(Person("ADMIN", s1, 0), Person("ADMIN", s2, 0)), !.requests = SameMail],
   [None EXCEPT !.rows = Two(Person("ADMIN", s1, 0), Person("ADMIN", NoSub, 0)), !.requests = Overtaken],
   [None EXCEPT !.rows = (ann :> Person("ADMIN", s1, 1)), !.held = (b1 :> 1), !.requests = Sessions],
   [None EXCEPT !.rows = (ann :> Person("ADMIN", s1, 1)), !.held = (b1 :> 1), !.requests = Elsewhere],
   [None EXCEPT !.rows = Two(Person("ADMIN", s1, 1), Person("ADMIN", s2, 0)), !.held = (b1 :> 1),
                !.requests = Ousted],
   [None EXCEPT !.there = {t0, t1}, !.ruled = (r1 :> t1), !.asked = Removal],
   [None EXCEPT !.there = {t0, t1}, !.ruled = (r1 :> t1), !.asked = Growth],
   [None EXCEPT !.there = TheTeams, !.ruled = (r1 :> t1) @@ (r2 :> t2), !.asked = Sorting],
   [None EXCEPT !.there = {t0, t1}, !.asked = Renewal],
   [None EXCEPT !.consents = TheConsents],
   [None EXCEPT !.legacy = 0, !.settings = TheSettings]}
----------------------------------------------------------------------------
(* The editors: the edits of a choice of small conflicts on one flow of    *)
(* three steps, and the rules of one admin.                                *)
editorRulesVars == <<editorVars, ruleVars>>

MCSteps0 ==
  ("a" :> [flow |-> "F", position |-> 0, type |-> "MESSAGE", config |-> [text |-> <<"text", "hello">>]])
  @@ ("b" :> [flow |-> "F", position |-> 1, type |-> "DELAY", config |-> [amountSeconds |-> <<"number", 2>>]])
  @@ ("c" :> [flow |-> "F", position |-> 2, type |-> "FUNCTION", config |-> [functionKey |-> <<"key", "fn">>]])
  @@ ("x" :> [flow |-> "G", position |-> 0, type |-> "RESOLVE", config |-> <<>>])
MCFlow0 == ("F" :> [name |-> "one", first |-> "a"]) @@ ("G" :> [name |-> "two", first |-> "x"])

Edit(op) == [op |-> op, flow |-> "F", step |-> "none", type |-> "unset", config |-> {}, ids |-> <<>>, name |-> "unset", first |-> "unset"]
Adds(step, type, cfg) == [Edit("add") EXCEPT !.step = step, !.type = type, !.config = {cfg}]
Patches(step, type, cfgs) == [Edit("patch") EXCEPT !.step = step, !.type = type, !.config = cfgs]
Drops(step) == [Edit("drop") EXCEPT !.step = step]
Entries(step) == [Edit("update") EXCEPT !.first = step]

Tree(value) == <<<<[attribute |-> "dow", operator |-> "gt", value |-> value]>>>>
Options1 == [text |-> <<"text", "">>, options |-> <<"list", <<[label |-> <<"text", "yes">>, nextStepId |-> <<"uuid", "b">>]>>>>,
             timeoutSeconds |-> <<"number", 5>>]
Wired == [functionKey |-> <<"key", "fn">>, outputVariable |-> <<"text", "v">>, nextStepId |-> <<"text", "">>,
          onOutcome |-> <<"object", [found |-> <<"uuid", "a">>]>>]
Unregistered == [functionKey |-> <<"key", "gone">>]
Branches == [branches |-> <<"list", <<[nextStepId |-> <<"uuid", "a">>, conditions |-> <<"tree", Tree(<<"number", 1>>)>>],
                                      [nextStepId |-> <<"uuid", "b">>]>>>>]
DefaultFirst == [branches |-> <<"list", <<[nextStepId |-> <<"uuid", "b">>], [nextStepId |-> <<"uuid", "a">>]>>>>]

MCConflicts ==
  { {}, {Drops("b"), Drops("c")},
    {Drops("a"), Entries("a"), Adds("d", "MESSAGE", <<>>)},
    {Drops("b"), [Edit("order") EXCEPT !.ids = <<"c", "b", "a">>]},
    {[Edit("order") EXCEPT !.ids = <<"c", "c", "a">>], Entries("x"), Drops("c")},
    {Adds("d", "BRANCH", Branches), Adds("e", "FUNCTION", Wired), Drops("a")},
    {Adds("d", "BRANCH", DefaultFirst), Adds("e", "FUNCTION", Unregistered), Adds("g", "DELAY", <<>>)},
    {Adds("d", "BRANCH", <<>>), Adds("e", "FUNCTION", <<>>), Adds("g", "HANDOFF", <<>>)},
    {Patches("b", "MESSAGE", {}), Patches("b", "unset", {Options1}), Patches("b", "MESSAGE", {[text |-> <<"number", 1>>]})},
    {Patches("b", "unset", {[amountSeconds |-> <<"number", 9>>]}), Patches("b", "MESSAGE", {Options1}), Drops("b")},
    {Patches("c", "unset", {Wired}), Patches("c", "RESOLVE", {}), Patches("b", "unset", {[amountSeconds |-> <<"text", "x">>]})},
    {Patches("b", "unset", {[amountSeconds |-> <<"number", 1>>, nextStepId |-> <<"uuid", "c">>]}), Drops("c")},
    {[Edit("create") EXCEPT !.flow = "H", !.name = "one"], [Edit("update") EXCEPT !.name = "three"]},
    {Edit("remove"), Adds("d", "RESOLVE", <<>>), Drops("a"), Patches("b", "unset", {<<>>})},
    {[Edit("create") EXCEPT !.flow = "H", !.name = "four"], [Adds("d", "MESSAGE", Options1) EXCEPT !.flow = "H"],
     [Adds("e", "RESOLVE", <<>>) EXCEPT !.flow = "H"]} }
MCChannelTypes == {<<"EMAIL">>, <<"WHATSAPP">>}

Is1(attr, op, v) == [attribute |-> attr, operator |-> op, value |-> v]
Day(op, n) == Is1("dow", op, <<"number", n>>)
TagIs(op, t) == Is1("tags", op, <<"text", <<t>>>>)
AnyTag(ts) == Is1("tags", "contains_any", <<"list", [i \in DOMAIN ts |-> <<ts[i]>>]>>)
By(op, c) == Is1("channel_type", op, <<"text", <<c>>>>)
Subject(op, ws) == Is1("subject", op, <<"text", ws>>)
MCTrees ==
  {<<<<Day(op, 1), Day(op2, 2)>>>> : op \in {"gt", "gte", "neq"}, op2 \in {"lt", "lte", "eq", "neq"}}
  \cup {<<<<Day("eq", 0), Day("eq", 3)>>>>, <<<<Day("gt", 3)>>>>, <<<<Day("gt", 1), Day("lt", 2)>>, <<Day("eq", 1)>>>>}
  \cup {<<<<TagIs("contains", "vip"), TagIs("not_contains", "vip")>>>>, <<<<AnyTag(<<"old", "vip">>), TagIs("not_contains", "old")>>>>,
        <<<<AnyTag(<<"old">>), TagIs("not_contains", "old")>>>>, <<<<TagIs("not_contains", "vip"), By("eq", "EMAIL")>>>>,
        <<<<Is1("tags", "contains_any", <<"text", <<"vip">>>>)>>>>,
        <<<<Is1("tags", "contains_any", <<"list", << <<>>, <<"vip">> >> >>)>>>>}
  \cup {<<<<By("eq", "EMAIL"), Day("lt", 2)>>>>, <<<<By("eq", "EMAIL"), By("neq", "EMAIL")>>>>, <<<<By("neq", "EMAIL")>>>>,
        <<<<By("eq", "EMAIL"), By("eq", "WHATSAPP")>>>>, <<<<By("eq", "FAX")>>>>, <<<<>>>>,
        <<<<Subject("contains", <<"refund">>), Subject("starts_with", <<"Re">>)>>>>,
        <<<<Subject("ends_with", <<"refund">>), Subject("eq", <<"order">>)>>>>}
MCTickets ==
  {[created_hour |-> <<"number", 0>>, latest_hour |-> <<"number", 0>>, dow |-> <<"number", d>>, channel_type |-> <<"text", <<c>>>>,
    channel_id |-> <<"text", <<"id">>>>, sender_email |-> <<"text", <<>>>>, subject |-> <<"text", <<"Re", "order", "refund">>>>,
    tags |-> <<"tags", t>>] : d \in 0..3, c \in {"EMAIL", "WHATSAPP"}, t \in SUBSET {<<"vip">>, <<"old">>}}

EditorRulesInit == RulesInit /\ \E comes \in Conflicts : EditorInit(comes)
EditorRulesNext ==
  \/ EditorNext /\ UNCHANGED ruleVars
  \/ edits = <<>> /\ told = Silent /\ RulesNext /\ UNCHANGED editorVars
----------------------------------------------------------------------------
(* Templates of WhatsApp written here or found at Meta, bound and sent;    *)
(* mail templates, two creates of one name, a reply and a fresh mail, and  *)
(* their sends with letters in between.                                    *)
NoFault(order, words) == [order |-> order, words |-> words, whatsapp |-> TRUE, mail |-> FALSE]
SomeContexts == {NoFault(FALSE, 0), NoFault(TRUE, 1), NoFault(TRUE, 2)}
Event1(raw, bound, resolves, variables) == [raw |-> raw, bound |-> bound, resolves |-> resolves, variables |-> variables]
SomeEvents == {Event1(TRUE, {"awb"}, {"awb", "order_id"}, {}), Event1(TRUE, {}, {"order_id"}, {"awb"}),
               Event1(FALSE, {}, {}, {"order_id"})}

Button(type, var) == [type |-> type, var |-> var]
Falls(text) == [fallback |-> text, path |-> "null"]
Dto(category, body, buttons, given) ==
  [category |-> category, body |-> body, buttons |-> buttons, given |-> given, header |-> "NONE", price |-> FALSE]
Parcel == Dto("UTILITY", <<"order_id", "first_name", "order_id">>,
              <<Button("QUICK_REPLY", ""), Button("URL", "awb"), Button("URL", "")>>,
              [n \in {"order_id", "first_name", "awb"} |-> IF n = "awb" THEN [fallback |-> "0", path |-> "p"] ELSE Falls("there")])
Offer  == [Dto("MARKETING", <<"first_name">>, <<>>, [n \in {"first_name"} |-> Falls("there")])
             EXCEPT !.header = "IMAGE with its sample"]
Bare   == Dto("UTILITY", <<"first_name">>, <<>>, <<>>)
Dear   == [Offer EXCEPT !.price = TRUE]
Unsafe == Dto("MARKETING", <<"order_id">>, <<>>, [n \in {"order_id"} |-> Falls("there")])

Request(id, kind, key, dto) == [id |-> id, kind |-> kind, key |-> key, dto |-> dto]
Creates(id, dto) == Request(id, "create", "t", dto)
Reviews(id, status) == Request(id, "review", "t", status)
Binds(name, path, fallback) == Request(6, "bind", "t", [name |-> name, path |-> path, fallback |-> fallback])
Syncs == {Request(4, "sync", "", ""), Request(5, "sync", "", "")}
Imported1 == [status |-> "APPROVED", category |-> "MARKETING", body |-> <<"1", "2">>, bid |-> FALSE]
Registered(t) == [k \in Keys |-> t]
TemplateCase(registered, coming, breaks) == [registered |-> registered, coming |-> coming, breaks |-> breaks]
SomeTemplates ==
  {TemplateCase(Registered(NoTemplate), {Creates(1, Parcel), Reviews(2, "APPROVED"), Binds("order_id", "p", "keep")} \cup Syncs, 0),
   TemplateCase(Registered(NoTemplate), {Creates(1, Offer), Reviews(2, "APPROVED"), Binds("first_name", "keep", "null")} \cup Syncs, 1),
   TemplateCase(Registered(NoTemplate), {Creates(1, Offer), Creates(3, Parcel), Reviews(2, "PAUSED"), Reviews(7, "APPROVED")} \cup Syncs, 1),
   TemplateCase(Registered(NoTemplate), {Creates(1, Bare), Creates(2, Dear), Creates(3, Unsafe)}, 0),
   TemplateCase(Registered(Imported1), {Creates(1, Offer), Reviews(2, "IN_APPEAL")} \cup Syncs, 1)}

TemplatesCasesInit == \E c \in TemplateCases : TemplatesInit(c)
TemplatesFairness == WF_templateVars(\E c \in templateCalls : CallSteps(c))
----------------------------------------------------------------------------
Letter1(id, inbound) == [op |-> "letter", id |-> id, inbound |-> inbound]
Sends1(id, channel, name) == [op |-> "send", id |-> id, key |-> <<channel, name>>]
Tries(name, over) == [op |-> "test", id |-> "t1", key |-> <<"ours", name>>, over |-> over]
Mail(kind, subject, body, given) == [kind |-> kind, titled |-> subject # <<>>, subject |-> subject, body |-> body, given |-> given]
Makes(id, channel, name, dto) == [op |-> "create", id |-> id, key |-> <<channel, name>>, dto |-> dto]
GivenFor(names) == [n \in names |-> "there"]

Answer == Mail("REPLY", <<"order_id">>, <<"first_name", "email", "first_name">>, GivenFor({"first_name"}))
Fresh  == Mail("OUTREACH", <<"order_id">>, <<"last_name", "ticket_id">>, GivenFor({"order_id", "last_name"}))
NoTitle == Mail("OUTREACH", <<>>, <<"inbox">>, <<>>)
Wanting == Mail("OUTREACH", <<"order_id">>, <<"inbox">>, <<>>)
Strange == Mail("REPLY", <<>>, <<"nickname">>, <<>>)

MailCase(ls, sender, order, words, comes, breaks) ==
  [letters |-> ls, sender |-> sender, order |-> order, words |-> words, asks |-> comes, faults |-> breaks]
First1 == <<[id |-> "l0", inbound |-> TRUE]>>
TheMailCases ==
  { MailCase(First1, "somebody", TRUE, 1,
      {Makes("c1", "ours", "n", Answer), Makes("c2", "ours", "n", Fresh), Sends1("s1", "ours", "n"),
       Letter1("l1", TRUE), Letter1("l2", FALSE), Tries("n", {"inbox"})}, 1),
    MailCase(<<>>, "somebody", FALSE, 0,
      {Makes("c1", "ours", "n", Answer), Makes("c2", "ours", "m", Fresh), Sends1("s1", "ours", "n"),
       Sends1("s2", "ours", "m"), Tries("m", {"ticket_id"}), Letter1("l1", TRUE)}, 1),
    MailCase(First1, "nobody", TRUE, 2,
      {Makes("c1", "ours", "n", Answer), Makes("c2", "theirs", "n", Fresh), Sends1("s1", "ours", "n"), Sends1("s2", "theirs", "n")}, 0),
    MailCase(First1, "somebody", TRUE, 2,
      {Makes("c1", "ours", "n", NoTitle), Makes("c2", "ours", "n", Wanting), Makes("c3", "ours", "n", Strange),
       Makes("c4", "theirs", "n", Fresh), Sends1("s1", "ours", "n"), Sends1("s2", "theirs", "n")}, 0) }

MailTemplatesCasesInit == \E c \in MailCases : MailTemplatesInit(c)
----------------------------------------------------------------------------
VARIABLE desk  \* the part that moves

SomeSays ==
  [n: {0, 3, 4, 11}, long: BOOLEAN, body: {TRUE}] \cup {[n |-> 0, long |-> FALSE, body |-> FALSE]}
SomeFiles ==
  [mime: {"image/png", "audio/ogg", "application/zip"}, mb: {5, 17}, stored: BOOLEAN,
   upload: {[reply |-> "id"], [reply |-> "error"]}]

OfficeRests    == OfficeCase(None)
ConsoleRests   == ConsoleInit([t \in TwoTickets |-> {}], FALSE, {}, 0)
EditorRests    == EditorInit({}) /\ RulesInit
TemplatesRest  == TemplatesInit(TemplateCase(Registered(NoTemplate), {}, 0))
OrdersRest     == OrdersInit([contact |-> ByPhone(0), ops |-> {}, comes |-> {}])
InboxRests     == InboxInit([rows |-> Desk4(NotYet, NotYet, NotYet, NotYet), notes |-> {}, asks |-> {}, now |-> 0])
MailRests      == MailTemplatesInit(MailCase(<<>>, "nobody", FALSE, 0, {}, 0))

Init ==
  \/ desk = "office" /\ OfficeInit
       /\ ConsoleRests /\ EditorRests /\ TemplatesRest /\ TalkInit /\ MailRests /\ InboxRests /\ OrdersRest
  \/ desk = "console" /\ ConsoleCasesInit
       /\ OfficeRests /\ EditorRests /\ TemplatesRest /\ TalkInit /\ MailRests /\ InboxRests /\ OrdersRest
  \/ desk = "editor" /\ EditorRulesInit
       /\ OfficeRests /\ ConsoleRests /\ TemplatesRest /\ TalkInit /\ MailRests /\ InboxRests /\ OrdersRest
  \/ desk = "templates" /\ TemplatesCasesInit
       /\ OfficeRests /\ ConsoleRests /\ EditorRests /\ TalkInit /\ MailRests /\ InboxRests /\ OrdersRest
  \/ desk = "talk" /\ TalkInit
       /\ OfficeRests /\ ConsoleRests /\ EditorRests /\ TemplatesRest /\ MailRests /\ InboxRests /\ OrdersRest
  \/ desk = "mail" /\ MailTemplatesCasesInit
       /\ OfficeRests /\ ConsoleRests /\ EditorRests /\ TemplatesRest /\ TalkInit /\ InboxRests /\ OrdersRest
  \/ desk = "inbox" /\ InboxCasesInit
       /\ OfficeRests /\ ConsoleRests /\ EditorRests /\ TemplatesRest /\ TalkInit /\ MailRests /\ OrdersRest
  \/ desk = "orders" /\ OrdersCasesInit
       /\ OfficeRests /\ ConsoleRests /\ EditorRests /\ TemplatesRest /\ TalkInit /\ MailRests /\ InboxRests

Next ==
  \/ desk = "office" /\ OfficeNext
       /\ UNCHANGED <<consoleVars, editorRulesVars, templateVars, talkVars, mailTemplateVars, inboxVars, ordersVars, desk>>
  \/ desk = "console" /\ ConsoleNext
       /\ UNCHANGED <<officeVars, editorRulesVars, templateVars, talkVars, mailTemplateVars, inboxVars, ordersVars, desk>>
  \/ desk = "editor" /\ EditorRulesNext
       /\ UNCHANGED <<officeVars, consoleVars, templateVars, talkVars, mailTemplateVars, inboxVars, ordersVars, desk>>
  \/ desk = "templates" /\ TemplatesNext
       /\ UNCHANGED <<officeVars, consoleVars, editorRulesVars, talkVars, mailTemplateVars, inboxVars, ordersVars, desk>>
  \/ desk = "talk" /\ TalkNext
       /\ UNCHANGED <<officeVars, consoleVars, editorRulesVars, templateVars, mailTemplateVars, inboxVars, ordersVars, desk>>
  \/ desk = "mail" /\ MailTemplatesNext
       /\ UNCHANGED <<officeVars, consoleVars, editorRulesVars, templateVars, talkVars, inboxVars, ordersVars, desk>>
  \/ desk = "inbox" /\ InboxNext
       /\ UNCHANGED <<officeVars, consoleVars, editorRulesVars, templateVars, talkVars, mailTemplateVars, ordersVars, desk>>
  \/ desk = "orders" /\ OrdersNext
       /\ UNCHANGED <<officeVars, consoleVars, editorRulesVars, templateVars, talkVars, mailTemplateVars, inboxVars, desk>>

deskVars == <<officeVars, consoleVars, editorRulesVars, templateVars, talkVars, mailTemplateVars, inboxVars, ordersVars, desk>>
Spec == Init /\ [][Next]_deskVars /\ OfficeFairness /\ TemplatesFairness

(* Who waits for a token or for Meta is answered.                          *)
DeskAnswers == GettersAnswered /\ CallsEnd
=============================================================================
