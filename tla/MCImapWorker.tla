---------------------------- MODULE MCImapWorker ----------------------------
(* Values of the constants of ImapWorker for TLC.                          *)
EXTENDS ImapWorker, TLC

CONSTANTS c1, c2, h1, h2, d1, d2

TwoConns == {c1, c2}
OneHandler  == {h1}
TwoHandlers == {h1, h2}
OneDrain  == {d1}
TwoDrains == {d1, d2}

FirstUnwanted == {2}
NoneUnwanted  == {}

Admin    == {"status", "oauth", "delete"}
Outages  == {"crash", "drop", "persistfail"}
AdminAndOutages == Admin \cup Outages
AllEvents == Admin \cup Outages \cup {"startfail"}
(* Handlers are left out: Booted chooses one of them.                      *)
ConnAndDrainSymmetry == Permutations(Conns) \cup Permutations(Drains)

StatusOnly == {"status"}
=============================================================================
