----------------------------- MODULE MCTriggers -----------------------------
EXTENDS Triggers

CONSTANTS t1, b1, b2, m1, m2, n1, n2, e1, h1, p1

One      == {t1}
Backends == {b1, b2}
Missions == {m1, m2}
Names    == {n1, n2}
Changes  == {e1}
Hooks    == {h1}
Patches  == {p1}

None == [type |-> "TIME", cron |-> {}, names |-> {}, events |-> {}]
Settings ==
    {None, [None EXCEPT !.cron = {0}], [None EXCEPT !.type = "WEBHOOK"],
     [None EXCEPT !.type = "FILE", !.names = {n1}, !.events = {"UPLOAD", "MOVE"}]}
=============================================================================
