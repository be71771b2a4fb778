-------------------------- MODULE MCFileIngestion --------------------------
EXTENDS FileIngestion

CONSTANTS c1, c2

OneConfirm  == {c1}
TwoConfirms == {c1, c2}
Requests    == {"cancel", "remove", "stop", "delete"}
Crons       == {"recompute", "cleanup"}
=============================================================================
