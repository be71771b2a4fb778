--------------------------- MODULE MCProjectAccess ---------------------------
EXTENDS ProjectAccess

CONSTANTS a, b, t1, t2, t3, t4

Two    == {a, b}
Both   == {t1, t2}
Third  == {t3}
Fourth == {t4}
All    == [t \in Tx |-> {a, b}]
Top    == {DELETE}
=============================================================================
