-------------------------- MODULE MCActionDispatch --------------------------
EXTENDS ActionDispatch

CONSTANTS a1, a2, w1, w2, w3, backend, consumer

OneAction    == {a1}
TwoActions   == {a1, a2}
TwoWorkers   == {w1, w2}
ThreeWorkers == {w1, w2, w3}
OneProcess   == {backend}
TwoProcesses == {backend, consumer}
=============================================================================
