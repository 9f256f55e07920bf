------------------------- MODULE MCDebuggingServer -------------------------
EXTENDS DebuggingServer, TLC

CONSTANTS c1, c2, c3, i1

\* connections are interchangeable: the map and every counter treat them alike
ConnSymmetry == Permutations(Conns)

====
