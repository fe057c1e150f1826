------------------------------ MODULE MCStats ------------------------------
EXTENDS Stats, TLC

CONSTANTS t1, t2

TwoTasks    == {t1, t2}
TwoCounters == <<"auth", "relay">>
Sym         == Permutations(Tasks)

=============================================================================
