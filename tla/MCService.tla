------------------------------ MODULE MCService ------------------------------
EXTENDS Service, TLC
CONSTANTS c1, c2, s1, s2
TheClients == {c1, c2}
TheServers == {s1, s2}
OneUser == [c \in TheClients |-> "user"]
=============================================================================
