--------------------------- MODULE MCRingElection ---------------------------
EXTENDS RingElection
MCServers == Server
None == {}
First == {1}
Second == {2}
Rank3 == <<1, 3, 2>>
\* The last server wins.  An earlier one would be wedged (ElectionWedged).
Rank4 == <<1, 3, 2, 4>>
Rank4b == <<4, 3, 2, 1>>
Rank4c == <<1, 3, 4, 2>>
=============================================================================
