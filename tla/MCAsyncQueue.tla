---------------------------- MODULE MCAsyncQueue ----------------------------
EXTENDS AsyncQueue
CONSTANTS main, notify, network
Producers == {main, notify}
Consumers == {network}
AllOperations == {"pop", "try_pop", "pop_by_id", "try_pop_by_id", "size"}
=============================================================================
