---------------------------- MODULE MCFileSync ----------------------------
EXTENDS FileSync
CONSTANTS d1, d2, d3, f1, f2
MCDevice == {d1, d2, d3}
MCFile == {f1, f2}
NoFiles == [f \in File |-> Absent]
SomeFile == [f \in File |-> IF f = f1 THEN MaxCommands + 1 ELSE Absent]

\* Two devices, and any command when nothing is left to be done.
OneAtATime ==
  [running |-> {d1, d2}, starting |-> {}, initial |-> NoFiles,
   files |-> {f1}, commands |-> CommandName, times |-> 3, patient |-> TRUE]

\* Two devices start while the first is in use.
Startup ==
  [running |-> {d1}, starting |-> {d2, d3}, initial |-> SomeFile,
   files |-> {f1, f2}, commands |-> {"save", "upload", "exit"}, times |-> 1,
   patient |-> FALSE]

\* Two devices, and two commands at any time.
AtOnce ==
  [running |-> {d1, d2}, starting |-> {}, initial |-> NoFiles,
   files |-> {f1}, commands |-> CommandName, times |-> 2, patient |-> FALSE]

InOrder == {OneAtATime, Startup}
Races == {AtOnce}
=============================================================================
