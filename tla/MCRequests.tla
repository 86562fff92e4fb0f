----------------------------- MODULE MCRequests -----------------------------
EXTENDS Requests
FileNames == {"a", "b"}
SomeTasks ==
  {Upload("a", 1), Upload("b", 0), AskFor("download", "a"),
   AskFor("delete", "b"), Ask("list"), Ask("exit")}
=============================================================================
