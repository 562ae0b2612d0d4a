---------------------------- MODULE MCHybridAgent ----------------------------
(* Model-checking instances of HybridAgent.  A conversation is new, or      *)
(* starts from a list that was cut elsewhere so that its first messages are *)
(* ToolMessages without their AIMessage, or is resumed with messages of an  *)
(* earlier run.                                                             *)
EXTENDS HybridAgent

Orphan(n) == [id |-> n, kind |-> "tool", call |-> 0, size |-> 1]
Histories == {<<>>, <<Orphan(1), Orphan(2), Orphan(3)>>}

Earlier(n, kind) == [id |-> n, kind |-> kind, call |-> 0, size |-> 3]
Resumed == {<<Earlier(1, "human"), Earlier(2, "answer"), Earlier(3, "human"),
              Earlier(4, "answer")>>}
=============================================================================
