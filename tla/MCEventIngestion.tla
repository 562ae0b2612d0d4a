-------------------------- MODULE MCEventIngestion --------------------------
(* Model-checking instances of EventIngestion: the records of a small agent *)
(* trace and of a small chat.                                               *)
EXTENDS EventIngestion

Event(source, actor, subject, text, flag, tokens) ==
  [source |-> source, actor |-> actor, subject |-> subject, text |-> text,
   flag |-> flag, tokens |-> tokens]

AgentTrace ==
  {Event("task_status", "agent", "deploy", "plain", FALSE, 2),
   Event("task_status", "agent", "deploy", "blocked", FALSE, 3),
   Event("agent_decision", "agent", "deploy", "plain", FALSE, 1),
   Event("artifact", "agent", "deploy", "plain", FALSE, 1),
   Event("tool_result", "deploy", "deploy", "plain", TRUE, 2),
   Event("tool_result", "deploy", "deploy", "plain", FALSE, 2)}

Chat ==
  {Event("chat_message", "user", "user", "prefer", FALSE, 2),
   Event("chat_message", "user", "user", "goal", FALSE, 1),
   Event("chat_message", "user", "user", "blocked", FALSE, 3),
   Event("chat_message", "user", "user", "marker", FALSE, 1),
   Event("chat_message", "assistant", "assistant", "prefer", TRUE, 1),
   Event("chat_message", "assistant", "assistant", "goal", FALSE, 1)}

AgentAndChat == [p \in {"agent", "chat"} |->
                   IF p = "agent" THEN AgentTrace ELSE Chat]
=============================================================================
