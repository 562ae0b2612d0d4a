------------------------------ MODULE Handover ------------------------------
(***************************************************************************)
(* What the chat window and the agent middleware promise about a           *)
(* conversation: every turn is either still in context or was handed to a  *)
(* memory update that committed, exactly once and oldest first ("turns are *)
(* only actually removed after a caller confirms the memory update         *)
(* succeeded", core/window.py; "never loses messages on failure",          *)
(* adapters/langchain/structured_memory.py).                               *)
(***************************************************************************)
EXTENDS Naturals

VARIABLES
  said,       \* the number of turns said so far
  context,    \* the turns the model still sees
  recorded    \* the turns of the committed updates

vars == <<said, context, recorded>>

(* A conversation may start from turns said elsewhere.                     *)
Init ==
  /\ said \in Nat
  /\ context = 1..said
  /\ recorded = {}

(* One or more turns are appended; nothing leaves.                         *)
Say ==
  /\ said' >= said
  /\ context' = context \cup (said + 1)..said'
  /\ UNCHANGED recorded

(* The oldest turns are handed over; at least one turn stays.              *)
HandOver ==
  /\ \E last \in context :
       /\ context' = {i \in context : i > last}
       /\ recorded' = recorded \cup {i \in context : i <= last}
  /\ context' # {}
  /\ UNCHANGED said

Next == Say \/ HandOver

Spec == Init /\ [][Next]_vars
=============================================================================
