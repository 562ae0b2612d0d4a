--------------------------- MODULE MCUpdateBatch ---------------------------
(* Model-checking instances of UpdateBatch: facts and status changes, and   *)
(* turns that say nothing, state a change, or mention one where the         *)
(* deterministic pass does not look (a code block).                         *)
EXTENDS UpdateBatch

CONSTANTS facts, status, a, b

Turns == 1..MaxTurns

Plain      == [cue |-> FALSE, statement |-> NoStatement]
Stated     == [cue |-> TRUE, statement |-> a]
StatedB    == [cue |-> TRUE, statement |-> b]
InCode     == [cue |-> TRUE, statement |-> NoStatement]
Extracted  == {Plain, Stated, StatedB}
WithInCode == {Plain, Stated, InCode}

NoopOnly == {[kind |-> "NOOP"]}
SomeOps ==
  {AddOp(facts, b, {1}), AddOp(facts, a, {2}), AddOp(status, b, {2}),
   UpdateOp(<<status, 1>>, b, {2}, TRUE), UpdateOp(<<facts, 1>>, a, {1}, TRUE),
   SupersedeOp(<<status, 1>>), SupersedeOp(<<facts, 1>>)} \cup PlainOps
=============================================================================
