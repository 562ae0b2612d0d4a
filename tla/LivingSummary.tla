---------------------------- MODULE LivingSummary ----------------------------
(***************************************************************************)
(* What Memory promises to whoever reads it, without locks, revisions or   *)
(* transactions: a summary whose entries are added, reworded or superseded *)
(* and never deleted, under ids that are issued once, for as long as the   *)
(* process lives (class docstring of core/store.py); a save that may be    *)
(* torn, but takes every entry there was when it began and no other one;   *)
(* and a restart that brings back exactly the entries that were saved.     *)
(***************************************************************************)
EXTENDS MemoryOps

VARIABLES
  summary,       \* the store every reader sees
  opened,        \* <<the entries when the save in progress began>>, or <<>>
  saved,         \* the last state handed out by to_state
  incarnation    \* the number of restarts

vars == <<summary, opened, saved, incarnation>>

Init ==
  /\ summary = EmptyStore
  /\ opened = <<>>
  /\ saved = EmptyStore
  /\ incarnation = 0

(* Any number of ops takes effect at once.                                 *)
Evolve ==
  /\ Extends(summary, summary')
  /\ IdsIssued(summary')
  /\ UNCHANGED <<opened, saved, incarnation>>

Open ==
  /\ opened = <<>>
  /\ opened' = <<summary.entries>>
  /\ UNCHANGED <<summary, saved, incarnation>>

(* A save reads entries one by one and each of them bit by bit: it may mix *)
(* what was there when it began with what is there now, but it loses none, *)
(* turns no history back, and claims no provenance that is not there.      *)
Torn(before, entry, now) ==
  /\ Evolves(before, entry)
  /\ entry.prov \subseteq now.prov
  /\ entry.status = "superseded" => now.status = "superseded"

Save ==
  /\ opened # <<>>
  /\ DOMAIN saved'.entries = DOMAIN opened[1]
  /\ \A i \in DOMAIN opened[1] :
        Torn(opened[1][i], saved'.entries[i], summary.entries[i])
  /\ opened' = <<>>
  /\ UNCHANGED <<summary, incarnation>>

(* A save may fail; the last one that did not stays.                       *)
GiveUp ==
  /\ opened' = <<>>
  /\ UNCHANGED <<summary, saved, incarnation>>

(* The counters may have been lost, or be older than the entries; the ids  *)
(* they give out stay fresh.                                               *)
Reload ==
  /\ incarnation' = incarnation + 1
  /\ summary'.entries = saved.entries
  /\ IdsIssued(summary')
  /\ opened' = <<>>
  /\ UNCHANGED saved

Next == Evolve \/ Open \/ Save \/ GiveUp \/ Reload

Spec == Init /\ [][Next]_vars
=============================================================================
