------------------------------ MODULE MemoryOps ------------------------------
(***************************************************************************)
(* The data of the structured memory (core/store.py): entries, the ops     *)
(* that change them, and what Memory._apply_one does with one op.  These   *)
(* are pure operators; the modules that own a live memory extend this one. *)
(*                                                                         *)
(* Abstractions: an entry's section is the section of its id (the prefix); *)
(* notes, subject identities and values are payload and are left out.      *)
(***************************************************************************)
EXTENDS Integers

CONSTANTS
  Sections,     \* section keys; each has an id prefix and an id counter
  Texts,        \* entry texts
  TurnIds,      \* transcript turn ids an entry's provenance may name
  Narratives,   \* values of the free-text narrative
  NoNarrative   \* the empty narrative a Memory starts with

ASSUME NarrativeAssumption == NoNarrative \in Narratives

(* An entry id: the prefix of its section followed by a running number.    *)
Id == Sections \X (Nat \ {0})

(* The number _next_id gives out for id i.                                 *)
Number(i) == i[2]
SectionOf(i) == i[1]

Entry == [text: Texts, prov: SUBSET TurnIds, status: {"active", "superseded"}]

(* What a Memory holds: a dict of entries by id, the number of ids issued  *)
(* in each section, and the narrative.                                     *)
IsStore(s) ==
  /\ s \in [entries: {s.entries}, counters: [Sections -> Nat],
            narrative: Narratives]
  /\ DOMAIN s.entries \subseteq Id
  /\ s.entries \in [DOMAIN s.entries -> Entry]

EmptyStore == [entries   |-> [i \in {} |-> i],
               counters  |-> [sec \in Sections |-> 0],
               narrative |-> NoNarrative]

AddOp(s, t, p)       == [kind |-> "ADD", section |-> s, text |-> t, prov |-> p]
UpdateOp(i, t, p, o) == [kind |-> "UPDATE", id |-> i, text |-> t, prov |-> p,
                         sortable |-> o]
SupersedeOp(i)       == [kind |-> "SUPERSEDE", id |-> i]
(* "MALFORMED" is every op turned away before it touches anything: not a   *)
(* dict, unknown kind or section, missing text, provenance not a list.     *)
PlainOps == {[kind |-> "NOOP"], [kind |-> "MALFORMED"]}

(* sortable = FALSE: a provenance list whose union with the entry's cannot *)
(* be built or sorted (unhashable or mixed members).                       *)
Op == [kind: {"ADD"}, section: Sections, text: Texts, prov: SUBSET TurnIds]
        \cup [kind: {"UPDATE"}, id: Id, text: Texts, prov: SUBSET TurnIds,
              sortable: BOOLEAN]
        \cup [kind: {"SUPERSEDE"}, id: Id]
        \cup PlainOps

Holds(s, i) == i \in DOMAIN s.entries
ActiveIds(s) == {i \in DOMAIN s.entries : s.entries[i].status = "active"}

(* entries[i] = e in a dict: replaces or inserts.                          *)
Put(f, i, e) == [j \in DOMAIN f \cup {i} |-> IF j = i THEN e ELSE f[j]]

(* _next_id.  (Seeded bug: the first id is 0.)                             *)
IdFromZero(s, sec) == <<sec, s.counters[sec]>>
NextId(s, sec) == <<sec, s.counters[sec] + 1>>

Added(s, op) ==
  [s EXCEPT
     !.entries = Put(s.entries, NextId(s, op.section),
                     [text |-> op.text, prov |-> op.prov, status |-> "active"]),
     !.counters = [s.counters EXCEPT ![op.section] = @ + 1]]

(* The text is assigned before the provenance is merged, so an UPDATE that *)
(* raises while sorting leaves the new text behind.                        *)
Updated(s, op) ==
  [s EXCEPT !.entries =
     Put(s.entries, op.id,
         [s.entries[op.id] EXCEPT
            !.text = op.text,
            !.prov = IF op.sortable THEN @ \cup op.prov ELSE @])]

Superseded(s, op) ==
  [s EXCEPT !.entries =
     Put(s.entries, op.id, [s.entries[op.id] EXCEPT !.status = "superseded"])]

(* (Seeded bug: a superseded entry may be reworded.)                       *)
UpdatableAnyStatus(s, op) == op.kind = "UPDATE" /\ Holds(s, op.id)
Updatable(s, op) == op.kind = "UPDATE" /\ op.id \in ActiveIds(s)

(* _apply_one returned True.                                               *)
Accepted(s, op) ==
  \/ op.kind \in {"NOOP", "ADD"}
  \/ Updatable(s, op) /\ op.sortable
  \/ op.kind = "SUPERSEDE" /\ Holds(s, op.id)

(* The store after _apply_one, whether it accepted the op or not.          *)
AfterOp(s, op) ==
  CASE op.kind = "ADD"                             -> Added(s, op)
    [] Updatable(s, op)                            -> Updated(s, op)
    [] op.kind = "SUPERSEDE" /\ Holds(s, op.id)    -> Superseded(s, op)
    [] OTHER                                       -> s

-----------------------------------------------------------------------------
(* Relations between two stores, used by the properties.                   *)

(* Every id was issued by its section's counter: the next id is fresh.     *)
IdsIssued(s) ==
  \A i \in DOMAIN s.entries : Number(i) <= s.counters[SectionOf(i)]

(* An active entry may be reworded and gains provenance; history is final. *)
Evolves(e, f) == e = f \/ (e.status = "active" /\ e.prov \subseteq f.prov)

(* new is old with entries added under fresh ids or evolved, none removed. *)
Extends(old, new) ==
  /\ DOMAIN old.entries \subseteq DOMAIN new.entries
  /\ \A i \in DOMAIN old.entries : Evolves(old.entries[i], new.entries[i])
  /\ \A i \in DOMAIN new.entries \ DOMAIN old.entries :
        Number(i) > old.counters[SectionOf(i)]
  /\ \A sec \in Sections : old.counters[sec] <= new.counters[sec]
=============================================================================
