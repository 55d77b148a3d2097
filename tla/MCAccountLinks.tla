---------------------------- MODULE MCAccountLinks ----------------------------
(* Two confirmations, one link being made and one cleaner, over small tables.  *)
EXTENDS AccountLinks, TLC

Symmetry == Permutations(Confirms) \cup Permutations(OpenIDs) \cup Permutations(Users)

Busy == {c \in Confirms : pc[c] # "idle"} \cup {m \in Makers : make[m] # NoMaking}
Rewinding == {h \in Confirms \cup Cleaners : ~Free(h)}

\* Two requests at a time; a rewinding of the sequence beside the maker only; beside a
\* compaction the first link is made or confirmed, and not beside one being undone.
TwoAtATime == /\ Cardinality(Busy) <= 2
              /\ Rewinding # {} => Busy \subseteq Makers /\ cpc = "idle" /\ Cardinality(Rewinding) = 1
              /\ cpc # "idle" => Cardinality(Busy) <= 1 /\ tokens + Cardinality(Busy \cap Makers) <= 1
              /\ cpc = "undo" => Busy = {}
================================================================================
