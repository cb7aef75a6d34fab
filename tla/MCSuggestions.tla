---------------------------- MODULE MCSuggestions ----------------------------
(* Two reports, of which the second has lost one of the sources of the first. *)
EXTENDS Suggestions

CONSTANTS w1, w2, host, guest, kept, removed

Source(anchor) == <<[id |-> anchor, size |-> 1]>>
MCDocuments == <<<<Source(removed), Source(kept)>>, <<Source(kept)>>>>

Processes == Permutations(Worker)
===============================================================================
