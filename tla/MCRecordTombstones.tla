------------------------ MODULE MCRecordTombstones ------------------------
(* RecordTombstones for TLC. Keys and bodies are interchangeable: no rev     *)
(* depends on them and the properties checked are safety properties.        *)
EXTENDS RecordTombstones, TLC

Symmetry == Permutations(Keys) \cup Permutations(Bodies)
=============================================================================
