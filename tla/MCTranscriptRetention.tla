----------------------- MODULE MCTranscriptRetention -----------------------
(* Small instances of TranscriptRetention for TLC. *)
EXTENDS TranscriptRetention, TLC

Symmetry == Permutations(Notes) \cup Permutations(Jobs)
=============================================================================
