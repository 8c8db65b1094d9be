----------------------- MODULE MCTranscriptExtraction -----------------------
(* Small instances of TranscriptExtraction for TLC. *)
EXTENDS TranscriptExtraction, TLC

WorkerSymmetry == Permutations(Workers)
=============================================================================
