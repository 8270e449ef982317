-------------------------- MODULE MCTranscodePool --------------------------
(* A small instance of TranscodePool: the mosaic is a composition, and exclusive. *)
EXTENDS TranscodePool
CONSTANTS clip, song, mosaic
ThreeKeys == {clip, song, mosaic}
TheMosaic == {mosaic}
=============================================================================
