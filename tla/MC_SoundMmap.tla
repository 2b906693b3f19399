----------------------------- MODULE MC_SoundMmap -----------------------------
(***************************************************************************)
(* A three-frame file; two time units per sample, so a loop of 3 or 4     *)
(* units is 1 or 2 samples long (3 / 2 truncated) and an offset of 3 units *)
(* skips one frame (truncated too).                                        *)
(* Blocks of up to 3 samples starting at 0..3 cross the end of the file   *)
(* and the end of the loop, and wrap more than once.                       *)
(***************************************************************************)
EXTENDS SoundMmap

MC_Formats == {<<"PCM", 16>>, <<"PCM", 8>>, <<"FLOAT", 32>>, <<"OTHER", 16>>}

\* the float run: a file with a listed format, and one whose bit depth
\* keeps the previous converter
MC_FormatsKept == {<<"PCM", 16>>, <<"PCM", 8>>}
=============================================================================
