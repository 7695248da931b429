----------------------------- MODULE PlaybackMC -----------------------------
(***************************************************************************)
(* Playback for TLC: what the source of each kind of media answers.        *)
(***************************************************************************)
EXTENDS Playback

AnySource == [m \in Media |-> {"packet", "end", "error", "again"}]

=============================================================================
