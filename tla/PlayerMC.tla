------------------------------ MODULE PlayerMC ------------------------------
(***************************************************************************)
(* Player for TLC: what the source of each kind of media answers, and the  *)
(* calls the application makes.                                            *)
(***************************************************************************)
EXTENDS Player

FiniteSource == [m \in Media |-> {"packet", "end"}]

Always(calls_made) == [m \in {"null", "open"} \union Media |-> calls_made]
ReleaseCalls == Always({"seek", "stop", "prepare", "release"})

\* Safety: a video whose source answers anything is started, paused and stopped; an
\* empty audio stream is also sought, so that three calls remain feasible.
SafeSource == [video |-> {"packet", "end", "error", "again"}, audio |-> {"end"}]
SafeCalls  == [Always({"start", "pause", "seek", "stop"})
                 EXCEPT !["video"] = {"start", "pause", "stop"}]

\* Liveness: a video with packets is started and paused; an empty audio stream
\* is also sought, so that seeks cross completion and each other, not packets.
LiveSource == [video |-> {"packet", "end"}, audio |-> {"end"}]
LiveCalls  == [Always({"start", "pause"}) EXCEPT !["audio"] = {"start", "pause", "seek"}]

=============================================================================
