--------------------------- MODULE MCStreamBuffer ---------------------------
(***************************************************************************)
(* StreamBuffer on small instances.                                        *)
(***************************************************************************)
EXTENDS StreamBuffer

\* Audio, and the first and a later chunk of a key frame, which differ by
\* what came before them.  A VIDEO_FRAME is handled as audio is.
MCPackets == {[codec |-> "VIDEO", flags |-> "KEY_FRAME", len |-> 3],
              [codec |-> "AUDIO", flags |-> "AUDIO_FRAME", len |-> 1]}
=============================================================================
