---------------------------- MODULE MCConnections ----------------------------
(***************************************************************************)
(* Connections on small instances.                                         *)
(***************************************************************************)
EXTENDS Connections

\* Sound, then a key frame, with which the window begins.
MCPackets == <<[codec |-> "AUDIO", flags |-> "AUDIO_FRAME"],
               [codec |-> "VIDEO", flags |-> "KEY_FRAME"]>>
=============================================================================
