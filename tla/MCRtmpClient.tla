----------------------------- MODULE MCRtmpClient -----------------------------
(***************************************************************************)
(* RtmpClient on small instances.                                          *)
(***************************************************************************)
EXTENDS RtmpClient

\* What OBS has to send to publish a stream.
MCShortScript == <<"connect", "createStream", "publish">>
=============================================================================
