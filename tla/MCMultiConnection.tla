-------------------------- MODULE MCMultiConnection --------------------------
(***************************************************************************)
(* MultiConnection on small instances.                                     *)
(***************************************************************************)
EXTENDS MultiConnection

\* With a command that RtmpClient does not know, sent as it is.
MCScript == <<"connect", "FCPublish", "createStream", "publish", "deleteStream">>
=============================================================================
