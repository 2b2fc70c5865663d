--------------------------- MODULE MCControlPlane ---------------------------
(***************************************************************************)
(* Values for TLC.  Ports are 0 to 2, and 3 is none.                       *)
(***************************************************************************)
EXTENDS ControlPlane

MCDefault == [k \in Setting |-> IF k = "API_PORT" THEN 1 ELSE 2]

\* A file that names one setting, and one with a port that is none.
MCEdit == {[MAX_BUFFER_BYTES |-> 1], [LOCAL_PORT |-> 3, MAX_BUFFER_CHUNKS |-> 2]}

=============================================================================
