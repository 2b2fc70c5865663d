---------------------------- MODULE MCRtmpParser ----------------------------
(* Messages for TLC: a channel whose messages allow every format and whose     *)
(* clock leaves its 32 bits, one channel for each longer form of the basic     *)
(* header, extended timestamps, payloads that look like headers, empty ones,   *)
(* commands and a new chunk size.                                              *)
EXTENDS RtmpParser

M(cid, type, clock, payload) ==
  [cid |-> cid, type |-> type, stream_id |-> 1, clock |-> clock, payload |-> payload]

MCLongMessages ==
  { M(5, VIDEO, 1, <<1, 0, 3>>),
    M(5, VIDEO, 2, <<1, 2, 3>>),
    M(5, VIDEO, MaxClock + 1, <<17, 0, 9, 1>>),
    M(3, COMMAND, TimestampMark + 1, <<3, 3, 3, 3>>),
    M(Direct + 1, SET_PACKET_SIZE, 0, WriteUInt32BE(2)) }

MCMessages ==
  MCLongMessages \cup
  { M(3, COMMAND, 0, <<3>>),
    M(Direct + B, AUDIO, 3, <<>>),
    M(Direct + B, AUDIO, TimestampMark, <<>>),
    M(3, VIDEO, TimestampMark + 1, <<18, 1, 2, 3, 4>>) }

\* A command of which decodeAmf0Cmd knows no fields, and the name of a codec as it
\* follows the first byte of a video message of the new kind.
MCUnreadableCommands == { <<3>> }
MCFourCCs == { <<1, 2, 3, 4>> }

=============================================================================
