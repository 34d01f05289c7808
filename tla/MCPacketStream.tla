--------------------------- MODULE MCPacketStream ---------------------------
(***************************************************************************)
(* PacketStream on a buffer of six bytes, with headers of two.  The        *)
(* streams have packets that fill the buffer to its end, straddle the end, *)
(* and an echo before, between and behind packets with a handler.          *)
(***************************************************************************)
EXTENDS PacketStream

Packet(kind, end) == [kind |-> kind, end |-> end]
Export == Packet("export", 3)

MCBytes == {Byte(0, {})}

\* Sizes of 3, 4, 2, 5; of 3, 2, 3, 4; and of 3, 5, 3, 2.
MCStreams ==
  {<<Export, Packet("known", 7), Packet("known", 9), Packet("known", 14)>>,
   <<Export, Packet("known", 5), Packet("echo", 8), Packet("known", 12)>>,
   <<Export, Packet("echo", 8), Packet("known", 11), Packet("echo", 13)>>}
=============================================================================
