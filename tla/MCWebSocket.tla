------------------------------ MODULE MCWebSocket ------------------------------
EXTENDS WebSocket

Frame(op, masked, len) == [op |-> op, masked |-> masked, len |-> len]

AllFrames ==
  {Frame("request", TRUE, 126), Frame("notification", TRUE, 20), Frame("badJSON", TRUE, 0),
   Frame("mistypedJSON", TRUE, 20), Frame("ping", TRUE, 0), Frame("ping", TRUE, 5), Frame("ping", TRUE, 125),
   Frame("pong", TRUE, 0), Frame("close", TRUE, 2), Frame("request", FALSE, 126)}

(* Around the lengths at which the form of the header changes. *)
Boundaries == {0, 1, 125, 126, 127, 255, 256, 65535, 65536, 16777216}

(* The header of a frame of any of these lengths is read as it was written. *)
ASSUME HeadersRoundTrip ==
  \A n \in Boundaries, op \in DOMAIN Op :
    ParseHeader(HeaderOf([op |-> op, len |-> n])) =
      [fin |-> TRUE, op |-> Op[op], masked |-> FALSE, len |-> n]
=============================================================================
