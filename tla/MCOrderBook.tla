----------------------------- MODULE MCOrderBook ----------------------------
(* The worlds of the order book's run. *)
EXTENDS OrderBook

All == {{"drop", "snapshot"}, {"lossy", "malformed"}, {"connect", "snapshot"}, {"drop", "connect", "stop"}}
=============================================================================
