-------------------------- MODULE MCOptionsEngine --------------------------
(* Instances of OptionsEngine for TLC: a cap of one position, orders of two lots. *)
EXTENDS OptionsEngine

CONSTANTS BTC, ETH

On(us, kinds, n) == [underlyings |-> us, kinds |-> kinds, maxFailures |-> n]

(* The worlds of the passing run: two underlyings under one cap, then one  *)
(* underlying with books that fill an order in part.                       *)
Tolerated == {
  On({BTC, ETH}, {"crash", "lost"}, 1),
  On({BTC}, {"lost", "thin"}, 2),
  On({BTC}, {"external", "thin"}, 2),
  On({BTC}, {"local", "crash", "thin", "save_fail"}, 1)}

\* A partly filled exit and a restart, on paper_exchange.
CrashThin == {On({BTC}, {"crash", "thin"}, 2)}
=============================================================================
