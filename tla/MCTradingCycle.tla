--------------------------- MODULE MCTradingCycle ---------------------------
(* Instances of TradingCycle for TLC. *)
EXTENDS TradingCycle

CONSTANTS BTC, ETH, SOL

World(symbols, kinds) == [symbols |-> symbols, kinds |-> kinds]

Halts     == World({BTC, ETH}, {"halt", "crash"})
Caps      == World({BTC, ETH, SOL}, {})
Circuits  == World({BTC, ETH}, {"circuit"})
Drawdowns == World({BTC}, {"equity", "flatten", "halt"})
Faults    == World({BTC}, {"calls", "lost", "crash", "loss"})
Unsaved   == World({BTC}, {"halt", "disk", "crash"})
Breach    == World({BTC}, {"equity", "flatten"})
Exposed   == World({BTC}, {"loss", "crash", "calls"})
Stumbles  == World({BTC, ETH}, {"calls", "crash"})
Uncancelled == World({BTC}, {"calls", "halt"})
All == {Halts, Caps, Circuits, Drawdowns, Faults, Unsaved, Stumbles, Uncancelled}
Living == {Breach, Exposed}
=============================================================================
