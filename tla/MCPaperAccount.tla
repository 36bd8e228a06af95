--------------------------- MODULE MCPaperAccount ---------------------------
(* The worlds of the paper account's run. *)
EXTENDS PaperAccount

CONSTANTS btc, eth
Coins == {btc, eth}
MarkPrices == {4, 8, 12}

World(coins, prices, qtys, dirs, orders, kinds) ==
  [symbols |-> coins, prices |-> prices, qtys |-> qtys, dirs |-> dirs, fills |-> orders, kinds |-> kinds]

Accounting == World({btc}, {4, 8, 12}, {1, 2}, {1, -1}, 3, {"clock"})
Exits == World({btc}, {4, 8, 12}, {2}, {1, -1}, 2, {"levels"})
Pair == World({btc, eth}, {8, 12}, {1}, {1, -1}, 3, {})
Crashes == World({btc}, {8, 12}, {1}, {1}, 2, {"clock", "file", "crash", "disk"})
Shutdowns == World({btc}, {8, 12}, {1}, {1}, 2, {"clock", "file", "shut", "norate"})
Resets == World({btc}, {8, 12}, {1}, {1}, 2, {"file", "reset", "crash"})
Moves == World({btc, eth}, {8}, {1}, {1}, 2, {"file", "move", "crash", "reject", "outage"})
All == {Accounting, Exits, Pair, Crashes, Shutdowns, Resets, Moves}
=============================================================================
