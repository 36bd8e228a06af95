--------------------------- MODULE MCRemoteBroker ---------------------------
(* Instances of RemoteBroker for TLC. *)
EXTENDS RemoteBroker

World(q, o, x, e, sides, k) ==
  [qty |-> q, opens |-> o, exits |-> x, episodes |-> e, sides |-> sides, kinds |-> k]

Crashes  == World(2, 2, 3, 3, Sides, {"crash"})
Lost     == World(2, 2, 2, 3, Sides, {"liquidate", "lost"})
Faults   == World(1, 1, 1, 1, Sides, {"lost", "outage", "late", "async", "outsider", "ttl"})
Longs    == World(2, 2, 3, 2, {"LONG"}, {"lost", "crash"})
Outages  == World(2, 2, 2, 2, Sides, {"crash", "outage", "ttl"})
All == {Crashes, Lost, Faults, Longs, Outages}
LiveWorlds == {World(2, 1, 1, 1, Sides, {"lost", "crash"})}
FlipWorlds == {World(2, 2, 0, 2, Sides, {"outage"})}
StaleOpenWorlds == {World(2, 2, 2, 2, Sides, {"liquidate"})}
=============================================================================
