----------------------------- MODULE MCLiveBook -----------------------------
(* The worlds of the live book's runs. *)
EXTENDS LiveBook

Long == {1}
World(sides, kinds, n) == [sides |-> sides, kinds |-> kinds, faults |-> n, ticks |-> 2]
Finer(w) == [w EXCEPT !.ticks = 3]

Refusals == Finer(World(Long, {"scale", "partial", "reject"}, 3))
Targets == World(Long, {"scale", "target", "reject"}, 1)
Turns == World(Sides, {"reject", "crash"}, 2)
Losses == World(Long, {"lost", "partial"}, 2)
Restarts == World(Long, {"scale", "disk", "crash"}, 2)
All == {Refusals, Targets, Turns, Losses, Restarts}

Flips == {World(Sides, {}, 0)}

Living == {World(Long, {"reject"}, 3), World(Long, {"lost", "crash"}, 1)}
=============================================================================
