-------------------------- MODULE MCPositionManager -------------------------
(* The worlds of the position manager's run. *)
EXTENDS PositionManager, TLC

PassSymmetry == Permutations(Passes)
MarkLevels == -1 .. 3

World(venue, level, pct1, pct2, after, kinds) ==
  [venue |-> venue, target |-> level, tp1Pct |-> pct1, tp2Pct |-> pct2, breakevenAfter |-> after, kinds |-> kinds]

Partials == World("live", 3, 35, 30, "TP1", {"again", "reject", "short"})
Lost == World("live", None, 35, 30, "TP1", {"lost", "short"})
Halves == World("live", None, 50, 50, "TP1", {"again", "reject", "disk", "crash"})
Delays == World("live", None, 35, 0, "TP1", {"again", "delayed"})
Overlaps == World("live", None, 35, 30, "TP1", {"overlap"})
Adds == World("remote", 2, 35, 30, "TP1", {"again", "scale", "reject"})
Outages == World("remote", None, 35, 30, "TP1", {"outage", "reject"})
Late == World("remote", None, 35, 30, "TP2", {"again", "lost"})
Restarts == World("remote", None, 35, 30, "TP1", {"outage", "crash"})
All == {Partials, Lost, Halves, Delays, Overlaps, Adds, Outages, Late, Restarts}
=============================================================================
