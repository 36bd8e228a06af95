---------------------------- MODULE MCLiveEntry ----------------------------
(* Instances of LiveEntry for TLC: two entries, on one symbol or on two. *)
EXTENDS LiveEntry, TLC

CONSTANTS e1, e2, BTC, ETH

OneSymbol == [e \in Entries |-> BTC]
TwoSymbols == [e \in Entries |-> IF e = e1 THEN BTC ELSE ETH]

LegSymmetry == Permutations(Legs)
=============================================================================
