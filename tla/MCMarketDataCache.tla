------------------------- MODULE MCMarketDataCache -------------------------
(* MarketDataCache with two callers and a tick of 5 seconds. *)
EXTENDS MarketDataCache, TLC

CONSTANTS m1, m2

TwoCallers == {m1, m2}

Symmetry == Permutations(Callers)
=============================================================================
