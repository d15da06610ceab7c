--------------------------- MODULE MCResearchRun ---------------------------
(* ResearchRun with as many calls side by side as it takes to trip the       *)
(* breaker, agents that may have two rounds of tools, the second one too     *)
(* late for another turn, and a neighborhood agent that may be mocked.       *)
EXTENDS ResearchRun

CONSTANTS b1, b2, b3

OneCaller     == {b1}
ThreeCallers == {b1, b2, b3}
OneMock      == {Vibe}
NoMock       == {}
=============================================================================
