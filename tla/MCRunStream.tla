----------------------------- MODULE MCRunStream -----------------------------
(* RunStream on the graph of graph.py, and on one small enough for two runs. *)
EXTENDS RunStream

CONSTANTS
  ingest_input_agent, supervisor_agent, market_data_agent, neighborhood_vibe_agent,
  zoning_law_agent, financial_modeler_agent, c1

\* NODE_REGISTRY, and the supersteps its edges lead to.
Graph ==
  {ingest_input_agent, supervisor_agent, market_data_agent, neighborhood_vibe_agent,
   zoning_law_agent, financial_modeler_agent}
GraphStep ==
  [n \in Graph |->
     CASE n = ingest_input_agent      -> 1
       [] n = supervisor_agent        -> 2
       [] n = financial_modeler_agent -> 4
       [] OTHER                       -> 3]

\* Two supersteps, for runs of a job that follow one another.
Chain     == {ingest_input_agent, market_data_agent}
ChainStep == [n \in Chain |-> IF n = ingest_input_agent THEN 1 ELSE 2]

OneClient == {c1}

NoFaults == {}
AnyFault == Faults
==============================================================================
