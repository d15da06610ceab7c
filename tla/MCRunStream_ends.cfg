CONSTANTS
  ingest_input_agent = ingest_input_agent
  supervisor_agent = supervisor_agent
  market_data_agent = market_data_agent
  neighborhood_vibe_agent = neighborhood_vibe_agent
  zoning_law_agent = zoning_law_agent
  financial_modeler_agent = financial_modeler_agent
  c1 = c1
  NoNode = NoNode
  Intake = ingest_input_agent
  Nodes <- Graph
  Step <- GraphStep
  Clients <- OneClient
  PollAttempts = 2
  CommitWithinPollBudget = TRUE
  FaultPoints <- NoFaults
  MaxRuns = 1
  MaxLogs = 0
CHECK_DEADLOCK FALSE
SPECIFICATION FairSpec
PROPERTY EveryStreamEnds
