SPECIFICATION Spec
CONSTANTS
    Agents = {"lead", "task", "human"}
    NodeIds = {"lead", "boss", "a", "b"}
    AgentType <- MCAgentType
    Payloads <- MCPayloads
    MaxDeletions = 1
INVARIANTS
    
    DecisionTellsTheWorst
PROPERTY ExecutionEnds
CHECK_DEADLOCK FALSE
