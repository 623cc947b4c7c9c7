SPECIFICATION EngineSpec
CONSTANTS
    Keys = {"a", "b", "c"}
    Locations = {1, 2}
    Outputs <- MCOutputs
    ActiveDepth = 3
    Executions = 5
    GeneratedNodes = 10
    MaxEnqueued = 2
    InterpreterSteps = 90
    LiveValueBytes = 150
    Graphs <- MCGraphs
INVARIANTS SchedulerSound ActiveIsEnclosing OutputSound ImportsExact ExecutionSound
PROPERTIES FixedPoint WorkEnds
