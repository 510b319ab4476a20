SPECIFICATION DSpec
CONSTANTS
    Errors <- MCErrors
    Sessions <- MCSessions
    Arguments <- MCArguments
    Tasks <- MCTasks
    Runtimes <- MCRuntimes
    Surroundings <- MCSurroundings
    Models <- MCModels
    Sources <- MCSources
    Shares <- MCShares
    Reserves <- MCReserves
    Windows <- MCWindows
    Summarizers <- MCSummarizers
    Sizes <- MCSizes
INVARIANTS DiagnosisSound  WindowFits TriggerSound
CHECK_DEADLOCK FALSE
