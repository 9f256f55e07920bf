\* Every step may fail, twice in all, over four launches (the model's bound; the code relaunches without end).
CONSTANTS
    MaxFaults = 2
    MaxAttempts = 4
    FaultSteps <- Steps
    RequirementsFiles <- MCRequirementsFiles
    V0_1_1 <- MCV0_1_1
SPECIFICATION Spec
INVARIANT ValidMeansInstalled
INVARIANT InstalledWhenInitSucceeds
\* A state where the plugin runs has no successor, and neither has one at
\* the MaxAttempts bound on the launches explored.
CHECK_DEADLOCK FALSE
