\* Every step may fail once, over four launches (the model's bound; the code relaunches without end).
CONSTANTS
    MaxFaults = 1
    MaxAttempts = 4
    FaultSteps <- Steps
    RequirementsFiles <- MCRequirementsFiles
    V0_1_1 <- MCV0_1_1
SPECIFICATION Spec
PROPERTY
    EnvironmentEventuallyReady
\* A state where the plugin runs has no successor, and neither has one at
\* the MaxAttempts bound on the launches explored.
CHECK_DEADLOCK FALSE
