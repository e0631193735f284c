CONSTANTS
    Null = Null
    Instances <- MCInstances
    Values <- MCValues
    Stored <- MCStored
    MaxClicks = 3
    MaxReloads = 1
SPECIFICATION Spec
INVARIANT LastSelectionShown
