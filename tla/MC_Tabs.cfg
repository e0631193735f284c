CONSTANTS
    Null = Null
    Instances <- MCInstances
    Values <- MCValues
    Stored <- MCStored
    MaxClicks = 6
    MaxReloads = 3
SPECIFICATION Spec
INVARIANT SelectedIsOffered
PROPERTY GroupConverges
