SPECIFICATION Spec
CONSTANTS
    Keys = {1, 2}
    DeviceOf <- MCDeviceOf
    Places <- MCPlaces
    Unassigned <- MCUnassigned
    Searches <- MCSearches
    Others <- MCOthers
    MaxColumns = 3
INVARIANT DevicesInv
INVARIANT CountsAreRight
INVARIANT FloorIsCurrent
INVARIANT SceneIsSound
PROPERTY SectionsAppear
