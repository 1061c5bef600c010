SPECIFICATION Spec
CONSTANTS
    Fields <- MCFields
    Streams <- MCStreams
    Fails <- MCFails
CHECK_DEADLOCK FALSE
INVARIANTS
    BodiesOwned
    OpenedMeansWhole
    ReadInOrder
    DecodedRight
