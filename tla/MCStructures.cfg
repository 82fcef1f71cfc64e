SPECIFICATION StructuresSpec
CONSTANTS
    a = a
    b = b
    Junk = Junk
    Values <- MCValues
    InitialSizes <- MCInitialSizes
    MaxSize = 6
    Images = {"image"}
    Streams = {"stream"}
    Variants = {1, 2}
    Sizes = {0, 1, 2, 4}
    MaxCacheSize = 3
    Items = {"i", "j", "k", "l"}
    Empty = "empty"
    Kinds <- MCKinds
    AttributeValues <- MCAttributeValues
    Texts <- MCTexts
    Characters <- MCCharacters
    Formats <- MCFormats
    VisibleRows = 2
    Version = 7
    MaxText = 3
    Clips = {"m", "n"}
    Stage = "stage"
    Width = 2
    FirstShape = {0}
    Shapes = {{0}, {1}}
    Places = {0, 1}
    Depths = {0, 1}
    Nothing = "nothing"
    MaxChanges = 3
INVARIANTS
    CacheAgrees
    BufferHolds
    CachesAgree
    NoArtifacts
PROPERTIES
    ImplementsFifo
    ImplementsStyledText
