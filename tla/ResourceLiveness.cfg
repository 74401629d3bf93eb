SPECIFICATION FairSpec
CONSTANTS
    scene = scene
    texture = texture
    Resources = {scene, texture}
    Deps <- Chain
    Clients = {c1}
    Roots = {scene}
    Modes = {TRUE, FALSE}
    Factories = {scene, texture}
    AsyncIO = {texture}
    AsyncSerde = {scene}
    OwnUnload = {}
    BatchSize = 1
    Fails = {"serde"}
    MaxRequests = 3
    Spins = 1
    NoRequest = NoRequest
    NoRecord = NoRecord
INVARIANTS
    RequestsHaveRecords
PROPERTIES
    LoadsEnd
    UnloadsEnd
CHECK_DEADLOCK FALSE
