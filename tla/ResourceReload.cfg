SPECIFICATION FairSpec
CONSTANTS
    scene = scene
    texture = texture
    Resources = {scene, texture}
    Deps <- Chain
    Clients = {c1}
    Roots = {scene}
    Modes = {TRUE}
    Factories = {scene, texture}
    AsyncIO = {scene}
    AsyncSerde = {}
    OwnUnload = {}
    BatchSize = 1
    Fails = {}
    MaxRequests = 3
    Spins = 1
    NoRequest = NoRequest
    NoRecord = NoRecord
PROPERTIES
    LoadsEnd
CHECK_DEADLOCK FALSE
