SPECIFICATION Spec
CONSTANTS
    scene = scene
    texture = texture
    Resources = {scene, texture}
    Deps <- Chain
    Clients = {c1}
    Roots = {scene}
    Modes = {TRUE}
    Factories = {scene, texture}
    AsyncIO = {scene}
    AsyncSerde = {texture}
    OwnUnload = {}
    BatchSize = 9
    Fails = {}
    MaxRequests = 3
    Spins = 1
    NoRequest = NoRequest
    NoRecord = NoRecord
INVARIANTS
    IOTargetsLive
CHECK_DEADLOCK FALSE
