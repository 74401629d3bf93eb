SPECIFICATION Spec
CONSTANTS
    scene = scene
    texture = texture
    Resources = {scene, texture}
    Deps <- Chain
    Clients = {c1}
    Roots = {scene, texture}
    Modes = {TRUE}
    Factories = {scene, texture}
    AsyncIO = {scene}
    AsyncSerde = {texture}
    OwnUnload = {scene}
    BatchSize = 9
    Fails = {"open","serde","install"}
    MaxRequests = 4
    Spins = 1
    NoRequest = NoRequest
    NoRecord = NoRecord
INVARIANTS
    TypeOK
    HeldRecordsLive
    RequestsAgree
    DependenciesInstalled
    
    BuffersLive
CHECK_DEADLOCK FALSE
