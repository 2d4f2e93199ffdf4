SPECIFICATION WorkspaceSpec
CONSTANTS
    Default = Default
    Project = Project
    EndPoints <- MCEndPoints
    Asked <- MCAsked
    WireIds = {w1, w2, w3}
    Threads = {t1, t2}
    Directions = {"dest_to_source"}
    Statuses = {"active", "disabled"}
    GroundNames = {}
    TxNames = {"TX"}
    RxNames = {"RX"}
    Boards = {b1, b2}
    Ports = {p1}
    NoPort = NoPort
    NodeIds = {w1, w2, w3}
    EdgeIds = {t1, t2}
    Components = {"five", "three"}
    Clashing <- MCClashing
    HistoryLimit = 2
    Budgets <- MCBudgets
SYMMETRY Symmetric
INVARIANTS WorkspaceTypeOK GraphIsTheWires DefaultWiresAreStored DecisionsAreStored NoLinkLeftBehind
    SoundWiresEndAtParts SessionIsWhatWasDone
PROPERTIES SignalsFollowWires
CHECK_DEADLOCK FALSE
