SPECIFICATION ApiSpec
CONSTANTS
    Sockets = {s1, s2}
    Publishers = {t1, t2}
    Replay = 1
    MaxHistory = 1
    Ports = {p1, p2}
    Boards = {b1, b2}
    Firmware = {b1}
    Nothing = Nothing
    IdOf <- MCIdOf
    MadeUp <- MCMadeUp
    MaxEvents = 3
    Budgets <- MCBudgets
INVARIANTS ApiTypeOK RecentReachesAll
PROPERTIES EventsArrive ShownComesTrue
