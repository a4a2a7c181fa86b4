SPECIFICATION Spec
CONSTANTS
    Tasks = {t1, t2}
    Fds = {f1}
    Pollers = {p1, p2}
    None = None
    Kinds = {"recv", "send", "dial"}
    MaxTrouble = 1
    Gens = 2
SYMMETRY Sym
INVARIANTS OnePlace WaiterIsArmed  ShutdownFindsWaiters
CHECK_DEADLOCK FALSE
