SPECIFICATION Spec
CONSTANTS
    Tasks = {t1}
    Fds = {f1}
    Pollers = {p1}
    None = None
    Kinds = {"dial"}
    MaxTrouble = 1
    Gens = 2
PROPERTIES DialMeansConnected
CHECK_DEADLOCK FALSE
