SPECIFICATION GateSpec
CONSTANTS
    None = None
    app1 = app1  inst1 = inst1  push1 = push1  push2 = push2
    App = {app1}
    Instance = {inst1}
    AppOf <- MCAppOf
    Push = {push1, push2}
    Limits <- Changing
    Token = 4
    IdleFor = 2
    MaxStall = 1
    MaxTime = 3
    MaxPushes = 3
SYMMETRY Symmetry
INVARIANTS TypeOK AdmittedBound OnlyAdmittedSpend
PROPERTIES EvictedWhenFull
CHECK_DEADLOCK FALSE
