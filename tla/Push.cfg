SPECIFICATION PushSpec
CONSTANTS
    None = None  Unknown = Unknown
    app1 = app1  app2 = app2  inst1 = inst1  rot1 = rot1  rot2 = rot2
    dev1 = dev1  req1 = req1  old = old  new = new
    App = {app1, app2}
    Instance = {inst1}
    AppOf <- MCAppOf
    Rings <- MCRings
    Rotation = {rot1, rot2}
    Device = {dev1}
    Request = {req1}
    TTL = {1}
    MaxTime = 2
    MaxVersion <- MCVersions
    MaxSecret = 2
    MaxMinted = 1
    MaxRestarts = 2
SYMMETRY Symmetry
INVARIANTS TypeOK OnlyGoodSent GoodNeverRefused ChargedWhenHandedOn
PROPERTIES RevocationsFinal
