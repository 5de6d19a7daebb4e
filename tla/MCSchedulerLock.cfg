CONSTANTS
    Instances = {api1, api2}
    Slots = {s1, s2}
    Conns = {c1, c2}
    MaxHeld = 3
SPECIFICATION FairSpec
INVARIANTS
    OneInstanceWhileOpen
PROPERTIES
    FreeAfterQuiet
