SPECIFICATION FairSpec
CONSTANTS
    Macs = {1, 2}
    PoolStart = 1
    PoolEnd = 1
    StaticIps = {2}
    Names = {"a"}
    Discovered = "node"
    Dhcp = dhcp
    Conns = {c1}
    LeaseSecs = 0
    MaxFailures = 1
    MaxRestarts = 1
INVARIANTS
    TypeOK
    LeasesDistinct
    SettledScriptServed
PROPERTIES
    StickyAddress
    ScriptComes
