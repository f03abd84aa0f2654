SPECIFICATION Spec
CONSTANTS
    Macs = {1, 2}
    PoolStart = 1
    PoolEnd = 2
    StaticIps = {3}
    Names = {"a"}
    Discovered = "node"
    Dhcp = dhcp
    Conns = {c1}
    LeaseSecs = 0
    MaxFailures = 0
    MaxRestarts = 0
INVARIANT SettledScriptIsEntrys
