SPECIFICATION Spec
CONSTANTS
    Conns = {c1, c2}
    None = None
    Broken = Broken
    Versions = {v1, v2}
    Unset = unset
    HasConfig = TRUE
    ConfigSecs = 5
    DnsRecords <- MCDnsRecords
    ProxyRules <- MCProxyRules
    Foreign = {"l2"}
    Overlapping = {{"l1", "l3"}}
    MaxRules = 2
    Web = web
INVARIANTS
    TypeOK
    OneStatePerPass
PROPERTIES
    CommandsHonoured
    TargetStable
    Answered
    PassComes
    RaceHasWinner
