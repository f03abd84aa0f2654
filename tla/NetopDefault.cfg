SPECIFICATION NetopSpec
CONSTANTS
    Conns = {c1}
    None = None
    Broken = Broken
    Versions = {v1}
    Unset = unset
    HasConfig = FALSE
    ConfigSecs = 5
PROPERTY PassComes
