SPECIFICATION Spec
CONSTANTS
    Engine = {h3, ltx}
    Scripted = {h3}
    Client = {panel, studio}
    Pid = {p1, p2}
    NoEngine = NoEngine
    NoOwner = NoOwner
    NoPid = NoPid
SYMMETRY Symmetry
INVARIANTS
    OneEngine
    QwenIsRemembered
PROPERTIES
    OwnersKeepTheirs
