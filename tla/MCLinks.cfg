SPECIFICATION MCSpec
CONSTANTS
    Entry <- MCEntry
    MaxTries = 3
    Jump = {j1}
    Ssh = {s1, s2}
    Client = {c1, c2}
    Link = {l1, l2}
CHECK_DEADLOCK FALSE
INVARIANTS
    ParsedAlone
    ReadyOnce
    FilesFaithful
PROPERTIES
    TunnelFollows
    ForwardRecovers
