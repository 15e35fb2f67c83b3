SPECIFICATION LaunchSpec
CONSTANTS
    Guis = {g1, g2}
    Services = {s1, s2}
    Procs = {g1, g2, s1, s2}
    Files = {f1}
    NoFile = nofile
    NoProc = noproc
    RemoveOpen = FALSE
INVARIANTS
    OneDatabase
    UrlIsLive
CHECK_DEADLOCK FALSE
