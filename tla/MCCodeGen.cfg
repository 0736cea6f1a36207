CONSTANTS
    cpu = cpu
    mem = mem
    mem2 = mem2
    rtl = rtl
    fetch = fetch
    top = top
    Sims = {cpu, mem, rtl}
    Mods = {fetch}
    Name <- MCName
    Shared = {mem}
    SystemC = {rtl}
    App = App
    NoApp = NoApp
    Top = top
    Appless <- MCAppless
    PortNames = {p}
    Sizes = {1, 2}
    None = None
    MaxCalls = 6
SPECIFICATION Spec
INVARIANTS TypeOK FilesFitTogether ProjectIsCurrent OneLinkEach LinksJoinAdded
CHECK_DEADLOCK FALSE
