CONSTANTS
    cpu = cpu
    mem = mem
    mem2 = mem2
    rtl = rtl
    fetch = fetch
    top = top
    Sims = {cpu, mem, mem2}
    Mods = {}
    Name <- MCName
    Shared = {mem}
    SystemC = {}
    App = App
    NoApp = NoApp
    Top = top
    Appless <- MCAppless
    PortNames = {p}
    Sizes = {1}
    None = None
    MaxCalls = 4
SPECIFICATION Spec
INVARIANT LinksJoinAdded
CHECK_DEADLOCK FALSE
