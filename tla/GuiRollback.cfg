SPECIFICATION Spec
CONSTANTS
    p = p  q = q  eth = eth
    None = None  NoText = NoText
    Flags = {"spoof_dns"}
    Texts = {NoText, "ip"}
    ValidTexts = {"ip"}
    Patterns = {p, q}
    Attrs = {"redirect", "bypass"}
    Devs = {NoText, eth}
    MaxProcs = 1
    MaxList = 2
    Config0 <- MCConfig0
    Matches0 <- MCMatches0
    Requests <- MCRequests
    MaxQueue = 1
    Scenarios <- MCScenarios
INVARIANT RolledBack
CHECK_DEADLOCK FALSE
