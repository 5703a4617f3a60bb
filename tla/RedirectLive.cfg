SPECIFICATION FairSpec
CONSTANTS
    m1 = m1  m2 = m2  m3 = m3  m4 = m4
    d1 = d1  d2 = d2  l1 = l1  l2 = l2  n1 = n1  n2 = n2  i1 = i1  i2 = i2
    NoDev = NoDev
    None = None
    Devs = {d1, d2}
    Ids = {i1, i2}
    Nets = {n1}
    Marks = {m1, m2}
    Lans = {l1}
    Options <- OneOption
    IpSets <- NoIps
    Socks = {}
    MaxEvents = 2

PROPERTIES EventuallySettled FollowsPolicy
CHECK_DEADLOCK FALSE
