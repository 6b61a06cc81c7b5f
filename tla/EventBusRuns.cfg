SPECIFICATION BusFairSpec
CONSTANTS
    p1 = p1
    p2 = p2
    c1 = c1
    c2 = c2
    c3 = c3
    all = all
    some = some
    t1 = t1
    t2 = t2
    NoChan = NoChan
    Publishers = {p1, p2}
    SubIds = {some}
    Channels = {c1, c2}
    Types = {t1, t2}
    Wants <- Filters
    Buffer = 2
    Remotes = {1}
    MaxSeq = 3
INVARIANTS
    NoPanic
    PublisherOrder
PROPERTIES
    CausalOrder
    PublishReturns
CHECK_DEADLOCK FALSE
