SPECIFICATION Spec
CONSTANTS
    poller = poller
    poller2 = poller2
    visitor = visitor
    alice = alice
    Pollers = {poller}
    Visitors = {}
    Members = {alice}
    EpochLength = 2
    Offset = 1
    PocLead = 1
    MaxHeight = 4
    NetworkFails = FALSE
    AskedHeights = {}
INVARIANTS
    FinishedAtCanonicalHeight
