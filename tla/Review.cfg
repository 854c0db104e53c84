SPECIFICATION Spec
CONSTANTS
    me = me
    other = other
    l1 = l1
    Mine <- MCMine
    Others <- MCOthers
    Slots <- MCSlots
    Tabs <- MCTabs
    Take = 1
    MaxDrafts = 3
    MaxMarkets = 2
INVARIANTS
    ApprovedHasMarket
    OneMarketPerDraft
    ListFaithful
PROPERTIES
    DecisionFinal
CHECK_DEADLOCK FALSE
