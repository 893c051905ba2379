SPECIFICATION FairSpec
CONSTANTS
    gold = gold
    silver = silver
    plain = plain
    plus = plus
    vip = vip
    pro = pro
    q1 = q1
    m1 = m1
    n1 = n1
    n2 = n2
    None = None
    Base = plain
    Purchases = 2
    Plans <- MCPlans
    PlanOf <- MCPlanOf
    Upgrade <- MCUpgrade
    Downgrade <- MCDowngrade
    Limit <- MCLimit
    Editable <- MCEdit
    Granted = {2}
    Managed = {2}
    Total = 3
    Duration = 2
    Period = 1
    Requests <- MCRequests
    Amounts <- MCAmounts
    Actuals <- MCActuals
    Masters <- MCMasters
    Nodes <- MCNodes
    Snapshot = TRUE
    Batch = 3
    MaxTime = 3
    MaxUpsets = 1
INVARIANTS TypeOK CreditedOnce NeverOvercharged 
PROPERTIES OncePerPeriod OverIsEnded
CHECK_DEADLOCK FALSE
