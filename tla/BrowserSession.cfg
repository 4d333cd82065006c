SPECIFICATION FairSpec
CONSTANTS
    t1 = t1
    t2 = t2
    None = None
    Clients = {t1}
    Tabs <- MCTabs
    Deployments <- MCDeployments
    Grants <- MCGrants
    FirstGrants <- MCFirstGrants
    SessionTtl = 2
    TransactionTtl = 1
    TokenLife = 2
    Skew = 1
    MaxTime = 2
    MaxChanges = 1
INVARIANTS SomeTabGetsIn
PROPERTIES RolesAreFresh OpenSettles
CHECK_DEADLOCK FALSE
