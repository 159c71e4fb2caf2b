CONSTANTS
    a = a b = b t = t c = c q = q r1 = r1 r2 = r2 r3 = r3
    Owner = {a, b}
    Thread = {t, c}
    Request = {r1, r2, r3}
    By <- MCBy
    Purpose <- MCPurpose
    About <- MCAbout
    Parent <- MCParent
    Ask = {q}
    AskThread <- MCAskThread
    Plans <- MCPlans
    NoOwner = NoOwner
    NoThread = NoThread
SPECIFICATION FairSpec
INVARIANTS TablesAgree RootOrder OneAnswer
PROPERTIES Settles
CHECK_DEADLOCK FALSE
