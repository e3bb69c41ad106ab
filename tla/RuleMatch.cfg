\* Up to three rules compete; amounts reach below, onto and beyond every bound.
SPECIFICATION Spec
CONSTANTS
    cA = cA
    cB = cB
    a = a
    A = A
    b = b
    Blank = Blank
    AllKey = AllKey
    Null = Null
    Companies = {cA, cB}
    Chars = {a, A, b, Blank}
    Lower <- MCLower
    FileRules <- MCFileRules
    Transactions <- MCTransactions
    MaxRules = 3
INVARIANTS
    TypeOK
    ClassifiedIffRuleApplies
    BestPriorityWins
    OrderMattersOnlyInTies
    AdminAgreesWithOwner
    MatchIsExplained
