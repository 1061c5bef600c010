CONSTANTS
    Radix = 32
    MaxLevels = 8
    PageSize = 16
    Plans <- MCPlans
    Damages <- MCDamages
SPECIFICATION Spec
CHECK_DEADLOCK FALSE
INVARIANTS
    BuildFaithful
    DamageContained
    SortedAndFound
    SchemaDecoded
