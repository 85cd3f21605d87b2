CONSTANTS
    Key = {k1, k2, k3}
    Value = {v1, v2}
    NoValue = NoValue
SPECIFICATION Spec
INVARIANT DirtyAccountsForChanges
PROPERTY ImplementsDurableMap
