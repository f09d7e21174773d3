SPECIFICATION Spec
CONSTANT Limit = 2
INVARIANTS TypeOK AllowedOriginsReadErrors LookupsArePaidFor
PROPERTY FailuresKeepTheirNames
