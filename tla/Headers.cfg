SPECIFICATION Spec
CONSTANT Limit = 1
INVARIANT EveryResponseSecured
