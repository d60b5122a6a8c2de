SPECIFICATION SetupSpec
CONSTANT
    Instances = {i1, i2}
INVARIANTS
    HalfBuiltExplained
    SearchHasCollections
