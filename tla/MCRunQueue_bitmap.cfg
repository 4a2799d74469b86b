SPECIFICATION Spec
CONSTANT
    InUse <- MixedPriorities
INVARIANTS
    BitsAgreeWithList
    SearchFindsHighest
PROPERTY
    ImplementsReadySet
