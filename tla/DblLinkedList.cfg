SPECIFICATION Spec
CONSTANTS
    List = {completions, continuations}
    Node = {n1, n2, n3, n4}
    Null = null
INVARIANT WellLinked
PROPERTY ImplementsSequences
