CONSTANT MaxDepth = 6
SPECIFICATION Spec
INVARIANTS
    TypeOK
    AcceptedIsBalanced
    StackIsDescent
