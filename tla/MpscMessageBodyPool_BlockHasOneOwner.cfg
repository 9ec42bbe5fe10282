SPECIFICATION BodySpec
CONSTANTS
    Producers = {p1, p2}
    Blocks = {b1, b2, b3}
    BlockSizes = {1}
    MessageSizes = {1}
    NullBlock = NullBlock
INVARIANT BlockHasOneOwner
CHECK_DEADLOCK FALSE
