SPECIFICATION FairSpec
CONSTANTS
    MaxRenders = 4
    Sizes = {"s1"}
    Intrinsic = "intrinsic"
    None = None
INVARIANTS SupersededNotSent RenderingIsReal
PROPERTIES LastNeverGoesBack RenderingEnds CurrentSettles
CHECK_DEADLOCK FALSE
