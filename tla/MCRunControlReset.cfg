CONSTANT MaxLoop = 1
SPECIFICATION Spec
INVARIANT ResetOnlyWhenPaused
