SPECIFICATION HashSpec
CONSTANT MaxLength = 26
INVARIANT EveryElementHashed
