\* The replacements of the second phase against the comments that describe them.
SPECIFICATION Spec
CONSTANTS
    Sizes = {1, 2, 3}
    Rates = {0, 1, 2, 3, 5}
    Targets = {0, 1, 3, 4, 7, 12}
    Trials = 1
PROPERTIES
    LocalImprovement
CHECK_DEADLOCK FALSE
