SPECIFICATION Spec
CONSTANTS
    Sources <- MCSources
    Main <- MCMain
    Variables = {"x", "y"}
INVARIANT TextExact
INVARIANT SyntaxChecked
INVARIANT DependenciesComplete
CHECK_DEADLOCK FALSE
