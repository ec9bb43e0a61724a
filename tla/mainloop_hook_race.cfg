SPECIFICATION Spec
CONSTANTS
    Thread = {t1, t2}
    Request = {q1, q2}
    NHooks = 1
    HooksAbort = TRUE
    Inputs = {"env"}
    StartupError = FALSE
    App = App
    Null = Null
    Response = Response
SYMMETRY Symmetry
INVARIANTS
    HooksGuardViews
