SPECIFICATION Spec
CONSTANTS
    Thread = {t1, t2, t3}
    Request = {q1, q2, q3}
    NHooks = 2
    HooksAbort = TRUE
    Inputs = {"env", "nothing"}
    StartupError = TRUE
    App = App
    Null = Null
    Response = Response
SYMMETRY Symmetry
INVARIANTS
    TypeOK
    OwnAnswer
    OneThreadGuardsViews
    StartupErrorStays
    Released
    ErrorsUsedWell
