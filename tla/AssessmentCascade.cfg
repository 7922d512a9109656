CONSTANTS
    Ids = {1, 5, 197}
    Norms = {0, 9, 10, 11}
    Limits = {0, 10, 254}
    MaxRaw = 1
    Shapes <- AllShapes
SPECIFICATION Spec
INVARIANTS TypeOK MostSevereLevel FindingsExplainHealth
PROPERTIES WearNeverImproves BreachIsRemembered
CHECK_DEADLOCK FALSE
