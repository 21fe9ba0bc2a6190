SPECIFICATION Spec
CONSTANTS
    f1 = f1
    f2 = f2
    f3 = f3
    s1 = s1
    s2 = s2
    None = None
    Flows = {f1, f2, f3}
    Subflows = {s1, s2}
    Refs <- MCRefs
    EditorDuring = FALSE
    MaxDeploys = 2
    MaxFaults = 2
    MaxEdits = 1
CHECK_DEADLOCK FALSE
INVARIANTS
    RefsResolve
    SubflowOnce
    CleanDeployWorks
