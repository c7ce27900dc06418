SPECIFICATION Spec
CONSTANTS
    t1 = t1
    t2 = t2
    in = in
    both = both
    out = out
    t3 = t3
    more = more
    l1 = l1
    l2 = l2
    l3 = l3
    c1 = c1
    Tasks = {t1, t2, t3}
    Files = {in, both, out, more}
    Locations = {l1, l2, l3}
    Inputs <- MCInputs
    Outputs <- MCOutputs
    FileLocations <- MCFileLocations
    Staged <- MCStaged
    Copiers = {c1}
    CopyOf <- MCCopyOf
    MaxRetries = 1
    MaxKills = 1
INVARIANTS
    StampsArePaired
    OneOutcome
CHECK_DEADLOCK FALSE
