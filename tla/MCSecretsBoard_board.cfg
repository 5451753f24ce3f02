CONSTANTS
    n1 = n1
    n2 = n2
    dev = dev
    prod = prod
    None = None
    Envs = {dev, prod}
    Names = {n1, n2}
    Place <- Alphabetical
    Old <- OldInDev
    Made <- MadeInDev
    MaxWrites = 3
    MaxVersion = 1
    Kinds = {"sheet", "edit", "delete"}
    Actions = {"create", "import", "save", "delete", "rollback"}
SPECIFICATION Spec
INVARIANTS TypeOK ValuesOfTheirSecret OwnWritesShow SavesWhatTheFormShowed DeletesWhatWasTyped
CHECK_DEADLOCK FALSE
