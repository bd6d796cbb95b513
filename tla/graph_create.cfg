SPECIFICATION Spec
CONSTANTS
    Clients = {c1, c2}
    Ops = {"create", "add", "remove"}
    MaxTasks = 3
    MaxLinks = 2
SYMMETRY Symmetry
INVARIANTS NumbersAreSequential TechTreeIsDag
PROPERTIES CreateIsAtomic
