CONSTANTS
    p1 = p1
    p2 = p2
    p3 = p3
    Collectors = {p1, p2, p3}
    Arity <- MCArity

SPECIFICATION Spec

INVARIANTS
    OneExecution
    GreenMeansPass
