SPECIFICATION WorkflowSpec
CONSTANTS
    Request = {r1, r2}
    Node = {"A", "B", "C", "D", "E"}
    Edges <- ReadmeEdges
    MaxDepth = 100
    r1 = r1
    r2 = r2
INVARIANT RefusedOnlyIfFailed
CHECK_DEADLOCK FALSE
