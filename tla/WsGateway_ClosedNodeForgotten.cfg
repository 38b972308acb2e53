SPECIFICATION Spec
CONSTANT
  Sockets = {w1, w2}
CHECK_DEADLOCK FALSE
INVARIANT ClosedNodeForgotten
