\* Seven pushes of three priorities, in any order with Pop and Peek: a heap of
\* three levels, with ties.
SPECIFICATION Spec
CONSTANTS
  Priorities = {0, 1, 2}
  MaxSeq = 7
  None = None
PROPERTY Stable
