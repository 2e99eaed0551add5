CONSTANTS
  n_ = 3
  Keys <- MCKeys
SPECIFICATION Spec
INVARIANT ChildrenPositioned
 
