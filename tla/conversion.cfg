SPECIFICATION Spec
CONSTANTS
  Namespaces = {"", "default", "team"}
  Values = {"", "1", "2"}
  Quantities = {"1", "2"}
  Unset = ""
  NoName = ""
  Names = {"rl"}
  Reviews <- SomeReviews
INVARIANTS TypeOK AllOrNothing 
CHECK_DEADLOCK FALSE
