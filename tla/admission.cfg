SPECIFICATION Spec
CONSTANTS
  default = default  team = team  system = system
  Namespaces = {default, team, system}
  Ignored = {system}
  Values = {"", "x", "300m", "default"}
  Quantities = {"300m", "default"}
  Unset = ""
  Defaults <- DefaultLimits
  Submitted <- SomeSpecs
  Absent = Absent
INVARIANTS TypeOK StoredUsable StoredIsFixed
