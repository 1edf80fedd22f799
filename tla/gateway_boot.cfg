\* Decorators stay in the context of the plugin that adds them; nothing fails.
SPECIFICATION Spec
CONSTANTS
  Requests = {r1}
  Tasks = {t1}
  Faults = FALSE
  Reach <- Encapsulated
INVARIANTS
  BootsUnlessSomethingFails
CHECK_DEADLOCK FALSE
