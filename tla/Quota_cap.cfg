SPECIFICATION PlanSpec
CONSTANTS
  Callers = {c1, c2}
  MaxPersons = 4
PROPERTY PublicationIsCapped
CHECK_DEADLOCK FALSE
