CONSTANTS
  p1 = p1
  p2 = p2
  p3 = p3
  Proc = {p1, p2, p3}
  DaysPerMonth = 2
  LastDay = 2
  DailyLimit = 1
  MonthlyLimit = 2
  BonusAmount = 2
  BonusMax = 1
  MaxQuestions = 3
  Ops = {"check", "ask", "bonus"}
SPECIFICATION Spec
SYMMETRY Symmetry
INVARIANTS
  ChargesAreAnswers
  NeverOverdrawn
  BonusIsConserved
CHECK_DEADLOCK FALSE
