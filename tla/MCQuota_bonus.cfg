CONSTANTS
  p1 = p1
  Proc = {p1}
  DaysPerMonth = 1
  LastDay = 0
  DailyLimit = 1
  MonthlyLimit = 4
  BonusAmount = 2
  BonusMax = 1
  MaxQuestions = 4
  Ops = {"check", "ask", "bonus"}
SPECIFICATION Spec
SYMMETRY Symmetry
PROPERTIES
  RefusedWithoutBonus
CHECK_DEADLOCK FALSE
