CONSTANTS
  p1 = p1
  p2 = p2
  Proc = {p1, p2}
  DaysPerMonth = 2
  LastDay = 1
  DailyLimit = 1
  MonthlyLimit = 2
  BonusAmount = 1
  BonusMax = 1
  MaxQuestions = 3
  Ops = {"check", "ask", "straddle"}
SPECIFICATION Spec
SYMMETRY Symmetry
INVARIANTS
  ChargesAreAnswers
CHECK_DEADLOCK FALSE
