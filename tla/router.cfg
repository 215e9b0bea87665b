SPECIFICATION FairSpec
CONSTANTS
  None = None
  eu = eu  fr = fr  local = local  personal = personal
  Model = {eu, fr, local}  Class = {personal}
  Registered <- MCRegistered  Input <- MCInput  Does <- MCDoes  Price <- MCPrice
  Call = {r1, r2}
  MaxAttempts = 2  LimitEur = 1  MaxCalls = 2
INVARIANTS OnlyAllowedAsked BudgetBounded
PROPERTIES CallsReturn
