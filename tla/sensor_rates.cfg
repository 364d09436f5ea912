SPECIFICATION MCSpec
CONSTANTS
  Sources = {a, b}
  RuleIds = {r1, r2}
  RuleForms <- MCForms
  None = None
  Tasks = {w1, w2, w3}
  NumWorkers = 1
  MaxDepth = 2
  Budgets <- MCBudgets
INVARIANTS RatesApart
CHECK_DEADLOCK FALSE
