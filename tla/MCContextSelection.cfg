SPECIFICATION Spec
CONSTANTS
  m1 = m1
  m2 = m2
  m3 = m3
  Symbol = {1, 2, 3, 4}
  Modules <- MCModules
  ModuleOf <- MCModuleOf
  Imports <- MCImports
  Length <- MCLength
  Profiles <- MCProfiles
  Queries <- MCQueries
  Budgets <- MCBudgets
  Memories <- MCMemories
  MinScore = 1
  Weight = 2
  Slots = 2
  MaxSymbols = 3
  MaxModules = 2
  HelperWindow = 2
  PrimaryTokens = 3
  SupportTokens = 2
  Marker = 1
  Slack = 1
INVARIANTS TypeOK GuardHolds BudgetHolds RecordIsTrue
CHECK_DEADLOCK FALSE
