SPECIFICATION Spec
CONSTANTS
  Symbol = {s1, s2}
  Text = {t, u}
  Asked <- MCAsked
  MaxSize = 2
INVARIANTS TypeOK SuppressionEarned
PROPERTY ImplementsMemory
