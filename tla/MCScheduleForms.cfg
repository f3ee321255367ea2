\* A rejected rename is corrected and sent again.
CONSTANTS
  a = a
  b = b
  c = c
  x = x
  y = y
  RowNames = {a, b, c}
  Odd = Odd
  Bodies = {x, y}
  Bad = Bad
  Garbled = Garbled
  Browsers = {b1, b2}
  NoForm = NoForm
  FirstRows <- TwoRows
  MaxSubmits = 2
SPECIFICATION FormsSpec
PROPERTY EditsItsRow
CHECK_DEADLOCK FALSE
