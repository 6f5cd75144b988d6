CONSTANTS
  a = a
  b = b
  x = x
  y = y
  User = {a, b}
  Con = con
  Idle = idle
  Char = {x, y}
  NoChar = nochar
  Cap = 2
SPECIFICATION Spec
PROPERTY InputInOrder
