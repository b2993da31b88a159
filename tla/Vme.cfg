CONSTANTS
  Cpu = {c0}
  Boot = c0
  Space = {a, b}
  Va = {v1, v2, v3}
  Frame = {f, g}
  Remaps = FALSE
  Nil = Nil
SPECIFICATION VmeSpec
INVARIANT SeesOwnSpace
PROPERTY MapsAll
