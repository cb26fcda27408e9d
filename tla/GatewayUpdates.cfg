\* Three updates of an existing row, resent through two calls.
SPECIFICATION Spec
CONSTANTS
  Ops = {a, b, c}
  Handlers = {h1, h2}
  Kinds = {"update"}
  MaxVersion = 4
  MaxGeneration = 2
  None = None
\* With every operation answered nothing need happen.
CHECK_DEADLOCK FALSE
PROPERTIES
UpdatesAreLinear
