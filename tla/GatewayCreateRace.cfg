\* Two creates of one record.
SPECIFICATION Spec
CONSTANTS
  Ops = {a, b}
  Handlers = {h1, h2}
  Kinds = {"create"}
  MaxVersion = 3
  MaxGeneration = 1
  None = None
\* With every operation answered nothing need happen.
CHECK_DEADLOCK FALSE
PROPERTIES UnversionedOnlyCreates
