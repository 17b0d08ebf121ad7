SPECIFICATION Spec
CONSTANTS
  bx = bx
  by = by
  s1 = s1
  s2 = s2
  None = None
  Buffers = {bx, by}
  Shapes = {s1, s2}
  Tensors <- MCTensors
  Temps = {t, u}
  Names = {"x", "y"}
  Content <- MCContent
  MaxReads = 3
SYMMETRY Symmetry
INVARIANTS RowNormExact
