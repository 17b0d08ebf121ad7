SPECIFICATION Spec
CONSTANTS
  Threads = {th1, th2}
  Built = {1}
  Env = 0
  None = None
  zero = zero
  small = small
  big = big
  MaxScopes = 1
  Objs = {o1, o2}
  Blocks = {b1, b2, b3}
  Shapes = {zero, small, big}
  Zero = zero
  Bytes <- MCBytes
SYMMETRY Symmetry
INVARIANTS TypeOK InitComplete ExplicitKept StorageSound
