SPECIFICATION Spec
CONSTANTS
  Objs = {o1, o2}
  Tasks = {t1, t2}
  Lists = {o1}
  Width = 2
SYMMETRY Perms
INVARIANTS OldIsClosed LiveIsKept  IdleRootsAreOld
