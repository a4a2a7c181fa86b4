SPECIFICATION SpecStores
CONSTANTS
  Objs = {o1, o2}
  Tasks = {t1}
  Lists = {}
  Width = 1
  Nothing = Nothing
INVARIANTS LiveIsKept
