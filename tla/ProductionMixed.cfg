SPECIFICATION Spec
CONSTANTS
  o1 = o1
  l1 = l1
  l2 = l2
  w1 = w1
  w2 = w2
  NoLine = NoLine
  Orders = {o1}
  LineIndexes = {l1, l2}
  Workers = {w1}
  Items = {"configuration", "final"}
  Required = {"configuration"}
  CommerceStates = {}
  CommercePays = {}
  MaxRevision = 8
INVARIANTS ReadyOrderPassedInspection
