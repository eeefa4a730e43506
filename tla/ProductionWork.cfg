SPECIFICATION Spec
CONSTANTS
  o1 = o1
  l1 = l1
  l2 = l2
  w1 = w1
  w2 = w2
  NoLine = NoLine
  Orders = {o1}
  LineIndexes = {l1}
  Workers = {w1, w2}
  Items = {"configuration", "final"}
  Required = {"configuration"}
  CommerceStates = {}
  CommercePays = {"manual_review"}
  MaxRevision = 8
INVARIANTS IInv HandoverPassedInspection
PROPERTIES CommandsAreAtomic ApprovalWasChecked
