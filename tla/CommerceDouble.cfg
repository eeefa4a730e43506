SPECIFICATION Spec
CONSTANTS
  k1 = k1
  k2 = k2
  q1 = q1
  q2 = q2
  w1 = w1
  w2 = w2
  NoKey = NoKey
  Keys = {k1, k2}
  Quotes = {q1}
  CustomQuotes = {}
  Workers = {w1, w2}
  Kinds <- SuccessKind
  AdminTargets <- NoTargets
  Demonstration = TRUE
INVARIANTS QuoteSoldOnce
