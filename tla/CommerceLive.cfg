SPECIFICATION FairSpec
CONSTANTS
  k1 = k1
  k2 = k2
  q1 = q1
  q2 = q2
  w1 = w1
  w2 = w2
  NoKey = NoKey
  Keys = {k1}
  Quotes = {q1, q2}
  CustomQuotes = {q1}
  Workers = {w1}
  Kinds <- SuccessKind
  AdminTargets <- NoTargets
  Demonstration = FALSE
PROPERTIES ChargeIsHandled AbandonedCheckoutEnds
