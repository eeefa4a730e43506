SPECIFICATION Spec
CONSTANTS
  None = None
  Asked = Asked
  Tokens = {t1}
  AllPatterns = all
  Filters = {f1, f2}
  MaxLoads = 3
  MaxSessions = 2
  MaxCalls = 1
INVARIANTS
  WritesRunOnce StatusesInOrder AnswersAreRead ShownByItsFilters
PROPERTIES
  EveryCallEnds CheckEnds CatalogueSettles PaymentResultShown
