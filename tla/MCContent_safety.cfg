SPECIFICATION Spec
CONSTANTS
  Texts <- MCTexts
  Weight <- MCWeight
  Prohibited = {"scheme"}
  DeclaredScore = 20
  ReviewThreshold = 50
  Sampled = FALSE
  Reviewers = {g1, g2}
  Cases = {c1}
  Price = 2
  MaxVersion = 4
  MaxPromotions = 1
  Guests = {g1, g2}
  Devices = {d1, d2}
  QuestionIds = {x1, x2}
  MaxListVersion = 3
  Tiers = {x1, x2}
  Buyers = {g1, g2}
  Amounts = {1}
  Quotas = {1}
  Limit = 1
SYMMETRY Sym
INVARIANTS
  FeeFollowsReview
  LiveTextWasCleared
  PromotionPointsAccounted
  AnswersStayTrue
  
CHECK_DEADLOCK FALSE
