SPECIFICATION Spec
CONSTANTS
  OrderIds = {"o1", "o9"}
  Orders = {"o1"}
  NoOrder = "none"
  NoCustomer = NoCustomer
  Slots = {"first", "second"}
  SoftCap = 1500
  Profiles <- MCProfiles
  Callers <- MCCallers
  NoId = NoId
  Texts <- MCTexts
  Asked = {"missing_item", "wrong_order", "never_arrived", "double_charge", "rider_demanded_tip", "promo_failed", "cancel_request", "human_request", "vague"}
  Proposals <- MCProposals
  MaxTurns = 2
INVARIANTS Inv RefusalsHold InjectionContained AbuserHeld FreshNeverRepeats PivotHeld
CHECK_DEADLOCK FALSE
