SPECIFICATION Spec
CONSTANTS
  MomentsPerDay = 2
  NoRegister = NoRegister
  HalvesUp <- MCHalvesUp
  Sessions = {s1}
  CountForms <- MCCountForms
  PaymentForms <- MCPaymentForms
  MaxCounts = 3
  MaxConfirmed = 1
INVARIANTS TypeOK ClosingTotalsAgree DifferencesExplained ReportAgreesWithPage
PROPERTIES ConfirmedOnlyUnlocked
