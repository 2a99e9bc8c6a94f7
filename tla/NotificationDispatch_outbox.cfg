SPECIFICATION Spec
CONSTANTS
  a = a
  b = b
  NoNote = NoNote
  p = p
  g = g
  MaxTime = 3
  Quiet <- MCQuietHour
  Moment <- MCSoon
  Limit = 2
  MaxAttempts = 2
  Backoff <- MCBackoff
  MaxChanges = 1
  MaxMishaps = 1
  Window = 1
  Notes = {a, b}
  Digests = {a}
  Warnings = {b}
  People = {p, g}
  Anonymous = {g}
  Wants <- TwoPeople
  Reachable <- MailAndInbox
  Setups <- OnOrOff
INVARIANT TypeOK
INVARIANT AtMostOnce
INVARIANT OneCopy
PROPERTY SentMeansDelivered
PROPERTY NeverEditsHalfSent
PROPERTY ImplementsOutbox
PROPERTY CancelledStaysSilent
