SPECIFICATION FairSpec
CONSTANTS
  a = a
  b = b
  NoNote = NoNote
  p = p
  g = g
  MaxTime = 2
  Quiet <- MCQuietHour
  Moment <- MCNever
  Limit = 1
  MaxAttempts = 2
  Backoff <- MCBackoff
  MaxChanges = 0
  MaxMishaps = 1
  Window = 1
  Notes = {a, b}
  Digests = {b}
  Warnings = {}
  People = {p, g}
  Anonymous = {}
  Wants <- TwoMails
  Reachable <- TwoMails
  Setups <- GuestOnOrOff
PROPERTY EventuallySettled
PROPERTY RetriesGoOn
