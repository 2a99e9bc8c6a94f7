SPECIFICATION Spec
CONSTANTS
  a1 = a1
  a2 = a2
  plain = plain
  shows = shows
  blank = blank
  f1 = f1
  s1 = s1
  Articles = {a1, a2}
  Root = Root
  Space = Space
  Texts = {blank, plain, shows}
  Blank = blank
  NoText = NoText
  Images = {f1}
  Refs <- MCRefs
  Subjects = {s1}
  Grants <- MCGrants
  MaxRevisions = 2
SYMMETRY Symmetry
INVARIANT TypeOK
INVARIANT Forest
INVARIANT TreeShowsEverything
INVARIANT PublishedTextsStand
INVARIANT GrantsHaveScope
CHECK_DEADLOCK FALSE
