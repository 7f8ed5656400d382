SPECIFICATION PSpec

CONSTANTS
  Codes = {c1, c2}
  LongUrls = {a, b}
  None = None
  MaxTime = 1
  MaxClicks = 1
  MAX_RENDERED_URLS = 1
  Origin = "origin"
  Unset = "unset"
  PublicUrls = {"unset"}

INVARIANTS
  LinksLead
