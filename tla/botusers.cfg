SPECIFICATION FairSpec
CONSTANTS
  e1 = e1
  e2 = e2
  fa = fa
  en = en
  Updates = {e1, e2}
  Late = Late
  Languages = {fa, en}
  Offered = {fa, en}
  Known = {fa, en}
  Hint = fa
  Fallback = fa
  NoLanguage = NoLanguage
  TTL = 2
  Patience = 1
  MaxChanges = 2
  MaxFaults = 1
INVARIANTS
  CacheFresh
PROPERTIES
  CacheConverges
