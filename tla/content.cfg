SPECIFICATION FairSpec
CONSTANTS
  fa = fa
  en = en
  ar = ar
  words = words
  Empty = Empty
  Original = Original
  NoText = NoText
  monthly = monthly
  other = other
  Languages = {fa, en, ar}
  English = en
  Shipped = {fa, en}
  Wordings = {words, Empty}
  Names = {monthly, other}
  Seeded = {monthly}
  MaxChanges = 3
INVARIANTS
  PanelDecides
PROPERTIES
  TextsConverge
