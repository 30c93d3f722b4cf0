SPECIFICATION Spec
CONSTANTS
  u1 = u1
  g1 = g1
  NoChat = NoChat
  c1 = c1
  c2 = c2
  Users = {u1}
  Chats = {g1}
  Calls = {c1, c2}
  Limit = 2
  Window = 2
  MaxHits = 4
  MaxOpened = 1
SYMMETRY Symmetry
INVARIANTS
  CounterExpires
