SPECIFICATION FairSpec
CONSTANTS
  None = None
  a = a
  b = b
  near = near
  far = far
  maths = maths
  sec = sec
  sec3 = sec3
  t1 = t1
  t2 = t2
  Tutors = {t1, t2}
  Known <- MCKnown
  Chats = {a, b}
  Codes = {1, 2}
  Postals = {near, far}
  Distance <- MCDistance
  Subjects = {maths}
  Levels = {sec}
  Specifics = {sec3}
  Saves <- MCSaves
  Adverts <- MCAdverts
  Faults = {"lost"}
  Budgets <- MCBudgets
  BatchLimit = 2
  MaxRecipients = 1
INVARIANTS DmsJustified NoStrayChat
PROPERTIES EveryUpdateHandled
CHECK_DEADLOCK FALSE
