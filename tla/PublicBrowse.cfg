SPECIFICATION Spec
CONSTANTS
  class = class
  semester = semester
  subject = subject
  unit = unit
  unit2 = unit2
  chapter = chapter
  note = note
  a = a
  b = b
  Item = {class, semester, subject, unit, unit2, chapter, note}
  Level <- Depth
  Slug = {a, b}
  Tables <- Chains
  Visitor = {v1}
  Path <- AllA
  Root = Root
  Unborn = Unborn
  MaxEdits = 2
INVARIANTS
  TypeOK
  OneTableLooksAtomic
  HidingHidesShowingShows
CHECK_DEADLOCK FALSE
