SPECIFICATION Spec
CONSTANTS
  class = class
  semester = semester
  subject = subject
  unit = unit
  unit2 = unit2
  chapter = chapter
  a = a
  b = b
  one = one
  two = two
  Item = {class, semester, subject, unit, unit2, chapter}
  Level <- Depth
  Name = {a, b}
  Slug = {one, two}
  Slugify <- Slugs
  Tables <- Chain
  admin1 = admin1
  admin2 = admin2
  Admin = {admin1, admin2}
  Works <- Shared
  Fault = {"db", "dbAck"}
  MaxSaves = 3
  MaxLost = 1
  Root = Root
  Unborn = Unborn
  Nothing = Nothing
INVARIANTS
  TypeOK
  AuditMatchesSaves
  LogEndsWithRow
PROPERTIES
  KeepsUntouched
