SPECIFICATION Spec
CONSTANTS
  Specs <- AllSpecs
  MaxRow = 5
  MaxCol = 2
  Numbers = {0, 50, 200}
  SampleN = 3
  NotesMax = 1
  MaxWrites = 3
  Header = Header
  Text = Text
  Formula = Formula
  Error = Error
  None = None
PROPERTIES AuditIsRight RewriteRevealsNothing SummaryCoversTheData
CHECK_DEADLOCK FALSE
