\* A key released between the click and the connection.
CONSTANTS
  Texts = {t1}
  Image = Image
  Nothing = Nothing
  MaxCopies = 0
  MaxReads = 1
SPECIFICATION Spec
INVARIANTS ViewOnlyStaysViewOnly
