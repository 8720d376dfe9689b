\* Two copies of two texts or a picture, anywhere in the life of a page.
CONSTANTS
  Texts = {t1, t2}
  Image = Image
  Nothing = Nothing
  MaxCopies = 2
  MaxReads = 2
SPECIFICATION Spec
INVARIANTS ViewerTypeOK 
PROPERTIES OnlyTunnelStrands ClipboardsAgree
