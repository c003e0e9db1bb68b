CONSTANTS
  Ids <- TwoIds
  CoverName = "cover"
  Metadata <- WithAndWithout
  Processings <- FiveProcessings
  PictureNames <- ThreeNames
  NumberIn <- NumbersOfAll
  MaxOffered = 2
  BookPictures <- TwoPictures
  BookTexts <- TwoTexts
SPECIFICATION PartSpec
INVARIANTS
  PartTypeOK
  PrinterInStep
  DocumentSound
  PicturesRestored
CHECK_DEADLOCK FALSE
