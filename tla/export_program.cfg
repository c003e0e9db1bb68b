CONSTANTS
  Ids <- TwoIds
  CoverName = "cover"
  Metadata <- WithAndWithout
  Processings <- FiveProcessings
  PictureNames <- ThreeNames
  NumberIn <- NumbersOfAll
  MaxOffered = 2
  BookPictures <- TwoPictures
  BookTexts <- TwoTexts
SPECIFICATION Fb2Spec
INVARIANTS
  ProgramUsedAtEnd
CHECK_DEADLOCK FALSE
