CONSTANTS
  FileNames <- MCFileNames
  DirNames <- MCDirNames
  MaxEntries = 3
  MaxObjects = 2
  NotHere = NotHere
  EpubPictures = {"p1", "p2"}
  Pages = {"page"}
  ItemIds = {"cover", "x"}
  CoverIds = {"cover"}
  MaxElements = 3
  MaxFields = 2
  PictureIds <- MCPictureIds
  MaxPieces = 8
  HashFiles = {"wanted", "other"}
  WantedFile = "wanted"
  SectionIds = {"1", "2"}
  MaxHashPieces = 6
  SeqNumbers = {"0", "3"}
  MaxBookElements = 4
  Digests <- MCDigests
  PHash <- MCPHash
  CoverDigests = {1, 2, 3}
  MaxImages = 2
  Folders <- MCFolders
  BookFiles <- MCBookFiles
  BaseName <- MCBaseName
  MaxBooks = 2
SPECIFICATION CompareSpec
INVARIANTS
  IncluderHasMore
