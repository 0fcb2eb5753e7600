SPECIFICATION Spec
CONSTANTS
  MaxSize = 6
  ChunkSize = 2
  Directions = {"upload", "download"}
  Resumes = {TRUE, FALSE}
  StaleSizes = {0, 1, 6}
INVARIANTS
  UploadSuccessIsCopy
  UploadInOrder
  ReportsAgree
  DownloadInOrder
PROPERTIES
  ResumeKeepsPrefix
