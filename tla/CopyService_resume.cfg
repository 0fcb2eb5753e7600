SPECIFICATION Spec
CONSTANTS
  MaxSize = 3
  ChunkSize = 2
  Directions = {"upload"}
  Resumes = {TRUE}
  StaleSizes = {}
INVARIANT
  ResumedUploadIsCopy
