SPECIFICATION DownloadSpec
CONSTANTS
  URLs = 2
  Retries = 2
  Chunks = 2
INVARIANTS
  HashMatchesTarget
PROPERTIES
  ImplementsFetch
