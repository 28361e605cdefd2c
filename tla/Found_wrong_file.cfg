SPECIFICATION FilesSpec
CONSTANTS
  Holders = {{"manage_files"}}
  MaxRequests <- MaxRequestsDef
  Dirs = {"d", "e"}
  Paths <- PathsDef
PROPERTIES EditsKeepFiles
