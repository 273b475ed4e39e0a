\* Two threads, two file objects on one file, failures and restarts.
CONSTANTS
  Clients = {c1, c2}
  Names = {f}
  Objects = {o1, o2}
  NoFile = nofile
  NULL = null
  MaxFds = 2
  MaxBytes = 2
  SizeModulus = 8
SPECIFICATION FilesSpec
SYMMETRY Symmetry
INVARIANTS FilesTypeOK OneEnvironment SyncedIsDurable NothingLost DescriptorsAccounted MappingsStayInFile ReadsOfMappings
