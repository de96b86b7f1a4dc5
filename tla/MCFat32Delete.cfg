\* The volume of MCFat32.cfg; command lines may also rm "a" or "b".
CONSTANTS
  NC = 14
  EPC = 2
  BPC = 2
  Names = {"a", "b"}
  InitRoot <- MCInitRoot
  MaxWrite = 3
  MaxFileSize = 4
SPECIFICATION SpecDelete
INVARIANT FilesOwnTheirClusters
