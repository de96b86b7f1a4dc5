CONSTANTS
  NC = 14
  EPC = 2
  BPC = 2
  Names = {"a", "b"}
  InitRoot <- MCInitRoot
  MaxWrite = 3
  MaxFileSize = 4
SPECIFICATION Spec
INVARIANT TypeOK FatIsForest SizeWithinChain FilesFindable
