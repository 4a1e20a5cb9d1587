CONSTANTS
  Dir = {"std", "own", "none"}
  File = {"IF.txt", "TC", "MY"}
  Alias = {"IF"}
  Finds <- MCFinds
  Holds <- MCHolds
  Imports <- MCImports
  DefaultPaths = {"std"}
  DefaultWanted = {"IF"}
SPECIFICATION Spec
INVARIANT RunOnly
