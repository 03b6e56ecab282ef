CONSTANTS
  AllNames = {"a", "b", "", "a.b", "a/b", "then", "dispose", "rpc"}
  SomeNames = {"a", "b", "a/b"}
  Depth = 2
  MaxEntries = 2
  Objects = {"o1", "o2", "o3"}
  Root = "o1"
  FewObjects = {"o1", "o2"}
  MaxKeys = 2
  Depths = {1, 3}
  EntryLimits = {5}
  ByteLimits = {44}
SPECIFICATION ProtocolSpec
INVARIANT TableCorrect
INVARIANT OwnManifestConnects
INVARIANT ApiIsATree
INVARIANT ParsesExactly
CHECK_DEADLOCK FALSE
