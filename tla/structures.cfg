CONSTANTS
  Subjects = {"intersect", "queue", "toposort", "trie", "arena"}
  Points <- SomePoints
  None = None
  Blank = Blank
  MaxInserts = 4
  Zero = Zero
  Batches <- SomeBatches
  Capacities = {0, 2}
  MaxBuf = 6
  Vertices = {1, 2, 3}
  RootLists <- SomeRoots
  Dags <- SomeDags
  MaxSorts = 2
  Nybbles = {0, 1}
  TrieKeys <- SomeKeys
  TrieValues = {"a"}
  AllOnes <- SomeOnes
  pointersMinLenShift = 1
  MaxValues = 40
SPECIFICATION Spec
INVARIANTS
   OrderIsTopological PrefixesAreInserted PointersStayExact
PROPERTIES QueueIsDeque
CHECK_DEADLOCK FALSE
