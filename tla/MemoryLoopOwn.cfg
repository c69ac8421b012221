SPECIFICATION Spec
CONSTANTS
  Sessions = {"s1", "s2"}
  UserOf <- MCUserOf
  DirectoryOf <- MCDirectoryOf
  Prompts = {"p", "q"}
  Ids = {1, 2, 3, 4}
  Memories <- MCMemories
  Distance <- MCDistance
  Threshold = 5
  N = 1
  MaxPrompts = 3
CHECK_DEADLOCK FALSE
PROPERTY OwnFound
