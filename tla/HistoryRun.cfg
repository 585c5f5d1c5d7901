\* Three messages, two of one author; a limit of two, a channel of two, two requests.
SPECIFICATION Spec
CONSTANTS
  Msgs = {1, 2, 3}
  Authors = {"ann", "bob"}
  author <- TwoAuthors
  Limit = 2
  Capacity = 2
  MaxRequests = 2
INVARIANTS
  TypeOK
  NoDuplicates
  AuthorsInOrder
  
CHECK_DEADLOCK FALSE
