CONSTANTS
  t1 = t1
  t2 = t2
  p1 = p1
  p2 = p2
  Threads <- MCThreads
  Parts <- MCParts
  Nobody = Nobody
  Lost = Lost
  MaxVersion = 2
  Problems <- MCProblems
SPECIFICATION Spec
SYMMETRY Sym
INVARIANTS
  TypeOK
  FreshCases
  FreshPublic
  
  CheckerCurrent
  ResourceWhole
  
