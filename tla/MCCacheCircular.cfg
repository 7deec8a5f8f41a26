SPECIFICATION Spec
CONSTANTS
  Front = 3
  Back = 2
  FileLen = 8
INVARIANTS ContentOK NeverStalls
PROPERTIES BackIsKept ImplementsWindow
