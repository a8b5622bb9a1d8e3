SPECIFICATION Spec
CONSTANTS
  Time <- MCTime
INVARIANTS
  TypeOK
  KeptPointerGood
PROPERTIES
  NeverWorse
