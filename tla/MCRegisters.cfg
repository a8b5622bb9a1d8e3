SPECIFICATION Spec
CONSTANTS
  Applications <- MCApplications
  Args <- MCArgs
  Zero = 0
  Torn = Torn
  Powers = 4
INVARIANTS
  TypeOK
  KeptPointerGood
  ChangeOfShown
  ImuWhole
PROPERTIES
  RegistersAreAtomic
