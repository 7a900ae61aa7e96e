CONSTANTS
  Decls <- MCDecls
  Selectors = {1, 2, 3}
  MaxMethods = 3
  MaxWords = 1
SPECIFICATION Spec
INVARIANTS TypeOK PlainMethodsAnswer RolesAnswer
CHECK_DEADLOCK FALSE
