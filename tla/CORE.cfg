SPECIFICATION Spec
CONSTANTS
  MB_FUNC_HANDLERS_MAX = 3
  Code = {1, 2, 3, 4}
  h1 = h1
  NULL = NULL
  Handler = {h1, h2, h3, h4}
  Builtin = 1
  BuiltinCode <- MCBuiltinCode
  BuiltinHandler <- MCBuiltinHandler
  Address = {1, 2}
  Uses = {"remove", "concurrent"}
INVARIANTS TypeOK NeverCallsNull ServedUnlessHole AddressAsInitialised
PROPERTIES AnsweredAsBound
