SPECIFICATION FetchSpec
CONSTANTS
  vendor = vendor  mirror = mirror  literal = literal  local = local
  Url = {vendor, mirror, literal, local}
  Kind <- MCKind
  First = vendor
  MaxRedirects = 3  MaxBytes = 2
\* A call that has returned does nothing more.
CHECK_DEADLOCK FALSE
INVARIANT HopsVetted
PROPERTY FetchReturns
