SPECIFICATION Spec
CONSTANTS
  Logins = {l1, l2}
  Mutations = {m}
  MaxFetches = 2
PROPERTIES
  CancelIsFinal
  NothingHangs
  CatalogFollowsChanges
CHECK_DEADLOCK FALSE
