SPECIFICATION FairSpec
CONSTANTS
  e1 = e1
  e2 = e2
  Editions <- MCEditions
  NoEdition = NoEdition
  BookOf <- MCBookOf
  Accounts = {"a1", "a2"}
  Profiles <- MCProfiles
  Catalogues <- MCCatalogues
  FirstItems <- MCFirstItems
  MaxChanges = 1
  MaxEdits = 1
  MaxFaults = 1
INVARIANTS TypeOK SavedMatchesAreConfirmed OutcomesAreHonest OwnershipWasSeen
PROPERTIES WritesAreConfirmed CurrentIsEarned MappingIsFound
CHECK_DEADLOCK FALSE
