SPECIFICATION Spec
CONSTANTS
  Typed = 2
  Asks = 2
  ListClicks = 4
  PageClicks = 4
  ToggleClicks = 5
  DialogClicks = 7
  AccountClicks = 4
  Drops = 2
  Fetches = 2
  Others = 1
  MaxMutations = 2
  MaxMounts = 2
  MaxFailures = 1
  c1 = c1
  c2 = c2
  Users = {1, 2}
  Clients = {c1, c2}
  Absent = Absent
  Unset = Unset
  None = None
  Sent = Sent
  Other = Other
INVARIANTS PageHasRows ShowsWhatWasChosen CreatedOnce StoredAsTyped AnswersShownRight SeesOwnChanges
PROPERTIES TypedTextKept ConfirmedIsOwn DeletesOnlySeen LostOnlyToPromotion
CHECK_DEADLOCK FALSE
