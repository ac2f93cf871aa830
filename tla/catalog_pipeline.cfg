SPECIFICATION Spec
CONSTANTS
  Ids = {b1}
  Procs = {p1, p2}
  MaxEvents = 4
  None = None
  Websites <- MCWebsites
  Domains <- MCDomains
  Labels <- MCLabels
  NameKeys <- MCNameKeys
  Emails <- MCEmails
  Places <- MCPlaces
  Sightings <- MCTwoSightings
  DomainOf <- MCDomainOf
  NameKeyOf <- MCNameKeyOf
  Statuses <- MCStatuses
INVARIANT HistoryReplays
INVARIANT RevivalsBounded
CHECK_DEADLOCK FALSE
