SPECIFICATION HistorySpec
CONSTANTS
  Ids = {b1, b2}
  Procs = {}
  MaxEvents = 1
  None = None
  Websites <- MCWebsites
  Domains <- MCDomains
  Labels <- MCLabels
  NameKeys <- MCNameKeys
  Emails <- MCEmails
  Places <- MCPlaces
  Sightings <- MCSightings
  DomainOf <- MCDomainOf
  NameKeyOf <- MCNameKeyOf
  Statuses <- MCStatuses
PROPERTY RemovedStaysGone
CHECK_DEADLOCK FALSE
