SPECIFICATION Spec
CONSTANTS
  Ids = {b1, b2, b3}
  Procs = {}
  MaxEvents = 2
  None = None
  Websites <- MCWebsites
  Domains <- MCDomains
  Labels <- MCLabels
  NameKeys <- MCNameKeys
  Emails <- MCEmails
  Places <- MCPlaces
  Sightings <- MCSightings
  DomainOf <- MCDomainOf
  NameKeyOf <- MCNameKeyOf
  Statuses <- MCStatuses
INVARIANT TypeOK
INVARIANT MirroredIndexes
INVARIANT DomainCoversId
PROPERTY KnowledgeKept
PROPERTY NeverShownAgain
CHECK_DEADLOCK FALSE
