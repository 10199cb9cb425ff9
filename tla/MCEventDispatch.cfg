CONSTANTS
  Workers = {east, west}
  file = file
  daily = daily
  tag = tag
  Rules = {tag, file, daily}
  site = site
  Hooks = {site}
  created = created
  updated = updated
  Date = date
  Kinds = {created, updated, date}
  Trigger <- Triggers
  Deed <- Deeds
  Subscribed <- Subscriptions
  Nobody = Nobody
  NoRule = NoRule
  MaxDepth = 1
  MaxTries = 2
  MaxRoots = 1
  MaxTroubles = 2
SPECIFICATION FairSpec
INVARIANTS DispatchInv EventsAnswered CascadeBounded
PROPERTIES CascadeEnds
CHECK_DEADLOCK FALSE
