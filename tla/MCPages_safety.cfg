SPECIFICATION PagesSpec
CONSTANTS
  Events = {1, 2, 3}
  Queries = {q1, q2}
  Sorts = {"time", "newest"}
  Ranks = {0, 1}
  Limit = 2
  PoolSize = 3
  MinNatural = 30
  MaxChanges = 1
  MaxAsked = 3
  MaxFaults = 1
  Accounts = {"a", "b"}
  Prices = {1}
  MaxQuotes = 2
  MaxTroubles = 2
  Owner = "a"
  Other = "b"
  Host = "h"
  Guests = {"a", "b", "c"}
  Unverified = {}
  Barred = {"c"}
  Blocked = {"b"}
  Members = {"c"}
  Kinds <- ThreeKinds
  MaxComments = 1

  
  
  
PROPERTIES
  ItineraryMovesForward
CHECK_DEADLOCK FALSE
