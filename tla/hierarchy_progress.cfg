\* One Agent, one change by a user, any number of crashes.
SPECIFICATION FairSpec
CONSTANTS
  Planes = {c1}
  Agents = {a1}
  DefaultAgent = a1
  MaxEdits = 1
PROPERTIES
  OneLifePerGeneration
  MissionSettles
  FailureReachesFleet
