\* Two sources in every order and outcome, a changing system, every gate.
CONSTANTS
  AppleSource = 1
  AppleTts = 2
  AppleStt = 3
  AppleTtsCapability = 22
  AppleSttCapability = 23
  Sources <- BothSources
  HostSource <- HostBackends
  Offers <- Offer
  Systems <- SomeSystems
  Requests <- AllRequests
SPECIFICATION Spec
INVARIANTS
  LocalOnlyIsProven
  SpoiledOnlyTogether
  PlanIsBest
PROPERTIES
  PlannedVoiceIsSpoken
\* One request is planned; the system may stay as it is.
CHECK_DEADLOCK FALSE
