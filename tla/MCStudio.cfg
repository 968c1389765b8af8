\* One process in every environment; one request after the other.
SPECIFICATION StudioSpec
CONSTANTS
  None = None
  Requests <- MCRequests
  Services <- MCServices
  Disks <- MCDisks
  GuideCount <- MCGuideCount
  Priceable <- MCPriceable
INVARIANT FailuresNamed
INVARIANT FinaleAsAsked
