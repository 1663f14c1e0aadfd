CONSTANTS
  Vendor = Vendor
  Neighbour = Neighbour
  Bundles = {Vendor, Neighbour}
  Builds <- TwoBuilds
  Roots <- OneRoot
  Natures <- AnyBuilds
  MaxMeddling = 0
  NoEntry = NoEntry
SPECIFICATION Spec
PROPERTY NotTriedAgain
