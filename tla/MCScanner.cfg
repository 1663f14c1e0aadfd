CONSTANTS
  Vendor = Vendor
  Neighbour = Neighbour
  Bundles = {Vendor, Neighbour}
  Builds <- TwoBuilds
  Roots <- OneRoot
  Natures <- AnyBuilds
  MaxMeddling = 1
  NoEntry = NoEntry
SPECIFICATION FairSpec
INVARIANTS
  OnlyStruckAreBarred
PROPERTIES
  BarredIsSkipped
  HitsAreFresh
  SoundBundlesAreFound
