SPECIFICATION PlaneSpec
CONSTANTS
  Region = {r1}
  Field = {header, plane}
  Sequence = sequence
  Val = {v0, v1}
  Zero = v0
  NoWrite = NoWrite
SYMMETRY MCSymmetry
INVARIANTS NoSharedRegion OwnedRegionIsWhole
PROPERTIES AcquireReturnsPublished
CHECK_DEADLOCK FALSE
