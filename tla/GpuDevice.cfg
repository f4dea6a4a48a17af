\* Two ids can be issued before the counter is exhausted; the largest offset
\* overflows usize with any data.
SPECIFICATION HSpec
CONSTANTS
  MaxId = 2
  UsizeMax = 4
  Byte = {0, 1}
  Zero = 0
  Capacities = {0, 2}
  Offsets = {0, 1, 4}
  Lengths = {0, 1, 2, 3}
  Fresh = Fresh
  Cut = Cut
  Cleared = Cleared
INVARIANTS
  TypeOK
  ReadsSeeLastWrite
PROPERTIES
  IdsNeverReused
