SPECIFICATION Spec
CONSTANTS
  QueueSize = 3
  Byte = {z, a}
  Zero = z
  MaxBuf = 4
INVARIANTS
  CountedBytesStay
PROPERTY RingIsFifo
