CONSTANTS
  Timings <- TableTimings
  WrOffsets = {0, 1, 2, 3, 4, 5, 6, 7, 8, 238}
  RdOffsets = {0, 1, 2, 3, 4, 5, 6, 7, 8, 98}
  Bursts = {16, 32}
  Rooms = {1, 3, 9, 56, 64}
  Lasts = {1, 60}
SPECIFICATION Spec
INVARIANTS
  CbtVrefSettles
