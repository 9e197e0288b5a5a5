\* Page tables of two entries: the identity mapping, three tables the heap grows
\* through, and one for device pages. Frame 8 is reserved for firmware and mapped
\* by ACPI, page 9 is a frame buffer past the last frame that an ACPI region
\* overlaps. Five frames are free: fewer than pages and tables.
CONSTANTS
  BasePfn = 2
  LimitPfn = 9
  ImageLimit = 2
  MarkLimit = 8
  PtSize = 2
  Vpns = {0, 1, 2, 3, 4, 5, 6, 7, 8, 9}
  HeapLimit = 8
  MaxPages = 3
  DefaultPages = {1, 8, 9}
  CachePages = {9}
SPECIFICATION Spec
INVARIANTS MappedIsHeld RegionsArePrivate NothingLost
PROPERTY FrameAllocatorSpec
