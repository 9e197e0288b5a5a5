\* Majors of three pages (eighteen units) that hold one or two small blocks with
\* gaps too short for some, one request that needs a fourth page, and at most two
\* majors before the pages run out.
CONSTANTS
  ALIGNMENT = 2
  ALIGN_INFO = 1
  MajorHeader = 1
  MinorHeader = 2
  PageSize = 6
  l_pageCount = 3
  Stride = 5
  Requests = {2, 4, 14}
  MaxMajors = 2
SPECIFICATION Spec
PROPERTY FailedReallocKeepsBlock
