\* Uploads, sales, edits and deletions of products that overlap, fail and crash.
SPECIFICATION Spec
CONSTANTS
  Requests = {r1, r2}
  Default = placeholder
  Shared = {placeholder}
  Uploads = {f1, f2}
  placeholder = placeholder
  NoFile = NoFile
  Seeded = 1
  SeedStock = 1
  Restocked = {0}
  MaxProducts = 2
  MaxLent = 1
SYMMETRY Symmetry
INVARIANTS
  StockKept
  ImageOnDisk
\* The bound on files and products.
CHECK_DEADLOCK FALSE
