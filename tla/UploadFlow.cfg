SPECIFICATION Spec
CONSTANTS
  Keys = {doc, image}
  Documents = {doc}
  Requests = {r1, r2}
  NoObject = NoObject
  NoListing = NoListing
  NoScan = NoScan
  MaxPuts = 2
  MaxFailures = 1
SYMMETRY Symmetry
INVARIANTS
    ListingIsCurrent
    IndexedWasChecked
    RemovedIsUnsearchable
PROPERTIES
    GoodUploadsSurvive
