\* Two concurrent requests, references that may collide, three attachments.
CONSTANTS
  Requests = {q1, q2}
  References = {ref1, ref2}
  Folders = {f1, f2}
  NFiles = 3
  None = None
SPECIFICATION FairSpec
INVARIANTS
  TypeOK
  ShipmentIsBacked
  CompleteFolderIsFull
  ShipmentsAreDistinct
  PageIsTrue
  LeftoverIsExplained
PROPERTIES
  FilesAreClosedAtTheEnd
  ImplementsDelivery
  EveryRequestEnds
