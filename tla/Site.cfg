SPECIFICATION Spec
CONSTANTS
  r1 = r1
  r2 = r2
  r3 = r3
  NoInput = NoInput
  Requests <- ThreeRequests
  Inputs <- SomeInputs
  Files <- SomeFiles
  Numeral <- Numbers
  Unit <- Units
  Figures <- Digits
  PathOf <- PathWords
  Alphabetical <- Sorted
  Published <- PublishedPaths
  Taken <- OthersPorts
  InitialFiles <- PublishedFiles
  Directories <- AllDirectories
  FileNames <- Names
  LikeContent <- LikeContents
  LikeUpload <- LikeUploads
  Boundary <- TheBoundary
INVARIANTS
  TypeOK
  StartsAsItShould
  ServersAsWritten
  RoutedToLongest
  UploadsKept
  TextsKept
  FormsUnderstood
PROPERTIES
  ChangesAccountedFor
SYMMETRY Symmetry
CHECK_DEADLOCK FALSE
