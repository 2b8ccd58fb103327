SPECIFICATION FairSpec
CONSTANTS
  MaxContainers = 3
  Endings = {"joined", "ended"}
  Empty = Empty
  MaxErrors = 2
INVARIANTS AnnotationTypeOK IndexNamesRequest IndexInRange
PROPERTIES ImplementsQueue SuccessMeansServed Settles
CHECK_DEADLOCK FALSE
