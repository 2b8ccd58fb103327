SPECIFICATION FairSpec
CONSTANTS
  c0 = c0
  c1 = c1
  loop = loop
  informer = informer
  Cards = {c0, c1}
  Loops = {loop}
  Informers = {informer}
  Absent = Absent
  NoValue = NoValue
  MaxChanges = 1
  MaxErrors = 1
  MaxCrashes = 1
INVARIANTS RegistrationInv NewestInv
PROPERTIES KeepsCards NoStepBack RegistrationConverges
