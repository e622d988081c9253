SPECIFICATION Spec
CONSTANTS
  NoFilter = NoFilter
  Environments <- MCEnvironments
  Documents <- MCDocuments
  Generated <- MCGenerated
  Requests <- MCRequests
PROPERTIES
  NothingBeyondSettings
  DestructiveIsAgreed
  OnlyBearersAct
