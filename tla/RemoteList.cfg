SPECIFICATION Spec
CONSTANTS
  NULL = NULL
  CRASH = CRASH
  AnoAtual = 2002
  MaxItems = 3
  MaxLen = 4
  Cars <- MCCars
  Models <- MCModels
  Marcas <- MCMarcas
  Years <- MCYears
INVARIANTS
  TypeOK
  SizeCountsNodes
  WritesReportWhatTheyDid
  QueriesDescribeTheList
PROPERTIES
  QueriesKeepTheCars
CHECK_DEADLOCK FALSE
