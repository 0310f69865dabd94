SPECIFICATION Spec
CONSTANTS
  Catalogs <- MCCatalogs
  ReadOrder <- MCReadOrder
  ShortOrder <- MCShortOrder
  Lab <- MCLab
  MaxStarts = 2
  MaxDeaths = 1
INVARIANTS
  IndexSealsCatalog
  LoadsOneCatalog
  ExportIsComplete
\* The bound on starts is reached.
CHECK_DEADLOCK FALSE
