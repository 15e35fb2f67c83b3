SPECIFICATION CatalogLiveSpec
CONSTANTS
    MaxVersion = 2
    MaxWrites = 4
    MaxOps = 2
PROPERTY
    CatalogConverges
CHECK_DEADLOCK FALSE
