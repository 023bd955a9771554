CONSTANTS
  Catalogues <- MCCatalogues
  Mappings <- MCMappings
  NoColumn = NoColumn
  Template <- MCTemplate
  TemplateMapping <- MCTemplateMapping
  MaxTables = 2
  MaxColumns = 4
  MaxKeys = 1
  MaxObjects = 4
  MaxRuns = 2

SPECIFICATION Spec

INVARIANTS
  FilesSound
  CliLoads
  TenantsLoad

CHECK_DEADLOCK FALSE
