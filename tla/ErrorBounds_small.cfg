SPECIFICATION Spec
CONSTANTS
  MaxFields = 2
  MaxMeta = 2
  MaxFieldErrors = 2
  MaxCalls = 4
  Keys <- MCKeys
  Values <- MCValues
  Oversized <- MCOversized
  Triples <- MCTriples
  Members <- MCMembers
  EntryOf <- MCEntryOf
  Causes <- MCCauses
  StaticMetadata <- MCStatic
INVARIANTS
  TypeOK
  FieldsExact
  ErrorsExact
  MetadataExact
PROPERTIES
  MarkersAreFinal
CHECK_DEADLOCK FALSE
