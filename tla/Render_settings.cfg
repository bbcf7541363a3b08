SPECIFICATION Spec
CONSTANTS
  Renders = {"r1"}
  Errors <- MCErrors
  Localizers <- MCLocalizers
  Translations <- MCTranslations
  DerivedKey <- MCDerivedKey
  KnownKinds <- MCKnown
  Overrides <- MCOverrides
  NoLocalizer = NoLocalizer
  NotFound = NotFound
  Idle = Idle
INVARIANTS
  TypeOK
  NoNilLocalizerCall
  BlankOnlyByRequest
PROPERTIES
  EveryTextJustified
  EveryRenderEnds
