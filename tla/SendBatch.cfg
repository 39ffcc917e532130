\* Three events, two of them no objects; four values of Context, two of Integrations.
SPECIFICATION FairSpec
CONSTANTS
  Calls <- MCCalls
  ContextValues <- MCContexts
  IntegrationsValues <- MCIntegrations
  WriteKey <- MCWriteKey
  MaxRetries = 1
  Codes <- MCCodes
  Ints <- MCInts
  IntValues = 65536
  Keys <- MCKeys
INVARIANTS
  TypeOK
  EventFields
  AuthorizationDecodes
  CopiesBounded
  ContextKept
PROPERTIES
  SuccessMeansTaken
  ReasonIsTheAnswer
  BatchSettles
  RetriesAsAgreed
