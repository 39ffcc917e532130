\* A call of Group and one of PostEvent; the run ends with one request for both.
SPECIFICATION Spec
CONSTANTS
  Calls <- MCDocumentedCalls
  ContextValues <- MCContexts
  IntegrationsValues <- MCIntegrations
  WriteKey <- MCWriteKey
  MaxRetries = 1
  Codes <- MCCodes
  Ints <- MCInts
  IntValues = 65536
  Keys <- MCKeys
INVARIANTS
  SentAsDocumented
