SPECIFICATION FairSpec
CONSTANTS
    MaxTurns = 4
    MaxCalls = 2
    NoRequest = NoRequest
    Requests <- MCRequests
    Answers <- MCAnswers
INVARIANTS ConversationSound AnswersSound AuditAccountsForTools
PROPERTIES AlwaysEnds
