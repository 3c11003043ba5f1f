SPECIFICATION AdaptersSpec
CONSTANTS
    Clients <- AllClients
    Timetables <- Timetables2
    Requests <- SomeRequests
INVARIANTS TellingsAgree BadRecordCostsOnlyItself ContradictionsAreReported AnswerFitsRequest
