CONSTANTS
  Webhooks = {"e1", "e2"}
  Notifications = {"n1"}
  Payloads <- MCPayloads
  Numbers = {1, 2}
  NoticeTypes = {"OBJECT_FINALIZE", "unknown"}
  WebhookIDs = {"h1", "h2"}
  RequestedOnly = {"h2"}
  OrgFilter = {"o"}
  Handlers = {"pull_request", "OBJECT_FINALIZE"}
  ExtensionKey = "pullrequesturl"
  Owners = {w1}
  MaxRetry = 1
  MaxCopies = 2
  MaxFailures = 2
SPECIFICATION FairSpec
INVARIANTS TypeOK AcceptedIsKept
PROPERTY EveryEventArrives
CHECK_DEADLOCK FALSE
