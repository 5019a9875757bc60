CONSTANTS
 Parts = {"catalog", "sdk", "go", "events", "requests", "spans"}
 Pages <- MCPages
 Callers = {a1, a2}
 Listers = {l}
 Nobody = Nobody
 MaxPages = 2
 TTL = 1
 MaxGenerations = 2
 MaxTime = 2
 MaxChanges = 1
 Connections = {s, t}
 Transports = {}
 Stateless = {r}
 MaxSessions = 1
 Timeout = 1
 LastTime = 4
 MaxIds = 2
 Calls = {c1}
 MaxHandles = 1
 GoCalls = {g1, g2}
 MaxInFlight = 1
 NoName = NoName
 McpUsers = {u1}
 McpSessionIds = {w1}
 Conversations = {k1}
 Malformed = Malformed
 Minted = Minted
 MaxDepth = 2
 MaxBytes = 4
 ToolCalls <- MCToolCalls
 ToolContexts <- MCContexts
 u1 = u1
 u2 = u2
 w1 = w1
 w2 = w2
 Users = {u2}
 NoId = NoId
 Blank = Blank
 Generated = Generated
 Codes = {404}
 Headers <- MCHeaders
 Layers <- MCLayers
 Inherited <- MCInherited
 Own <- MCOwn
 Given <- MCGiven
 MaxFrames = 3
 MaxBridged = 1
 Spans = {s1}
 GoSessions = {s, r}
 SpanFrames = 2
SPECIFICATION AdaptersSpec
CHECK_DEADLOCK FALSE
INVARIANTS StableToolsAreKnown WaitsForARunningWalk EventsNameKnownConversations CapturedOnce ToolCallStoriesAgree
 OneUserPerContext OptOutSurvives PanicsReportedOnce SpansKeepTheirContext LateSpansOmitIds
PROPERTIES SessionsAreSteady
