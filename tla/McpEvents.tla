------------------------------ MODULE McpEvents ------------------------------
(***************************************************************************)
(* The events of a tool call: whom and which session they name, what they   *)
(* keep when they are too large, and what becomes of them when the queue    *)
(* refuses one.  posthogmcp builds all messages of a call, then enqueues    *)
(* each.                                                                    *)
(***************************************************************************)
EXTENDS Naturals, Sequences, SequencesExt

CONSTANTS
  NoName,         \* ""
  McpUsers, McpSessionIds,
  Conversations,  \* handles shaped like a UUIDv7
  Malformed,      \* a handle that is not
  Minted,         \* a session that mintSessionID makes
  MaxDepth,       \* maxDepth
  MaxBytes,       \* maxEventBytes, in the units of the weights
  ToolCalls,      \* what an application captures: [distinct, session, conversation, optOut, failed, weights]
  ToolContexts    \* the request contexts it captures them with: [distinct, session, optOut]

ASSUME EventsAssumption == MaxDepth \in Nat \ {0} /\ MaxBytes \in Nat /\ NoName \notin Conversations

VARIABLES
  autocapture,  \* WithExceptionAutocapture
  toolReport,   \* of the call just captured: [call, built, queued, error]
  joined        \* history: conversation -> the sessions its events named

eventVars == <<autocapture, toolReport, joined>>

--------------------------------------------------------------------------
(* prepareToolCall                                                         *)

\* deriveSessionID; handles have sessions of their own.
DeriveSession(conversation) == <<"ses", conversation>>

Either(value, other) == IF value # NoName THEN value ELSE other

\* withRequestContext: what the call leaves empty; ctx.optOut is a property, and those
\* of the call win.
WithContext(call, ctx) ==
  [call EXCEPT !.distinct = Either(@, ctx.distinct), !.session = Either(@, ctx.session),
               !.optOut = IF @ = "unset" THEN ctx.optOut ELSE @]

\* Mutant: the opt-out is looked for after the reserved keys are gone.
SuppressedWithoutId(call) == call.distinct = NoName

SuppressPersonProfile(call) == call.distinct = NoName \/ call.optOut = "out"

\* The parts of a call that its messages share.
PrepareToolCall(call) ==
  LET conversation == IF call.conversation \in Conversations THEN call.conversation ELSE NoName
      session == IF conversation # NoName THEN DeriveSession(conversation) ELSE Either(call.session, Minted)
  IN  [distinct |-> Either(call.distinct, session), session |-> session, conversation |-> conversation,
       explicit |-> call.distinct # NoName, suppress |-> SuppressPersonProfile(call),
       weights |-> call.weights, failed |-> call.failed]

--------------------------------------------------------------------------
(* What fits.  A value weighs one for each of its levels that is kept.      *)

Lower(a, b) == IF a < b THEN a ELSE b
Payloads == {"response", "parameters"}

\* captureStages: everything, cut to fewer and fewer levels; then less and less.
CaptureStages ==
  [i \in 1..MaxDepth |-> [depth |-> MaxDepth + 1 - i, keeps |-> Payloads \cup {"custom", "set"}]]
  \o << [depth |-> 1, keeps |-> {"parameters", "custom", "set"}],
        [depth |-> 1, keeps |-> {"custom", "set"}],
        [depth |-> 1, keeps |-> {"set"}],
        [depth |-> 1, keeps |-> {}] >>
\* buildOptionalEvent and buildException have no payloads.
OptionalStages == [i \in 1..3 |-> [depth |-> 1, keeps |-> <<{"custom", "set"}, {"set"}, {}>>[i]]]
ExceptionStages == [i \in 1..2 |-> [depth |-> 1, keeps |-> <<{"custom"}, {}>>[i]]]

\* applyIdentityProperties: $set goes with an explicit id.
KeptParts(p, stage) == IF p.explicit THEN stage.keeps ELSE stage.keeps \ {"set"}

Weight(p, stage, required) ==
  LET weigh(part) == IF part \in Payloads THEN Lower(p.weights[part], stage.depth) ELSE p.weights[part]
  IN  FoldSet(LAMBDA part, sum : sum + weigh(part), required, KeptParts(p, stage))

NoMessage == [name |-> "none"]

\* The first stage that fits.
Build(p, name, stages, required) ==
  LET fitting == {i \in DOMAIN stages : Weight(p, stages[i], required) <= MaxBytes}
      stage == stages[CHOOSE i \in fitting : \A j \in fitting : i <= j]
  IN  IF fitting = {} THEN NoMessage
      ELSE [name |-> name, distinct |-> p.distinct, session |-> p.session,
            conversation |-> p.conversation, profile |-> ~p.suppress,
            keeps |-> KeptParts(p, stage), depth |-> stage.depth]

\* buildToolCallMessages; a call that failed with a Go error has an exception as well.
ToolCallMessages(p) ==
  <<Build(p, "$mcp_tool_call", CaptureStages, p.weights.required)>>
  \o IF p.failed = "error" /\ autocapture
     THEN <<Build(p, "$exception", ExceptionStages, p.weights.exception)>> ELSE <<>>

OptionalMessages(p) == <<Build(p, "$mcp_unknown_tool", OptionalStages, p.weights.required)>>

--------------------------------------------------------------------------
(* Capturing a call.                                                       *)

NoReport == [built |-> <<>>, queued |-> {}, error |-> FALSE]

EventsInit ==
  /\ autocapture \in BOOLEAN
  /\ toolReport = NoReport
  /\ joined = [c \in Conversations |-> {}]

\* Nothing, if a message cannot be built; else those the queue takes.
Queued(built, accepted) ==
  IF \E i \in DOMAIN built : built[i] = NoMessage THEN {} ELSE accepted

CaptureToolCall(call, ctx, optional) ==
  /\ toolReport = NoReport
  /\ LET full == WithContext(call, ctx)
        p == PrepareToolCall(full)
        built == IF optional THEN OptionalMessages(p) ELSE ToolCallMessages(p)
    IN  \E accepted \in SUBSET DOMAIN built :
          LET queued == Queued(built, accepted)
          IN  /\ toolReport' = [call |-> full, built |-> built, queued |-> queued,
                                error |-> queued # DOMAIN built]
              /\ joined' = [c \in Conversations |->
                   joined[c] \cup {built[i].session : i \in {i \in queued : built[i].conversation = c}}]
              /\ UNCHANGED autocapture

Returned ==
  /\ toolReport # NoReport /\ toolReport' = NoReport
  /\ UNCHANGED <<autocapture, joined>>

EventsNext ==
  Returned \/ \E call \in ToolCalls, ctx \in ToolContexts, optional \in BOOLEAN : CaptureToolCall(call, ctx, optional)

EventsSpec == EventsInit /\ [][EventsNext]_eventVars

--------------------------------------------------------------------------
(* Properties.                                                             *)

\* The messages of a call tell one story: the same user, session and conversation; the
\* user of the call or of its context, or the session where nobody was named; without a
\* person profile exactly where nobody was named or the properties opt out, although the
\* key is reserved and large properties are dropped; payloads go before custom
\* properties and these before $set; one session for a conversation ("A valid
\* ConversationID replaces it with the session derived from the handle"); and "all
\* messages are built before either is enqueued", every loss being an error.
ToolCallStoriesAgree ==
  /\ \A c \in Conversations : \A s, t \in joined[c] : s = t
  /\ toolReport.built # <<>> =>
       LET call == toolReport.call
           events == {toolReport.built[i] : i \in toolReport.queued}
       IN  /\ \A e, f \in events :
                e.distinct = f.distinct /\ e.session = f.session /\ e.conversation = f.conversation
           /\ \A e \in events :
                /\ e.distinct = IF call.distinct # NoName THEN call.distinct ELSE e.session
                /\ e.profile <=> call.distinct # NoName /\ call.optOut # "out"
                /\ "response" \in e.keeps => "parameters" \in e.keeps
                /\ Payloads \cap e.keeps # {} => "custom" \in e.keeps
                /\ "set" \in e.keeps => call.distinct # NoName /\ e.name # "$exception"
           /\ toolReport.queued # {} => NoMessage \notin Range(toolReport.built)
           /\ ~toolReport.error <=> Cardinality(events) = Len(toolReport.built)
=============================================================================
