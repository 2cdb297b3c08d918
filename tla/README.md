# A TLA+ model of clawgod-kirocc

kirocc is an HTTP gateway: it accepts Anthropic `/v1/messages` requests and
answers them from the Kiro (AWS CodeWhisperer) API. This directory holds TLA+
modules that model its core, TLC configurations that check them on small
instances, and proofs of the most important properties for every instance.
`PROJECT.json` lists components, runs, mutants, the map from definitions to
source lines, findings, hazards and theorems. Paths below are relative to
`src/internal/` unless they begin with `src/`.

Run a model with `tlc -config <cfg> <module>`, check a proof with
`tlapm <module>.tla`. A definition commented `\* mutant:` is not part of a
model: it is the same operator with a plausible bug, and substituting it for
the definition that `PROJECT.json` pairs it with must violate the paired
property.

## 1. Inventory

| Component | State it keeps | Operations | Hard because | Correct when |
|---|---|---|---|---|
| Stream session (`app/messages/stream_session.go`, `gate_writer.go`) | buffer, promotion, commitment, first error, finalized, stopped, heartbeat goroutine, activity channel | Write, WriteHeader, Flush, Promote, Discard, WriteFinalError, WriteKeepAlive, Start, Stop | the heartbeat and the client's departure interleave with every call; a callback runs with the lock released; writes can be short or fail | the body fits the header it was sent under; events arrive in order, once; nothing follows the end; Stop joins the heartbeat |
| SSE writer (`respconv/streaming.go`, `streaming_toolsearch.go`) | block index and type, started, visible, the accumulator | HandleEvent, Finish, WriteError, ResetAccumulator, the blocks of a tool search and of a web search | long sequences of kinds of events, across rounds | what is written is a prefix of one well-formed message |
| Request execution (`app/messages/execute.go`, `response.go`, `errors.go`) | attempt, outcome | call, parse, classify, retry once, final error, with `stream` and without | the retry must be invisible; a keep-alive may have committed the response | exactly one conclusion, never of thinking alone |
| Tool search (`app/messages/toolsearch.go`, `toolsearch/`) | round, totals, active and deferred tools, messages | a call, a search, a promotion, a new round; a second run | two loops written twice; state reset between rounds | found tools are offered; rounds make one message; credits are summed |
| Response accumulator (`respconv/accumulator.go` and its neighbours) | text, thinking, what is held back, rune count, stop reason, usage | ProcessEvent, FinalizeStream, BuildResponse | tags and stop sequences split anywhere; cumulative chunks; a budget; usage frames and repeated calls in any order | chunking is invisible; a stop sequence stops the response; usage and calls are reported as the frames say |
| Auth manager (`auth/refresh.go`) | cached credentials, singleflight group; the CLI's database outside | GetToken, InvalidateCache, refresh | callers share a flight; expiry, logins and rejections at any moment | no expired token is returned, no needless refresh, waiters are answered |
| Kiro client (`kiroclient/client.go`, `backoff.go`, `aws_error.go`) | attempt, current token, open body | three attempts with backoff and a token refresher; SearchWeb | every way out of the loop; a client that leaves while it waits | bodies closed; the refreshed token is used; transient failures are retried |
| Event-stream parser (`kiroproto/`, `kiroclient/idle_reader.go`) | tool call in progress, pending Read | frames to events, reassembly, idle timeout | frames lack ids, names and stops; streams break and fall silent | calls are delivered as sent; broken streams are reported; no goroutine is left |
| Message handler (`app/messages/handler.go`, `request.go`) | none beyond a request | authenticate, resolve the model, route | - | the right path, the right credentials |
| Web search (`app/messages/websearch.go`, `kiroclient/websearch.go`) | none | one MCP call, its blocks | the retry loop; a heartbeat while it waits | as the client and the writer |
| Request conversion (`reqconv/`) | none | BuildPayload: normalise, build history, pair and order tool results, place the system prompt | five passes, each of which may disturb what another established; every request converts the whole conversation again | roles alternate; results follow their calls; nothing but superseded results is lost; the history only grows |
| Models and effort (`models/`, `app/messages/effort.go`) | none | Resolve, ResolveEffort | the id echoed to the client is the id of its next request | the echoed id leads to the same model; the effort is one the model accepts |
| Credential store (`auth/db.go`) | the Kiro CLI's SQLite database | ReadCredentials | a read is four queries without a transaction | part of the auth manager here |
| Server, logging, tracing, configuration, token counting, installers | settings | - | - | not a subject of this project |

How they interact: the handler resolves the model, gets credentials from the auth
manager, converts the request, and runs the plain execution, the tool search or
the native web search. They call the Kiro client, which calls the auth manager again on a 403, and give its body
to the event-stream parser, whose callback drives the SSE writer (or, without
`stream`, the accumulator alone). The SSE writer writes through the stream
session, which the heartbeat goroutine shares. The hazards of these
interactions, each at its line, are in `PROJECT.json`.

## 2. Modules

| Module | Models | Composes |
|---|---|---|
| `DownstreamResponse` | abstract: what a request promises about the bytes on its socket | - |
| `StreamSession` | the session, the heartbeat, the client and net/http's response writer | refines `DownstreamResponse` |
| `SSEWriter` | the SSE writer as operators on its record, and what a well-formed message is | - |
| `StreamingMessages` | one request with its retry, with `stream` or without, or a native web search | `SSEWriter`, an instance of `StreamSession` |
| `ToolSearch` | the tool-search loops, streaming and not | `SSEWriter` |
| `AuthManager` | the credential cache and its flight | - |
| `KiroClient` | the retry loop of requests that share the auth manager | extends `AuthManager` |
| `EventStream` | ParseStream, tool-call reassembly, the idle reader | - |
| `Accumulator` | deltas, thinking tags, stop sequences, the budget, usage, tool calls, the stop reason | `Filtering` |
| `RequestConversion` | the messages of a request to the history and current message of a payload, as operators | `Filtering` |
| `Models` | the model tables, Resolve and the effort, as operators | - |
| `Conversation` | a client that talks on, and is converted and resolved at every request | `RequestConversion`, `Models` |
| `MC...` | the values and bounds of a run | the module of that name |
| `Filtering` | the elements of a sequence that lie in a set, as a recursive function; a sequence in any order, as `encoding/json/v2` writes a map | - |
| `...Proofs` | theorems and their lemmas | the module they are about, and the proofs of what it composes |

Correspondence. A critical section of a mutex is one step; so is a step of a
goroutine between two points where another can observe it.

* **StreamSession.** `s` is the `streamSession` struct with what net/http made of
  the calls (`ctype`, `sent`, `out`); helpers whose Go names end in `Locked` are
  operators from record to record. `hb` is the heartbeat's position, `call` that
  of the request goroutine inside a method with more than one critical section
  (WriteFinalError's callback, Stop). A write puts out all of its chunk, a part
  (`Cut`) or nothing, and a flush may fail. `hist` is a history of the events
  offered and dropped.
* **SSEWriter.** `w` is the writer with the accumulator reduced to what it can
  hand over: which of thinking and text an event has a delta of, whether it
  stops, whether text is held back. Which deltas those are is `Accumulator`'s
  subject. `w.todo` is the list of calls a handler makes on the session.
* **StreamingMessages.** `req.pc` is the place in executeWithRetry and in
  handleStreamingResponse, handleNonStreamingResponse or runWebSearch. Every
  Write, Flush and Promote is a step of its own, so that the heartbeat and the
  client may act in between. A request without `stream` has no session and
  answers in one write.
* **ToolSearch.** `o` holds the locals of the orchestrator, `tools` the
  `toolsearch.Context`, `w` the writer (without `stream` only its accumulator
  counts), `session` what is buffered and written. Handlers are atomic: the
  concurrency of the session is checked in the two modules above. A search finds
  any deferred tools, with repetition, or fails. A block index is bounded by
  `MaxIndex`, which suffices for what the rounds can open (`IndicesSuffice`).
* **AuthManager.** `db` is the CLI's database, `flight` the function that
  singleflight runs, `caller` each goroutine. A database read and a refresh are
  steps at which everything else may happen; a rejected token is any that the
  environment chooses. The specification is `AuthSpec`, of `AuthInit` and
  `AuthNext`, so that `KiroClient` can extend the module.
* **KiroClient.** `post[c]` is the loop of one request; its token calls are the
  auth manager's own actions. A call is either `generate` or `search`.
* **EventStream.** `wire` is what the next Read returns, `reader` and `ch` the
  goroutine and channel of the idle reader, `acc` the `toolUseAccumulator`.
  A frame arrives whole or in two parts, or is malformed; its bytes are not
  modelled. `calls` is a history of what Kiro meant.
* **Accumulator.** A text is a sequence of characters and a tag a short one; the
  code's overlap search (a KMP table) and its partial-suffix search are
  translated, and compared with their definitions. Usage frames carry small
  counts. A tool input is a sequence of members and blanks; without a member, or
  with one twice, it is not JSON. normalizeJSON reads the numbers as float64
  (`Rounded` says which of them become equal) and marshals a map, whose members
  `encoding/json/v2` writes in any order: `normalizeJSON` is the set of what it may
  return, and the properties hold for every choice. `heard` is a history of the frames for the
  reference definitions. The specification is `AccSpec`, of `AccInit` and
  `AccNext`, so that one module can extend this one and `EventStream`.
* **RequestConversion.** A text is a sequence of items, one for each piece that a
  block brought into the conversation or that the proxy adds: the items of a call
  are the members of its input, those of a result its texts. How pieces are joined
  and the heading of a tool block that reads as text are left out. Of a block of
  unknown type the text has one item, its type and name, and not what it holds. A
  call that is turned into text has its members in any order (`Marshallings`). A
  message id is what the code hashes.
* **Models.** A model id is a name and its mark, `[1m]` or nothing. The table is
  the code's; names that do not begin with `claude-` are the constant `Foreign`.
* **Conversation.** `msgs` are the client's messages, `answer` what its last
  request was resolved to. The payloads that a request with any prefix of the
  conversation may send (one for each marshalling) are an operator, so that two
  requests can be compared.

## 3. Runs

| Run | Checks and shows | Bounds |
|---|---|---|
| `stream_session` | framing, order, Stop, the refinement of `DownstreamResponse`, the first keep-alive, one pending signal at most | three events, each written once (so that they identify the bytes): two buffered and one after promotion; two keep-alives, one on either side of a promotion |
| `streaming_messages` | one well-formed message, one conclusion, nothing visible kept back, for **every** input the accumulator can produce, with `stream`, without it, and for a web search | three events in both attempts together (two block switches, or events in both attempts), eight block indices; no heartbeat |
| `streaming_heartbeat` | the same request with the heartbeat: the retry ignores commitment, keep-alives last through it, the session is used as `StreamSession` allows, every request ends | two events, five block indices, one keep-alive, one input of each effect |
| `tool_search` | found tools are offered, rounds make one message, one answer, credits | two tools deferred or not and referred to or not, three rounds (as the code), two events in the request, two results, at most one credit per call, eleven block indices |
| `tool_search_held` | **violated**: finding 3 | one tool |
| `auth_manager` | valid credentials, no needless refresh, waiters answered | two callers, three tokens: initial, refreshed, and one from a login |
| `auth_rejected_token` | **violated**: finding 1 | the same |
| `kiro_client` | bodies, tokens, retries, cancellation, `AuthManager` refined | one request that makes calls, one other user of the credentials, two tokens, three attempts (as the code) |
| `event_stream` | tool calls as meant, clean ends, callback's stop, no goroutine left | three frames: two calls, or one call of three frames, with text in between |
| `translation`, of requests | alternation, pairing, nothing lost, stable history; the echoed model id, the effort | one client that says up to four messages of fourteen kinds (two results of one call and a call of two members among them), with and without tools and a system prompt; one that asks for every model of the table and two unknown ones with every flag and three sets of mappings, and goes on with the ids it is told |
| `translation`, of responses | the shortest delta, chunking, stop sequences, the counter; usage and calls as heard | texts of five characters of a four-letter alphabet with two tags of length two and one event without text (section 4 has the proofs for any text); two runes per token (four in the code) so that a budget fits the text; three usage frames, or three calls of two ids, three names and six inputs |
| `accumulator_limits` | **violated**: finding 2 | texts of five characters, one usage frame or call |
| `accumulator_overlap` | **violated**: finding 4 | texts of four characters |

`MCTranslation` checks `Conversation` and `Accumulator` in one run: neither reads
the state of the other, so one is checked while the other rests in an initial state.

Why these are enough: each hazard listed for a component needs at most the
number of actors and events named above. A third caller of `GetToken` joins a
flight like the second; a fourth event of a message repeats a block switch; a
third tool is found like the second. The normaliser looks at a message and its
neighbours, so that four messages have every pair of neighbours on either side
of a boundary. Where that argument is the point, it is replaced by a proof
(section 4).

Every module with variables that change concurrently or over many steps states a
type invariant `TypeOK`, which its instance satisfies (put `INVARIANT TypeOK` into
the configuration to see it). Only the session's is a property of a run, because a
bug of the code would break it: its signal channel holds one signal. The type
invariants of the session, the auth manager, the client, the event stream, the
accumulator, tool search and the conversation are proved, since the other proofs
rest on them.

Deadlock checking is off (`CHECK_DEADLOCK FALSE`) where the modelled goroutine
really ends: the session after Stop, a finished request, a parsed stream, a
finished text, a conversation of full length.

**Fairness.** Properties that say "eventually" are checked under:
* `StreamSession`: weak fairness of each heartbeat step and of the steps inside
  Stop. Goroutines run, timers fire, and a write ends because the session arms a
  30 second write deadline. The request goroutine need not call anything.
* `StreamingMessages`: weak fairness of the request goroutine and the heartbeat,
  except while the upstream call is out and the client has not left (`Waits`): the
  body of an error or of a web search has no idle timeout. Every other place where
  the goroutine blocks has a bound: the idle reader, the write deadline, the
  cancelled context. Kiro may send anything or break off. `RequestEnds` names the
  exception.
* `AuthManager` (`FairAuthSpec`): a caller inside GetToken runs, and a flight ends, because its
  own context has a 35 second limit.
* `EventStream`: the parser, its reader and its timer run; a Read of a closed
  body returns, as net/http promises. Kiro need not send.
* `KiroClient` has none: an error body or a web-search body is read without a
  timeout, so that a call may wait for as long as its client stays.
  `CancelledNeverWaits` states the part that needs no fairness: once the client
  has left, the call's next step is enabled.

**Assumption about Kiro** (`EventStream`): the frames of one tool call are
contiguous, a call is stopped at most once, and calls without ids are delimited
by something. Nothing in the repository says what Kiro guarantees; outside this
assumption the reassembly cannot work.

## 4. Proofs

| Theorem | States | For every | Assumptions |
|---|---|---|---|
| `StreamSessionProofs!TypeCorrect` | `TypeOK` | set of events, number of keep-alives | (S) |
| `StreamSessionProofs!HeaderMatchesBody` | `FramingMatchesHeader` | the same | (S) |
| `StreamSessionProofs!StopJoins` | `StopJoinsHeartbeat` | the same | (S) |
| `StreamSessionProofs!HeartbeatLasts` | a started heartbeat runs until Stop, an error or the end | the same | (S) |
| `StreamSessionProofs!LossHasReason` | a session is lost only with its context or by Stop | the same | (S) |
| `StreamSessionProofs!RefinesResponse` | `ImplementsResponse` | the same | (S) |
| `StreamSessionProofs!DeliveryInOrder` | `DeliveredInOrder` | the same, and any number of events | (S) |
| `KiroClientProofs!AuthTypeCorrect` | `AuthTypeOK` | set of callers, number of tokens | (A) |
| `KiroClientProofs!CredentialsAreValid` | `ReturnsValidCredentials` | the same | (A) |
| `KiroClientProofs!NoNeedlessRefresh` | `RefreshesOnlyWithoutToken` | the same | (A) |
| `KiroClientProofs!NoWaiterIsLost` | callers wait only for a flight that will answer them | the same | (A) |
| `KiroClientProofs!ImplementsAuth` | `UsesAuth` | set of requests and other callers, tokens, attempts | (K) |
| `KiroClientProofs!TypeCorrect` | `TypeOK` | the same | (K) |
| `KiroClientProofs!NoBodyLeaks` | `BodiesClosed` | the same | (K) |
| `KiroClientProofs!RefreshedTokenIsSent` | `RetriesSendValidToken` | the same | (K) |
| `KiroClientProofs!GivesUpOnlyForReason` | `PersistsWhileTransient` | the same | (K) |
| `ResponseProofs!TypeCorrect` | `TypeOK` | number of frames | (E) |
| `ResponseProofs!CallsReachCallback` | `ToolCallsAsMeant` | the same | (E) |
| `ResponseProofs!CleanEnd` | `CleanEndLosesNothing` | the same | (E) |
| `ResponseProofs!StopEndsParsing` | `StopIsFinal` | the same | (E) |
| `ResponseProofs!AccTypeCorrect` | `AccTypeOK` | set of requests, of characters, tags, what Kiro may send | (R) |
| `ResponseProofs!DeltaIsAlwaysShortest` | `DeltaIsShortest` | the same | (R) |
| `ResponseProofs!BudgetAlwaysCounts` | `BudgetCounts` | the same | (R) |
| `ResponseProofs!ChunksAlwaysInvisible` | `ChunksAreInvisible` | the same | (R) |
| `ResponseProofs!StopsAlwaysFound` | `StopSequencesFound` | the same | (R) |
| `ResponseProofs!AlwaysReportedAsHeard` | `ReportedAsHeard` | the same | (R) |
| `StreamingMessagesProofs!UsesTheSession` | `UsesSession` | set of inputs, number of events, of keep-alives | (M) |
| `StreamingMessagesProofs!HeartbeatKeepsRunning` | `HeartbeatThroughout` | the same | (M) |
| `StreamingMessagesProofs!OneMessageOnTheWire` | `OneWellFormedMessage` | the same | (M) |
| `StreamingMessagesProofs!NothingVisibleIsHeld` | `VisibleOutputDelivered` | the same | (M) |
| `StreamingMessagesProofs!EndsInOneWay` | `ConcludedOnce` | the same | (M) |
| `StreamingMessagesProofs!ThinkingIsNotAnAnswer` | `NoThinkingOnlyMessage` | the same | (M) |
| `StreamingMessagesProofs!HeaderMatchesBody` | the session's `FramingMatchesHeader`, of any request | the same | (M) |
| `ToolSearchProofs!SearchTypeCorrect` | `TypeOK` | set of tools and of inputs, number of rounds, results, credits, events | (T) |
| `ToolSearchProofs!FoundToolsAreAlwaysOffered` | `FoundToolsAreOffered` | the same | (T) |
| `ToolSearchProofs!RoundsAlwaysMakeOneMessage` | `RoundsMakeOneMessage` | the same | (T) |
| `ToolSearchProofs!AlwaysAnsweredOnce` | `AnsweredOnce` | the same | (T) |
| `ToolSearchProofs!CreditsAlwaysSummed` | `CreditsSummed` | the same | (T) |
| `ConversationProofs!ConversationTypeCorrect` | `TypeOK` | set of clients, messages, environments and flags, length | (C) |
| `ConversationProofs!TurnsAlwaysAlternate` | `TurnsAlternate` | the same | (C) |
| `ConversationProofs!ResultsAlwaysFollowCalls` | `ResultsFollowCalls` | the same | (C) |
| `ConversationProofs!HistoryIsAlwaysStable` | `HistoryIsStable` | the same | (C) |
| `ConversationProofs!EffortIsAlwaysHonoured` | `EffortIsHonoured` | the same | (C) |

The assumptions are those the modules name: (S) `ChunksDiffer`,
`HeartbeatOnIsBoolean`, `MaxKeepAlivesIsNat`; (A) `MaxIssuedIsPositive`; (K) that,
`ClientsAreCallers` and `MaxAttemptsIsPositive`; (E) `MaxFramesIsNat`; (R)
`TagsAreTexts` (no tag is empty), `ThoughtsDiffer`, `RunesPerTokenIsPositive`,
`RequestsAreTyped` and `NamesWereLonger` (a name that was shortened is not itself the
short form of another: Shorten makes names of 64 characters of longer ones); (M) those of
`StreamingMessages` and `SSEWriter`, of which one is about the bounds of the model:
`IndicesSuffice` says that there are as many block indices as a message of
`MaxEvents` events can use (an event opens at most two blocks). In the code an
index is an `int`, and nothing bounds it. (T) are those of `ToolSearch` and
`SSEWriter`: the set of tools is finite, the bounds are natural numbers, there is at
least one round, and there are block indices for what the rounds can open. (C) are
those of `Conversation`: the messages are messages, and none is without a block
(`SaysSomething`, as a message with string content has one); and the calls of one
message have ids of their own (`CallsHaveOwnIds`). The last is a rule of the Messages
API that the gateway does not check. Only ResultsAlwaysFollowCalls uses it: with two
calls of one id in a message, one result would have to stand at the places of both.

*StreamSession.* The type invariant is proved first, one lemma per helper and
then one step per action. `FramingMatchesHeader` is not inductive: when
WriteFinalError chooses JSON it looks at `committed`, `promoted` and `firstErr`,
not at the wire. `Framed` says that the wire is untouched unless one of those
marks, or `finalized`, says otherwise, and that whoever could send a header had
installed the SSE headers; `HeartbeatHasHeaders` carries that over to the
heartbeat, and `CallbackPromoted` to the window in which WriteFinalError has
released the lock. `StopMarks` is what StopJoins needs: Stop marks the session
before it waits, and Launch looks at the mark. HeartbeatLasts adds `CloseMarks`:
only a session that is marked has been closed.

*Refinement.* `StepEffect` sums up what any step does to the wire: it keeps what
is there, and adds nothing, events and comments, a truncated write that sets
`firstErr`, or an error. With `ErrorFrameEnds` (an error frame on the wire means
that WriteFinalError is in its callback or has finished) every step maps to a step
of `DownstreamResponse` or a stutter. The invariant is needed for the window in
which the callback has written its frame and `finalized` is not yet set.

*Delivery.* `DeliveredInOrder` is about `Filter(out, Payload)`, the events among
the chunks on the wire. `Delivers` strengthens it: the events on the wire, followed
by the buffer, are what was offered, or, after a failed write, the events on the
wire begin what was offered. `FilteringProofs` shows what the recursive function
`Filter` does with `Append`, `\o` and a truncated write. The installed provers
cannot instantiate the library's induction theorems; where these lemmas need
induction, it is done by the least element of a set of counterexamples.

*AuthManager.* A caller's or a flight's set of tokens that had expired when it
began is a subset of those expired now (`ExpiredBefore`), so a token that is
valid now was valid then; what the flight is about to hand out had not expired
when it began (`FlightIsFresh`), and between its look at the cache and its end
the cache holds no valid token, because only the flight fills it
(`CacheEmptyInFlight`). NoNeedlessRefresh follows from the last.

*KiroClient.* That the loop uses the auth manager is proved action by action, with
no invariant; so everything proved of AuthManager holds of the credentials here,
and its invariant is part of this one. The rest is local to a request:
`ClientInv` relates the loop of one request to its call on the auth manager and to
whether its client has left; a step of another request, or of the credentials,
leaves it alone. It says at every place of the loop which body is open and
that the token is the refresher's once there has been one (`TokenFromRefresher`).

*EventStream.* The invariant relates four things: the frames Kiro sent so far, the
call in progress in the accumulator, the calls it meant, and the events the
callback got. While no call is open, the delivered calls are all that were meant;
while one is, all but the last, and the accumulator holds its id, name and the input
heard so far. The assumptions on the frames that it needs are in the
environment's actions (section 3), where the runs use them too.

*Accumulator.* The type invariant takes one lemma per handler, which the budget's
reuse. `DeltaIsShortest` is about a program with two loops and a table:
`Greatest` says what the failure function must be at every place (the longest
proper border of that prefix), `Table` that the recursion computes it, by the least
place where it would not, and the matching loop then keeps the longest suffix of
what it has read that is a proper prefix of the new text; `OverlapCompletes` and
`CompletesOverlap` turn overlaps into deltas. A whole match is never kept, which is
finding 4, and why the property leaves out a previous text that ends in the new one. For `BudgetCounts` the invariant is `AccIInv`: the types and
`Tally`, that until the accumulator stops its count is what it delivered and below
the budget; `Keeps` is that of one handler.

`ChunksAreInvisible` and `StopSequencesFound` compare the accumulator with `Split`, a
parser that has the whole text before it. `ReadTo` is the state `Split` has after so
many characters, and `Parsed` says that what the tag parser has made of the text, up
to the part it holds back, is what `Split` makes of it, whatever text may follow. The
"whatever" is the point: the parser holds back every beginning of a tag, so that no
continuation can change what it has decided (`TurnReads` for one turn of its loop,
`ParseReads` for the loop). What it lets through, a text `T` and a thinking `H`, goes
on to the limits. `Whole` says that the accumulator, until it stops, has delivered
or holds back all of `T`, that no stop sequence occurs in it, and that it holds
back as much as one may have begun in (`StopFinds`); once it has stopped at a
stop sequence, `CutAt` says that what it delivered ends where the sequence
begins and holds none that is listed before it. `Follows` is the conjunction, for some `T` and `H` that `Split` begins with.
The invariant `Told` is `Following` until the response is finished and `Ended`
after (`FlushSays` and `FinalizeSays` for the end); it is inductive relative to
`AccIInv`.

`ReportedAsHeard` has two halves. For the usage, `Usage` says of every field what the
newest frame of its kind says (`Newest`, `NewestPrice`), and which kinds have come;
`HeardNext` is how one more frame changes that, and there is one lemma per kind of
frame. That an event of text or a tool call changes nothing of it is part of `Keeps`.
For the calls, the invariant is small, that each has the client's name (`Named`) and
that there is a stop reason only after a local stop (`ReasonIfStopped`), and the work is in
`DeduplicateToolCalls`: both its loops collect what is not yet there (`Collects`),
the first lists every id once (`Lists`), the second keeps one call for each name and
input (`Keeping`), each by induction over the loop, and so every call has one that
stands for it (`Stand`). All of it is for any choice of what normalizeJSON returned
for each id, so that two calls are surely merged only when their inputs can be
written in one way. The invariant `Reported` is inductive relative to `AccIInv`.

*StreamingMessages.* Here every Write, Flush and Promote of the request is a step
between which the heartbeat and the client act, and the theorem is that each is a
step `StreamSession` allows. `Place` says for every place of the request which
session state can go with it: whether the headers are installed, whether the
heartbeat has been started, whether the session is closed, and what the writer
still has to call. `SSEWriterProofs` has one lemma per method of the writer, saying
that it appends legal calls and stays within the block indices (`Within`). A
request without `stream` leaves the session as it was. With the refinement, the
session's theorems apply to every request: HeaderMatchesBody is one line.

*One message.* `OneWellFormedMessage` speaks of the wire, where the writer's
knowledge of the message (a started flag, the open block, the next index) is not
visible. The invariant therefore speaks of a story: the events offered to the
session so far, followed by those in `w.todo`. `Script` says that this story is
always well formed (`Told`), and, as long as more may follow, that the writer's
fields agree with it (`Speaks`): whether it has begun, how many blocks it has
opened and closed, and that every event is of the writer's attempt. Each method
of the writer keeps that (`SSEWriterProofs`). A refused call makes the rest of the
story untold; then `Speaks` is given up, and `Script` says that nothing more is
offered. The retry of an empty attempt starts a new story, which is sound because
an unpromoted session has offered nothing that Discard does not forget
(`StreamAt`). The wire is the beginning of the story by `DeliveryInOrder`'s
invariant, and a beginning of a well-formed message is well formed
(`BeginningTells`). An error frame is written only after the writer has closed its
block, and ends what is written (`ErrorAt`).

*Visible output.* `VisibleOutputDelivered` joins three goroutines' views: the
accumulator has text, the session is promoted, the socket is flushed. `ShowAt`
follows the promise from one to the next: a writer with text or a tool call has
called OnVisibleOutput (`Shown`, one lemma per method of the writer); then that call
is still in `w.todo`, or the session is promoted or lost (`Promising`); promotion
and loss are for good, whatever the heartbeat and the client do, and a promoted
session buffers nothing and has nothing unflushed except between a write and its
flush (`Flushed`). When the request waits for the upstream, `w.todo` is empty and
the flush was made.

*The conclusion.* `ConcludedOnce` needs two facts the wire does not show. A session
is lost only when its context is cancelled or when Stop was called
(`LossHasReason`, proved in `StreamSessionProofs`): every failed write cancels the
context. So while the client is there, no call of the request is refused before
its end, and no branch for a lost session is taken (`LossMeansGone`). And the story of a
request that is about to conclude has its message_stop (`EndAt`): Finish, a local
stop and a web search end the message they tell, one lemma per method of the
writer. Then the last step delivers what is left and there is no error on the
wire, or reports one error and there was none before (`ReportsOne`); an error after
a finished message is excluded by `ErrorAt` for an event stream, and by the framing
theorem for a JSON body, which is all that is on the wire. A web search concludes
without looking at the session: its message has text, hence was promoted
(`SearchAt`). Without a stream only the answer ends a request (`BodyAt`).

*The tally.* `NoThinkingOnlyMessage` compares the blocks on the wire with the flags of
the accumulator, which decide whether an attempt was empty. Three facts join them.
The blocks of the story, on the wire, in the buffer or still in `w.todo`, agree with
the flags (`Tallies`): thinking in the story was seen by the accumulator, and a
writer that has called OnVisibleOutput has opened a block of text or a tool call by
the time its method returns. While an event is being written only the calls still
to be made can hold that block, so `TallyAt` weakens the agreement once a call was
refused. A session is promoted only after OnVisibleOutput, or by the conclusion of a
message that is not an empty end of turn (`PromotedAt`), and whoever finishes a
message has met the end of the stream or a local stop (`LocalAt`). As nothing of an
unpromoted session is on the wire, a message that ends there has visible output or a
reason to have none. A body without `stream` is built after the same test
(`AnswerAt`); before the first event, the accumulator has seen nothing (`EarlyAt`).

*Tool search.* The invariant has three parts. `OrchestratorInv` is about the loop and
the tool context: a tool is active in one place or deferred (`Split`, which
PromoteTools keeps for any list of names, by induction over the list), and what
was found is active. `WriterInv` says that what the session has let out and what it
buffers are together the story that the writer has told, and that this story is
under way, complete, or followed by an answer; it uses SSEWriterProofs' lemmas
again, and adds those of the blocks of a search. A new round keeps the story and
resets only the accumulator, so that the rounds make one message. A search opens
two blocks and an event at most two: `Room` is the index they may have reached so
far. `CreditsInv` balances
the credits: those logged, those in the totals and those of the call at hand, until
they are added to the totals, are all that were metered.

*Conversation.* The state is small, and all of the proof is about operators. The
recursive functions `Merge` and `Alternate` are described by their steps: a pass of
length k is a function with `f[0]` the start and `f[n]` the step from `f[n - 1]`; it
exists and is unique by induction on k, and what every step keeps holds of the
result. `normalizeRoles` makes every role one of two, ensureStartsWithUser and
`Alternate` then establish alternation (`Roled`, `Alternating`). Stability of the history
is that a pass over a longer conversation begins with the pass over the shorter one
(`Begins`); the last message of a pass may still be merged with a following message of
the same role, which is why the property is about conversations that go on with an
answer. For the pairing, `Paired` says of adjacent messages that the results of one
have their calls in the one before. The pass that turns unpaired results into text
establishes it (`JudgedPaired`), and each later pass keeps it: `MergePaired` (merging
stops at messages with tool blocks), `StartsPaired`, `AlternatePaired` (a filler is only put
between messages that have nothing to pair). ReorderToolResults then puts the
results in the order of the calls (`ReorderFollows`), and building the entries keeps
both (`Following`). The payload is built from the messages as marshalled: these have
the roles, types and ids of the client's (`MarshalledMessages`), which is all that
alternation and pairing rest on; stability needs that nothing is marshalled
(`NothingMarshalled`). The invariant is `TypeOK /\ AnswerOK /\ OwnCalls`.

*Only model-checked*:
* liveness and `ENABLED` (`TLAPS` proves neither): `RequestEnds`, `WaitersAnswered`,
  `ReturnsWithoutReader`, `IdleClientIsKeptAlive`, `CancelledNeverWaits`;
* `NothingIsLost`: it needs the places of every item through every pass, and the items
  of a message said first are told from those said later only by their numbers;
* `EchoKeepsModel`: it is false for some mapping tables (one that sends the name of a
  Kiro model elsewhere can shadow the id that is echoed), and so it is
  checked for the table of the code with the runs' mappings.

## 5. Findings

1. *auth_rejected_token.* After a 403 the token refresher can return the token
   that was rejected: the database is read again, and its token is not refreshed
   unless it has expired (`auth/refresh.go:174`, against the comment at
   `src/cmd/kirocc/main.go:136`).
2. *accumulator_limits.* After a local stop, what was held back as a possible tag
   is still delivered, and so is the text of the event whose thinking exhausted
   the budget (`respconv/accumulator.go:143`, against `src/README_EN.md:680`).
3. *tool_search_held.* A round of a streaming tool search that ends with a search
   is never finalized: text it holds back is dropped by ResetAccumulator
   (`respconv/streaming.go:375`, against `respconv/finalize.go:17`).
4. *accumulator_overlap.* A new text that is an ending of the last one has no
   overlap, or a shorter one, and is delivered again
   (`respconv/chunk_delta.go:66`, against its comments at `:28` and `:64`).

Observed while modelling, without a run of their own:
* When one event completes two stop sequences, the first of the list wins, not the
  first of the text (`respconv/stop_sequence.go:14`): with "x" and "/<" the event
  "/<x" stops at "x" and delivers "/<", although `src/README_EN.md:680` says that
  stop sequences are enforced.
* `normalizeJSON` marshals a map with `encoding/json/v2` and without its
  Deterministic option: two calls with the same name and the very same input of two
  members may both be reported (`respconv/tool_calls.go:60`, against `:14`, "remove
  exact duplicates"). It also makes every number a float64: two calls whose inputs
  differ in an integer beyond 2^53 are taken for one (`:56`, against `:54`,
  "normalize whitespace").
* For the same reason a call of several members that becomes text, in a request
  without tools, is written in another order by each request, and the message id
  that is hashed from it changes (`reqconv/message_normalizer.go:49`, against
  `reqconv/history.go:57`, "messageId must be stable across requests").
* Of two results of one call in a message only the last is sent
  (`reqconv/tool_results.go:70`).
* `src/README_EN.md:406` announces exponential backoff for 403; the 403 branch of
  the client retries at once.
* Text held back as a possible tag or stop sequence is delivered after a tool call
  that follows it in the stream.
* The second upstream call of a request, and every round of a tool search, starts
  with the token of the first, which a 403 may have replaced meanwhile.
* `kiroproto/frame.go:26`: a connection cut exactly between two frames counts as
  the end of the message, and a tool call in progress is delivered with the input
  received so far.
* The tool-search loops differ: with `stream` the first ToolSearch call of a round
  counts and what follows it is dropped, without it the last counts and what
  follows is delivered; an error after the call ends the request or only the
  round; the usage reported to the client is that of the last round or of all.
* Each tool-search round has the whole of max_tokens; a client's tool call in an
  earlier round, followed by a text round, ends with the stop reason `end_turn`.
* Tool search does not retry the invalidState reasons that plain requests retry.
* A flight that read the database before InvalidateCache answers callers after it
  and refills the cache (`auth/refresh.go:136`), although the doc at `:149` says
  that the next GetToken re-reads.
* A local stop: with `stream` the body is closed at once, so that trailing usage
  and credits are never heard and the usage reported is an estimate; without it
  the rest is read, and an error in that rest makes the whole answer an error.
* Repeated tool calls are removed without `stream` only.
* A tool result in a message of a role that Kiro does not know is judged before
  the role is normalised: it stays a tool result even without a call before it
  when it is not in a user message (`reqconv/message_normalizer.go:70`).
* The call of a search that the gateway ran is sent back as a tool call without a
  result (`reqconv/history.go`), since results in assistant messages are not read.
* Assistant messages with equal text and calls get equal message ids.
* A name that is not of the table and not `claude-...` falls back to the default
  model, and the window of the echoed id differs with and without the 1M header.
  The comment at `models/models.go:134` says that the Kiro model "always comes
  from mapping tables"; an unknown `claude-...` name is passed on.
* The echoed id can lose or gain thinking: an alias whose mark asks for thinking is
  echoed without asking for it, and a mapping of the environment to an always-1M
  model is echoed with a mark that turns thinking on.

## 6. Not modelled

Of request conversion: the definitions of tools (shortened names, schema
sanitising, cache points) and the environment state. Of the models: the parsing of
KIROCC_MODEL_MAPPINGS and the list of models. Of the web search: the extraction of
the query and the summary text. Of the credential store: the queries and the key
variants. Request decoding with its refusals, count_tokens and the debug capture
answer before, beside or after a request and share no state with it. The signature
and redacted content of thinking are carried along unchanged. The content of
schemas, search ranking, JSON, HTTP headers and the byte layout of frames are data
that no property here depends on. The server, logging, tracing, configuration,
token counting and the installers keep no protocol state. A response writer
without write deadlines is not modelled: a client that stops reading would block
the session for as long as it likes.

## 7. Plan

Order of work, the most important behaviour first.

Done: the session, the writer and the request with and without streaming; the web
search; the auth manager; the client's loop; the event stream; the accumulator;
tool search; request conversion, models and effort over a conversation; the
theorems of section 4.

Next, models: the read of the credential store as four queries, with a login in
between; tool names (shortened names stay distinct and are restored).

Next, proofs: `NothingIsLost`; `EchoKeepsModel` for the mapping tables for which it
holds.
