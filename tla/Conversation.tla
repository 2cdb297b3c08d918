----------------------------- MODULE Conversation -----------------------------
(***************************************************************************)
(* A conversation of a client through the gateway, as HandleMessages       *)
(* (internal/app/messages/handler.go) turns its requests into payloads.    *)
(* The Messages API is stateless: every request carries all messages, so a *)
(* conversation grows at the client, and is converted anew each time.      *)
(*                                                                         *)
(* The payload and the model of a request are functions of it: see         *)
(* RequestConversion and Models.  The client may say anything in any order *)
(* and ask for any model, or go on with the id that the last answer named. *)
(***************************************************************************)
EXTENDS RequestConversion, Models, FiniteSets

CONSTANTS
  Client,       \* kinds of clients; the rest says for each kind what it may do
  Environment,  \* the tools and the system prompt it sends, and the mappings of
                \* KIROCC_MODEL_MAPPINGS, as [tools, system, overrides]
  Said,         \* the messages it says: [role, string, blocks], items 1, 2, ...
  Asked,        \* the model ids it begins with
  Flags,        \* [context1M, thinking, effort]: header, thinking.type, effort
  MaxMessages   \* bound: messages of its conversation

ASSUME ForEveryClient ==
  /\ DOMAIN Environment = Client /\ DOMAIN Said = Client
  /\ DOMAIN Asked = Client /\ DOMAIN Flags = Client
ASSUME MaxMessagesIsPositive == MaxMessages \in [Client -> Nat \ {0}]
ASSUME SaysMessages == \A c \in Client : Said[c] \subseteq Message
ASSUME SaysSomething == \A c \in Client : \A m \in Said[c] : m.blocks # <<>>


(* The calls of one message have ids of their own.                         *)
OwnIds(m) ==
  \A j, k \in DOMAIN m.blocks :
    IsToolUse(m.blocks[j]) /\ IsToolUse(m.blocks[k]) /\ m.blocks[j].id = m.blocks[k].id
      => j = k
ASSUME CallsHaveOwnIds == \A c \in Client : \A m \in Said[c] : OwnIds(m)

VARIABLES
  client,   \* who talks
  env,      \* with which tools, system prompt and mappings
  msgs,     \* the messages of the client
  sent,     \* how many of them the last request had
  model,    \* the model the client asks for
  answer    \* what the last request was resolved to

vars == <<client, env, msgs, sent, model, answer>>

NoAnswer == [flags |-> {}]

Init ==
  /\ client \in Client
  /\ env \in Environment[client]
  /\ msgs = <<>>
  /\ sent = 0
  /\ model \in Asked[client]
  /\ answer = NoAnswer

(* Items name the message they came with: ten times its place, and piece.  *)
ItemizedBlock(b, place) ==
  [b EXCEPT !.text = [n \in DOMAIN b.text |-> 10 * place + b.text[n]]]

Itemized(m, place) ==
  [m EXCEPT !.blocks = [k \in DOMAIN m.blocks |-> ItemizedBlock(m.blocks[k], place)]]

Says ==
  /\ Len(msgs) < MaxMessages[client]
  /\ \E m \in Said[client] : msgs' = Append(msgs, Itemized(m, Len(msgs) + 1))
  /\ UNCHANGED <<client, env, sent, model, answer>>

(* parseAndValidateRequest refuses a request without messages.             *)
HandleMessages(flags) ==
  LET r == Resolve(model, flags.context1M, env.overrides)
  IN  /\ msgs # <<>>
      /\ sent' = Len(msgs)
      /\ answer' = [asked    |-> model,
                    flags    |-> flags,
                    resolved |-> r,
                    effort   |-> resolveEffort(r.kiro, flags.effort,
                                               r.thinking \/ flags.thinking)]
      /\ UNCHANGED <<client, env, msgs, model>>

SendsRequest == \E flags \in Flags[client] : HandleMessages(flags)

(* The client goes on with the id the answer named.                        *)
AdoptsModel ==
  /\ answer # NoAnswer
  /\ model' = answer.resolved.id
  /\ UNCHANGED <<client, env, msgs, sent, answer>>

Next == Says \/ SendsRequest \/ AdoptsModel

Spec == Init /\ [][Next]_vars

----------------------------------------------------------------------------
(* Properties.                                                             *)

(* Who talks and in which environment never changes; a request had no more *)
(* messages than there are.                                                *)
TypeOK ==
  /\ client \in Client
  /\ env \in Environment[client]
  /\ msgs \in Seq(Message)
  /\ Len(msgs) <= MaxMessages[client]
  /\ sent \in 0..Len(msgs)

(* What a request with the first n messages may send.                      *)
PayloadsOf(n) ==
  {BuildPayload(w, env.tools, env.system) : w \in Marshallings(SubSeq(msgs, 1, n), env.tools)}
Payloads   == PayloadsOf(Len(msgs))
Entries(p) == Append(p.history, p.current)

(* The last request had all messages: it sent one of Payloads.             *)
JustSent == msgs # <<>> /\ sent = Len(msgs)

(* Whatever roles the client uses in whatever order, the history begins    *)
(* with the user, alternates, and ends with the assistant before the       *)
(* current message, which is never empty (message_normalizer.go, Normalize *)
(* and build_payload.go, splitMessages).                                   *)
TurnsAlternate ==
  JustSent => \A p \in Payloads :
    LET e == Entries(p)
    IN  /\ \A i \in DOMAIN e : e[i].role = IF i % 2 = 1 THEN "user" ELSE "assistant"
        /\ Last(e).role = "user"
        /\ Last(e).content # <<>> \/ Last(e).results # <<>>

(* Every tool result of the payload answers a call of the entry just       *)
(* before it, and results come in the order of their calls, however the    *)
(* client orders, splits, repeats or interrupts them.  (Not so for a       *)
(* result in a message whose role Kiro does not know: its role is changed  *)
(* after the results without a call were turned into text.)                *)
ResultsFollowCalls ==
  JustSent /\ (\A n \in DOMAIN msgs :
                  msgs[n].role \notin {"user", "assistant"} => ToolResults(msgs[n]) = <<>>) =>
    \A p \in Payloads :
      LET e == Entries(p)
          Answers(results, calls) == results = Filter(calls, ToSet(results))
      IN  \A i \in DOMAIN e : e[i].results # <<>> =>
            i > 1 /\ Answers(Ids(e[i].results), Ids(e[i - 1].uses))

(* Where an item is in an entry: <<in which of its parts, at which place>>.*)
Places(e, item) ==
  LET holding(blocks) == {k \in DOMAIN blocks : item \in ToSet(blocks[k].text)}
  IN  ({1} \X {k \in DOMAIN e.content : e.content[k] = item})
      \cup ({2} \X holding(e.results)) \cup ({3} \X holding(e.uses))

(* Of two results of one call of the message before, the last is sent.     *)
Superseded(n, k) ==
  LET blocks == msgs[n].blocks
  IN  /\ env.tools /\ blocks[k].id \in CallsBefore(msgs, n)
      /\ \E j \in DOMAIN blocks :
            j > k /\ IsToolResult(blocks[j]) /\ blocks[j].id = blocks[k].id

(* What of a message is to be sent: not thinking, images, and the contents *)
(* of a block of unknown type, nor a result that a later one supersedes or *)
(* that the assistant has of a search the gateway ran itself.              *)
Items(n) ==
  LET m       == msgs[n]
      Sent(k) == LET b == m.blocks[k]
                 IN  /\ b.type \notin {"thinking", "image", "unknown"}
                     /\ IsToolResult(b) => m.role # "assistant" /\ ~Superseded(n, k)
  IN  UNION {ToSet(m.blocks[k].text) : k \in {j \in DOMAIN m.blocks : Sent(j)}}

(* Every text, call and result of the conversation is in the payload once, *)
(* and what an earlier message said is not after what a later one said:    *)
(* merging, turning tool blocks into text and reordering lose nothing else *)
(* than a result that another of the same message supersedes.              *)
NothingIsLost ==
  JustSent => \A p \in Payloads :
    LET e      == Entries(p)
        In(x)  == {i \in DOMAIN e : Places(e[i], x) # {}}
        At(x)  == CHOOSE i \in In(x) : TRUE
    IN  /\ \A n \in DOMAIN msgs : \A x \in Items(n) :
              Cardinality(In(x)) = 1 /\ Cardinality(Places(e[At(x)], x)) = 1
        /\ \A n \in 2..Len(msgs) : \A x \in Items(n - 1), y \in Items(n) :
              \/ At(x) < At(y)
              \/ /\ At(x) = At(y)
                 /\ \A f \in Places(e[At(x)], x), g \in Places(e[At(y)], y) :
                       f[1] = g[1] => f[2] < g[2]

(* The last request is followed by one that goes on with an answer of the  *)
(* assistant.                                                              *)
AnswerFollows ==
  /\ sent > 0 /\ Len(msgs) > sent
  /\ msgs[sent].role # "assistant" /\ msgs[sent + 1].role = "assistant"

(* A conversation that goes on with an answer of the assistant keeps its   *)
(* history, message ids included: what one request sent is a prefix of     *)
(* what the next one sends (history.go, "messageId must be stable across   *)
(* requests"), provided that no input of several members is marshalled.    *)
HistoryIsStable ==
  AnswerFollows /\ InputsAsText(msgs, env.tools) = {} =>
    \A p \in PayloadsOf(sent), q \in Payloads :
      IsPrefix(p.history, q.history) /\ Len(q.history) > Len(p.history)

(* Whether a model id has a mapping, or a name the gateway passes on; any  *)
(* other is replaced by the default model.                                 *)
Known(id) ==
  \/ id.name \notin Foreign
  \/ Lookup(normalizeThinkingSuffix(id), env.overrides).found # {}

(* A client that goes on with the id an answer named keeps the Kiro model  *)
(* and the context window, with or without the header that asked for it;   *)
(* and with the gateway's own table, that id alone does not turn thinking  *)
(* on (models.go, Resolve).                                                *)
EchoKeepsModel ==
  [][ LET old == answer.resolved
          new == answer'.resolved
      IN  (/\ answer # NoAnswer /\ answer' # answer
           /\ model = old.id /\ Known(answer.asked)
           /\ answer'.flags.context1M => answer.flags.context1M)
          => /\ new.kiro = old.kiro /\ new.window = old.window
             /\ env.overrides = <<>> /\ new.thinking => old.thinking ]_vars

(* The effort that reaches Kiro is one that its model accepts, and of      *)
(* these the lowest that is not below what the client asked for; a client  *)
(* that thinks without saying how much has the medium level.               *)
EffortIsHonoured ==
  answer # NoAnswer =>
    LET accepted == effortEnums(answer.resolved.kiro)
        asked    == answer.flags.effort
        wanted   == IF asked # "" THEN asked
                    ELSE IF answer.flags.thinking \/ answer.resolved.thinking
                    THEN "medium" ELSE ""
        enough   == {l \in accepted : effortRank[l] >= effortRank[wanted]}
    IN  IF wanted \in DOMAIN effortRank /\ accepted # {}
        THEN answer.effort \in enough
             /\ \A l \in enough : effortRank[answer.effort] <= effortRank[l]
        ELSE answer.effort = ""
=============================================================================
