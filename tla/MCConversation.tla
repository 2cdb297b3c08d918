---------------------------- MODULE MCConversation ----------------------------
(* Two clients.  One talks: its messages hold calls of two tools, one with *)
(* two members, their results in either order, twice or without a call,    *)
(* plain texts, what the gateway does not send on, and a role that Kiro    *)
(* does not know.  The other asks for every model with all flags.          *)
EXTENDS Conversation

Says1(role, type, id) == [role |-> role, string |-> FALSE, blocks |-> <<Block(type, id, <<1>>)>>]
Says2(role, b, c) == [role |-> role, string |-> FALSE, blocks |-> <<b, c>>]

Messages == {
  StringMessage("user", <<1>>),
  StringMessage("assistant", <<1>>),
  StringMessage("developer", <<1>>),
  Says1("user", "text", 0),
  Says1("user", "tool_result", 1),
  Says1("developer", "tool_result", 1),
  Says2("user", Block("image", 0, <<1>>), Block("image", 0, <<2>>)),
  Says2("user", Block("tool_result", 1, <<1>>), Block("unknown", 0, <<2>>)),
  Says2("user", Block("tool_result", 2, <<1>>), Block("tool_result", 1, <<2>>)),
  Says2("user", Block("tool_result", 1, <<1>>), Block("tool_result", 1, <<2>>)),
  Says2("assistant", Block("text", 0, <<1>>), Block("tool_use", 1, <<2, 3>>)),
  Says2("assistant", Block("tool_use", 1, <<1>>), Block("tool_use", 2, <<2>>)),
  Says2("assistant", Block("thinking", 0, <<1>>), Block("text", 0, <<2>>)),
  Says2("assistant", Block("server_tool_use", 3, <<1>>), Block("tool_search_tool_result", 3, <<2>>)) }

MCForeign == {"mine"}

(* Every id of the table, every Kiro name, and names it does not have,     *)
(* with either spelling of the mark.                                       *)
Ids1M ==
  LET names == {modelMapOrdered[i].anthropic.name : i \in DOMAIN modelMapOrdered}
               \cup {modelMapOrdered[i].Kiro : i \in DOMAIN modelMapOrdered}
               \cup {"claude-sonnet-4.6-1m", "claude-new"} \cup Foreign
  IN  {ModelId(n, s) : n \in names, s \in {"", "[1m]", "[1M]"}}

(* None; a smaller window for a model of the table; a model of one's own.  *)
Mappings == {
  <<>>,
  <<Mapping(ModelId("claude-sonnet-4-6", ""), "claude-sonnet-4.6", "", 200000)>>,
  <<Mapping(ModelId("mine", ""), "claude-opus-4.8", "claude-opus-4.8", 0)>> }

Efforts == {"", "low", "medium", "high", "xhigh", "max", "enabled"}

Env(tools, system, overrides) ==
  [tools |-> tools, system |-> system, overrides |-> overrides]

MCClient == {"talks", "chooses"}
MCEnvironment ==
  [talks   |-> {Env(TRUE, FALSE, <<>>), Env(TRUE, TRUE, <<>>), Env(FALSE, TRUE, <<>>)},
   chooses |-> {Env(FALSE, FALSE, o) : o \in Mappings}]
MCSaid  == [talks |-> Messages, chooses |-> {StringMessage("user", <<1>>)}]
MCAsked == [talks |-> {ModelId("claude-sonnet-4-6", "")}, chooses |-> Ids1M]
MCFlags ==
  [talks   |-> {[context1M |-> FALSE, thinking |-> FALSE, effort |-> ""]},
   chooses |-> [context1M : BOOLEAN, thinking : BOOLEAN, effort : Efforts]]
MCMaxMessages == [talks |-> 4, chooses |-> 1]
=============================================================================
