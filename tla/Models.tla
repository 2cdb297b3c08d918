-------------------------------- MODULE Models --------------------------------
(***************************************************************************)
(* internal/models: the Kiro model, the context window and the id echoed   *)
(* to the client for the model a request names; and the reasoning effort   *)
(* sent with it, with internal/app/messages/effort.go.  Operators only.    *)
(*                                                                         *)
(* A model id is a name and what follows it: nothing, or the mark [1m] of  *)
(* a context of one million tokens, which Claude Code also writes [1M].    *)
(* No name of a Kiro model has the mark, so those are names alone.         *)
(***************************************************************************)
EXTENDS Naturals, Sequences

CONSTANT Foreign   \* model names that do not begin with "claude-"

ThinkingSuffix == "[1m]"
DefaultContextWindowSize  == 200000
ThinkingContextWindowSize == 1000000

ModelId(name, suffix) == [name |-> name, suffix |-> suffix]

(* Mapping: an id, its Kiro model, the variant with a long context ("" if  *)
(* there is none) and its context window (0 if it is the default).         *)
Mapping(anthropic, kiro, kiro1M, window) ==
  [anthropic |-> anthropic, Kiro |-> kiro, Kiro1M |-> kiro1M,
   ContextWindowSize |-> window]

Plain(name, kiro, kiro1M) == Mapping(ModelId(name, ""), kiro, kiro1M, 0)
Long(name, kiro) == Mapping(ModelId(name, ThinkingSuffix), kiro, kiro, 0)

modelMapOrdered == <<
  Long("claude-opus-5", "claude-opus-5"),
  Long("claude-opus-4-8", "claude-opus-4.8"),
  Long("claude-opus-4-7", "claude-opus-4.7"),
  Long("claude-opus-4-6", "claude-opus-4.6"),
  Long("claude-sonnet-5", "claude-sonnet-5"),
  Plain("claude-opus-5", "claude-opus-5", "claude-opus-5"),
  Plain("claude-opus-4-8", "claude-opus-4.8", "claude-opus-4.8"),
  Plain("claude-opus-4-7", "claude-opus-4.7", "claude-opus-4.7"),
  Plain("claude-sonnet-5", "claude-sonnet-5", "claude-sonnet-5"),
  Plain("claude-sonnet-4-6", "claude-sonnet-4.6", "claude-sonnet-4.6-1m"),
  Plain("claude-sonnet-4.5", "claude-sonnet-4.5", "claude-sonnet-4.5-1m"),
  Plain("claude-opus-4-6", "claude-opus-4.6", "claude-opus-4.6"),
  Plain("claude-opus-4.5", "claude-opus-4.5", ""),
  Plain("claude-haiku-4.5", "claude-haiku-4.5", "") >>

DefaultModel          == "claude-sonnet-4.6"
DefaultAnthropicModel == ModelId("claude-sonnet-4-6", "")

normalizeThinkingSuffix(id) ==
  IF id.suffix = "" THEN id ELSE [id EXCEPT !.suffix = ThinkingSuffix]

effectiveMappings(overrides) == overrides \o modelMapOrdered

(* The first mapping that Matches, in a set of at most one.                *)
FirstMatch(mappings, Matches(_)) ==
  LET hits == {i \in DOMAIN mappings : Matches(mappings[i])}
  IN  {mappings[i] : i \in {j \in hits : \A k \in hits : j <= k}}

Named(id, m) == id = m.anthropic \/ id = ModelId(m.Kiro, "")
ContextAlias(id, m) == m.Kiro1M = m.Kiro /\ id = ModelId(m.Kiro, ThinkingSuffix)

(* Tier 1 with the mark, tier 2 without it; the mark that only tier 2      *)
(* understands asks for thinking.                                          *)
Lookup(id, overrides) ==
  LET mappings == effectiveMappings(overrides)
      tier1    == FirstMatch(mappings, LAMBDA m : Named(id, m) \/ ContextAlias(id, m))
      bare     == ModelId(id.name, "")
  IN  IF tier1 # {} \/ id.suffix = ""
      THEN [found |-> tier1, name |-> id, thinking |-> FALSE]
      ELSE [found |-> FirstMatch(mappings, LAMBDA m : Named(bare, m)), name |-> bare,
            thinking |-> TRUE]

(* What the request falls back on when no mapping is found.                *)
Unmapped(id) ==
  IF id.name \in Foreign THEN Mapping(DefaultAnthropicModel, DefaultModel, "", 0)
  ELSE Mapping(id, id.name, "", 0)

(* The Kiro model and the context window of a mapping.                     *)
Route(m, thinking) ==
  CASE m.Kiro1M = m.Kiro -> [kiro |-> m.Kiro, window |-> ThinkingContextWindowSize]
    [] m.Kiro1M \notin {m.Kiro, ""} /\ thinking ->
         [kiro |-> m.Kiro1M, window |-> ThinkingContextWindowSize]
    [] OTHER -> [kiro |-> m.Kiro,
                 window |-> IF m.ContextWindowSize > 0 THEN m.ContextWindowSize
                            ELSE DefaultContextWindowSize]

NeverMarks(id, window) == id   \* mutant: the long context is not announced
Advertised(id, window) ==
  IF window = ThinkingContextWindowSize THEN [id EXCEPT !.suffix = ThinkingSuffix]
  ELSE id

Resolve(model, context1M, overrides) ==
  LET look     == Lookup(normalizeThinkingSuffix(model), overrides)
      thinking == look.thinking \/ context1M
      m        == IF look.found = {} THEN Unmapped(look.name)
                  ELSE CHOOSE f \in look.found : TRUE
      route    == Route(m, thinking)
  IN  [kiro |-> route.kiro, thinking |-> thinking, window |-> route.window,
       id |-> Advertised(m.anthropic, route.window)]

----------------------------------------------------------------------------
(* effort.go, in both packages.                                            *)

effortRank == [low |-> 0, medium |-> 1, high |-> 2, xhigh |-> 3, max |-> 4]

FiveTiers == {"claude-opus-5", "claude-opus-4.8", "claude-opus-4.7", "claude-sonnet-5"}
FourTiers == {"claude-opus-4.6", "claude-sonnet-4.6", "claude-opus-4.6-1m",
              "claude-sonnet-4.6-1m"}

(* The levels a Kiro model accepts; none if it has no effort.              *)
effortEnums(kiro) ==
  CASE kiro \in FiveTiers -> {"low", "medium", "high", "xhigh", "max"}
    [] kiro \in FourTiers -> {"low", "medium", "high", "max"}
    [] OTHER -> {}

ForwardsValid(kiro, requested) ==   \* mutant: a level the model lacks is passed on
  IF requested \in DOMAIN effortRank /\ effortEnums(kiro) # {} THEN requested ELSE ""
ResolveEffort(kiro, requested) ==
  IF requested \notin DOMAIN effortRank \/ effortEnums(kiro) = {} THEN ""
  ELSE IF requested \in effortEnums(kiro) THEN requested
  ELSE "max"

defaultThinkingEffort == "medium"

resolveEffort(kiro, requested, thinking) ==
  CASE requested # "" -> ResolveEffort(kiro, requested)
    [] requested = "" /\ thinking -> ResolveEffort(kiro, defaultThinkingEffort)
    [] OTHER -> ""
=============================================================================
