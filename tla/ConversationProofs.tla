-------------------------- MODULE ConversationProofs --------------------------
(***************************************************************************)
(* Theorems about Conversation, for every set of clients, whatever they    *)
(* say, in whatever order, and however long they talk.                     *)
(*                                                                         *)
(* The payload is a function of the messages, so the invariants of the     *)
(* state are few; the work is in what the passes of the normaliser make of *)
(* a sequence of messages.  The two passes that build their result step by *)
(* step are recursive functions, and are treated together: Step is what    *)
(* either of them does with one more message.                              *)
(***************************************************************************)
EXTENDS Conversation, FilteringProofs

Pass == {"merge", "alternate"}

Step(pass, out, m) == IF pass = "merge" THEN Merge(out, m) ELSE Alternate(out, m)

Passes(pass, f, seq, k) ==
  /\ DOMAIN f = 0..k
  /\ f[0] = <<>>
  /\ \A n \in 1..k : f[n] = Step(pass, f[n - 1], seq[n])

PassUnfolds(pass, f, seq, k) ==
  f = [n \in 0..k |-> IF n = 0 THEN <<>> ELSE Step(pass, f[n - 1], seq[n])]

LEMMA UnfoldsPasses ==
  ASSUME NEW pass, NEW f, NEW seq, NEW k \in Nat, PassUnfolds(pass, f, seq, k)
  PROVE  Passes(pass, f, seq, k)
<1>1. DOMAIN f = 0..k  BY DEF PassUnfolds
<1>2. f[0] = <<>>  BY DEF PassUnfolds
<1>3. ASSUME NEW n \in 1..k PROVE f[n] = Step(pass, f[n - 1], seq[n])
  <2> DEFINE g == [m \in 0..k |-> IF m = 0 THEN <<>> ELSE Step(pass, f[m - 1], seq[m])]
  <2>1. f = g  BY DEF PassUnfolds
  <2>2. n \in 0..k /\ n # 0  BY <1>3
  <2>3. g[n] = Step(pass, f[n - 1], seq[n])  BY <2>2
  <2> HIDE DEF g
  <2> QED  BY <2>1, <2>3
<1> QED  BY <1>1, <1>2, <1>3 DEF Passes

LEMMA PassExists ==
  ASSUME NEW pass, NEW seq
  PROVE  \A k \in Nat : \E f : PassUnfolds(pass, f, seq, k)
<1> DEFINE T == {k \in Nat : \E f : PassUnfolds(pass, f, seq, k)}
<1>1. 0 \in T
  <2> DEFINE f == [n \in 0..0 |-> <<>>]
  <2>1. PassUnfolds(pass, f, seq, 0)
    <3>1. \A n \in 0..0 : n = 0  OBVIOUS
    <3> QED  BY <3>1 DEF PassUnfolds
  <2> QED  BY <2>1
<1>2. ASSUME NEW k \in Nat, k \in T PROVE k + 1 \in T
  <2>1. PICK f : PassUnfolds(pass, f, seq, k)  BY <1>2
  <2>2. Passes(pass, f, seq, k)  BY <2>1, UnfoldsPasses
  <2> DEFINE last == Step(pass, f[k], seq[k + 1])
             g == [n \in 0..(k + 1) |-> IF n = k + 1 THEN last ELSE f[n]]
  <2>3. ASSUME NEW n \in 0..(k + 1)
        PROVE  g[n] = IF n = 0 THEN <<>> ELSE Step(pass, g[n - 1], seq[n])
    <3>1. CASE n = k + 1
      <4>1. n # 0 /\ n - 1 = k /\ k \in 0..(k + 1) /\ k # k + 1  BY <3>1
      <4>2. g[n] = last /\ g[n - 1] = f[k]  BY <3>1, <4>1
      <4> HIDE DEF g
      <4> QED  BY <3>1, <4>1, <4>2
    <3>2. CASE n # k + 1
      <4>1. n \in 0..k  BY <3>2
      <4>2. g[n] = f[n]  BY <3>2
      <4>3. n # 0 => g[n - 1] = f[n - 1] /\ n \in 1..k
        <5>1. n # 0 => n - 1 \in 0..(k + 1) /\ n - 1 # k + 1  BY <4>1
        <5> QED  BY <4>1, <5>1
      <4> HIDE DEF g
      <4> QED  BY <2>2, <4>1, <4>2, <4>3 DEF Passes
    <3> QED  BY <3>1, <3>2
  <2>4. g = [n \in 0..(k + 1) |-> g[n]]  OBVIOUS
  <2> HIDE DEF g
  <2>5. PassUnfolds(pass, g, seq, k + 1)  BY <2>3, <2>4 DEF PassUnfolds
  <2> QED  BY <2>5
<1>3. Nat \subseteq T
  <2> HIDE DEF T
  <2> QED  BY <1>1, <1>2, Induction
<1> QED  BY <1>3

(* A pass looks at no more than the messages that it has come to.          *)
LEMMA PassesAgree ==
  ASSUME NEW pass, NEW f, NEW g, NEW seq, NEW other, NEW j \in Nat, NEW k \in Nat,
         Passes(pass, f, seq, j), Passes(pass, g, other, k), j <= k,
         \A n \in 1..j : seq[n] = other[n]
  PROVE  f[j] = g[j]
<1> DEFINE T == {n \in Nat : n <= j => f[n] = g[n]}
<1>1. 0 \in T  BY DEF Passes
<1>2. ASSUME NEW n \in Nat, n \in T PROVE n + 1 \in T
  <2> SUFFICES ASSUME n + 1 <= j PROVE f[n + 1] = g[n + 1]
    OBVIOUS
  <2>1. n + 1 \in 1..j /\ n + 1 \in 1..k /\ (n + 1) - 1 = n /\ n <= j  OBVIOUS
  <2>2. f[n] = g[n]  BY <1>2, <2>1
  <2>3. f[n + 1] = Step(pass, f[n], seq[n + 1])  BY <2>1 DEF Passes
  <2>4. g[n + 1] = Step(pass, g[n], other[n + 1])  BY <2>1 DEF Passes
  <2> QED  BY <2>1, <2>2, <2>3, <2>4
<1>3. Nat \subseteq T
  <2> HIDE DEF T
  <2> QED  BY <1>1, <1>2, Induction
<1> QED  BY <1>3

Passed(pass, seq) ==
  IF pass = "merge" THEN mergeAdjacentSameRole(seq) ELSE ensureAlternatingRoles(seq)

LEMMA PassValue ==
  ASSUME NEW pass \in Pass, NEW seq, Len(seq) \in Nat
  PROVE  \E f : Passes(pass, f, seq, Len(seq)) /\ Passed(pass, seq) = f[Len(seq)]
<1>1. CASE pass = "merge"
  <2> DEFINE U(g) == g = [n \in 0..Len(seq) |->
                            IF n = 0 THEN <<>> ELSE Merge(g[n - 1], seq[n])]
             f == CHOOSE g : U(g)
  <2>1. \A g : U(g) <=> PassUnfolds(pass, g, seq, Len(seq))
    BY <1>1 DEF PassUnfolds, Step
  <2>2. \E g : U(g)  BY <2>1, PassExists
  <2>3. U(f)
    <3> HIDE DEF U
    <3> QED  BY <2>2
  <2>4. Passed(pass, seq) = f[Len(seq)]  BY <1>1 DEF Passed, mergeAdjacentSameRole
  <2> HIDE DEF f, U
  <2> QED  BY <2>1, <2>3, <2>4, UnfoldsPasses
<1>2. CASE pass = "alternate"
  <2> DEFINE U(g) == g = [n \in 0..Len(seq) |->
                            IF n = 0 THEN <<>> ELSE Alternate(g[n - 1], seq[n])]
             f == CHOOSE g : U(g)
  <2>1. \A g : U(g) <=> PassUnfolds(pass, g, seq, Len(seq))
    BY <1>2 DEF PassUnfolds, Step
  <2>2. \E g : U(g)  BY <2>1, PassExists
  <2>3. U(f)
    <3> HIDE DEF U
    <3> QED  BY <2>2
  <2>4. Passed(pass, seq) = f[Len(seq)]  BY <1>2 DEF Passed, ensureAlternatingRoles
  <2> HIDE DEF f, U
  <2> QED  BY <2>1, <2>3, <2>4, UnfoldsPasses
<1> QED  BY <1>1, <1>2 DEF Pass

LEMMA PassEmpty == ASSUME NEW pass \in Pass PROVE Passed(pass, <<>>) = <<>>
<1> DEFINE e == <<>>
<1>1. Len(e) = 0  OBVIOUS
<1> HIDE DEF e
<1>2. PICK f : Passes(pass, f, e, 0) /\ Passed(pass, e) = f[0]
  <2>1. Len(e) \in Nat  BY <1>1
  <2>2. \E f : Passes(pass, f, e, Len(e)) /\ Passed(pass, e) = f[Len(e)]  BY <2>1, PassValue
  <2> QED  BY <1>1, <2>2
<1> QED  BY <1>2 DEF Passes, e

LEMMA PassAppend ==
  ASSUME NEW pass \in Pass, NEW X, NEW seq \in Seq(X), NEW m \in X
  PROVE  Passed(pass, Append(seq, m)) = Step(pass, Passed(pass, seq), m)
<1> DEFINE longer == Append(seq, m)
           n == Len(seq)
<1>1. /\ n \in Nat /\ Len(longer) = n + 1 /\ longer[n + 1] = m
      /\ \A i \in 1..n : longer[i] = seq[i]
  OBVIOUS
<1> HIDE DEF longer, n
<1>2. PICK f : Passes(pass, f, seq, n) /\ Passed(pass, seq) = f[n]
  BY <1>1, PassValue DEF n
<1>3. PICK g : Passes(pass, g, longer, n + 1) /\ Passed(pass, longer) = g[n + 1]
  <2>1. Len(longer) \in Nat  BY <1>1
  <2>2. \E g : Passes(pass, g, longer, Len(longer)) /\ Passed(pass, longer) = g[Len(longer)]
    BY <2>1, PassValue
  <2> QED  BY <1>1, <2>2
<1>4. f[n] = g[n]
  <2>1. n \in Nat /\ n + 1 \in Nat /\ n <= n + 1  BY <1>1
  <2>2. \A i \in 1..n : seq[i] = longer[i]  BY <1>1
  <2>3. Passes(pass, f, seq, n) /\ Passes(pass, g, longer, n + 1)  BY <1>2, <1>3
  <2> QED  BY <2>1, <2>2, <2>3, PassesAgree, Z3
<1>5. g[n + 1] = Step(pass, g[n], longer[n + 1])
  <2>1. n + 1 \in 1..(n + 1) /\ (n + 1) - 1 = n  BY <1>1
  <2> QED  BY <1>3, <2>1 DEF Passes
<1> QED  BY <1>1, <1>2, <1>3, <1>4, <1>5 DEF longer

(* The two passes, message by message.                                     *)
LEMMA MergeEmpty == mergeAdjacentSameRole(<<>>) = <<>>
<1>1. "merge" \in Pass  BY DEF Pass
<1> QED  BY <1>1, PassEmpty DEF Passed

LEMMA MergeAppend ==
  ASSUME NEW X, NEW seq \in Seq(X), NEW m \in X
  PROVE  mergeAdjacentSameRole(Append(seq, m)) = Merge(mergeAdjacentSameRole(seq), m)
<1>1. "merge" \in Pass  BY DEF Pass
<1>2. Passed("merge", Append(seq, m)) = Step("merge", Passed("merge", seq), m)
  BY <1>1, PassAppend
<1> QED  BY <1>2 DEF Passed, Step

LEMMA AlternateEmpty == ensureAlternatingRoles(<<>>) = <<>>
<1>1. "alternate" \in Pass /\ "alternate" # "merge"  BY DEF Pass
<1> QED  BY <1>1, PassEmpty DEF Passed

LEMMA AlternateAppend ==
  ASSUME NEW X, NEW seq \in Seq(X), NEW m \in X
  PROVE  ensureAlternatingRoles(Append(seq, m)) = Alternate(ensureAlternatingRoles(seq), m)
<1>1. "alternate" \in Pass /\ "alternate" # "merge"  BY DEF Pass
<1>2. Passed("alternate", Append(seq, m)) = Step("alternate", Passed("alternate", seq), m)
  BY <1>1, PassAppend
<1> QED  BY <1>1, <1>2 DEF Passed, Step

----------------------------------------------------------------------------
(* The passes that look at one message at a time keep its place; what      *)
(* comes out of them has a role that Kiro knows.                           *)
Turn == {m \in Message : m.role \in {"user", "assistant"}}

LEMMA TextualizedType ==
  ASSUME NEW b \in ContentBlock PROVE Textualized(b) \in ContentBlock
<1>1. b.text \in Seq(Nat)  BY DEF ContentBlock
<1>2. "text" \in BlockType /\ 0 \in Nat  BY DEF BlockType
<1>3. [type |-> "text", id |-> 0, text |-> b.text] \in ContentBlock
  BY <1>1, <1>2 DEF ContentBlock
<1> QED  BY <1>3 DEF Textualized, Block

LEMMA NewBlocks ==
  ASSUME NEW m \in Message, NEW f, DOMAIN f = DOMAIN m.blocks,
         \A k \in DOMAIN m.blocks : f[k] \in ContentBlock,
         f = [k \in DOMAIN m.blocks |-> f[k]]
  PROVE  /\ [m EXCEPT !.blocks = f] \in Message
         /\ [m EXCEPT !.blocks = f].role = m.role
<1>1. m.blocks \in Seq(ContentBlock)  BY DEF Message
<1>2. DOMAIN m.blocks = 1..Len(m.blocks) /\ Len(m.blocks) \in Nat  BY <1>1
<1>3. f \in Seq(ContentBlock)
  <2>1. f \in [1..Len(m.blocks) -> ContentBlock]  BY <1>2
  <2> QED  BY <1>2, <2>1
<1>4. m.role \in Role /\ m.string \in BOOLEAN
      /\ m = [role |-> m.role, string |-> m.string, blocks |-> m.blocks]
  BY DEF Message
<1>5. [m EXCEPT !.blocks = f] = [role |-> m.role, string |-> m.string, blocks |-> f]
  BY <1>4
<1> HIDE DEF ContentBlock
<1>6. [role |-> m.role, string |-> m.string, blocks |-> f] \in Message
  BY <1>3, <1>4 DEF Message
<1> QED  BY <1>5, <1>6

(* The parts of a message.                                                 *)
LEMMA MessageParts ==
  ASSUME NEW m \in Message
  PROVE  /\ m.role \in Role /\ m.string \in BOOLEAN /\ m.blocks \in Seq(ContentBlock)
         /\ DOMAIN m = {"role", "string", "blocks"}
         /\ \A k \in DOMAIN m.blocks : m.blocks[k] \in ContentBlock
         /\ DOMAIN m.blocks = 1..Len(m.blocks) /\ Len(m.blocks) \in Nat
<1>1. /\ m.role \in Role /\ m.string \in BOOLEAN /\ m.blocks \in Seq(ContentBlock)
      /\ DOMAIN m = {"role", "string", "blocks"}
  BY DEF Message
<1> DEFINE bs == m.blocks
<1>2. bs \in Seq(ContentBlock)  BY <1>1
<1> HIDE DEF bs
<1>3. /\ \A k \in DOMAIN bs : bs[k] \in ContentBlock
      /\ DOMAIN bs = 1..Len(bs) /\ Len(bs) \in Nat
  BY <1>2
<1> QED  BY <1>1, <1>3 DEF bs

LEMMA NewRole ==
  ASSUME NEW m \in Message, NEW r \in Role
  PROVE  [m EXCEPT !.role = r] \in Message /\ [m EXCEPT !.role = r].role = r
<1>1. /\ m.role \in Role /\ m.string \in BOOLEAN /\ m.blocks \in Seq(ContentBlock)
      /\ m = [role |-> m.role, string |-> m.string, blocks |-> m.blocks]
  BY DEF Message
<1>2. [m EXCEPT !.role = r] = [role |-> r, string |-> m.string, blocks |-> m.blocks]
  BY <1>1
<1>3. [role |-> r, string |-> m.string, blocks |-> m.blocks] \in Message
  BY <1>1 DEF Message
<1> QED  BY <1>2, <1>3

LEMMA AllTextualized ==
  ASSUME NEW q \in Seq(Message), NEW i \in 1..Len(q)
  PROVE  /\ textualizeAllToolContent(q)[i] \in Message
         /\ textualizeAllToolContent(q)[i].role = q[i].role
<1> DEFINE m == q[i]
           f == [k \in DOMAIN m.blocks |->
                   IF IsToolUse(m.blocks[k]) \/ IsToolResult(m.blocks[k])
                   THEN Textualized(m.blocks[k]) ELSE m.blocks[k]]
<1>1. m \in Message  OBVIOUS
<1>2. textualizeAllToolContent(q)[i] = IF m.string THEN m ELSE [m EXCEPT !.blocks = f]
  <2>1. DOMAIN q = 1..Len(q)  OBVIOUS
  <2> QED  BY <2>1 DEF textualizeAllToolContent, MapBlocks
<1>3. \A k \in DOMAIN m.blocks : m.blocks[k] \in ContentBlock  BY <1>1, MessageParts
<1>4. /\ DOMAIN f = DOMAIN m.blocks /\ f = [k \in DOMAIN m.blocks |-> f[k]]
      /\ \A k \in DOMAIN m.blocks : f[k] \in ContentBlock
  BY <1>3, TextualizedType
<1> HIDE DEF f, m
<1>5. /\ [m EXCEPT !.blocks = f] \in Message
      /\ [m EXCEPT !.blocks = f].role = m.role
  BY <1>1, <1>4, NewBlocks
<1> QED  BY <1>1, <1>2, <1>5 DEF m

LEMMA OrphansTextualized ==
  ASSUME NEW q \in Seq(Message), NEW i \in 1..Len(q)
  PROVE  /\ textualizeOrphanToolResults(q)[i] \in Message
         /\ textualizeOrphanToolResults(q)[i].role = q[i].role
<1> DEFINE m == q[i]
           calls == CallsBefore(q, i)
           f == [k \in DOMAIN m.blocks |->
                   IF IsToolResult(m.blocks[k]) /\ m.blocks[k].id \notin calls
                   THEN Textualized(m.blocks[k]) ELSE m.blocks[k]]
<1>1. m \in Message  OBVIOUS
<1>2. textualizeOrphanToolResults(q)[i]
        = IF m.role # "user" \/ m.string THEN m ELSE [m EXCEPT !.blocks = f]
  <2>1. DOMAIN q = 1..Len(q)  OBVIOUS
  <2> QED  BY <2>1 DEF textualizeOrphanToolResults, MapBlocks
<1>3. \A k \in DOMAIN m.blocks : m.blocks[k] \in ContentBlock  BY <1>1, MessageParts
<1>4. /\ DOMAIN f = DOMAIN m.blocks /\ f = [k \in DOMAIN m.blocks |-> f[k]]
      /\ \A k \in DOMAIN m.blocks : f[k] \in ContentBlock
  <2> HIDE DEF calls
  <2> QED  BY <1>3, TextualizedType
<1> HIDE DEF f, m, calls
<1>5. /\ [m EXCEPT !.blocks = f] \in Message
      /\ [m EXCEPT !.blocks = f].role = m.role
  BY <1>1, <1>4, NewBlocks
<1> QED  BY <1>1, <1>2, <1>5 DEF m

Judged(q, hasTools) == normalizeRoles(textualizeToolContent(q, hasTools))

LEMMA JudgedTurns ==
  ASSUME NEW q \in Seq(Message), NEW hasTools
  PROVE  /\ Judged(q, hasTools) \in Seq(Turn)
         /\ Len(Judged(q, hasTools)) = Len(q)
         /\ \A i \in 1..Len(q) : Judged(q, hasTools)[i].role
                                   = IF q[i].role = "assistant" THEN "assistant" ELSE "user"
<1> DEFINE t == textualizeToolContent(q, hasTools)
           n == Len(q)
<1>1. n \in Nat /\ DOMAIN q = 1..n  OBVIOUS
<1>2. \A i \in 1..n : t[i] \in Message /\ t[i].role = q[i].role
  BY AllTextualized, OrphansTextualized DEF textualizeToolContent
<1>3. DOMAIN t = 1..n
  BY <1>1 DEF textualizeToolContent, textualizeAllToolContent, textualizeOrphanToolResults
<1> HIDE DEF t, n
<1>4. normalizeRoles(t) = [i \in 1..n |->
        IF t[i].role \in {"user", "assistant"} THEN t[i] ELSE [t[i] EXCEPT !.role = "user"]]
  BY <1>3 DEF normalizeRoles
<1>5. ASSUME NEW i \in 1..n
      PROVE  /\ normalizeRoles(t)[i] \in Turn
             /\ normalizeRoles(t)[i].role
                  = IF q[i].role = "assistant" THEN "assistant" ELSE "user"
  <2>1. t[i] \in Message /\ t[i].role = q[i].role  BY <1>2
  <2>2. /\ [t[i] EXCEPT !.role = "user"] \in Message
        /\ [t[i] EXCEPT !.role = "user"].role = "user"
    <3>1. "user" \in Role  BY DEF Role
    <3> QED  BY <2>1, <3>1, NewRole
  <2>3. normalizeRoles(t)[i] = IF t[i].role \in {"user", "assistant"} THEN t[i]
                               ELSE [t[i] EXCEPT !.role = "user"]
    BY <1>4
  <2> QED  BY <2>1, <2>2, <2>3 DEF Turn
<1>6. normalizeRoles(t) \in [1..n -> Turn]
  BY <1>4, <1>5
<1>7. normalizeRoles(t) \in Seq(Turn) /\ Len(normalizeRoles(t)) = n
  BY <1>1, <1>6
<1> QED  BY <1>5, <1>7 DEF Judged, t, n

----------------------------------------------------------------------------
(* Merging.  What it makes of a conversation begins with what it makes of  *)
(* a beginning of it, where the speaker changes.                           *)
Merged(q) == mergeAdjacentSameRole(q)

Roled(q) == \E Y : q \in Seq(Y) /\ \A y \in Y : y.role \in {"user", "assistant"}

(* q begins with p, and goes on.                                           *)
Begins(p, q) == Len(p) < Len(q) /\ \A i \in 1..Len(p) : q[i] = p[i]

LEMMA MergeStep ==
  ASSUME NEW run, NEW m
  PROVE  \E x : /\ x.role = m.role
                /\ \/ Merge(run, m) = Append(run, m) /\ x = m
                   \/ /\ run # <<>> /\ Last(run).role = m.role
                      /\ Merge(run, m) = Append(Front(run), x)
<1> DEFINE x == StringMessage(m.role, ExtractTextContent(Last(run)) \o ExtractTextContent(m))
<1>1. x.role = m.role  BY DEF StringMessage
<1>2. \/ Merge(run, m) = Append(run, m)
      \/ run # <<>> /\ Mergeable(Last(run), m) /\ Merge(run, m) = Append(Front(run), x)
  BY DEF Merge
<1> HIDE DEF x
<1>3. Mergeable(Last(run), m) => Last(run).role = m.role  BY DEF Mergeable
<1> QED  BY <1>1, <1>2, <1>3

LEMMA MergeTurns ==
  ASSUME NEW s \in Seq(Turn)
  PROVE  /\ Roled(Merged(s))
         /\ s # <<>> => Merged(s) # <<>> /\ Last(Merged(s)).role = Last(s).role
<1> DEFINE P(q) == /\ Roled(Merged(q))
                   /\ q # <<>> => Merged(q) # <<>> /\ Last(Merged(q)).role = Last(q).role
           T == {q \in Seq(Turn) : P(q)}
<1>1. <<>> \in T
  <2>1. Merged(<<>>) = <<>>  BY MergeEmpty DEF Merged
  <2>2. Roled(<<>>)
    <3> DEFINE Y == {}
    <3>1. <<>> \in Seq(Y)  OBVIOUS
    <3>2. \A y \in Y : y.role \in {"user", "assistant"}  OBVIOUS
    <3> HIDE DEF Y
    <3> QED  BY <3>1, <3>2 DEF Roled
  <2> QED  BY <2>1, <2>2
<1>2. ASSUME NEW q \in Seq(Turn), NEW m \in Turn, q \in T PROVE Append(q, m) \in T
  <2> DEFINE run == Merged(q)
             longer == Append(q, m)
  <2>1. Merged(longer) = Merge(run, m)  BY MergeAppend DEF Merged
  <2>2. PICK Y : run \in Seq(Y) /\ \A y \in Y : y.role \in {"user", "assistant"}
    BY <1>2 DEF Roled
  <2>3. PICK x : /\ x.role = m.role
                 /\ \/ Merge(run, m) = Append(run, m) /\ x = m
                    \/ /\ run # <<>> /\ Last(run).role = m.role
                       /\ Merge(run, m) = Append(Front(run), x)
    BY MergeStep
  <2>4. m.role \in {"user", "assistant"}  BY DEF Turn
  <2>5. /\ longer \in Seq(Turn) /\ longer # <<>> /\ Last(longer) = m
    BY DEF Last
  <2> DEFINE Z == Y \cup {x}
  <2>6. \A y \in Z : y.role \in {"user", "assistant"}  BY <2>2, <2>3, <2>4
  <2> HIDE DEF run, longer
  <2>7. /\ Append(run, x) \in Seq(Z) /\ Append(run, x) # <<>> /\ Last(Append(run, x)) = x
        /\ run # <<>> => /\ Front(run) \in Seq(Z) /\ Append(Front(run), x) \in Seq(Z)
                         /\ Append(Front(run), x) # <<>> /\ Last(Append(Front(run), x)) = x
    <3>1. run \in Seq(Z)  BY <2>2
    <3>2. x \in Z  OBVIOUS
    <3> HIDE DEF Z
    <3>3. run # <<>> => Front(run) \in Seq(Z)  BY <3>1 DEF Front
    <3>4. \A u \in Seq(Z) : Append(u, x) \in Seq(Z) /\ Append(u, x) # <<>> /\ Last(Append(u, x)) = x
      BY <3>2 DEF Last
    <3> QED  BY <3>1, <3>3, <3>4
  <2>8. Merged(longer) \in Seq(Z) /\ Merged(longer) # <<>> /\ Last(Merged(longer)) = x
    BY <2>1, <2>3, <2>7
  <2> HIDE DEF Z
  <2>9. Roled(Merged(longer))  BY <2>6, <2>8 DEF Roled
  <2> QED  BY <2>3, <2>5, <2>8, <2>9 DEF longer
<1>3. Seq(Turn) \subseteq T
  <2> HIDE DEF T
  <2> QED  BY <1>1, <1>2, SequenceInduction
<1> QED  BY <1>3

LEMMA MergeBegins ==
  ASSUME NEW s \in Seq(Turn), s # <<>>, NEW m \in Turn, m.role # Last(s).role,
         NEW rest \in Seq(Turn)
  PROVE  Begins(Merged(s), Merged(Append(s, m) \o rest))
<1> DEFINE u == Append(s, m)
           a == Merged(s)
           P(r) == Begins(a, Merged(u \o r))
           T == {r \in Seq(Turn) : P(r)}
<1>1. u \in Seq(Turn)  OBVIOUS
<1>2. Roled(a) /\ a # <<>> /\ Last(a).role = Last(s).role  BY MergeTurns
<1>3. PICK Y : a \in Seq(Y)  BY <1>2 DEF Roled
<1>4. <<>> \in T
  <2>1. Merged(u) = Merge(a, m)  BY MergeAppend DEF Merged
  <2>2. Merged(u) = Append(a, m)
    BY <1>2, <2>1 DEF Merge, Mergeable
  <2> HIDE DEF a
  <2>3. Begins(a, Append(a, m))  BY <1>3 DEF Begins
  <2>4. u \o <<>> = u  BY <1>1
  <2>5. P(<<>>)
    <3> HIDE DEF u
    <3> QED  BY <2>2, <2>3, <2>4
  <2> HIDE DEF P
  <2> QED  BY <2>5
<1>5. ASSUME NEW r \in Seq(Turn), NEW e \in Turn, r \in T PROVE Append(r, e) \in T
  <2> DEFINE q == u \o r
             run == Merged(q)
  <2>1. q \in Seq(Turn) /\ u \o Append(r, e) = Append(q, e)
    <3> HIDE DEF u
    <3> QED  BY <1>1
  <2>2. Merged(Append(q, e)) = Merge(run, e)
    <3> HIDE DEF q
    <3> QED  BY <2>1, MergeAppend DEF Merged
  <2>3. Begins(a, run)  BY <1>5
  <2>4. PICK Z : run \in Seq(Z)
    <3> HIDE DEF q
    <3> QED  BY <2>1, MergeTurns DEF Roled
  <2>5. PICK x : /\ x.role = e.role
                 /\ \/ Merge(run, e) = Append(run, e) /\ x = e
                    \/ /\ run # <<>> /\ Last(run).role = e.role
                       /\ Merge(run, e) = Append(Front(run), x)
    BY MergeStep
  <2> HIDE DEF run, a, q
  <2>6. Begins(a, Append(run, e))  BY <1>3, <2>3, <2>4 DEF Begins
  <2>7. run # <<>> => Begins(a, Append(Front(run), x))
    BY <1>3, <2>3, <2>4 DEF Begins, Front
  <2>8. Begins(a, Merged(Append(q, e)))  BY <2>2, <2>5, <2>6, <2>7
  <2>9. P(Append(r, e))
    <3> HIDE DEF u
    <3> QED  BY <2>1, <2>8
  <2> HIDE DEF P
  <2> QED  BY <2>9
<1>6. Seq(Turn) \subseteq T
  <2> HIDE DEF T
  <2> QED  BY <1>4, <1>5, SequenceInduction
<1> QED  BY <1>6

----------------------------------------------------------------------------
(* Beginning with the user, and alternating.                               *)
LEMMA StartsTurns ==
  ASSUME NEW q, Roled(q), q # <<>>
  PROVE  LET r == ensureStartsWithUser(q)
         IN  Roled(r) /\ r # <<>> /\ r[1].role = "user" /\ Last(r) = Last(q)
<1> DEFINE x == StringMessage("user", <<syntheticEmpty>>)
<1>1. PICK Y : q \in Seq(Y) /\ \A y \in Y : y.role \in {"user", "assistant"}  BY DEF Roled
<1>2. x.role = "user"  BY DEF StringMessage
<1> HIDE DEF x
<1> DEFINE Z == Y \cup {x}
<1>3. \A y \in Z : y.role \in {"user", "assistant"}  BY <1>1, <1>2
<1>4. q \in Seq(Z) /\ x \in Z  BY <1>1
<1> HIDE DEF Z
<1>5. CASE q[1].role = "user"
  <2>1. ensureStartsWithUser(q) = q  BY <1>1, <1>5 DEF ensureStartsWithUser
  <2> QED  BY <1>5, <2>1
<1>6. CASE q[1].role # "user"
  <2>1. ensureStartsWithUser(q) = <<x>> \o q
    BY <1>1, <1>6 DEF ensureStartsWithUser, x
  <2>2. /\ <<x>> \o q \in Seq(Z) /\ <<x>> \o q # <<>> /\ (<<x>> \o q)[1] = x
        /\ Last(<<x>> \o q) = Last(q)
    BY <1>4 DEF Last
  <2> DEFINE r == <<x>> \o q
  <2> HIDE DEF r
  <2>3. Roled(r)  BY <1>3, <2>2 DEF Roled, r
  <2> QED  BY <1>2, <2>1, <2>2, <2>3 DEF r
<1> QED  BY <1>5, <1>6

LEMMA StartsBegins ==
  ASSUME NEW p, NEW q, Roled(p), Roled(q), p # <<>>, Begins(p, q)
  PROVE  Begins(ensureStartsWithUser(p), ensureStartsWithUser(q))
<1> DEFINE x == StringMessage("user", <<syntheticEmpty>>)
<1>1. PICK Y : p \in Seq(Y)  BY DEF Roled
<1>2. PICK Z : q \in Seq(Z)  BY DEF Roled
<1>3. p[1] = q[1] /\ q # <<>>  BY <1>1, <1>2 DEF Begins
<1>4. CASE p[1].role = "user"
  <2>1. ensureStartsWithUser(p) = p /\ ensureStartsWithUser(q) = q
    BY <1>1, <1>2, <1>3, <1>4 DEF ensureStartsWithUser
  <2> QED  BY <2>1
<1>5. CASE p[1].role # "user"
  <2>1. ensureStartsWithUser(p) = <<x>> \o p /\ ensureStartsWithUser(q) = <<x>> \o q
    BY <1>1, <1>2, <1>3, <1>5 DEF ensureStartsWithUser
  <2> HIDE DEF x
  <2> DEFINE W == Y \cup Z \cup {x}
  <2>2. p \in Seq(W) /\ q \in Seq(W) /\ x \in W  BY <1>1, <1>2
  <2> HIDE DEF W
  <2>3. Begins(<<x>> \o p, <<x>> \o q)  BY <2>2 DEF Begins
  <2> QED  BY <2>1, <2>3
<1> QED  BY <1>4, <1>5

TurnOf(i) == IF i % 2 = 1 THEN "user" ELSE "assistant"

Alternating(q) == \E Y : q \in Seq(Y) /\ \A i \in 1..Len(q) : q[i].role = TurnOf(i)

LEMMA AlternateGrows ==
  ASSUME NEW Z, NEW out \in Seq(Z), NEW m
  PROVE  /\ \E W : Alternate(out, m) \in Seq(W)
         /\ Begins(out, Alternate(out, m))
         /\ Last(Alternate(out, m)) = m
<1> DEFINE f == StringMessage(Opposite(m.role), <<syntheticEmpty>>)
           W == Z \cup {f, m}
<1>1. Alternate(out, m) \in {out \o <<f, m>>, Append(out, m)}  BY DEF Alternate
<1>2. out \in Seq(W) /\ f \in W /\ m \in W  OBVIOUS
<1> HIDE DEF f, W
<1>3. /\ out \o <<f, m>> \in Seq(W) /\ Begins(out, out \o <<f, m>>)
      /\ Last(out \o <<f, m>>) = m
  BY <1>2 DEF Begins, Last
<1>4. /\ Append(out, m) \in Seq(W) /\ Begins(out, Append(out, m))
      /\ Last(Append(out, m)) = m
  BY <1>2 DEF Begins, Last
<1> QED  BY <1>1, <1>3, <1>4

LEMMA AlternateTurns ==
  ASSUME NEW Y, \A y \in Y : y.role \in {"user", "assistant"},
         NEW q \in Seq(Y), q # <<>>, q[1].role = "user"
  PROVE  LET out == ensureAlternatingRoles(q)
         IN  Alternating(out) /\ out # <<>> /\ Last(out) = Last(q)
<1> DEFINE A(p) == ensureAlternatingRoles(p)
           P(p) == p # <<>> /\ p[1].role = "user" =>
                     Alternating(A(p)) /\ A(p) # <<>> /\ Last(A(p)) = Last(p)
           T == {p \in Seq(Y) : P(p)}
<1>1. <<>> \in T  OBVIOUS
<1>2. ASSUME NEW p \in Seq(Y), NEW m \in Y, p \in T PROVE Append(p, m) \in T
  <2> DEFINE longer == Append(p, m)
             out == A(p)
  <2> SUFFICES ASSUME longer[1].role = "user"
               PROVE  Alternating(A(longer)) /\ A(longer) # <<>> /\ Last(A(longer)) = m
    <3>1. longer \in Seq(Y) /\ Last(longer) = m  BY DEF Last
    <3>2. P(longer)
      <4> HIDE DEF longer, A
      <4> QED  BY <3>1
    <3> HIDE DEF P
    <3> QED  BY <3>1, <3>2
  <2>1. A(longer) = Alternate(out, m)  BY AlternateAppend
  <2>2. CASE p = <<>>
    <3>1. out = <<>>  BY <2>2, AlternateEmpty
    <3>2. longer[1] = m  BY <2>2
    <3>3. A(longer) = Append(<<>>, m)  BY <2>1, <3>1 DEF Alternate
    <3> DEFINE o1 == Append(<<>>, m)
    <3>4. o1 \in Seq({m}) /\ Len(o1) = 1 /\ o1[1] = m  OBVIOUS
    <3> HIDE DEF o1, longer
    <3>5. TurnOf(1) = "user"  BY DEF TurnOf
    <3>6. \A i \in 1..Len(o1) : o1[i].role = TurnOf(i)  BY <3>2, <3>4, <3>5
    <3>7. Alternating(o1)  BY <3>4, <3>6 DEF Alternating
    <3>8. o1 # <<>> /\ Last(o1) = m  BY <3>4 DEF Last
    <3> QED  BY <3>3, <3>7, <3>8 DEF o1
  <2>3. CASE p # <<>>
    <3>1. p[1].role = "user"  BY <2>3
    <3>2. Alternating(out) /\ out # <<>>
      <4>1. P(p)  BY <1>2
      <4> HIDE DEF A
      <4> QED  BY <2>3, <3>1, <4>1
    <3> HIDE DEF out, longer
    <3>3. PICK Z : out \in Seq(Z) /\ \A i \in 1..Len(out) : out[i].role = TurnOf(i)
      BY <3>2 DEF Alternating
    <3> DEFINE n == Len(out)
    <3>4. n \in Nat \ {0} /\ out[n].role = TurnOf(n) /\ Last(out) = out[n]
      BY <3>2, <3>3 DEF Last
    <3>5. m.role \in {"user", "assistant"}  OBVIOUS
    <3>6. TurnOf(n + 1) = Opposite(TurnOf(n)) /\ TurnOf(n + 2) = TurnOf(n)
      <4>1. n \in Nat  BY <3>4
      <4> HIDE DEF n
      <4>2. n % 2 \in {0, 1} /\ (n + 2) % 2 = n % 2
            /\ (n + 1) % 2 = IF n % 2 = 1 THEN 0 ELSE 1
        BY <4>1
      <4> QED  BY <4>2 DEF TurnOf, Opposite
    <3>7. m.role # TurnOf(n) => m.role = TurnOf(n + 1)
      BY <3>5, <3>6 DEF TurnOf, Opposite
    <3>8. CASE m.role = TurnOf(n)
      <4> DEFINE f == StringMessage(Opposite(m.role), <<syntheticEmpty>>)
                 o2 == out \o <<f, m>>
                 W == Z \cup {f, m}
      <4>1. A(longer) = o2  BY <2>1, <3>2, <3>4, <3>8 DEF Alternate
      <4>2. f.role = TurnOf(n + 1)  BY <3>6, <3>8 DEF StringMessage
      <4>3. out \in Seq(W) /\ f \in W /\ m \in W  BY <3>3
      <4> HIDE DEF f, W
      <4>4. /\ o2 \in Seq(W) /\ Len(o2) = n + 2 /\ o2[n + 1] = f /\ o2[n + 2] = m
            /\ \A i \in 1..n : o2[i] = out[i]
        BY <4>3
      <4> HIDE DEF o2, n
      <4>5. \A i \in 1..(n + 2) : o2[i].role = TurnOf(i)
        <5> SUFFICES ASSUME NEW i \in 1..(n + 2) PROVE o2[i].role = TurnOf(i)
          OBVIOUS
        <5>1. i \in 1..n \/ i = n + 1 \/ i = n + 2  BY <3>4
        <5> QED  BY <3>3, <3>6, <3>8, <4>2, <4>4, <5>1 DEF n
      <4>6. Alternating(o2)  BY <4>4, <4>5 DEF Alternating
      <4>7. o2 # <<>> /\ Last(o2) = m  BY <3>4, <4>4 DEF Last
      <4> QED  BY <4>1, <4>6, <4>7
    <3>9. CASE m.role # TurnOf(n)
      <4> DEFINE o3 == Append(out, m)
                 W == Z \cup {m}
      <4>1. A(longer) = o3  BY <2>1, <3>4, <3>9 DEF Alternate
      <4>2. out \in Seq(W) /\ m \in W  BY <3>3
      <4> HIDE DEF W
      <4>3. /\ o3 \in Seq(W) /\ Len(o3) = n + 1 /\ o3[n + 1] = m
            /\ \A i \in 1..n : o3[i] = out[i]
        BY <4>2
      <4> HIDE DEF o3, n
      <4>4. \A i \in 1..(n + 1) : o3[i].role = TurnOf(i)
        <5> SUFFICES ASSUME NEW i \in 1..(n + 1) PROVE o3[i].role = TurnOf(i)
          OBVIOUS
        <5>1. i \in 1..n \/ i = n + 1  BY <3>4
        <5> QED  BY <3>3, <3>7, <3>9, <4>3, <5>1 DEF n
      <4>5. Alternating(o3)  BY <4>3, <4>4 DEF Alternating
      <4>6. o3 # <<>> /\ Last(o3) = m  BY <3>4, <4>3 DEF Last
      <4> QED  BY <4>1, <4>5, <4>6
    <3> QED  BY <3>8, <3>9
  <2> QED  BY <2>2, <2>3
<1>3. Seq(Y) \subseteq T
  <2> HIDE DEF T
  <2> QED  BY <1>1, <1>2, SequenceInduction
<1> QED  BY <1>3

LEMMA AlternateSequence ==
  ASSUME NEW Y, NEW q \in Seq(Y)
  PROVE  \E Z : ensureAlternatingRoles(q) \in Seq(Z)
<1> DEFINE A(s) == ensureAlternatingRoles(s)
           T == {s \in Seq(Y) : \E Z : A(s) \in Seq(Z)}
<1>1. <<>> \in T
  <2>1. A(<<>>) = <<>>  BY AlternateEmpty
  <2>2. <<>> \in Seq({})  OBVIOUS
  <2>3. <<>> \in Seq(Y)  OBVIOUS
  <2> HIDE DEF A
  <2> QED  BY <2>1, <2>2, <2>3
<1>2. ASSUME NEW s \in Seq(Y), NEW m \in Y, s \in T PROVE Append(s, m) \in T
  <2>1. PICK Z : A(s) \in Seq(Z)  BY <1>2
  <2>2. A(Append(s, m)) = Alternate(A(s), m)  BY AlternateAppend
  <2> HIDE DEF A
  <2>3. \E W : A(Append(s, m)) \in Seq(W)  BY <2>1, <2>2, AlternateGrows
  <2>4. Append(s, m) \in Seq(Y)  OBVIOUS
  <2> QED  BY <2>3, <2>4
<1>3. Seq(Y) \subseteq T
  <2> HIDE DEF T
  <2> QED  BY <1>1, <1>2, SequenceInduction
<1> QED  BY <1>3

LEMMA AlternateBegins ==
  ASSUME NEW Y, NEW p \in Seq(Y), NEW q \in Seq(Y), Begins(p, q)
  PROVE  Begins(ensureAlternatingRoles(p), ensureAlternatingRoles(q))
<1> DEFINE A(s) == ensureAlternatingRoles(s)
           P(s) == \A r \in Seq(Y) : Begins(r, s) => Begins(A(r), A(s))
           T == {s \in Seq(Y) : P(s)}
<1>1. P(<<>>)
  <2>1. \A r \in Seq(Y) : ~Begins(r, <<>>)  BY DEF Begins
  <2> QED  BY <2>1
<1>2. ASSUME NEW s \in Seq(Y), NEW m \in Y, P(s) PROVE P(Append(s, m))
  <2>1. PICK Z : A(s) \in Seq(Z)  BY AlternateSequence
  <2>2. A(Append(s, m)) = Alternate(A(s), m)  BY AlternateAppend
  <2>3. PICK W : A(Append(s, m)) \in Seq(W)
    <3>1. Append(s, m) \in Seq(Y)  OBVIOUS
    <3> QED  BY <3>1, AlternateSequence
  <2>4. Begins(A(s), A(Append(s, m)))
    <3> HIDE DEF A
    <3> QED  BY <2>1, <2>2, AlternateGrows
  <2>5. ASSUME NEW r \in Seq(Y), Begins(r, Append(s, m)) PROVE Begins(A(r), A(Append(s, m)))
    <3>1. CASE Len(r) = Len(s)
      <4>1. \A i \in 1..Len(s) : Append(s, m)[i] = r[i] /\ Append(s, m)[i] = s[i]
        <5>1. \A i \in 1..Len(s) : Append(s, m)[i] = s[i]  OBVIOUS
        <5> QED  BY <2>5, <3>1, <5>1 DEF Begins
      <4>2. r = s  BY <3>1, <4>1, SeqEqual
      <4> QED  BY <2>4, <4>2
    <3>2. CASE Len(r) # Len(s)
      <4>1. Begins(r, s)  BY <2>5, <3>2 DEF Begins
      <4>2. Begins(A(r), A(s))  BY <1>2, <4>1
      <4>3. PICK V : A(r) \in Seq(V)  BY AlternateSequence
      <4> HIDE DEF A
      <4>4. Len(A(r)) \in Nat /\ Len(A(s)) \in Nat /\ Len(A(Append(s, m))) \in Nat
        BY <2>1, <2>3, <4>3
      <4> QED  BY <2>4, <4>2, <4>4 DEF Begins
    <3> QED  BY <3>1, <3>2
  <2> QED  BY <2>5
<1>3. Seq(Y) \subseteq T
  <2> HIDE DEF P
  <2>1. <<>> \in T  BY <1>1
  <2>2. \A s \in Seq(Y), m \in Y : s \in T => Append(s, m) \in T  BY <1>2
  <2> HIDE DEF T
  <2> QED  BY <2>1, <2>2, SequenceInduction
<1> QED  BY <1>3

----------------------------------------------------------------------------
(* The normaliser, and the payload that is built of what it returns.       *)
LEMMA NormalizeTurns ==
  ASSUME NEW q \in Seq(Message), q # <<>>, NEW hasTools
  PROVE  LET n == Normalize(q, hasTools)
         IN  /\ Alternating(n) /\ n # <<>>
             /\ Last(n).role = IF Last(q).role = "assistant" THEN "assistant" ELSE "user"
<1> DEFINE j == Judged(q, hasTools)
           m == Merged(j)
           s == ensureStartsWithUser(m)
<1>1. j \in Seq(Turn) /\ Len(j) = Len(q)  BY JudgedTurns
<1>2. Last(j).role = IF Last(q).role = "assistant" THEN "assistant" ELSE "user"
  <2>1. Len(q) \in 1..Len(q)  OBVIOUS
  <2> QED  BY <1>1, <2>1, JudgedTurns DEF Last
<1>3. Normalize(q, hasTools) = ensureAlternatingRoles(s)  BY DEF Normalize, Judged, Merged
<1> HIDE DEF j
<1>4. j # <<>>  BY <1>1
<1>5. Roled(m) /\ m # <<>> /\ Last(m).role = Last(j).role  BY <1>1, <1>4, MergeTurns
<1> HIDE DEF m
<1>6. Roled(s) /\ s # <<>> /\ s[1].role = "user" /\ Last(s) = Last(m)  BY <1>5, StartsTurns
<1> HIDE DEF s
<1>7. PICK Y : s \in Seq(Y) /\ \A y \in Y : y.role \in {"user", "assistant"}
  BY <1>6 DEF Roled
<1> DEFINE n == ensureAlternatingRoles(s)
<1>8. Alternating(n) /\ n # <<>> /\ Last(n) = Last(s)  BY <1>6, <1>7, AlternateTurns
<1> QED  BY <1>2, <1>3, <1>5, <1>6, <1>8

LEMMA FrontParts ==
  ASSUME NEW Y, NEW q \in Seq(Y), q # <<>>
  PROVE  /\ Front(q) \in Seq(Y) /\ Len(Front(q)) = Len(q) - 1
         /\ \A i \in 1..(Len(q) - 1) : Front(q)[i] = q[i]
<1>1. Len(q) \in Nat \ {0}  OBVIOUS
<1> DEFINE k == Len(q) - 1
<1>2. k \in 0..Len(q) /\ Front(q) = SubSeq(q, 1, k)  BY <1>1 DEF Front
<1> HIDE DEF k
<1>3. /\ SubSeq(q, 1, k) \in Seq(Y) /\ Len(SubSeq(q, 1, k)) = k
      /\ \A i \in 1..k : SubSeq(q, 1, k)[i] = q[i]
  BY <1>1, <1>2
<1> QED  BY <1>2, <1>3 DEF k

LEMMA SplitTurns ==
  ASSUME NEW n, Alternating(n), n # <<>>
  PROVE  LET h == splitMessages(n).history
         IN  /\ Alternating(h) /\ Len(h) \in Nat /\ Len(h) % 2 = 0
             /\ Len(h) = IF Last(n).role = "assistant" THEN Len(n) ELSE Len(n) - 1
             /\ \A i \in 1..Len(h) : h[i] = n[i]
<1>1. PICK Y : n \in Seq(Y) /\ \A i \in 1..Len(n) : n[i].role = TurnOf(i)  BY DEF Alternating
<1> DEFINE k == Len(n)
<1>2. k \in Nat \ {0} /\ Last(n) = n[k] /\ n[k].role = TurnOf(k)  BY <1>1 DEF Last
<1>3. CASE Last(n).role = "assistant"
  <2>1. splitMessages(n).history = n  BY <1>3 DEF splitMessages
  <2>2. k % 2 = 0
    <3>1. TurnOf(k) = "assistant" /\ k \in Nat  BY <1>2, <1>3
    <3> HIDE DEF k
    <3> QED  BY <3>1 DEF TurnOf
  <2> QED  BY <1>2, <1>3, <2>1, <2>2
<1>4. CASE Last(n).role # "assistant"
  <2>1. splitMessages(n).history = Front(n)  BY <1>4 DEF splitMessages
  <2>2. (k - 1) % 2 = 0
    <3>1. TurnOf(k) # "assistant" /\ k \in Nat \ {0}  BY <1>2, <1>4
    <3> HIDE DEF k
    <3>2. k % 2 = 1  BY <3>1 DEF TurnOf
    <3> QED  BY <3>1, <3>2
  <2>3. /\ Front(n) \in Seq(Y) /\ Len(Front(n)) = k - 1
        /\ \A i \in 1..(k - 1) : Front(n)[i] = n[i]
    BY <1>1, FrontParts
  <2> DEFINE f == Front(n)
  <2> HIDE DEF f, k
  <2>4. \A i \in 1..Len(f) : f[i].role = TurnOf(i)
    <3>1. \A i \in 1..(k - 1) : i \in 1..k  BY <1>2
    <3> QED  BY <1>1, <2>3, <3>1 DEF k, f
  <2>5. Alternating(f)  BY <2>3, <2>4 DEF Alternating, f
  <2>6. Len(f) \in Nat /\ Len(f) % 2 = 0  BY <1>2, <2>2, <2>3 DEF f
  <2> QED  BY <1>4, <2>1, <2>3, <2>5, <2>6 DEF f, k
<1> QED  BY <1>3, <1>4

LEMMA HistoryTurns ==
  ASSUME NEW h, Alternating(h)
  PROVE  /\ Alternating(buildHistory(h))
         /\ Len(buildHistory(h)) = Len(h)
<1>1. PICK Y : h \in Seq(Y) /\ \A i \in 1..Len(h) : h[i].role = TurnOf(i)  BY DEF Alternating
<1> DEFINE b == buildHistory(h)
           e(i) == b[i]
           Z == {e(i) : i \in 1..Len(h)}
<1>2. DOMAIN h = 1..Len(h) /\ Len(h) \in Nat  BY <1>1
<1>3. ASSUME NEW i \in 1..Len(h) PROVE b[i].role = TurnOf(i)
  <2>1. \A m : AssistantEntry(m).role = "assistant"  BY DEF AssistantEntry, Entry
  <2>2. \A m, ids : UserEntry(m, ids).role = "user"  BY DEF UserEntry, Entry
  <2>3. h[i].role = TurnOf(i) /\ TurnOf(i) \in {"user", "assistant"}  BY <1>1 DEF TurnOf
  <2>4. \/ h[i].role = "assistant" /\ b[i] = AssistantEntry(h[i])
        \/ h[i].role # "assistant" /\ \E ids : b[i] = UserEntry(h[i], ids)
    BY <1>2 DEF buildHistory
  <2> QED  BY <2>1, <2>2, <2>3, <2>4
<1>4. b = [i \in 1..Len(h) |-> b[i]]  BY <1>2 DEF buildHistory
<1> HIDE DEF b
<1>5. \A i \in 1..Len(h) : b[i] \in Z  OBVIOUS
<1> HIDE DEF Z
<1>6. b \in Seq(Z) /\ Len(b) = Len(h)
  <2>1. b \in [1..Len(h) -> Z]  BY <1>4, <1>5
  <2> QED  BY <1>2, <2>1
<1>7. Alternating(b)  BY <1>3, <1>6 DEF Alternating
<1> QED  BY <1>6, <1>7 DEF b

SystemPair == <<Entry("user", <<SystemPrompt>>, <<>>, <<>>, <<>>),
                Entry("assistant", <<syntheticAck>>, <<>>, <<>>, <<>>)>>

LEMMA PlacedTurns ==
  ASSUME NEW b, Alternating(b), NEW system
  PROVE  LET r == placeSystemPrompt(system, b)
         IN  Alternating(r) /\ Len(r) \in {Len(b), Len(b) + 2}
<1>1. PICK Y : b \in Seq(Y) /\ \A i \in 1..Len(b) : b[i].role = TurnOf(i)  BY DEF Alternating
<1> DEFINE x == Entry("user", <<SystemPrompt>>, <<>>, <<>>, <<>>)
           y == Entry("assistant", <<syntheticAck>>, <<>>, <<>>, <<>>)
           r == <<x, y>> \o b
           Z == Y \cup {x, y}
<1>2. placeSystemPrompt(system, b) \in {b, r}  BY DEF placeSystemPrompt
<1>3. x.role = "user" /\ y.role = "assistant"  BY DEF Entry
<1>4. b \in Seq(Z) /\ x \in Z /\ y \in Z  BY <1>1
<1> HIDE DEF x, y, Z
<1>5. /\ r \in Seq(Z) /\ Len(r) = Len(b) + 2 /\ r[1] = x /\ r[2] = y
      /\ \A i \in 3..(Len(b) + 2) : r[i] = b[i - 2]
  BY <1>4
<1> HIDE DEF r
<1>6. Len(b) \in Nat  BY <1>1
<1>7. ASSUME NEW i \in 1..Len(r) PROVE r[i].role = TurnOf(i)
  <2>1. i = 1 \/ i = 2 \/ (i \in 3..(Len(b) + 2) /\ i - 2 \in 1..Len(b))  BY <1>5, <1>6
  <2>2. TurnOf(1) = "user" /\ TurnOf(2) = "assistant"  BY DEF TurnOf
  <2>3. i \in Nat /\ i - 2 \in Int /\ (i - 2) % 2 = i % 2  BY <1>5, <1>6
  <2>4. TurnOf(i - 2) = TurnOf(i)  BY <2>3 DEF TurnOf
  <2> QED  BY <1>1, <1>3, <1>5, <2>1, <2>2, <2>4
<1>8. Alternating(r)  BY <1>5, <1>7 DEF Alternating
<1> QED  BY <1>2, <1>5, <1>8

LEMMA PayloadTurns ==
  ASSUME NEW q \in Seq(Message), q # <<>>, NEW hasTools, NEW system
  PROVE  LET e == Entries(BuildPayload(q, hasTools, system))
         IN  /\ \A i \in DOMAIN e : e[i].role = IF i % 2 = 1 THEN "user" ELSE "assistant"
             /\ Last(e).role = "user"
             /\ Last(e).content # <<>> \/ Last(e).results # <<>>
<1> DEFINE n == Normalize(q, hasTools)
           h == splitMessages(n).history
           b == buildHistory(h)
           r == placeSystemPrompt(system, b)
           ids == IF h = <<>> THEN <<>> ELSE Ids(ToolUses(Last(h)))
           c == buildCurrentMessage(splitMessages(n).last, ids)
           e == Append(r, c)
<1>1. Entries(BuildPayload(q, hasTools, system)) = e  BY DEF BuildPayload, Entries
<1>2. c.role = "user" /\ (c.content # <<>> \/ c.results # <<>>)
  <2>1. <<syntheticContinue>> # <<>>  OBVIOUS
  <2> QED  BY <2>1 DEF buildCurrentMessage, Entry
<1> HIDE DEF c
<1>3. Alternating(n) /\ n # <<>>  BY NormalizeTurns
<1> HIDE DEF n
<1>4. Alternating(h) /\ Len(h) \in Nat /\ Len(h) % 2 = 0  BY <1>3, SplitTurns
<1> HIDE DEF h
<1>5. Alternating(b) /\ Len(b) = Len(h)  BY <1>4, HistoryTurns
<1> HIDE DEF b
<1>6. Alternating(r) /\ Len(r) \in {Len(b), Len(b) + 2}  BY <1>5, PlacedTurns
<1> HIDE DEF r
<1>7. PICK Y : r \in Seq(Y) /\ \A i \in 1..Len(r) : r[i].role = TurnOf(i)
  BY <1>6 DEF Alternating
<1> DEFINE k == Len(r)
<1>8. k \in Nat /\ TurnOf(k + 1) = "user"
  <2>1. k \in Nat  BY <1>7
  <2>2. k % 2 = 0
    <3>1. (Len(h) + 2) % 2 = 0  BY <1>4
    <3> QED  BY <1>4, <1>5, <1>6, <3>1
  <2> HIDE DEF k
  <2>3. (k + 1) % 2 = 1  BY <2>1, <2>2
  <2> QED  BY <2>1, <2>3 DEF TurnOf
<1> DEFINE Z == Y \cup {c}
<1>9. r \in Seq(Z) /\ c \in Z  BY <1>7
<1> HIDE DEF Z
<1>10. /\ e \in Seq(Z) /\ Len(e) = k + 1 /\ e[k + 1] = c /\ DOMAIN e = 1..(k + 1)
       /\ \A i \in 1..k : e[i] = r[i]
  BY <1>9
<1> HIDE DEF e
<1>11. Last(e) = c  BY <1>10 DEF Last
<1>12. ASSUME NEW i \in DOMAIN e PROVE e[i].role = IF i % 2 = 1 THEN "user" ELSE "assistant"
  <2>1. i \in 1..k \/ i = k + 1  BY <1>8, <1>10
  <2>2. e[i].role = TurnOf(i)  BY <1>2, <1>7, <1>8, <1>10, <2>1
  <2> QED  BY <2>2 DEF TurnOf
<1> QED  BY <1>1, <1>2, <1>11, <1>12

----------------------------------------------------------------------------
(* A conversation that goes on with an answer of the assistant: what every *)
(* pass makes of it begins with what it made before.                       *)
LEMMA JudgedPrefix ==
  ASSUME NEW q \in Seq(Message), NEW k \in 1..Len(q), NEW hasTools
  PROVE  \A i \in 1..k : Judged(SubSeq(q, 1, k), hasTools)[i] = Judged(q, hasTools)[i]
<1> DEFINE a == SubSeq(q, 1, k)
<1>1. /\ a \in Seq(Message) /\ Len(a) = k /\ k \in Nat
      /\ \A i \in 1..k : a[i] = q[i]
      /\ DOMAIN a = 1..k /\ DOMAIN q = 1..Len(q) /\ Len(q) \in Nat /\ k <= Len(q)
  OBVIOUS
<1> HIDE DEF a
<1> SUFFICES ASSUME NEW i \in 1..k PROVE Judged(a, hasTools)[i] = Judged(q, hasTools)[i]
  BY DEF a
<1>2. i \in 1..Len(q) /\ (i > 1 => i - 1 \in 1..k)  BY <1>1
<1>3. CallsBefore(a, i) = CallsBefore(q, i)  BY <1>1, <1>2 DEF CallsBefore
<1>4. textualizeAllToolContent(a)[i] = textualizeAllToolContent(q)[i]
  BY <1>1, <1>2 DEF textualizeAllToolContent
<1>5. textualizeOrphanToolResults(a)[i] = textualizeOrphanToolResults(q)[i]
  BY <1>1, <1>2, <1>3 DEF textualizeOrphanToolResults
<1> DEFINE ta == textualizeToolContent(a, hasTools)
           tq == textualizeToolContent(q, hasTools)
<1>6. ta[i] = tq[i]  BY <1>4, <1>5 DEF textualizeToolContent
<1>7. DOMAIN ta = 1..k /\ DOMAIN tq = 1..Len(q)
  BY <1>1 DEF textualizeToolContent, textualizeAllToolContent, textualizeOrphanToolResults
<1> HIDE DEF ta, tq
<1>8. normalizeRoles(ta)[i] = normalizeRoles(tq)[i]
  BY <1>2, <1>6, <1>7 DEF normalizeRoles
<1> QED  BY <1>8 DEF Judged, ta, tq

(* long goes on after short, with one element and a rest.                  *)
Continues(X, short, long) ==
  LET k    == Len(short)
      rest == SubSeq(long, k + 2, Len(long))
  IN  /\ rest \in Seq(X) /\ long[k + 1] \in X
      /\ long = Append(short, long[k + 1]) \o rest

LEMMA GoesOn ==
  ASSUME NEW X, NEW ja \in Seq(X), NEW jq \in Seq(X),
         Len(ja) < Len(jq), \A i \in 1..Len(ja) : ja[i] = jq[i]
  PROVE  Continues(X, ja, jq)
<1> DEFINE k == Len(ja)
<1>0. k \in Nat /\ Len(ja) = k /\ k < Len(jq) /\ \A i \in 1..k : ja[i] = jq[i]
  OBVIOUS
<1> HIDE DEF k
<1> DEFINE n == Len(jq)
           m == jq[k + 1]
           rest == SubSeq(jq, k + 2, n)
           b == Append(ja, m)
           u == b \o rest
<1>1. n \in Nat /\ k \in Nat /\ k + 1 \in 1..n /\ m \in X  BY <1>0
<1>2. /\ rest \in Seq(X) /\ Len(rest) = n - (k + 1)
      /\ \A i \in 1..(n - (k + 1)) : rest[i] = jq[k + 1 + i]
  <2>1. rest \in Seq(X) /\ Len(rest) = n - (k + 1)  BY <1>1
  <2>2. ASSUME NEW i \in 1..(n - (k + 1)) PROVE rest[i] = jq[k + 1 + i]
    <3>1. i \in 1..Len(rest) /\ k + 2 + i - 1 = k + 1 + i  BY <1>1, <2>1
    <3>2. rest[i] = jq[k + 2 + i - 1]  BY <1>1, <2>1, <3>1
    <3> QED  BY <3>1, <3>2
  <2> QED  BY <2>1, <2>2
<1>3. /\ b \in Seq(X) /\ Len(b) = k + 1 /\ b[k + 1] = m
      /\ \A i \in 1..k : b[i] = ja[i]
  BY <1>0, <1>1
<1> HIDE DEF rest, b
<1>4. /\ u \in Seq(X) /\ Len(u) = k + 1 + Len(rest)
      /\ \A i \in 1..(k + 1) : u[i] = b[i]
      /\ \A i \in (k + 2)..(k + 1 + Len(rest)) : u[i] = rest[i - (k + 1)]
  <2>1. /\ k \in Nat /\ Len(rest) \in Nat /\ Len(b) = k + 1
        /\ b \in Seq(X) /\ rest \in Seq(X)
    BY <1>0, <1>2, <1>3
  <2>2. /\ u \in Seq(X) /\ Len(u) = Len(b) + Len(rest)
        /\ \A i \in 1..(Len(b) + Len(rest)) :
              u[i] = IF i <= Len(b) THEN b[i] ELSE rest[i - Len(b)]
    BY <2>1, ConcatProperties
  <2> HIDE DEF u
  <2> QED  BY <2>1, <2>2
<1> HIDE DEF u
<1>5. Len(u) = n  BY <1>1, <1>2, <1>4
<1>6. ASSUME NEW i \in 1..n PROVE u[i] = jq[i]
  <2>1. CASE i \in 1..k  BY <1>0, <1>3, <1>4, <2>1
  <2>2. CASE i = k + 1  BY <1>3, <1>4, <2>2
  <2>3. CASE i \in (k + 2)..n
    <3> DEFINE j == i - (k + 1)
    <3>1. j \in 1..(n - (k + 1)) /\ k + 1 + j = i  BY <1>1, <2>3
    <3>2. u[i] = rest[j]  BY <1>1, <1>2, <1>4, <2>3
    <3> HIDE DEF j, n
    <3>3. rest[j] = jq[k + 1 + j]  BY <1>2, <3>1
    <3> QED  BY <3>1, <3>2, <3>3
  <2> QED  BY <1>1, <2>1, <2>2, <2>3
<1>7. u = jq  BY <1>4, <1>5, <1>6, SeqEqual
<1> QED  BY <1>1, <1>2, <1>7 DEF Continues, u, b, rest, k

LEMMA NormalizeBegins ==
  ASSUME NEW q \in Seq(Message), NEW k \in Nat \ {0}, k < Len(q), NEW hasTools,
         q[k].role # "assistant", q[k + 1].role = "assistant"
  PROVE  Begins(Normalize(SubSeq(q, 1, k), hasTools), Normalize(q, hasTools))
<1> DEFINE a == SubSeq(q, 1, k)
           ja == Judged(a, hasTools)
           jq == Judged(q, hasTools)
           rest == SubSeq(jq, k + 2, Len(jq))
           m == jq[k + 1]
<1>1. /\ a \in Seq(Message) /\ Len(a) = k /\ a[k] = q[k] /\ a # <<>>
      /\ k \in 1..k /\ k \in 1..Len(q) /\ k + 1 \in 1..Len(q)
  OBVIOUS
<1>2. ja \in Seq(Turn) /\ Len(ja) = k /\ ja[k].role = "user"
  <2> HIDE DEF a
  <2> QED  BY <1>1, JudgedTurns
<1>3. jq \in Seq(Turn) /\ Len(jq) = Len(q) /\ m.role = "assistant"
  BY <1>1, JudgedTurns
<1>4. \A i \in 1..k : ja[i] = jq[i]  BY <1>1, JudgedPrefix
<1> HIDE DEF ja, jq
<1>5. rest \in Seq(Turn) /\ jq = Append(ja, m) \o rest /\ m \in Turn
  <2>1. Continues(Turn, ja, jq)  BY <1>1, <1>2, <1>3, <1>4, GoesOn
  <2> QED  BY <1>2, <2>1 DEF Continues
<1> HIDE DEF m, rest
<1>6. ja # <<>> /\ Last(ja).role = "user"  BY <1>1, <1>2 DEF Last
<1>7. Begins(Merged(ja), Merged(jq))  BY <1>2, <1>3, <1>5, <1>6, MergeBegins
<1>8. Roled(Merged(ja)) /\ Merged(ja) # <<>> /\ Roled(Merged(jq)) /\ Merged(jq) # <<>>
  <2>1. jq # <<>>  BY <1>1, <1>3
  <2> QED  BY <1>2, <1>3, <1>6, <2>1, MergeTurns
<1> DEFINE sa == ensureStartsWithUser(Merged(ja))
           sq == ensureStartsWithUser(Merged(jq))
<1>9. Begins(sa, sq)  BY <1>7, <1>8, StartsBegins
<1>10. Roled(sa) /\ Roled(sq)  BY <1>8, StartsTurns
<1>11. /\ Normalize(a, hasTools) = ensureAlternatingRoles(sa)
       /\ Normalize(q, hasTools) = ensureAlternatingRoles(sq)
  BY DEF Normalize, Judged, Merged, ja, jq
<1> HIDE DEF sa, sq, a
<1>12. PICK Y : sa \in Seq(Y)  BY <1>10 DEF Roled
<1>13. PICK Z : sq \in Seq(Z)  BY <1>10 DEF Roled
<1> DEFINE W == Y \cup Z
<1>14. sa \in Seq(W) /\ sq \in Seq(W)  BY <1>12, <1>13
<1> HIDE DEF W
<1>15. Begins(ensureAlternatingRoles(sa), ensureAlternatingRoles(sq))
  BY <1>9, <1>14, AlternateBegins
<1> QED  BY <1>11, <1>15 DEF a

LEMMA HistoryBegins ==
  ASSUME NEW p, NEW q, Alternating(p), Alternating(q),
         Len(p) < Len(q), \A i \in 1..Len(p) : q[i] = p[i]
  PROVE  Begins(buildHistory(p), buildHistory(q))
<1>1. PICK Y : p \in Seq(Y)  BY DEF Alternating
<1>2. PICK Z : q \in Seq(Z)  BY DEF Alternating
<1>3. /\ DOMAIN p = 1..Len(p) /\ DOMAIN q = 1..Len(q)
      /\ Len(p) \in Nat /\ Len(q) \in Nat
  BY <1>1, <1>2
<1>4. ASSUME NEW i \in 1..Len(p) PROVE buildHistory(q)[i] = buildHistory(p)[i]
  <2>1. i \in 1..Len(q) /\ q[i] = p[i] /\ (i > 1 => q[i - 1] = p[i - 1])
    <3>1. i > 1 => i - 1 \in 1..Len(p)  BY <1>3
    <3> QED  BY <1>3, <3>1
  <2> QED  BY <1>3, <2>1 DEF buildHistory
<1>5. Len(buildHistory(p)) = Len(p) /\ Len(buildHistory(q)) = Len(q)  BY HistoryTurns
<1> QED  BY <1>4, <1>5 DEF Begins

LEMMA PlacedBegins ==
  ASSUME NEW p, NEW q, Alternating(p), Alternating(q), Begins(p, q), NEW system
  PROVE  Begins(placeSystemPrompt(system, p), placeSystemPrompt(system, q))
<1>1. PICK Y : p \in Seq(Y)  BY DEF Alternating
<1>2. PICK Z : q \in Seq(Z)  BY DEF Alternating
<1> DEFINE x == Entry("user", <<SystemPrompt>>, <<>>, <<>>, <<>>)
           y == Entry("assistant", <<syntheticAck>>, <<>>, <<>>, <<>>)
           W == Y \cup Z \cup {x, y}
<1>3. p \in Seq(W) /\ q \in Seq(W) /\ x \in W /\ y \in W  BY <1>1, <1>2
<1>4. \/ placeSystemPrompt(system, p) = p /\ placeSystemPrompt(system, q) = q
      \/ /\ placeSystemPrompt(system, p) = <<x, y>> \o p
         /\ placeSystemPrompt(system, q) = <<x, y>> \o q
  BY DEF placeSystemPrompt
<1> HIDE DEF x, y, W
<1>5. Begins(<<x, y>> \o p, <<x, y>> \o q)
  <2> DEFINE u == <<x, y>> \o p
             v == <<x, y>> \o q
  <2>1. /\ Len(u) = Len(p) + 2 /\ u[1] = x /\ u[2] = y
        /\ \A i \in 3..(Len(p) + 2) : u[i] = p[i - 2]
    BY <1>3
  <2>2. /\ Len(v) = Len(q) + 2 /\ v[1] = x /\ v[2] = y
        /\ \A i \in 3..(Len(q) + 2) : v[i] = q[i - 2]
    BY <1>3
  <2>3. Len(p) \in Nat /\ Len(q) \in Nat /\ Len(p) < Len(q)  BY <1>3 DEF Begins
  <2> HIDE DEF u, v
  <2>4. ASSUME NEW i \in 1..Len(u) PROVE v[i] = u[i]
    <3>1. i = 1 \/ i = 2 \/ (i \in 3..(Len(p) + 2) /\ i \in 3..(Len(q) + 2)
                             /\ i - 2 \in 1..Len(p))
      BY <2>1, <2>3
    <3> QED  BY <2>1, <2>2, <3>1 DEF Begins
  <2>5. Begins(u, v)  BY <2>1, <2>2, <2>3, <2>4 DEF Begins
  <2> QED  BY <2>5 DEF u, v
<1> QED  BY <1>4, <1>5

LEMMA PayloadBegins ==
  ASSUME NEW q \in Seq(Message), NEW k \in Nat \ {0}, k < Len(q), NEW hasTools, NEW system,
         q[k].role # "assistant", q[k + 1].role = "assistant"
  PROVE  LET before == BuildPayload(SubSeq(q, 1, k), hasTools, system).history
             after  == BuildPayload(q, hasTools, system).history
         IN  /\ Begins(before, after)
             /\ Alternating(before) /\ Alternating(after)
<1> DEFINE a == SubSeq(q, 1, k)
           na == Normalize(a, hasTools)
           nq == Normalize(q, hasTools)
           ha == splitMessages(na).history
           hq == splitMessages(nq).history
<1>1. a \in Seq(Message) /\ a # <<>> /\ Last(a) = q[k] /\ q # <<>>  BY DEF Last
<1>2. Begins(na, nq)  BY NormalizeBegins
<1> HIDE DEF a
<1>3. Alternating(na) /\ na # <<>> /\ Last(na).role = "user"  BY <1>1, NormalizeTurns
<1>4. Alternating(nq) /\ nq # <<>>  BY <1>1, NormalizeTurns
<1> HIDE DEF na, nq
<1>5. /\ Alternating(ha) /\ Len(ha) = Len(na) - 1 /\ Len(ha) \in Nat
      /\ \A i \in 1..Len(ha) : ha[i] = na[i]
  BY <1>3, SplitTurns
<1>6. /\ Alternating(hq) /\ Len(hq) \in {Len(nq), Len(nq) - 1} /\ Len(hq) \in Nat
      /\ \A i \in 1..Len(hq) : hq[i] = nq[i]
  BY <1>4, SplitTurns
<1> HIDE DEF ha, hq
<1>7. Len(na) \in Nat /\ Len(nq) \in Nat /\ Len(na) < Len(nq)
  <2>1. PICK Y : na \in Seq(Y)  BY <1>3 DEF Alternating
  <2>2. PICK Z : nq \in Seq(Z)  BY <1>4 DEF Alternating
  <2> QED  BY <1>2, <2>1, <2>2 DEF Begins
<1>8. Len(ha) < Len(hq)  BY <1>5, <1>6, <1>7
<1>9. ASSUME NEW i \in 1..Len(ha) PROVE hq[i] = ha[i]
  <2>1. i \in 1..Len(na) /\ i \in 1..Len(hq)  BY <1>5, <1>6, <1>7, <1>8
  <2> QED  BY <1>2, <1>5, <1>6, <2>1 DEF Begins
<1>10. Begins(buildHistory(ha), buildHistory(hq))  BY <1>5, <1>6, <1>8, <1>9, HistoryBegins
<1>11. Alternating(buildHistory(ha)) /\ Alternating(buildHistory(hq))
  BY <1>5, <1>6, HistoryTurns
<1>12. /\ Begins(placeSystemPrompt(system, buildHistory(ha)),
                 placeSystemPrompt(system, buildHistory(hq)))
       /\ Alternating(placeSystemPrompt(system, buildHistory(ha)))
       /\ Alternating(placeSystemPrompt(system, buildHistory(hq)))
  BY <1>10, <1>11, PlacedBegins, PlacedTurns
<1>13. /\ BuildPayload(a, hasTools, system).history = placeSystemPrompt(system, buildHistory(ha))
       /\ BuildPayload(q, hasTools, system).history = placeSystemPrompt(system, buildHistory(hq))
  BY DEF BuildPayload, ha, hq, na, nq
<1> QED  BY <1>12, <1>13 DEF a
----------------------------------------------------------------------------
(* The state: the messages are messages whose calls have ids of their own, *)
(* a request had no more of them than there are, and the effort of an      *)
(* answer is what resolveEffort gives for its model and its flags.         *)
LEMMA ItemizedMessage ==
  ASSUME NEW m \in Message, NEW place \in Nat
  PROVE  Itemized(m, place) \in Message
<1> DEFINE bs == m.blocks
           New(k) == ItemizedBlock(bs[k], place)
           new == [k \in DOMAIN bs |-> New(k)]
<1>1. m.role \in Role /\ m.string \in BOOLEAN /\ bs \in Seq(ContentBlock)  BY DEF Message
<1>2. Itemized(m, place) = [role |-> m.role, string |-> m.string, blocks |-> new]
  <2> HIDE DEF New
  <2>1. [m EXCEPT !.blocks = new] = [role |-> m.role, string |-> m.string, blocks |-> new]
    <3> HIDE DEF new
    <3> QED  BY DEF Message
  <2>2. Itemized(m, place) = [m EXCEPT !.blocks = new]  BY DEF Itemized, New
  <2> QED  BY <2>1, <2>2
<1>3. ASSUME NEW k \in 1..Len(bs) PROVE New(k) \in ContentBlock
  <2> DEFINE b == bs[k]
             text == [n \in DOMAIN b.text |-> 10 * place + b.text[n]]
  <2>1. b \in ContentBlock  BY <1>1
  <2> HIDE DEF b
  <2>2. b.text \in Seq(Nat) /\ b.type \in BlockType /\ b.id \in Nat  BY <2>1 DEF ContentBlock
  <2>3. \A n \in 1..Len(b.text) : 10 * place + b.text[n] \in Nat  BY <2>2
  <2>4. text \in Seq(Nat)
    <3>1. DOMAIN b.text = 1..Len(b.text) /\ Len(b.text) \in Nat  BY <2>2
    <3> QED  BY <2>3, <3>1
  <2>5. New(k) = [b EXCEPT !.text = text]  BY DEF ItemizedBlock, b
  <2> HIDE DEF text, New
  <2>6. New(k) = [type |-> b.type, id |-> b.id, text |-> text]  BY <2>1, <2>5 DEF ContentBlock
  <2> QED  BY <2>2, <2>4, <2>6 DEF ContentBlock
<1> HIDE DEF New
<1>4. new \in Seq(ContentBlock)
  <2>1. DOMAIN bs = 1..Len(bs) /\ Len(bs) \in Nat  BY <1>1
  <2> QED  BY <1>3, <2>1
<1> HIDE DEF new
<1> QED  BY <1>1, <1>2, <1>4 DEF Message

AnswerOK ==
  answer # NoAnswer =>
    answer.effort = resolveEffort(answer.resolved.kiro, answer.flags.effort,
                                  answer.resolved.thinking \/ answer.flags.thinking)

OwnCalls == \A i \in DOMAIN msgs : OwnIds(msgs[i])

ConversationInv == TypeOK /\ AnswerOK /\ OwnCalls

LEMMA ItemizedOwnIds ==
  ASSUME NEW m \in Message, OwnIds(m), NEW place \in Nat
  PROVE  OwnIds(Itemized(m, place))
<1> DEFINE bs == m.blocks
           new == [k \in DOMAIN bs |-> ItemizedBlock(bs[k], place)]
<1>1. Itemized(m, place).blocks = new  BY DEF Itemized, Message
<1>2. \A k \in DOMAIN bs : bs[k] \in ContentBlock  BY MessageParts
<1>3. \A b \in ContentBlock : /\ ItemizedBlock(b, place).type = b.type
                              /\ ItemizedBlock(b, place).id = b.id
  BY DEF ItemizedBlock, ContentBlock
<1>4. /\ DOMAIN new = DOMAIN bs
      /\ \A k \in DOMAIN bs : new[k].type = bs[k].type /\ new[k].id = bs[k].id
  BY <1>2, <1>3
<1> HIDE DEF new
<1> QED  BY <1>1, <1>4 DEF OwnIds, IsToolUse

LEMMA ConversationInit == Init => ConversationInv
<1> SUFFICES ASSUME Init PROVE ConversationInv  OBVIOUS
<1>1. MaxMessages[client] \in Nat  BY MaxMessagesIsPositive DEF Init
<1>2. msgs = <<>> /\ Len(msgs) = 0  BY DEF Init
<1>3. TypeOK  BY <1>1, <1>2 DEF Init, TypeOK
<1>4. AnswerOK  BY DEF Init, AnswerOK
<1>5. OwnCalls  BY <1>2 DEF OwnCalls
<1> QED  BY <1>3, <1>4, <1>5 DEF ConversationInv

LEMMA ConversationNext == ConversationInv /\ [Next]_vars => ConversationInv'
<1> SUFFICES ASSUME ConversationInv, [Next]_vars PROVE ConversationInv'  OBVIOUS
<1>1. TypeOK /\ AnswerOK /\ OwnCalls  BY DEF ConversationInv
<1>2. CASE Says
  <2>1. /\ Len(msgs) < MaxMessages[client]
        /\ UNCHANGED <<client, env, sent, model, answer>>
    BY <1>2 DEF Says
  <2>2. PICK m \in Said[client] : msgs' = Append(msgs, Itemized(m, Len(msgs) + 1))
    BY <1>2 DEF Says
  <2>3. /\ msgs \in Seq(Message) /\ client \in Client /\ Len(msgs) \in Nat
        /\ sent \in 0..Len(msgs) /\ env \in Environment[client]
    BY <1>1 DEF TypeOK
  <2>4. MaxMessages[client] \in Nat  BY <2>3, MaxMessagesIsPositive
  <2>5. m \in Message  BY <2>2, <2>3, SaysMessages
  <2>6. Itemized(m, Len(msgs) + 1) \in Message  BY <2>3, <2>5, ItemizedMessage
  <2>7. msgs' \in Seq(Message) /\ Len(msgs') = Len(msgs) + 1  BY <2>2, <2>3, <2>6
  <2>8. TypeOK'  BY <2>1, <2>3, <2>4, <2>7 DEF TypeOK
  <2>9. AnswerOK'  BY <1>1, <2>1 DEF AnswerOK
  <2>10. OwnCalls'
    <3> DEFINE n == Len(msgs)
               new == Itemized(m, n + 1)
    <3>1. OwnIds(new)  BY <2>2, <2>3, <2>5, CallsHaveOwnIds, ItemizedOwnIds
    <3> HIDE DEF new
    <3>2. /\ n \in Nat /\ DOMAIN msgs = 1..n /\ DOMAIN msgs' = 1..(n + 1)
          /\ msgs'[n + 1] = new /\ \A i \in 1..n : msgs'[i] = msgs[i]
      BY <2>2, <2>3, <2>6 DEF new
    <3> HIDE DEF n
    <3>3. \A i \in 1..(n + 1) : i \in 1..n \/ i = n + 1  BY <3>2
    <3>4. \A i \in 1..(n + 1) : OwnIds(msgs'[i])  BY <1>1, <3>1, <3>2, <3>3 DEF OwnCalls
    <3> QED  BY <3>2, <3>4 DEF OwnCalls
  <2> QED  BY <2>8, <2>9, <2>10 DEF ConversationInv
<1>3. CASE SendsRequest
  <2>1. PICK flags \in Flags[client] : HandleMessages(flags)  BY <1>3 DEF SendsRequest
  <2> DEFINE r == Resolve(model, flags.context1M, env.overrides)
             effort == resolveEffort(r.kiro, flags.effort, r.thinking \/ flags.thinking)
  <2>2. /\ sent' = Len(msgs)
        /\ answer' = [asked |-> model, flags |-> flags, resolved |-> r, effort |-> effort]
        /\ UNCHANGED <<client, env, msgs, model>>
    BY <2>1 DEF HandleMessages
  <2> HIDE DEF r
  <2>3. answer'.effort = effort /\ answer'.resolved = r /\ answer'.flags = flags
    BY <2>2
  <2>4. AnswerOK'  BY <2>3 DEF AnswerOK
  <2>5. TypeOK' /\ OwnCalls'  BY <1>1, <2>2 DEF TypeOK, OwnCalls
  <2> QED  BY <2>4, <2>5 DEF ConversationInv
<1>4. CASE AdoptsModel
  BY <1>1, <1>4 DEF AdoptsModel, ConversationInv, TypeOK, AnswerOK, OwnCalls
<1>5. CASE UNCHANGED vars
  BY <1>1, <1>5 DEF vars, ConversationInv, TypeOK, AnswerOK, OwnCalls
<1> QED  BY <1>2, <1>3, <1>4, <1>5 DEF Next

(* The messages of the conversation are messages, no more than the bound,  *)
(* and the last request had no more than there are: whatever the client    *)
(* says, in whatever order, and however often it asks in between.          *)
THEOREM ConversationTypeCorrect == Spec => []TypeOK
<1>1. ConversationInv => TypeOK  BY DEF ConversationInv
<1> QED  BY <1>1, ConversationInit, ConversationNext, PTL DEF Spec

LEMMA AllMessages ==
  ASSUME NEW q \in Seq(Message)
  PROVE  SubSeq(q, 1, Len(q)) = q
<1> DEFINE u == SubSeq(q, 1, Len(q))
<1>1. Len(q) \in Nat  OBVIOUS
<1>2. /\ u \in Seq(Message) /\ Len(u) = Len(q)
      /\ \A i \in 1..Len(q) : u[i] = q[i]
  BY <1>1
<1> HIDE DEF u
<1>3. u = q  BY <1>2, SeqEqual
<1> QED  BY <1>3 DEF u

(* Marshalling the inputs of calls changes nothing but the order of their  *)
(* members.                                                                *)
LEMMA InAnyOrderType ==
  ASSUME NEW X, NEW seq \in Seq(X)
  PROVE  \A o \in InAnyOrder(seq) : o \in Seq(X)
<1> DEFINE d == DOMAIN seq
<1>1. d = 1..Len(seq) /\ Len(seq) \in Nat /\ \A i \in d : seq[i] \in X  OBVIOUS
<1>2. \A p \in [d -> d] : [k \in d |-> seq[p[k]]] \in [d -> X]  BY <1>1
<1>3. [d -> X] \subseteq Seq(X)  BY <1>1
<1>4. \A o \in InAnyOrder(seq) : \E p \in [d -> d] : o = [k \in d |-> seq[p[k]]]
  BY DEF InAnyOrder
<1> QED  BY <1>2, <1>3, <1>4

(* m is o with the texts of some calls changed.                            *)
Rewrites(m, o) ==
  /\ m \in Message /\ m.role = o.role /\ m.string = o.string
  /\ DOMAIN m.blocks = DOMAIN o.blocks
  /\ \A k \in DOMAIN o.blocks : m.blocks[k].type = o.blocks[k].type
                                /\ m.blocks[k].id = o.blocks[k].id

LEMMA MarshalledMessages ==
  ASSUME NEW q \in Seq(Message), NEW hasTools, NEW w \in Marshallings(q, hasTools)
  PROVE  /\ w \in Seq(Message) /\ Len(w) = Len(q)
         /\ \A i \in 1..Len(q) : Rewrites(w[i], q[i])
<1> DEFINE inputs == InputsAsText(q, hasTools)
           any(p) == InAnyOrder(q[p[1]].blocks[p[2]].text)
<1>1. PICK o \in [inputs -> UNION {any(p) : p \in inputs}] :
         (\A p \in inputs : o[p] \in any(p)) /\ w = WithInputs(q, o)
  BY DEF Marshallings
<1>2. DOMAIN q = 1..Len(q) /\ Len(q) \in Nat /\ DOMAIN o = inputs  BY <1>1
<1> DEFINE block(i, k) == IF <<i, k>> \in DOMAIN o
                          THEN [q[i].blocks[k] EXCEPT !.text = o[<<i, k>>]] ELSE q[i].blocks[k]
           blocks(i) == [k \in DOMAIN q[i].blocks |-> block(i, k)]
<1>3. w = [i \in 1..Len(q) |-> [q[i] EXCEPT !.blocks = blocks(i)]]
  BY <1>1, <1>2 DEF WithInputs
<1>4. ASSUME NEW i \in 1..Len(q), NEW k \in DOMAIN q[i].blocks
      PROVE  /\ block(i, k) \in ContentBlock
             /\ block(i, k).type = q[i].blocks[k].type /\ block(i, k).id = q[i].blocks[k].id
  <2> DEFINE b == q[i].blocks[k]
  <2>1. b \in ContentBlock  BY <1>2, MessageParts
  <2>2. b.type \in BlockType /\ b.id \in Nat /\ b.text \in Seq(Nat)
        /\ b = [type |-> b.type, id |-> b.id, text |-> b.text]
    BY <2>1 DEF ContentBlock
  <2>3. CASE <<i, k>> \in inputs
    <3> DEFINE t == o[<<i, k>>]
    <3>1. t \in InAnyOrder(b.text)  BY <1>1, <2>3
    <3>2. t \in Seq(Nat)  BY <2>2, <3>1, InAnyOrderType
    <3>3. block(i, k) = [b EXCEPT !.text = t]  BY <1>2, <2>3
    <3> HIDE DEF block, b, t
    <3>4. block(i, k) = [type |-> b.type, id |-> b.id, text |-> t]  BY <2>2, <3>3
    <3>5. block(i, k) \in ContentBlock  BY <2>2, <3>2, <3>4 DEF ContentBlock
    <3> QED  BY <3>4, <3>5 DEF b
  <2>4. CASE <<i, k>> \notin inputs
    <3>1. block(i, k) = b  BY <1>2, <2>4
    <3> QED  BY <2>1, <3>1
  <2> QED  BY <2>3, <2>4
<1> HIDE DEF block
<1>5. ASSUME NEW i \in 1..Len(q) PROVE w[i] \in Message /\ Rewrites(w[i], q[i])
  <2> DEFINE m == q[i]
             f == blocks(i)
  <2>1. m \in Message  BY <1>2
  <2>2. DOMAIN f = DOMAIN m.blocks /\ \A k \in DOMAIN m.blocks : f[k] = block(i, k)
    OBVIOUS
  <2>3. f = [k \in DOMAIN m.blocks |-> f[k]]  OBVIOUS
  <2>4. w[i] = [m EXCEPT !.blocks = f]  BY <1>3
  <2>5. \A k \in DOMAIN m.blocks :
          /\ f[k] \in ContentBlock
          /\ f[k].type = m.blocks[k].type /\ f[k].id = m.blocks[k].id
    BY <1>4, <2>2
  <2>6. DOMAIN m = {"role", "string", "blocks"}  BY <2>1, MessageParts
  <2> HIDE DEF m, f, blocks
  <2>7. w[i] \in Message /\ w[i].role = m.role
    <3>1. DOMAIN f = DOMAIN m.blocks /\ \A k \in DOMAIN m.blocks : f[k] \in ContentBlock
      BY <2>2, <2>5
    <3>2. [m EXCEPT !.blocks = f] \in Message /\ [m EXCEPT !.blocks = f].role = m.role
      BY <2>1, <2>3, <3>1, NewBlocks
    <3> QED  BY <2>4, <3>2
  <2>8. w[i].string = m.string /\ w[i].blocks = f  BY <2>4, <2>6
  <2>9. Rewrites(w[i], m)  BY <2>2, <2>5, <2>7, <2>8 DEF Rewrites
  <2> QED  BY <2>7, <2>9 DEF m
<1>6. DOMAIN w = 1..Len(q)  BY <1>3
<1> HIDE DEF blocks
<1>7. w \in Seq(Message) /\ Len(w) = Len(q)
  <2>1. w = [i \in 1..Len(q) |-> w[i]]  BY <1>3
  <2>2. w \in [1..Len(q) -> Message]  BY <1>5, <2>1
  <2> QED  BY <1>2, <1>6, <2>2
<1> QED  BY <1>5, <1>7

LEMMA NothingMarshalled ==
  ASSUME NEW q \in Seq(Message), NEW hasTools, InputsAsText(q, hasTools) = {}
  PROVE  \A w \in Marshallings(q, hasTools) : w = q
<1> SUFFICES ASSUME NEW w \in Marshallings(q, hasTools) PROVE w = q  OBVIOUS
<1>1. PICK o : DOMAIN o = {} /\ w = WithInputs(q, o)  BY DEF Marshallings
<1>2. DOMAIN q = 1..Len(q) /\ Len(q) \in Nat  OBVIOUS
<1>3. ASSUME NEW i \in 1..Len(q)
      PROVE  [q[i] EXCEPT !.blocks =
                [k \in DOMAIN @ |-> IF <<i, k>> \in DOMAIN o
                                     THEN [@[k] EXCEPT !.text = o[<<i, k>>]] ELSE @[k]]]
               = q[i]
  <2> DEFINE m == q[i]
             b == m.blocks
             f == [k \in DOMAIN b |-> IF <<i, k>> \in DOMAIN o
                                       THEN [b[k] EXCEPT !.text = o[<<i, k>>]] ELSE b[k]]
  <2>1. m \in Message /\ b \in Seq(ContentBlock)  BY <1>2, MessageParts
  <2>2. m = [role |-> m.role, string |-> m.string, blocks |-> m.blocks]  BY <2>1 DEF Message
  <2>3. b = [k \in DOMAIN b |-> b[k]]
    <3> HIDE DEF b
    <3> QED  BY <2>1
  <2>4. f = [k \in DOMAIN b |-> b[k]]  BY <1>1
  <2>5. f = b  BY <2>3, <2>4
  <2>6. [m EXCEPT !.blocks = f] = m
    <3> HIDE DEF f, m
    <3>1. [m EXCEPT !.blocks = f] = [role |-> m.role, string |-> m.string, blocks |-> f]
      BY <2>2
    <3> QED  BY <2>2, <2>5, <3>1
  <2> QED  BY <2>6
<1>4. w = [i \in 1..Len(q) |-> q[i]]  BY <1>1, <1>2, <1>3 DEF WithInputs
<1>5. q = [i \in 1..Len(q) |-> q[i]]  BY <1>2
<1> QED  BY <1>4, <1>5

(* Whatever a client says and in whatever order its roles come, the        *)
(* entries of the payload begin with the user, alternate, and end with a   *)
(* message of the user that is not empty (message_normalizer.go, Normalize *)
(* and build_payload.go, splitMessages).                                   *)
THEOREM TurnsAlwaysAlternate == Spec => []TurnsAlternate
<1>1. TypeOK => TurnsAlternate
  <2> SUFFICES ASSUME TypeOK, JustSent, NEW p \in Payloads PROVE
        LET e == Entries(p)
        IN  /\ \A i \in DOMAIN e : e[i].role = IF i % 2 = 1 THEN "user" ELSE "assistant"
            /\ Last(e).role = "user"
            /\ Last(e).content # <<>> \/ Last(e).results # <<>>
    BY DEF TurnsAlternate
  <2>1. msgs \in Seq(Message) /\ msgs # <<>>  BY DEF TypeOK, JustSent
  <2>2. PICK w \in Marshallings(msgs, env.tools) : p = BuildPayload(w, env.tools, env.system)
    BY <2>1, AllMessages DEF Payloads, PayloadsOf
  <2>3. w \in Seq(Message) /\ w # <<>>  BY <2>1, MarshalledMessages
  <2> QED  BY <2>2, <2>3, PayloadTurns
<1> QED  BY <1>1, ConversationTypeCorrect, PTL

(* A conversation that goes on with an answer of the assistant keeps its   *)
(* history: what any request sent is a prefix, message ids included, of    *)
(* what a later one sends (history.go, "messageId must be stable across    *)
(* requests"), provided that no input of several members is marshalled.    *)
THEOREM HistoryIsAlwaysStable == Spec => []HistoryIsStable
<1>1. TypeOK => HistoryIsStable
  <2> SUFFICES ASSUME TypeOK, AnswerFollows, InputsAsText(msgs, env.tools) = {},
                      NEW p \in PayloadsOf(sent), NEW r \in Payloads
               PROVE  IsPrefix(p.history, r.history) /\ Len(r.history) > Len(p.history)
    BY DEF HistoryIsStable
  <2> DEFINE said   == SubSeq(msgs, 1, sent)
             before == p.history
             after  == r.history
  <2>1. /\ msgs \in Seq(Message) /\ sent \in Nat \ {0} /\ sent < Len(msgs)
        /\ msgs[sent].role # "assistant" /\ msgs[sent + 1].role = "assistant"
    BY DEF TypeOK, AnswerFollows
  <2>2. /\ before = BuildPayload(said, env.tools, env.system).history
        /\ after = BuildPayload(msgs, env.tools, env.system).history
    <3>1. /\ said \in Seq(Message) /\ Len(said) = sent
          /\ DOMAIN said = 1..sent /\ DOMAIN msgs = 1..Len(msgs)
          /\ \A i \in 1..sent : i \in 1..Len(msgs) /\ said[i] = msgs[i]
      BY <2>1
    <3> HIDE DEF said
    <3>2. InputsAsText(said, env.tools) \subseteq InputsAsText(msgs, env.tools)
      BY <3>1 DEF InputsAsText
    <3>3. InputsAsText(said, env.tools) = {}  BY <3>2
    <3>4. p = BuildPayload(said, env.tools, env.system)
      BY <3>1, <3>3, NothingMarshalled DEF PayloadsOf, said
    <3>5. r = BuildPayload(msgs, env.tools, env.system)
      BY <2>1, AllMessages, NothingMarshalled DEF Payloads, PayloadsOf
    <3> QED  BY <3>4, <3>5
  <2>3. Begins(before, after) /\ Alternating(before) /\ Alternating(after)
    BY <2>1, <2>2, PayloadBegins
  <2> HIDE DEF before, after
  <2>4. PICK Y : before \in Seq(Y)  BY <2>3 DEF Alternating
  <2>5. PICK Z : after \in Seq(Z)  BY <2>3 DEF Alternating
  <2> DEFINE W == Y \cup Z
             n == Len(before)
             u == SubSeq(before, 1, n)
             v == SubSeq(after, 1, n)
  <2>6. before \in Seq(W) /\ after \in Seq(W)  BY <2>4, <2>5
  <2> HIDE DEF W
  <2>7. n \in Nat /\ Len(after) \in Nat /\ n < Len(after)  BY <2>3, <2>6 DEF Begins
  <2>8. /\ u \in Seq(W) /\ Len(u) = n /\ v \in Seq(W) /\ Len(v) = n
        /\ \A i \in 1..n : u[i] = before[i] /\ v[i] = after[i]
    BY <2>6, <2>7
  <2> HIDE DEF u, v
  <2>9. u = v  BY <2>3, <2>8, SeqEqual DEF Begins
  <2> QED  BY <2>7, <2>9 DEF IsPrefix, u, v, before, after
<1> QED  BY <1>1, ConversationTypeCorrect, PTL

(* The effort that reaches Kiro is one its model accepts, the lowest that  *)
(* is not below what the client asked for, whichever model was resolved    *)
(* for whatever id (effort.go of both packages).                           *)
THEOREM EffortIsAlwaysHonoured == Spec => []EffortIsHonoured
<1>1. AnswerOK => EffortIsHonoured
  <2> SUFFICES ASSUME AnswerOK, answer # NoAnswer PROVE EffortIsHonoured
    BY DEF EffortIsHonoured
  <2> DEFINE kiro == answer.resolved.kiro
             asked == answer.flags.effort
             thinks == answer.flags.thinking \/ answer.resolved.thinking
             accepted == effortEnums(kiro)
             wanted == IF asked # "" THEN asked ELSE IF thinks THEN "medium" ELSE ""
             enough == {l \in accepted : effortRank[l] >= effortRank[wanted]}
  <2>1. answer.effort = resolveEffort(kiro, asked, thinks)
    BY DEF AnswerOK, resolveEffort
  <2>2. accepted \in {{"low", "medium", "high", "xhigh", "max"},
                      {"low", "medium", "high", "max"}, {}}
    BY DEF effortEnums
  <2>3. /\ DOMAIN effortRank = {"low", "medium", "high", "xhigh", "max"}
        /\ effortRank["low"] = 0 /\ effortRank["medium"] = 1 /\ effortRank["high"] = 2
        /\ effortRank["xhigh"] = 3 /\ effortRank["max"] = 4
    BY DEF effortRank
  <2>4. "" \notin DOMAIN effortRank  BY <2>3
  <2>5. answer.effort = ResolveEffort(kiro, wanted)
    BY <2>1, <2>4 DEF resolveEffort, ResolveEffort, defaultThinkingEffort
  <2> HIDE DEF wanted, kiro, asked, thinks
  <2>6. CASE wanted \in DOMAIN effortRank /\ accepted # {}
    <3>1. answer.effort = IF wanted \in accepted THEN wanted ELSE "max"
      BY <2>5, <2>6 DEF ResolveEffort
    <3> HIDE DEF accepted
    <3>2. wanted \in {"low", "medium", "high", "xhigh", "max"}  BY <2>3, <2>6
    <3>3. \A l \in accepted : effortRank[l] \in 0..4 /\ effortRank[l] <= 4
      BY <2>2, <2>3
    <3> DEFINE best == /\ answer.effort \in enough
                       /\ \A l \in enough : effortRank[answer.effort] <= effortRank[l]
    <3>4. ASSUME wanted \in accepted PROVE best
      <4>1. answer.effort = wanted /\ effortRank[wanted] \in Nat  BY <2>3, <3>1, <3>2, <3>4
      <4> QED  BY <3>4, <4>1
    <3>5. ASSUME wanted \notin accepted PROVE best
      <4>1. wanted = "xhigh" /\ accepted = {"low", "medium", "high", "max"}
        BY <2>2, <2>6, <3>2, <3>5
      <4>2. answer.effort = "max"  BY <3>1, <3>5
      <4>3. enough = {"max"}  BY <2>3, <4>1
      <4> QED  BY <2>3, <4>2, <4>3
    <3> HIDE DEF enough
    <3>6. best  BY <3>4, <3>5
    <3> QED
      BY <2>6, <3>6 DEF EffortIsHonoured, accepted, enough, wanted, kiro, asked, thinks
  <2>7. CASE ~(wanted \in DOMAIN effortRank /\ accepted # {})
    <3>1. answer.effort = ""  BY <2>5, <2>7 DEF ResolveEffort
    <3> QED  BY <2>7, <3>1 DEF EffortIsHonoured, wanted, kiro, asked, thinks
  <2> QED  BY <2>6, <2>7
<1>2. ConversationInv => EffortIsHonoured  BY <1>1 DEF ConversationInv
<1> QED  BY <1>2, ConversationInit, ConversationNext, PTL DEF Spec
----------------------------------------------------------------------------
(* Calls and results.  First what Filter picks: each element once, in its  *)
(* place.                                                                  *)
Distinct(seq) == \A j, k \in DOMAIN seq : seq[j] = seq[k] => j = k

LEMMA ToSetAppend ==
  ASSUME NEW X, NEW p \in Seq(X), NEW e \in X
  PROVE  ToSet(Append(p, e)) = ToSet(p) \cup {e}
<1> DEFINE u == Append(p, e)
           n == Len(p)
<1>1. /\ n \in Nat /\ DOMAIN p = 1..n /\ DOMAIN u = 1..(n + 1) /\ u[n + 1] = e
      /\ \A i \in 1..n : u[i] = p[i]
  OBVIOUS
<1> HIDE DEF u, n
<1>2. \A i \in 1..(n + 1) : i \in 1..n \/ i = n + 1  BY <1>1
<1>3. \A i \in 1..n : i \in 1..(n + 1)  BY <1>1
<1>4. n + 1 \in 1..(n + 1)  BY <1>1
<1>5. ToSet(u) \subseteq ToSet(p) \cup {e}  BY <1>1, <1>2 DEF ToSet
<1>6. ToSet(p) \cup {e} \subseteq ToSet(u)  BY <1>1, <1>3, <1>4 DEF ToSet
<1> QED  BY <1>5, <1>6 DEF u

LEMMA FilterRange ==
  ASSUME NEW X, NEW seq \in Seq(X), NEW S
  PROVE  ToSet(Filter(seq, S)) = ToSet(seq) \cap S
<1> DEFINE P(q) == ToSet(Filter(q, S)) = ToSet(q) \cap S
           T == {q \in Seq(X) : P(q)}
<1>1. P(<<>>)
  <2> DEFINE e == <<>>
  <2>1. Filter(e, S) = e  BY FilterEmpty
  <2>2. ToSet(e) = {}  BY DEF ToSet
  <2> HIDE DEF e
  <2>3. P(e)  BY <2>1, <2>2
  <2> QED  BY <2>3 DEF e
<1>2. ASSUME NEW q \in Seq(X), NEW e \in X, P(q) PROVE P(Append(q, e))
  <2>1. Filter(Append(q, e), S) = IF e \in S THEN Append(Filter(q, S), e) ELSE Filter(q, S)
    BY FilterAppend
  <2>2. ToSet(Append(q, e)) = ToSet(q) \cup {e}  BY ToSetAppend
  <2>3. Filter(q, S) \in Seq(X)  BY FilterType
  <2>4. ToSet(Append(Filter(q, S), e)) = ToSet(Filter(q, S)) \cup {e}  BY <2>3, ToSetAppend
  <2> QED  BY <1>2, <2>1, <2>2, <2>4
<1>3. Seq(X) \subseteq T
  <2> HIDE DEF P
  <2>1. <<>> \in T  BY <1>1
  <2>2. \A q \in Seq(X), e \in X : q \in T => Append(q, e) \in T  BY <1>2
  <2> HIDE DEF T
  <2> QED  BY <2>1, <2>2, SequenceInduction
<1> QED  BY <1>3

LEMMA DistinctAppend ==
  ASSUME NEW X, NEW p \in Seq(X), NEW e \in X
  PROVE  Distinct(Append(p, e)) <=> Distinct(p) /\ e \notin ToSet(p)
<1> DEFINE u == Append(p, e)
           n == Len(p)
<1>1. /\ n \in Nat /\ DOMAIN p = 1..n /\ DOMAIN u = 1..(n + 1) /\ u[n + 1] = e
      /\ \A i \in 1..n : u[i] = p[i]
  OBVIOUS
<1> HIDE DEF u, n
<1>2. \A i \in 1..(n + 1) : i \in 1..n \/ i = n + 1  BY <1>1
<1>3. \A i \in 1..n : i \in 1..(n + 1) /\ i # n + 1  BY <1>1
<1>4. n + 1 \in 1..(n + 1)  BY <1>1
<1>5. Distinct(u) => Distinct(p) /\ e \notin ToSet(p)
  BY <1>1, <1>3, <1>4 DEF Distinct, ToSet
<1>6. Distinct(p) /\ e \notin ToSet(p) => Distinct(u)
  BY <1>1, <1>2, <1>3 DEF Distinct, ToSet
<1> QED  BY <1>5, <1>6 DEF u

(* The only occurrence of an element.                                      *)
LEMMA FilterOne ==
  ASSUME NEW X, NEW seq \in Seq(X), Distinct(seq), NEW x \in ToSet(seq)
  PROVE  Filter(seq, {x}) = <<x>>
<1> DEFINE S == {x}
           P(q) == Distinct(q) =>
                     Filter(q, S) = IF x \in ToSet(q) THEN <<x>> ELSE <<>>
           T == {q \in Seq(X) : P(q)}
<1>1. P(<<>>)
  <2> DEFINE e == <<>>
  <2>1. Filter(e, S) = e  BY FilterEmpty
  <2>2. ToSet(e) = {}  BY DEF ToSet
  <2> HIDE DEF S
  <2> QED  BY <2>1, <2>2
<1>2. ASSUME NEW q \in Seq(X), NEW e \in X, P(q) PROVE P(Append(q, e))
  <2> SUFFICES ASSUME Distinct(Append(q, e))
               PROVE  Filter(Append(q, e), S)
                        = IF x \in ToSet(Append(q, e)) THEN <<x>> ELSE <<>>
    OBVIOUS
  <2>1. Distinct(q) /\ e \notin ToSet(q)  BY DistinctAppend
  <2>2. Filter(q, S) = IF x \in ToSet(q) THEN <<x>> ELSE <<>>  BY <1>2, <2>1
  <2>3. ToSet(Append(q, e)) = ToSet(q) \cup {e}  BY ToSetAppend
  <2>4. Filter(Append(q, e), S) = IF e \in S THEN Append(Filter(q, S), e) ELSE Filter(q, S)
    BY FilterAppend
  <2>5. Append(<<>>, e) = <<e>>  OBVIOUS
  <2>6. CASE e = x
    <3>1. Filter(Append(q, e), S) = Append(<<>>, e)  BY <2>1, <2>2, <2>4, <2>6
    <3> QED  BY <2>3, <2>5, <2>6, <3>1
  <2>7. CASE e # x
    <3>1. Filter(Append(q, e), S) = Filter(q, S)  BY <2>4, <2>7
    <3> QED  BY <2>2, <2>3, <2>7, <3>1
  <2> QED  BY <2>6, <2>7
<1>3. Seq(X) \subseteq T
  <2> HIDE DEF P
  <2>1. <<>> \in T  BY <1>1
  <2>2. \A q \in Seq(X), e \in X : q \in T => Append(q, e) \in T  BY <1>2
  <2> HIDE DEF T
  <2> QED  BY <2>1, <2>2, SequenceInduction
<1> QED  BY <1>3

(* Of blocks whose ids differ, Filter picks blocks whose ids differ.       *)
Unlike(seq, S) ==
  \A j, k \in DOMAIN seq : seq[j] \in S /\ seq[k] \in S /\ seq[j].id = seq[k].id => j = k

LEMMA FilterUnlike ==
  ASSUME NEW X, NEW seq \in Seq(X), NEW S, Unlike(seq, S)
  PROVE  Unlike(Filter(seq, S), S)
<1> DEFINE F(q) == Filter(q, S)
           P(q) == Unlike(q, S) => Unlike(F(q), S)
           T == {q \in Seq(X) : P(q)}
<1>1. P(<<>>)
  <2>1. F(<<>>) = <<>>  BY FilterEmpty
  <2> QED  BY <2>1
<1>2. ASSUME NEW q \in Seq(X), NEW e \in X, P(q) PROVE P(Append(q, e))
  <2> DEFINE u == Append(q, e)
             n == Len(q)
             f == F(q)
             g == Append(f, e)
             m == Len(f)
  <2> SUFFICES ASSUME Unlike(u, S) PROVE Unlike(F(u), S)  OBVIOUS
  <2>1. /\ n \in Nat /\ DOMAIN q = 1..n /\ DOMAIN u = 1..(n + 1) /\ u[n + 1] = e
        /\ \A i \in 1..n : u[i] = q[i]
    OBVIOUS
  <2>2. F(u) = IF e \in S THEN g ELSE f  BY FilterAppend
  <2>3. ToSet(f) = ToSet(q) \cap S /\ f \in Seq(X)  BY FilterRange, FilterType
  <2>4. P(q)  BY <1>2
  <2> HIDE DEF F, u, n
  <2>5. \A i \in 1..n : i \in 1..(n + 1) /\ i # n + 1  BY <2>1
  <2>6. n + 1 \in 1..(n + 1)  BY <2>1
  <2>7. Unlike(q, S)  BY <2>1, <2>5 DEF Unlike
  <2>8. Unlike(f, S)  BY <2>4, <2>7
  <2>9. CASE e \in S
    <3>1. \A i \in 1..n : q[i] \in S => q[i].id # e.id
      BY <2>1, <2>5, <2>6, <2>9 DEF Unlike
    <3>2. \A y \in ToSet(f) : y.id # e.id  BY <2>1, <2>3, <3>1 DEF ToSet
    <3> HIDE DEF f
    <3>3. /\ m \in Nat /\ DOMAIN f = 1..m /\ DOMAIN g = 1..(m + 1) /\ g[m + 1] = e
          /\ \A i \in 1..m : g[i] = f[i]
      BY <2>3
    <3> HIDE DEF g, m
    <3>4. \A i \in 1..m : g[i].id # e.id  BY <3>2, <3>3 DEF ToSet
    <3>5. \A i \in 1..(m + 1) : i \in 1..m \/ i = m + 1  BY <3>3
    <3>6. Unlike(g, S)  BY <2>8, <3>3, <3>4, <3>5 DEF Unlike
    <3> QED  BY <2>2, <2>9, <3>6
  <2>10. CASE e \notin S  BY <2>2, <2>8, <2>10
  <2> QED  BY <2>9, <2>10
<1>3. Seq(X) \subseteq T
  <2> HIDE DEF P
  <2>1. <<>> \in T  BY <1>1
  <2>2. \A q \in Seq(X), e \in X : q \in T => Append(q, e) \in T  BY <1>2
  <2> HIDE DEF T
  <2> QED  BY <2>1, <2>2, SequenceInduction
<1> QED  BY <1>3
----------------------------------------------------------------------------
(* Every result in a message of the user answers a call of the message     *)
(* before it, and the calls of a message have ids of their own: so it is   *)
(* after the results without a call were turned into text, and each of the *)
(* later passes keeps it.                                                  *)
ResultIds(m) == ToSet(Ids(ToolResults(m)))
CallIds(m)   == ToSet(Ids(ToolUses(m)))

Fit(m) ==
  /\ ToolUses(m) \in Seq(ContentBlock) /\ ToolResults(m) \in Seq(ContentBlock)
  /\ m.role = "assistant" => Distinct(Ids(ToolUses(m)))
  /\ isPlainTextContent(m) => ToolUses(m) = <<>> /\ ToolResults(m) = <<>>

CallsAtEnd(q) ==
  IF q # <<>> /\ Last(q).role = "assistant" THEN CallIds(Last(q)) ELSE {}

PairedAt(q, i) ==
  Fit(q[i]) /\ (q[i].role = "user" => ResultIds(q[i]) \subseteq CallsBefore(q, i))
Paired(q) == \A i \in DOMAIN q : PairedAt(q, i)

LEMMA IdsEmpty == Ids(<<>>) = <<>> /\ ToSet(Ids(<<>>)) = {} /\ Distinct(Ids(<<>>))
<1> DEFINE e == <<>>
<1>1. DOMAIN e = {}  OBVIOUS
<1>2. Ids(e) = [k \in {} |-> e[k].id]  BY <1>1 DEF Ids
<1>3. Ids(e) = e  BY <1>2
<1>4. ToSet(e) = {} /\ Distinct(e)  BY <1>1 DEF ToSet, Distinct
<1> HIDE DEF e
<1>5. Ids(e) = e /\ ToSet(Ids(e)) = {} /\ Distinct(Ids(e))  BY <1>3, <1>4
<1> QED  BY <1>5 DEF e

LEMMA WithoutTools ==
  ASSUME NEW m, ToolUses(m) = <<>>, ToolResults(m) = <<>>
  PROVE  Fit(m) /\ ResultIds(m) = {} /\ CallIds(m) = {}
<1>1. <<>> \in Seq(ContentBlock)  OBVIOUS
<1>2. ResultIds(m) = {} /\ CallIds(m) = {}  BY IdsEmpty DEF ResultIds, CallIds
<1>3. Distinct(Ids(ToolUses(m)))  BY IdsEmpty
<1>4. ToolUses(m) \in Seq(ContentBlock) /\ ToolResults(m) \in Seq(ContentBlock)  BY <1>1
<1> QED  BY <1>2, <1>3, <1>4 DEF Fit

LEMMA StringWithoutTools ==
  ASSUME NEW m, m.string = TRUE
  PROVE  ToolUses(m) = <<>> /\ ToolResults(m) = <<>>
BY DEF ToolUses, ToolResults

(* The blocks that ToolUses and ToolResults pick are blocks of the message.*)
LEMMA PickedBlocks ==
  ASSUME NEW m \in Message
  PROVE  /\ ToolUses(m) \in Seq(ContentBlock) /\ ToolResults(m) \in Seq(ContentBlock)
         /\ \A b \in ToSet(ToolUses(m)) : IsToolUse(b) /\ \E k \in DOMAIN m.blocks : b = m.blocks[k]
         /\ \A b \in ToSet(ToolResults(m)) :
               /\ IsToolResult(b)
               /\ ~m.string /\ \E k \in DOMAIN m.blocks : b = m.blocks[k]
<1> DEFINE bs == m.blocks
           U == {b \in ToSet(bs) : IsToolUse(b)}
           R == {b \in ToSet(bs) : IsToolResult(b)}
<1>1. bs \in Seq(ContentBlock) /\ m.string \in BOOLEAN  BY MessageParts
<1>2. /\ ToolUses(m) = IF m.string THEN <<>> ELSE Filter(bs, U)
      /\ ToolResults(m) = IF m.string THEN <<>> ELSE Filter(bs, R)
  BY DEF ToolUses, ToolResults
<1>3. \A b \in ToSet(bs) : \E k \in DOMAIN bs : b = bs[k]  BY DEF ToSet
<1> HIDE DEF bs
<1>4. /\ \A b \in U : IsToolUse(b) /\ b \in ToSet(bs)
      /\ \A b \in R : IsToolResult(b) /\ b \in ToSet(bs)
  OBVIOUS
<1> HIDE DEF U, R
<1>5. /\ Filter(bs, U) \in Seq(ContentBlock) /\ Filter(bs, R) \in Seq(ContentBlock)
      /\ ToSet(Filter(bs, U)) \subseteq U /\ ToSet(Filter(bs, R)) \subseteq R
  <2>1. \A S : Filter(bs, S) \in Seq(ContentBlock)  BY <1>1, FilterType
  <2>2. \A S : ToSet(Filter(bs, S)) \subseteq S  BY <1>1, FilterRange
  <2> QED  BY <2>1, <2>2
<1>6. <<>> \in Seq(ContentBlock) /\ ToSet(<<>>) = {}  BY DEF ToSet
<1>7. CASE m.string  BY <1>2, <1>6, <1>7
<1>8. CASE ~m.string
  <2>1. ToolUses(m) = Filter(bs, U) /\ ToolResults(m) = Filter(bs, R)  BY <1>2, <1>8
  <2> QED  BY <1>3, <1>4, <1>5, <1>8, <2>1 DEF bs
<1> QED  BY <1>7, <1>8

LEMMA OwnIdsDistinct ==
  ASSUME NEW m \in Message, OwnIds(m)
  PROVE  Distinct(Ids(ToolUses(m)))
<1> DEFINE bs == m.blocks
           U == {b \in ToSet(bs) : IsToolUse(b)}
           f == Filter(bs, U)
<1>1. bs \in Seq(ContentBlock) /\ m.string \in BOOLEAN  BY MessageParts
<1>2. CASE m.string
  <2>1. ToolUses(m) = <<>>  BY <1>2 DEF ToolUses
  <2> QED  BY <2>1, IdsEmpty
<1>3. CASE ~m.string
  <2>1. ToolUses(m) = f  BY <1>3 DEF ToolUses
  <2>2. Unlike(bs, U)  BY DEF OwnIds, Unlike
  <2>3. ToSet(f) \subseteq U
    <3> HIDE DEF U, bs
    <3> QED  BY <1>1, FilterRange
  <2>4. Unlike(f, U)
    <3> HIDE DEF U, bs
    <3> QED  BY <1>1, <2>2, FilterUnlike
  <2> HIDE DEF f, U
  <2>5. \A k \in DOMAIN f : f[k] \in U  BY <2>3 DEF ToSet
  <2>6. Distinct(Ids(f))  BY <2>4, <2>5 DEF Distinct, Ids, Unlike
  <2> QED  BY <2>1, <2>6
<1> QED  BY <1>1, <1>2, <1>3

LEMMA NoElements == \A X : \A s \in Seq(X) : ToSet(s) = {} => s = <<>>
<1> TAKE X
<1> TAKE s \in Seq(X)
<1> HAVE ToSet(s) = {}
<1>1. DOMAIN s = {}  BY DEF ToSet
<1>2. DOMAIN s = 1..Len(s) /\ Len(s) \in Nat  OBVIOUS
<1>3. Len(s) = 0
  <2>1. Len(s) # 0 => 1 \in 1..Len(s)  BY <1>2
  <2> QED  BY <1>1, <1>2, <2>1
<1> QED  BY <1>3

LEMMA PlainWithoutTools ==
  ASSUME NEW m \in Message, isPlainTextContent(m)
  PROVE  ToolUses(m) = <<>> /\ ToolResults(m) = <<>>
<1>1. \A k \in DOMAIN m.blocks : ~IsToolUse(m.blocks[k]) /\ ~IsToolResult(m.blocks[k])
  BY DEF isPlainTextContent, IsToolUse, IsToolResult
<1>2. /\ ToolUses(m) \in Seq(ContentBlock) /\ ToolResults(m) \in Seq(ContentBlock)
      /\ ToSet(ToolUses(m)) = {} /\ ToSet(ToolResults(m)) = {}
  BY <1>1, PickedBlocks
<1> QED  BY <1>2, NoElements

(* Turning blocks into text leaves no other tool blocks.                   *)
LEMMA MappedTools ==
  ASSUME NEW m \in Message, NEW r \in Message, ~m.string, r.string = m.string,
         DOMAIN r.blocks = DOMAIN m.blocks, NEW Gone,
         \A k \in DOMAIN m.blocks :
            r.blocks[k] = IF k \in Gone THEN Textualized(m.blocks[k]) ELSE m.blocks[k]
  PROVE  /\ \A b \in ToSet(ToolUses(r)) :
              \E k \in DOMAIN m.blocks \ Gone : b = m.blocks[k] /\ IsToolUse(b)
         /\ \A b \in ToSet(ToolResults(r)) :
              \E k \in DOMAIN m.blocks \ Gone : b = m.blocks[k] /\ IsToolResult(b)
<1>1. \A b : ~IsToolUse(Textualized(b)) /\ ~IsToolResult(Textualized(b))
  BY DEF Textualized, Block, IsToolUse, IsToolResult
<1>2. /\ \A b \in ToSet(ToolUses(r)) : IsToolUse(b) /\ \E k \in DOMAIN r.blocks : b = r.blocks[k]
      /\ \A b \in ToSet(ToolResults(r)) :
           IsToolResult(b) /\ \E k \in DOMAIN r.blocks : b = r.blocks[k]
  BY PickedBlocks
<1> QED  BY <1>1, <1>2

LEMMA JudgedMessage ==
  ASSUME NEW q \in Seq(Message), NEW i \in 1..Len(q), NEW hasTools,
         OwnIds(q[i]),
         q[i].role \notin {"user", "assistant"} => ToolResults(q[i]) = <<>>
  PROVE  LET m == Judged(q, hasTools)[i]
         IN  /\ Fit(m)
             /\ m.role = "user" => ResultIds(m) \subseteq CallsBefore(q, i)
             /\ ~hasTools => ToolResults(m) = <<>>
             /\ hasTools /\ q[i].role = "assistant" => m = q[i]
<1> DEFINE o == q[i]
           t == textualizeToolContent(q, hasTools)[i]
           m == Judged(q, hasTools)[i]
           calls == CallsBefore(q, i)
<1>1. o \in Message /\ o.string \in BOOLEAN /\ DOMAIN q = 1..Len(q)  BY MessageParts
<1>2. t \in Message /\ t.role = o.role
  BY AllTextualized, OrphansTextualized DEF textualizeToolContent
<1>3. m = IF t.role \in {"user", "assistant"} THEN t ELSE [t EXCEPT !.role = "user"]
  BY <1>1 DEF Judged, normalizeRoles, textualizeToolContent, textualizeAllToolContent,
              textualizeOrphanToolResults
<1>4. m.string = t.string /\ m.blocks = t.blocks  BY <1>2, <1>3 DEF Message
<1>5. ToolUses(m) = ToolUses(t) /\ ToolResults(m) = ToolResults(t)
  BY <1>4 DEF ToolUses, ToolResults
<1> DEFINE plain == isPlainTextContent(m) => ToolUses(m) = <<>> /\ ToolResults(m) = <<>>
<1>9. plain
  <2>1. isPlainTextContent(m) => isPlainTextContent(t)  BY <1>4 DEF isPlainTextContent
  <2> HIDE DEF m, t
  <2> QED  BY <1>2, <1>5, <2>1, PlainWithoutTools
<1>6. CASE ~hasTools
  <2> DEFINE Gone == {k \in DOMAIN o.blocks : IsToolUse(o.blocks[k]) \/ IsToolResult(o.blocks[k])}
  <2>1. t = MapBlocks(o, LAMBDA b : IsToolUse(b) \/ IsToolResult(b))
    BY <1>1, <1>6 DEF textualizeToolContent, textualizeAllToolContent
  <2>2. CASE o.string
    <3>1. t = o  BY <2>1, <2>2 DEF MapBlocks
    <3>2. ToolUses(m) = <<>> /\ ToolResults(m) = <<>>
      BY <1>5, <2>2, <3>1, StringWithoutTools
    <3> QED  BY <1>6, <3>2, WithoutTools
  <2>3. CASE ~o.string
    <3>1. /\ t.string = o.string /\ DOMAIN t.blocks = DOMAIN o.blocks
          /\ \A k \in DOMAIN o.blocks :
               t.blocks[k] = IF k \in Gone THEN Textualized(o.blocks[k]) ELSE o.blocks[k]
      BY <1>1, <2>1, <2>3 DEF MapBlocks, Message
    <3>2. /\ \A k \in DOMAIN o.blocks \ Gone :
               ~IsToolUse(o.blocks[k]) /\ ~IsToolResult(o.blocks[k])
      OBVIOUS
    <3> HIDE DEF Gone, o, t, m
    <3>3. /\ \A b \in ToSet(ToolUses(t)) :
               \E k \in DOMAIN o.blocks \ Gone : b = o.blocks[k] /\ IsToolUse(b)
          /\ \A b \in ToSet(ToolResults(t)) :
               \E k \in DOMAIN o.blocks \ Gone : b = o.blocks[k] /\ IsToolResult(b)
      BY <1>1, <1>2, <2>3, <3>1, MappedTools
    <3>4. ToSet(ToolUses(t)) = {} /\ ToSet(ToolResults(t)) = {}  BY <3>2, <3>3
    <3>5. ToolUses(t) \in Seq(ContentBlock) /\ ToolResults(t) \in Seq(ContentBlock)
      BY <1>2, PickedBlocks
    <3>6. ToolUses(m) = <<>> /\ ToolResults(m) = <<>>  BY <1>5, <3>4, <3>5, NoElements
    <3>7. Fit(m) /\ ResultIds(m) = {}  BY <3>6, WithoutTools
    <3> QED  BY <1>6, <3>6, <3>7 DEF m
  <2> QED  BY <1>1, <2>2, <2>3
<1>7. CASE hasTools /\ o.role # "user"
  <2>1. t = o
    BY <1>1, <1>7 DEF textualizeToolContent, textualizeOrphanToolResults
  <2>2. CASE o.role = "assistant"
    <3>1. m = o  BY <1>3, <2>1, <2>2
    <3>2. Distinct(Ids(ToolUses(o)))  BY <1>1, OwnIdsDistinct
    <3>3. ToolUses(o) \in Seq(ContentBlock) /\ ToolResults(o) \in Seq(ContentBlock)
      BY <1>1, PickedBlocks
    <3> HIDE DEF o, m
    <3>4. Fit(m) /\ m.role # "user"  BY <1>9, <2>2, <3>1, <3>2, <3>3 DEF Fit
    <3> QED  BY <1>7, <3>1, <3>4 DEF m, o
  <2>3. CASE o.role # "assistant"
    <3>1. ToolResults(m) = <<>>  BY <1>5, <1>7, <2>1, <2>3
    <3>2. m.role = "user"  BY <1>2, <1>3, <1>7, <2>3 DEF Message
    <3>3. ToolUses(m) \in Seq(ContentBlock) /\ ToolResults(m) \in Seq(ContentBlock)
      BY <1>1, <1>5, <2>1, PickedBlocks
    <3>4. ResultIds(m) = {}  BY <3>1, IdsEmpty DEF ResultIds
    <3> HIDE DEF o, m
    <3>5. Fit(m)  BY <1>9, <3>2, <3>3 DEF Fit
    <3> QED  BY <1>7, <2>3, <3>4, <3>5 DEF m, o
  <2> QED  BY <2>2, <2>3
<1>8. CASE hasTools /\ o.role = "user"
  <2> DEFINE Gone == {k \in DOMAIN o.blocks :
                        IsToolResult(o.blocks[k]) /\ o.blocks[k].id \notin calls}
  <2>1. t = MapBlocks(o, LAMBDA b : IsToolResult(b) /\ b.id \notin calls)
    BY <1>1, <1>8 DEF textualizeToolContent, textualizeOrphanToolResults
  <2>2. m = t  BY <1>2, <1>3, <1>8
  <2>3. ToolUses(m) \in Seq(ContentBlock) /\ ToolResults(m) \in Seq(ContentBlock)
    BY <1>2, <2>2, PickedBlocks
  <2>4. Fit(m)
    <3> HIDE DEF m
    <3> QED  BY <1>9, <1>2, <1>8, <2>2, <2>3 DEF Fit
  <2>5. ResultIds(m) \subseteq calls
    <3>1. CASE o.string
      <4>1. t = o  BY <2>1, <3>1 DEF MapBlocks
      <4>2. ToolResults(m) = <<>>  BY <2>2, <3>1, <4>1, StringWithoutTools
      <4> QED  BY <4>2, IdsEmpty DEF ResultIds
    <3>2. CASE ~o.string
      <4>1. /\ t.string = o.string /\ DOMAIN t.blocks = DOMAIN o.blocks
            /\ \A k \in DOMAIN o.blocks :
                 t.blocks[k] = IF k \in Gone THEN Textualized(o.blocks[k]) ELSE o.blocks[k]
        BY <1>1, <2>1, <3>2 DEF MapBlocks, Message
      <4>2. \A k \in DOMAIN o.blocks \ Gone :
               IsToolResult(o.blocks[k]) => o.blocks[k].id \in calls
        OBVIOUS
      <4> HIDE DEF Gone, o, t, m, calls
      <4>3. \A b \in ToSet(ToolResults(t)) :
               \E k \in DOMAIN o.blocks \ Gone : b = o.blocks[k] /\ IsToolResult(b)
        BY <1>1, <1>2, <3>2, <4>1, MappedTools
      <4>4. \A b \in ToSet(ToolResults(m)) : b.id \in calls  BY <2>2, <4>2, <4>3
      <4> QED  BY <4>4 DEF ResultIds, Ids, ToSet
    <3> QED  BY <1>1, <3>1, <3>2
  <2> QED  BY <1>8, <2>4, <2>5
<1> QED  BY <1>6, <1>7, <1>8

LEMMA JudgedPaired ==
  ASSUME NEW q \in Seq(Message), NEW hasTools,
         \A i \in 1..Len(q) : /\ OwnIds(q[i])
                              /\ q[i].role \notin {"user", "assistant"}
                                   => ToolResults(q[i]) = <<>>
  PROVE  Paired(Judged(q, hasTools))
<1> DEFINE j == Judged(q, hasTools)
           n == Len(q)
<1>1. j \in Seq(Turn) /\ Len(j) = n /\ n \in Nat /\ DOMAIN j = 1..n /\ DOMAIN q = 1..n
  BY JudgedTurns
<1>2. \A i \in 1..n : j[i].role = IF q[i].role = "assistant" THEN "assistant" ELSE "user"
  BY JudgedTurns
<1>3. \A i \in 1..n : /\ Fit(j[i])
                      /\ j[i].role = "user" => ResultIds(j[i]) \subseteq CallsBefore(q, i)
                      /\ ~hasTools => ToolResults(j[i]) = <<>>
                      /\ hasTools /\ q[i].role = "assistant" => j[i] = q[i]
  BY JudgedMessage
<1> HIDE DEF j, n
<1> SUFFICES ASSUME NEW i \in 1..n PROVE PairedAt(j, i)  BY <1>1 DEF Paired, j
<1>4. CASE ~hasTools
  <2>1. ResultIds(j[i]) = {}  BY <1>3, <1>4, IdsEmpty DEF ResultIds
  <2> QED  BY <1>3, <2>1 DEF PairedAt
<1>5. CASE hasTools
  <2>1. CallsBefore(j, i) = CallsBefore(q, i)
    <3>1. CASE i > 1
      <4>1. i - 1 \in 1..n  BY <1>1, <3>1
      <4>2. j[i - 1].role = "assistant" <=> q[i - 1].role = "assistant"  BY <1>2, <4>1
      <4>3. q[i - 1].role = "assistant" => j[i - 1] = q[i - 1]  BY <1>3, <1>5, <4>1
      <4> QED  BY <4>2, <4>3 DEF CallsBefore
    <3>2. CASE ~(i > 1)  BY <3>2 DEF CallsBefore
    <3> QED  BY <3>1, <3>2
  <2> QED  BY <1>3, <2>1 DEF PairedAt
<1> QED  BY <1>4, <1>5

LEMMA PairedEmpty == Paired(<<>>) /\ CallsAtEnd(<<>>) = {}
BY DEF Paired, CallsAtEnd

LEMMA PairedAppend ==
  ASSUME NEW Y, NEW q \in Seq(Y), NEW m \in Y
  PROVE  /\ Paired(Append(q, m)) <=>
              /\ Paired(q) /\ Fit(m)
              /\ m.role = "user" => ResultIds(m) \subseteq CallsAtEnd(q)
         /\ CallsAtEnd(Append(q, m)) = IF m.role = "assistant" THEN CallIds(m) ELSE {}
<1> DEFINE u == Append(q, m)
           n == Len(q)
<1>1. /\ n \in Nat /\ DOMAIN q = 1..n /\ DOMAIN u = 1..(n + 1) /\ u[n + 1] = m
      /\ \A i \in 1..n : u[i] = q[i]
      /\ Last(u) = m /\ u # <<>> /\ (q # <<>> <=> n > 0) /\ Last(q) = q[n]
  BY DEF Last
<1> HIDE DEF u, n
<1>2. \A i \in 1..n : CallsBefore(u, i) = CallsBefore(q, i)
  <2> TAKE i \in 1..n
  <2>1. i > 1 => u[i - 1] = q[i - 1]  BY <1>1
  <2> QED  BY <2>1 DEF CallsBefore
<1>3. CallsBefore(u, n + 1) = CallsAtEnd(q)
  <2>1. (n + 1) - 1 = n /\ (n + 1 > 1 <=> n > 0)  BY <1>1
  <2>2. n > 0 => u[n] = q[n]  BY <1>1
  <2> QED  BY <1>1, <2>1, <2>2 DEF CallsBefore, CallsAtEnd, CallIds
<1>4. \A i \in 1..n : PairedAt(u, i) <=> PairedAt(q, i)  BY <1>1, <1>2 DEF PairedAt
<1>5. PairedAt(u, n + 1) <=>
        Fit(m) /\ (m.role = "user" => ResultIds(m) \subseteq CallsAtEnd(q))
  BY <1>1, <1>3 DEF PairedAt
<1>6. \A i \in 1..(n + 1) : i \in 1..n \/ i = n + 1  BY <1>1
<1>7. (\A i \in 1..n : i \in 1..(n + 1)) /\ n + 1 \in 1..(n + 1)  BY <1>1
<1>8. CallsAtEnd(u) = IF m.role = "assistant" THEN CallIds(m) ELSE {}
  BY <1>1 DEF CallsAtEnd
<1> QED  BY <1>1, <1>4, <1>5, <1>6, <1>7, <1>8 DEF Paired, u

LEMMA FrontLast ==
  ASSUME NEW Y, NEW q \in Seq(Y), q # <<>>
  PROVE  Front(q) \in Seq(Y) /\ Last(q) \in Y /\ q = Append(Front(q), Last(q))
<1> DEFINE f == Front(q)
           u == Append(f, Last(q))
           n == Len(q)
<1>1. n \in Nat \ {0} /\ Last(q) = q[n] /\ Last(q) \in Y  BY DEF Last
<1>2. f \in Seq(Y) /\ Len(f) = n - 1 /\ \A i \in 1..(n - 1) : f[i] = q[i]  BY FrontParts
<1> HIDE DEF f, n
<1>3. u \in Seq(Y) /\ Len(u) = n /\ u[n] = q[n] /\ \A i \in 1..(n - 1) : u[i] = q[i]
  BY <1>1, <1>2
<1>4. \A i \in 1..n : i = n \/ i \in 1..(n - 1)  BY <1>1
<1> HIDE DEF u
<1>5. \A i \in 1..n : u[i] = q[i]  BY <1>3, <1>4
<1>6. u = q  BY <1>3, <1>5, SeqEqual DEF n
<1> QED  BY <1>1, <1>2, <1>6 DEF f, u

LEMMA StringFits ==
  ASSUME NEW role, NEW text
  PROVE  LET x == StringMessage(role, text)
         IN  x.role = role /\ Fit(x) /\ ResultIds(x) = {} /\ CallIds(x) = {}
<1> DEFINE x == StringMessage(role, text)
<1>1. x.role = role /\ x.string = TRUE  BY DEF StringMessage
<1> HIDE DEF x
<1>2. ToolUses(x) = <<>> /\ ToolResults(x) = <<>>  BY <1>1, StringWithoutTools
<1>3. Fit(x) /\ ResultIds(x) = {} /\ CallIds(x) = {}  BY <1>2, WithoutTools
<1> QED  BY <1>1, <1>3 DEF x

LEMMA MergePaired ==
  ASSUME NEW s \in Seq(Turn), Paired(s)
  PROVE  Paired(Merged(s)) /\ CallsAtEnd(Merged(s)) = CallsAtEnd(s)
<1> DEFINE P(q) == Paired(q) =>
                     Paired(Merged(q)) /\ CallsAtEnd(Merged(q)) = CallsAtEnd(q)
           T == {q \in Seq(Turn) : P(q)}
<1>1. P(<<>>)  BY MergeEmpty DEF Merged
<1>2. ASSUME NEW q \in Seq(Turn), NEW m \in Turn, P(q) PROVE P(Append(q, m))
  <2> DEFINE run == Merged(q)
             longer == Append(q, m)
  <2> SUFFICES ASSUME Paired(longer)
               PROVE  Paired(Merged(longer)) /\ CallsAtEnd(Merged(longer)) = CallsAtEnd(longer)
    OBVIOUS
  <2>1. /\ Paired(q) /\ Fit(m) /\ (m.role = "user" => ResultIds(m) \subseteq CallsAtEnd(q))
        /\ CallsAtEnd(longer) = IF m.role = "assistant" THEN CallIds(m) ELSE {}
    BY PairedAppend
  <2>2. Paired(run) /\ CallsAtEnd(run) = CallsAtEnd(q)  BY <1>2, <2>1
  <2>3. Merged(longer) = Merge(run, m)  BY MergeAppend DEF Merged
  <2>4. PICK Y : run \in Seq(Y)  BY MergeTurns DEF Roled
  <2> HIDE DEF longer, run
  <2>5. CASE run # <<>> /\ Mergeable(Last(run), m)
    <3> DEFINE x == StringMessage(m.role,
                      ExtractTextContent(Last(run)) \o ExtractTextContent(m))
               Z == Y \cup {x}
               f == Front(run)
    <3>1. Merged(longer) = Append(f, x)  BY <2>3, <2>5 DEF Merge
    <3>2. x.role = m.role /\ Fit(x) /\ ResultIds(x) = {} /\ CallIds(x) = {}  BY StringFits
    <3> HIDE DEF x
    <3>3. f \in Seq(Y) /\ Last(run) \in Y /\ run = Append(f, Last(run))
      BY <2>4, <2>5, FrontLast
    <3> HIDE DEF f
    <3>4. Paired(f)
      <4>1. Paired(Append(f, Last(run)))  BY <2>2, <3>3
      <4> QED  BY <3>3, <4>1, PairedAppend
    <3>5. f \in Seq(Z) /\ x \in Z  BY <3>3
    <3> HIDE DEF Z
    <3>6. /\ Paired(Append(f, x))
          /\ CallsAtEnd(Append(f, x)) = IF x.role = "assistant" THEN CallIds(x) ELSE {}
      BY <3>2, <3>4, <3>5, PairedAppend
    <3>7. CallIds(m) = {}
      <4>1. ToolUses(m) = <<>>  BY <2>1, <2>5 DEF Mergeable, Fit
      <4> QED  BY <4>1, IdsEmpty DEF CallIds
    <3> QED  BY <2>1, <3>1, <3>2, <3>6, <3>7
  <2>6. CASE ~(run # <<>> /\ Mergeable(Last(run), m))
    <3> DEFINE Z == Y \cup {m}
    <3>1. Merged(longer) = Append(run, m)  BY <2>3, <2>6 DEF Merge
    <3>2. run \in Seq(Z) /\ m \in Z  BY <2>4
    <3> HIDE DEF Z
    <3>3. /\ Paired(Append(run, m))
          /\ CallsAtEnd(Append(run, m)) = IF m.role = "assistant" THEN CallIds(m) ELSE {}
      BY <2>1, <2>2, <3>2, PairedAppend
    <3> QED  BY <2>1, <3>1, <3>3
  <2> QED  BY <2>5, <2>6
<1>3. Seq(Turn) \subseteq T
  <2> HIDE DEF P
  <2>1. <<>> \in T  BY <1>1
  <2>2. \A q \in Seq(Turn), m \in Turn : q \in T => Append(q, m) \in T  BY <1>2
  <2> HIDE DEF T
  <2> QED  BY <2>1, <2>2, SequenceInduction
<1> QED  BY <1>3

LEMMA StartsPaired ==
  ASSUME NEW q, Roled(q), q # <<>>, Paired(q)
  PROVE  Paired(ensureStartsWithUser(q))
<1> DEFINE x == StringMessage("user", <<syntheticEmpty>>)
           r == <<x>> \o q
           n == Len(q)
<1>1. PICK Y : q \in Seq(Y)  BY DEF Roled
<1>2. CASE q[1].role = "user"
  <2>1. ensureStartsWithUser(q) = q  BY <1>1, <1>2 DEF ensureStartsWithUser
  <2> QED  BY <2>1
<1>3. CASE q[1].role # "user"
  <2>1. ensureStartsWithUser(q) = r  BY <1>1, <1>3 DEF ensureStartsWithUser
  <2>2. x.role = "user" /\ Fit(x) /\ ResultIds(x) = {}  BY StringFits
  <2> HIDE DEF x
  <2> DEFINE Z == Y \cup {x}
  <2>3. q \in Seq(Z) /\ x \in Z  BY <1>1
  <2> HIDE DEF Z
  <2>4. /\ n \in Nat /\ DOMAIN q = 1..n /\ DOMAIN r = 1..(n + 1) /\ r[1] = x
        /\ \A i \in 1..n : r[i + 1] = q[i]
    BY <2>3
  <2> HIDE DEF r, n
  <2>5. PairedAt(r, 1)  BY <2>2, <2>4 DEF PairedAt
  <2>6. ASSUME NEW i \in 1..n PROVE PairedAt(r, i + 1)
    <3>1. PairedAt(q, i) /\ r[i + 1] = q[i]  BY <2>4 DEF Paired
    <3>2. CASE i = 1
      <4>1. q[i].role # "user"  BY <1>3, <3>2
      <4> QED  BY <3>1, <4>1 DEF PairedAt
    <3>3. CASE i # 1
      <4>1. i - 1 \in 1..n /\ (i - 1) + 1 = (i + 1) - 1 /\ i > 1 /\ i + 1 > 1  BY <2>4, <3>3
      <4>2. r[(i + 1) - 1] = q[i - 1]  BY <2>4, <4>1
      <4>3. CallsBefore(r, i + 1) = CallsBefore(q, i)  BY <4>1, <4>2 DEF CallsBefore
      <4> QED  BY <3>1, <4>3 DEF PairedAt
    <3> QED  BY <3>2, <3>3
  <2>7. \A j \in 1..(n + 1) : j = 1 \/ \E i \in 1..n : j = i + 1
    <3> TAKE j \in 1..(n + 1)
    <3>1. j # 1 => j - 1 \in 1..n /\ j = (j - 1) + 1  BY <2>4
    <3> QED  BY <3>1
  <2>8. ASSUME NEW k \in 1..(n + 1) PROVE PairedAt(r, k)
    <3>1. CASE k = 1  BY <2>5, <3>1
    <3>2. CASE k # 1
      <4>1. PICK i \in 1..n : k = i + 1  BY <2>7, <3>2
      <4> QED  BY <2>6, <4>1
    <3> QED  BY <3>1, <3>2
  <2>9. Paired(r)  BY <2>4, <2>8 DEF Paired
  <2> QED  BY <2>1, <2>9
<1> QED  BY <1>2, <1>3

LEMMA AlternatePaired ==
  ASSUME NEW Y, NEW q \in Seq(Y), Paired(q)
  PROVE  Paired(ensureAlternatingRoles(q))
<1> DEFINE A(p) == ensureAlternatingRoles(p)
           P(p) == Paired(p) => Paired(A(p)) /\ CallsAtEnd(A(p)) = CallsAtEnd(p)
           T == {p \in Seq(Y) : P(p)}
<1>1. P(<<>>)  BY AlternateEmpty
<1>2. ASSUME NEW p \in Seq(Y), NEW m \in Y, P(p) PROVE P(Append(p, m))
  <2> DEFINE out == A(p)
             longer == Append(p, m)
             f == StringMessage(Opposite(m.role), <<syntheticEmpty>>)
  <2> SUFFICES ASSUME Paired(longer)
               PROVE  Paired(A(longer)) /\ CallsAtEnd(A(longer)) = CallsAtEnd(longer)
    OBVIOUS
  <2>1. /\ Paired(p) /\ Fit(m) /\ (m.role = "user" => ResultIds(m) \subseteq CallsAtEnd(p))
        /\ CallsAtEnd(longer) = IF m.role = "assistant" THEN CallIds(m) ELSE {}
    BY PairedAppend
  <2>2. Paired(out) /\ CallsAtEnd(out) = CallsAtEnd(p)  BY <1>2, <2>1
  <2>3. A(longer) = Alternate(out, m)  BY AlternateAppend
  <2>4. PICK Z : out \in Seq(Z)  BY AlternateSequence
  <2> HIDE DEF A, out, longer
  <2>5. CASE out # <<>> /\ Last(out).role = m.role
    <3>1. A(longer) = out \o <<f, m>>  BY <2>3, <2>5 DEF Alternate
    <3>2. Fit(f) /\ ResultIds(f) = {} /\ CallIds(f) = {}  BY StringFits
    <3> HIDE DEF f
    <3> DEFINE W == Z \cup {f, m}
               g == Append(out, f)
    <3>3. out \in Seq(W) /\ f \in W /\ m \in W  BY <2>4
    <3> HIDE DEF W
    <3>4. out \o <<f, m>> = Append(g, m) /\ g \in Seq(W)  BY <3>3
    <3>5. /\ Paired(g)
          /\ CallsAtEnd(g) = IF f.role = "assistant" THEN CallIds(f) ELSE {}
      BY <2>2, <3>2, <3>3, PairedAppend
    <3>6. m.role = "user" => ResultIds(m) = {}
      <4>1. m.role = "user" => CallsAtEnd(out) = {}  BY <2>5 DEF CallsAtEnd
      <4> QED  BY <2>1, <2>2, <4>1
    <3> HIDE DEF g
    <3>7. /\ Paired(Append(g, m))
          /\ CallsAtEnd(Append(g, m)) = IF m.role = "assistant" THEN CallIds(m) ELSE {}
      BY <2>1, <3>3, <3>4, <3>5, <3>6, PairedAppend
    <3> QED  BY <2>1, <3>1, <3>4, <3>7
  <2>6. CASE ~(out # <<>> /\ Last(out).role = m.role)
    <3> DEFINE W == Z \cup {m}
    <3>1. A(longer) = Append(out, m)  BY <2>3, <2>6 DEF Alternate
    <3>2. out \in Seq(W) /\ m \in W  BY <2>4
    <3> HIDE DEF W
    <3>3. /\ Paired(Append(out, m))
          /\ CallsAtEnd(Append(out, m)) = IF m.role = "assistant" THEN CallIds(m) ELSE {}
      BY <2>1, <2>2, <3>2, PairedAppend
    <3> QED  BY <2>1, <3>1, <3>3
  <2> QED  BY <2>5, <2>6
<1>3. Seq(Y) \subseteq T
  <2> HIDE DEF P
  <2>1. <<>> \in T  BY <1>1
  <2>2. \A p \in Seq(Y), m \in Y : p \in T => Append(p, m) \in T  BY <1>2
  <2> HIDE DEF T
  <2> QED  BY <2>1, <2>2, SequenceInduction
<1> QED  BY <1>3

(* Of a message with a role that Kiro does not know, the property says     *)
(* nothing: it may have no results here.                                   *)
Answering(q) ==
  \A i \in 1..Len(q) : /\ OwnIds(q[i])
                       /\ q[i].role \notin {"user", "assistant"} => ToolResults(q[i]) = <<>>

LEMMA NormalizePaired ==
  ASSUME NEW q \in Seq(Message), q # <<>>, NEW hasTools, Answering(q)
  PROVE  Paired(Normalize(q, hasTools))
<1> DEFINE j == Judged(q, hasTools)
           m == Merged(j)
           s == ensureStartsWithUser(m)
<1>1. j \in Seq(Turn) /\ Len(j) = Len(q)  BY JudgedTurns
<1>2. Paired(j)  BY JudgedPaired DEF Answering
<1>3. Normalize(q, hasTools) = ensureAlternatingRoles(s)  BY DEF Normalize, Judged, Merged
<1> HIDE DEF j
<1>4. j # <<>>  BY <1>1
<1>5. Roled(m) /\ m # <<>> /\ Paired(m)  BY <1>1, <1>2, <1>4, MergeTurns, MergePaired
<1> HIDE DEF m
<1>6. Roled(s) /\ Paired(s)  BY <1>5, StartsTurns, StartsPaired
<1> HIDE DEF s
<1>7. PICK Y : s \in Seq(Y)  BY <1>6 DEF Roled
<1> QED  BY <1>3, <1>6, <1>7, AlternatePaired

----------------------------------------------------------------------------
(* ReorderToolResults: with results that all answer one of some calls, it  *)
(* returns them in the order of the calls, one for each.                   *)
Follows(results, ids) == Ids(results) = Filter(ids, ToSet(Ids(results)))

LEMMA LastWithId ==
  ASSUME NEW results \in Seq(ContentBlock), NEW id \in ToSet(Ids(results))
  PROVE  LET k == SelectLastInSeq(results, LAMBDA r : r.id = id)
         IN  k \in 1..Len(results) /\ results[k].id = id
<1> DEFINE n == Len(results)
           I == {k \in 1..n : results[k].id = id}
<1>1. n \in Nat /\ DOMAIN results = 1..n  OBVIOUS
<1>2. I # {}  BY <1>1 DEF ToSet, Ids
<1>3. SelectLastInSeq(results, LAMBDA r : r.id = id) = Max(I)
  BY <1>2 DEF SelectLastInSeq
<1>4. \E k \in I : \A j \in I : k >= j
  <2>1. I \in SUBSET (1..n)  OBVIOUS
  <2> HIDE DEF I, n
  <2> QED  BY <1>1, <1>2, <2>1, GreatestElement
<1>5. Max(I) \in I
  <2> HIDE DEF I
  <2> QED  BY <1>4 DEF Max
<1> QED  BY <1>3, <1>5

LEMMA IdsType ==
  ASSUME NEW blocks \in Seq(ContentBlock)
  PROVE  /\ Ids(blocks) \in Seq(Nat) /\ Len(Ids(blocks)) = Len(blocks)
         /\ ToSet(Ids(blocks)) = {} => blocks = <<>>
<1>1. Len(blocks) \in Nat /\ DOMAIN blocks = 1..Len(blocks)  OBVIOUS
<1>2. \A k \in 1..Len(blocks) : blocks[k].id \in Nat
  <2>1. \A k \in 1..Len(blocks) : blocks[k] \in ContentBlock  BY <1>1
  <2> QED  BY <2>1 DEF ContentBlock
<1>3. Ids(blocks) = [k \in 1..Len(blocks) |-> blocks[k].id]  BY <1>1 DEF Ids
<1>4. Ids(blocks) \in Seq(Nat) /\ Len(Ids(blocks)) = Len(blocks)  BY <1>1, <1>2, <1>3
<1>5. ToSet(Ids(blocks)) = {} => blocks = <<>>
  <2> HAVE ToSet(Ids(blocks)) = {}
  <2>1. Ids(blocks) = <<>>  BY <1>4, NoElements
  <2>2. Len(blocks) = 0  BY <1>4, <2>1
  <2> QED  BY <2>2
<1> QED  BY <1>4, <1>5

LEMMA ReorderFollows ==
  ASSUME NEW results \in Seq(ContentBlock), NEW ids \in Seq(Nat), Distinct(ids),
         ToSet(Ids(results)) \subseteq ToSet(ids)
  PROVE  /\ Follows(ReorderToolResults(results, ids), ids)
         /\ results = <<>> => ReorderToolResults(results, ids) = <<>>
<1> DEFINE R == ReorderToolResults(results, ids)
           n == Len(results)
<1>1. n \in Nat /\ DOMAIN results = 1..n /\ (n = 0 <=> results = <<>>)  OBVIOUS
<1>2. results = <<>> => R = <<>>  BY DEF ReorderToolResults
<1>3. CASE results = <<>>
  <2>1. \A x : ~(x \in Nat /\ x \in {})  OBVIOUS
  <2>2. Filter(ids, {}) = <<>>  BY FilterNone
  <2>3. Ids(R) = <<>> /\ ToSet(Ids(R)) = {}  BY <1>2, <1>3, IdsEmpty
  <2> HIDE DEF R
  <2>4. Follows(R, ids)  BY <2>2, <2>3 DEF Follows
  <2> QED  BY <1>2, <2>4 DEF R
<1>4. CASE n = 1
  <2>1. R = results  BY <1>4 DEF ReorderToolResults
  <2> DEFINE x == results[1].id
  <2>2. Ids(results) = <<x>>
    <3>1. DOMAIN results = 1..1  BY <1>1, <1>4
    <3>2. Ids(results) = [k \in 1..1 |-> results[k].id]  BY <3>1 DEF Ids
    <3>3. \A k \in 1..1 : k = 1  OBVIOUS
    <3> QED  BY <3>2, <3>3
  <2> HIDE DEF x, R
  <2>3. ToSet(<<x>>) = {x}
    <3>1. DOMAIN <<x>> = {1} /\ <<x>>[1] = x  OBVIOUS
    <3> QED  BY <3>1 DEF ToSet
  <2>4. x \in ToSet(ids)  BY <2>2, <2>3
  <2>5. Filter(ids, {x}) = <<x>>  BY <2>4, FilterOne
  <2>6. Follows(R, ids)  BY <2>1, <2>2, <2>3, <2>5 DEF Follows
  <2> QED  BY <1>1, <1>4, <2>6 DEF R
<1>5. CASE n > 1
  <2> DEFINE index(id) == SelectLastInSeq(results, LAMBDA r : r.id = id)
             named == Filter(ids, ToSet(Ids(results)))
             others == {r \in ToSet(results) : r.id \notin ToSet(ids)}
             picked == [k \in DOMAIN named |-> results[index(named[k])]]
             m == Len(named)
  <2>1. ids # <<>>
    <3>1. 1 \in DOMAIN results  BY <1>1, <1>5
    <3>2. results[1].id \in ToSet(Ids(results))  BY <3>1 DEF ToSet, Ids
    <3>3. ToSet(<<>>) = {}  BY DEF ToSet
    <3> QED  BY <3>2, <3>3
  <2>2. R = picked \o Filter(results, others)
    BY <1>1, <1>5, <2>1, SMTT(60) DEF ReorderToolResults, SelectLastInSeq
  <2>3. others = {}
    <3>1. \A r \in ToSet(results) : r.id \in ToSet(Ids(results))  BY DEF ToSet, Ids
    <3> QED  BY <3>1
  <2>4. Filter(results, others) = <<>>
    <3> HIDE DEF others
    <3> QED  BY <2>3, FilterNone
  <2>5. named \in Seq(Nat) /\ ToSet(named) = ToSet(Ids(results))
    <3>1. ToSet(named) = ToSet(ids) \cap ToSet(Ids(results))  BY FilterRange
    <3> QED  BY <3>1, FilterType
  <2>6. m \in Nat /\ DOMAIN named = 1..m  BY <2>5
  <2>7. \A k \in 1..m : index(named[k]) \in 1..n /\ results[index(named[k])].id = named[k]
    <3> TAKE k \in 1..m
    <3>1. named[k] \in ToSet(Ids(results))  BY <2>5, <2>6 DEF ToSet
    <3> HIDE DEF named
    <3> QED  BY <3>1, LastWithId
  <2> HIDE DEF index, others
  <2>8. picked \in Seq(ContentBlock) /\ DOMAIN picked = 1..m
    <3>1. \A k \in 1..m : results[index(named[k])] \in ContentBlock  BY <1>1, <2>7
    <3>2. picked = [k \in 1..m |-> results[index(named[k])]]  BY <2>6
    <3> HIDE DEF named, m, picked
    <3> QED  BY <2>6, <3>1, <3>2
  <2>9. R = picked
    <3> HIDE DEF picked, R
    <3> QED  BY <2>2, <2>4, <2>8
  <2>10. Ids(picked) = named
    <3>1. Ids(picked) = [k \in 1..m |-> picked[k].id]
      <4> HIDE DEF picked
      <4> QED  BY <2>8 DEF Ids
    <3>2. \A k \in 1..m : picked[k].id = named[k]  BY <2>6, <2>7
    <3>3. named = [k \in 1..m |-> named[k]]
      <4> HIDE DEF named
      <4> QED  BY <2>5, <2>6
    <3> HIDE DEF picked, named, m
    <3> QED  BY <3>1, <3>2, <3>3
  <2> HIDE DEF picked, R
  <2>11. Follows(R, ids)  BY <2>5, <2>9, <2>10 DEF Follows
  <2> QED  BY <1>1, <1>5, <2>11 DEF R
<1> QED  BY <1>1, <1>3, <1>4, <1>5

LEMMA MessageFollows ==
  ASSUME NEW m, Fit(m), NEW ids \in Seq(Nat), Distinct(ids), ResultIds(m) \subseteq ToSet(ids)
  PROVE  LET R == ReorderToolResults(ToolResults(m), ids)
         IN  Follows(R, ids) /\ (R # <<>> => ids # <<>>)
<1> DEFINE q == ToolResults(m)
           R == ReorderToolResults(q, ids)
<1>1. q \in Seq(ContentBlock) /\ ToSet(Ids(q)) \subseteq ToSet(ids)  BY DEF Fit, ResultIds
<1> HIDE DEF q
<1>2. Follows(R, ids) /\ (q = <<>> => R = <<>>)  BY <1>1, ReorderFollows
<1>3. ids = <<>> => q = <<>>
  <2>1. ToSet(<<>>) = {}  BY DEF ToSet
  <2> QED  BY <1>1, <2>1, IdsType
<1> HIDE DEF R
<1>4. R # <<>> => ids # <<>>  BY <1>2, <1>3
<1> QED  BY <1>2, <1>4 DEF q, R

----------------------------------------------------------------------------
(* The entries of a payload.                                               *)
Following(e) ==
  \A i \in DOMAIN e : e[i].results # <<>> =>
    i > 1 /\ Follows(e[i].results, Ids(e[i - 1].uses))

LEMMA CallIdsType ==
  ASSUME NEW m, Fit(m), m.role = "assistant"
  PROVE  Ids(ToolUses(m)) \in Seq(Nat) /\ Distinct(Ids(ToolUses(m)))
BY IdsType DEF Fit

LEMMA HistoryFollows ==
  ASSUME NEW h, Alternating(h), Paired(h)
  PROVE  /\ Following(buildHistory(h))
         /\ \A i \in 1..Len(h) : h[i].role = "assistant" =>
              buildHistory(h)[i].uses = ToolUses(h[i])
<1> DEFINE b == buildHistory(h)
           n == Len(h)
           Before(i) == IF i > 1 /\ h[i - 1].role = "assistant"
                        THEN Ids(ToolUses(h[i - 1])) ELSE <<>>
<1>1. PICK Y : h \in Seq(Y) /\ \A i \in 1..n : h[i].role = TurnOf(i)  BY DEF Alternating
<1>2. n \in Nat /\ DOMAIN h = 1..n  BY <1>1
<1>3. /\ DOMAIN b = 1..n
      /\ \A i \in 1..n : b[i] = IF h[i].role = "assistant" THEN AssistantEntry(h[i])
                                ELSE UserEntry(h[i], Before(i))
  BY <1>2 DEF buildHistory
<1>4. \A m : AssistantEntry(m).results = <<>> /\ AssistantEntry(m).uses = ToolUses(m)
  BY DEF AssistantEntry, Entry
<1>5. \A m, ids : UserEntry(m, ids).results = ReorderToolResults(ToolResults(m), ids)
  BY DEF UserEntry, Entry
<1> HIDE DEF b, n
<1>6. \A i \in 1..n : h[i].role = "assistant" => b[i].uses = ToolUses(h[i])  BY <1>3, <1>4
<1>7. ASSUME NEW i \in 1..n, b[i].results # <<>>
      PROVE  i > 1 /\ Follows(b[i].results, Ids(b[i - 1].uses))
  <2> DEFINE ids == Before(i)
  <2>1. PairedAt(h, i)  BY <1>2 DEF Paired
  <2>2. h[i].role = "user"
    <3>1. h[i].role # "assistant"  BY <1>3, <1>4, <1>7
    <3> QED  BY <1>1, <3>1 DEF TurnOf
  <2>3. Fit(h[i]) /\ ResultIds(h[i]) \subseteq CallsBefore(h, i)  BY <2>1, <2>2 DEF PairedAt
  <2>4. ToSet(ids) = CallsBefore(h, i)
    <3>1. ToSet(<<>>) = {}  BY DEF ToSet
    <3> QED  BY <3>1 DEF CallsBefore
  <2>5. ids \in Seq(Nat) /\ Distinct(ids)
    <3>1. CASE i > 1 /\ h[i - 1].role = "assistant"
      <4>1. i - 1 \in 1..n  BY <1>2, <3>1
      <4>2. Fit(h[i - 1])  BY <1>2, <4>1 DEF Paired, PairedAt
      <4> QED  BY <3>1, <4>2, CallIdsType
    <3>2. CASE ~(i > 1 /\ h[i - 1].role = "assistant")
      <4>1. ids = <<>>  BY <3>2
      <4>2. <<>> \in Seq(Nat) /\ Distinct(<<>>)  BY IdsEmpty
      <4> QED  BY <4>1, <4>2
    <3> QED  BY <3>1, <3>2
  <2>6. b[i].results = ReorderToolResults(ToolResults(h[i]), ids)  BY <1>3, <1>5, <2>2
  <2>7. ids # <<>> => /\ i > 1 /\ h[i - 1].role = "assistant"
                      /\ ids = Ids(ToolUses(h[i - 1]))
    OBVIOUS
  <2> HIDE DEF ids
  <2>8. Follows(b[i].results, ids) /\ ids # <<>>
    BY <1>7, <2>3, <2>4, <2>5, <2>6, MessageFollows
  <2>9. i > 1 /\ ids = Ids(b[i - 1].uses)
    <3>1. i > 1 => i - 1 \in 1..n  BY <1>2
    <3> QED  BY <1>6, <2>7, <2>8, <3>1
  <2> QED  BY <2>8, <2>9
<1>8. Following(b)  BY <1>3, <1>7 DEF Following
<1> QED  BY <1>6, <1>8 DEF b, n

LEMMA PlacedFollows ==
  ASSUME NEW b, Alternating(b), Following(b), NEW system
  PROVE  LET r == placeSystemPrompt(system, b)
         IN  Following(r) /\ (b # <<>> => r # <<>> /\ Last(r) = Last(b))
<1>1. PICK Y : b \in Seq(Y)  BY DEF Alternating
<1> DEFINE x == Entry("user", <<SystemPrompt>>, <<>>, <<>>, <<>>)
           y == Entry("assistant", <<syntheticAck>>, <<>>, <<>>, <<>>)
           r == <<x, y>> \o b
           n == Len(b)
           Z == Y \cup {x, y}
<1>2. placeSystemPrompt(system, b) = IF system THEN r ELSE b  BY DEF placeSystemPrompt
<1>3. x.results = <<>> /\ y.results = <<>>  BY DEF Entry
<1>4. b \in Seq(Z) /\ x \in Z /\ y \in Z  BY <1>1
<1> HIDE DEF x, y, Z
<1>5. /\ n \in Nat /\ DOMAIN b = 1..n /\ DOMAIN r = 1..(n + 2) /\ r[1] = x /\ r[2] = y
      /\ \A i \in 1..n : r[i + 2] = b[i]
      /\ r # <<>>
  BY <1>4
<1>6. b # <<>> => Last(r) = Last(b)  BY <1>4 DEF Last
<1> HIDE DEF r, n
<1>7. ASSUME NEW i \in 1..(n + 2), r[i].results # <<>>
      PROVE  i > 1 /\ Follows(r[i].results, Ids(r[i - 1].uses))
  <2>1. i # 1 /\ i # 2  BY <1>3, <1>5, <1>7
  <2>2. PICK j \in 1..n : i = j + 2
    <3>1. i - 2 \in 1..n /\ i = (i - 2) + 2  BY <1>5, <2>1
    <3> QED  BY <3>1
  <2>3. r[i] = b[j]  BY <1>5, <2>2
  <2>4. j > 1 /\ Follows(b[j].results, Ids(b[j - 1].uses))  BY <1>5, <1>7, <2>3 DEF Following
  <2>5. j - 1 \in 1..n /\ (j - 1) + 2 = i - 1 /\ i > 1  BY <1>5, <2>2, <2>4
  <2>6. r[i - 1] = b[j - 1]  BY <1>5, <2>5
  <2> QED  BY <2>3, <2>4, <2>5, <2>6
<1>8. Following(r)  BY <1>5, <1>7 DEF Following
<1> QED  BY <1>2, <1>5, <1>6, <1>8 DEF r

LEMMA CurrentFits ==
  ASSUME NEW n, Alternating(n), n # <<>>, Paired(n)
  PROVE  LET h   == splitMessages(n).history
             m   == splitMessages(n).last
             ids == IF h = <<>> THEN <<>> ELSE Ids(ToolUses(Last(h)))
         IN  /\ Paired(h) /\ Fit(m)
             /\ ids \in Seq(Nat) /\ Distinct(ids) /\ ResultIds(m) \subseteq ToSet(ids)
             /\ h # <<>> => Last(h) = h[Len(h)] /\ Len(h) \in 1..Len(h)
                            /\ Last(h).role = "assistant"
<1> DEFINE h == splitMessages(n).history
           m == splitMessages(n).last
           ids == IF h = <<>> THEN <<>> ELSE Ids(ToolUses(Last(h)))
<1>1. PICK Y : n \in Seq(Y) /\ \A i \in 1..Len(n) : n[i].role = TurnOf(i)  BY DEF Alternating
<1>2. Alternating(h) /\ Len(h) \in Nat /\ Len(h) % 2 = 0  BY SplitTurns
<1>3. Paired(h) /\ Fit(m) /\ ResultIds(m) \subseteq CallsAtEnd(h)
  <2>1. CASE Last(n).role = "assistant"
    <3>1. h = n /\ m = StringMessage("user", <<syntheticContinue>>)
      BY <2>1 DEF splitMessages
    <3> HIDE DEF h, m
    <3>2. Fit(m) /\ ResultIds(m) = {}  BY <3>1, StringFits
    <3> QED  BY <3>1, <3>2
  <2>2. CASE Last(n).role # "assistant"
    <3>1. h = Front(n) /\ m = Last(n)  BY <2>2 DEF splitMessages
    <3> HIDE DEF h, m
    <3>2. h \in Seq(Y) /\ m \in Y /\ n = Append(h, m)  BY <1>1, <3>1, FrontLast
    <3>3. m.role = "user"
      <4>1. Len(n) \in 1..Len(n) /\ Last(n) = n[Len(n)]  BY <1>1 DEF Last
      <4>2. m.role = TurnOf(Len(n))  BY <1>1, <3>1, <4>1
      <4> QED  BY <2>2, <3>1, <4>2 DEF TurnOf
    <3>4. Paired(Append(h, m))  BY <3>2
    <3> QED  BY <3>2, <3>3, <3>4, PairedAppend
  <2> QED  BY <2>1, <2>2
<1> HIDE DEF h, m
<1>4. ASSUME h # <<>>
      PROVE  /\ Last(h) = h[Len(h)] /\ Len(h) \in 1..Len(h) /\ Last(h).role = "assistant"
             /\ Fit(Last(h))
  <2>1. PICK Z : h \in Seq(Z) /\ \A i \in 1..Len(h) : h[i].role = TurnOf(i)
    BY <1>2 DEF Alternating
  <2>2. Len(h) \in 1..Len(h) /\ DOMAIN h = 1..Len(h)  BY <1>4, <2>1
  <2>3. Last(h) = h[Len(h)]  BY DEF Last
  <2>4. TurnOf(Len(h)) = "assistant"  BY <1>2 DEF TurnOf
  <2>5. PairedAt(h, Len(h))  BY <1>3, <2>2 DEF Paired
  <2> QED  BY <2>1, <2>2, <2>3, <2>4, <2>5 DEF PairedAt
<1>5. ids \in Seq(Nat) /\ Distinct(ids) /\ ToSet(ids) = CallsAtEnd(h)
  <2>1. CASE h = <<>>
    <3>1. <<>> \in Seq(Nat) /\ Distinct(<<>>) /\ ToSet(<<>>) = {}  BY IdsEmpty
    <3> QED  BY <2>1, <3>1 DEF CallsAtEnd
  <2>2. CASE h # <<>>
    <3>1. ids = Ids(ToolUses(Last(h)))  BY <2>2
    <3>2. CallsAtEnd(h) = ToSet(Ids(ToolUses(Last(h))))
      BY <1>4, <2>2 DEF CallsAtEnd, CallIds
    <3> QED  BY <1>4, <2>2, <3>1, <3>2, CallIdsType
  <2> QED  BY <2>1, <2>2
<1> HIDE DEF ids
<1> QED  BY <1>3, <1>4, <1>5 DEF h, m, ids

LEMMA PayloadFollows ==
  ASSUME NEW q \in Seq(Message), q # <<>>, NEW hasTools, NEW system, Answering(q)
  PROVE  Following(Entries(BuildPayload(q, hasTools, system)))
<1> DEFINE n == Normalize(q, hasTools)
           h == splitMessages(n).history
           m == splitMessages(n).last
           b == buildHistory(h)
           r == placeSystemPrompt(system, b)
           ids == IF h = <<>> THEN <<>> ELSE Ids(ToolUses(Last(h)))
           c == buildCurrentMessage(m, ids)
           e == Append(r, c)
<1>1. Entries(BuildPayload(q, hasTools, system)) = e  BY DEF BuildPayload, Entries
<1>2. c.results = ReorderToolResults(ToolResults(m), ids)  BY DEF buildCurrentMessage, Entry
<1> HIDE DEF c
<1>3. Alternating(n) /\ n # <<>> /\ Paired(n)  BY NormalizeTurns, NormalizePaired
<1> HIDE DEF n
<1>4. Alternating(h) /\ Len(h) \in Nat  BY <1>3, SplitTurns
<1>5. /\ Paired(h) /\ Fit(m)
      /\ ids \in Seq(Nat) /\ Distinct(ids) /\ ResultIds(m) \subseteq ToSet(ids)
      /\ h # <<>> => Last(h) = h[Len(h)] /\ Len(h) \in 1..Len(h) /\ Last(h).role = "assistant"
  BY <1>3, CurrentFits
<1>6. ids # <<>> => h # <<>> /\ ids = Ids(ToolUses(Last(h)))  OBVIOUS
<1> HIDE DEF h, m, ids
<1>7. /\ Alternating(b) /\ Len(b) = Len(h) /\ Following(b)
      /\ \A i \in 1..Len(h) : h[i].role = "assistant" => b[i].uses = ToolUses(h[i])
  BY <1>4, <1>5, HistoryTurns, HistoryFollows
<1> HIDE DEF b
<1>8. /\ Following(r) /\ Alternating(r)
      /\ b # <<>> => r # <<>> /\ Last(r) = Last(b)
  BY <1>7, PlacedFollows, PlacedTurns
<1> HIDE DEF r
<1>9. c.results # <<>> => Follows(c.results, ids) /\ ids # <<>>
  BY <1>2, <1>5, MessageFollows
<1>10. ids # <<>> => r # <<>> /\ ids = Ids(Last(r).uses)
  <2> HAVE ids # <<>>
  <2>1. /\ h # <<>> /\ ids = Ids(ToolUses(Last(h))) /\ Last(h) = h[Len(h)]
        /\ Len(h) \in 1..Len(h) /\ h[Len(h)].role = "assistant"
    BY <1>5, <1>6
  <2>2. b[Len(h)].uses = ToolUses(Last(h))  BY <1>7, <2>1
  <2>3. b # <<>> /\ Last(b) = b[Len(h)]
    <3>1. Len(b) # 0  BY <1>4, <1>7, <2>1
    <3> QED  BY <1>7, <3>1 DEF Last
  <2> QED  BY <1>8, <2>1, <2>2, <2>3
<1>11. PICK Y : r \in Seq(Y)  BY <1>8 DEF Alternating
<1> DEFINE Z == Y \cup {c}
           k == Len(r)
<1>12. r \in Seq(Z) /\ c \in Z  BY <1>11
<1> HIDE DEF Z
<1>13. /\ k \in Nat /\ DOMAIN r = 1..k /\ e[k + 1] = c /\ DOMAIN e = 1..(k + 1)
       /\ \A i \in 1..k : e[i] = r[i]
       /\ r # <<>> => k > 0 /\ Last(r) = r[k]
  BY <1>12 DEF Last
<1> HIDE DEF e, k
<1>14. ASSUME NEW i \in 1..(k + 1), e[i].results # <<>>
       PROVE  i > 1 /\ Follows(e[i].results, Ids(e[i - 1].uses))
  <2>1. CASE i \in 1..k
    <3>1. i > 1 /\ Follows(r[i].results, Ids(r[i - 1].uses))
      BY <1>8, <1>13, <1>14, <2>1 DEF Following
    <3>2. i - 1 \in 1..k  BY <1>13, <2>1, <3>1
    <3> QED  BY <1>13, <2>1, <3>1, <3>2
  <2>2. CASE i = k + 1
    <3>1. /\ Follows(c.results, ids) /\ ids # <<>>
      BY <1>9, <1>13, <1>14, <2>2
    <3>2. k > 0 /\ ids = Ids(r[k].uses)  BY <1>10, <1>13, <3>1
    <3>3. i - 1 = k /\ k \in 1..k /\ i > 1  BY <1>13, <2>2, <3>2
    <3>4. e[i - 1] = r[k] /\ e[i] = c  BY <1>13, <2>2, <3>3
    <3> QED  BY <3>1, <3>2, <3>3, <3>4
  <2> QED  BY <1>13, <2>1, <2>2
<1>15. Following(e)  BY <1>13, <1>14 DEF Following
<1> QED  BY <1>1, <1>15 DEF e

(* Marshalling the inputs makes no results and gives no call another id.   *)
LEMMA MarshalledAnswering ==
  ASSUME NEW q \in Seq(Message), Answering(q), NEW hasTools, NEW w \in Marshallings(q, hasTools)
  PROVE  Answering(w)
<1>1. /\ w \in Seq(Message) /\ Len(w) = Len(q)
      /\ \A i \in 1..Len(q) : Rewrites(w[i], q[i])
  BY MarshalledMessages
<1> SUFFICES ASSUME NEW i \in 1..Len(q)
             PROVE  /\ OwnIds(w[i])
                    /\ w[i].role \notin {"user", "assistant"} => ToolResults(w[i]) = <<>>
  BY <1>1 DEF Answering
<1> DEFINE m == w[i]
           o == q[i]
<1>2. /\ m \in Message /\ o \in Message /\ Rewrites(m, o) /\ OwnIds(o)
      /\ o.role \notin {"user", "assistant"} => ToolResults(o) = <<>>
  BY <1>1 DEF Answering, Rewrites
<1> HIDE DEF m, o
<1>3. OwnIds(m)  BY <1>2 DEF Rewrites, OwnIds, IsToolUse
<1>4. ASSUME o.role \notin {"user", "assistant"} PROVE ToolResults(m) = <<>>
  <2>1. ToolResults(o) = <<>> /\ m.string = o.string /\ o.string \in BOOLEAN
    BY <1>2, <1>4, MessageParts DEF Rewrites
  <2>2. CASE o.string  BY <2>1, <2>2, StringWithoutTools
  <2>3. CASE ~o.string
    <3> DEFINE R == {b \in ToSet(o.blocks) : IsToolResult(b)}
    <3>1. o.blocks \in Seq(ContentBlock) /\ Filter(o.blocks, R) = <<>>
      BY <1>2, <2>1, <2>3, MessageParts DEF ToolResults
    <3>2. ToSet(<<>>) = {}  BY DEF ToSet
    <3>3. ToSet(o.blocks) \cap R = {}
      <4> HIDE DEF R
      <4> QED  BY <3>1, <3>2, FilterRange
    <3>4. \A k \in DOMAIN o.blocks : ~IsToolResult(o.blocks[k])  BY <3>3 DEF ToSet
    <3>5. \A k \in DOMAIN m.blocks : ~IsToolResult(m.blocks[k])
      BY <1>2, <3>4 DEF Rewrites, IsToolResult
    <3>6. ToSet(ToolResults(m)) = {} /\ ToolResults(m) \in Seq(ContentBlock)
      <4>1. m \in Message  BY <1>2
      <4>2. /\ ToolResults(m) \in Seq(ContentBlock)
            /\ \A b \in ToSet(ToolResults(m)) :
                  IsToolResult(b) /\ \E k \in DOMAIN m.blocks : b = m.blocks[k]
        BY <4>1, PickedBlocks
      <4>3. \A b \in ToSet(ToolResults(m)) : FALSE  BY <3>5, <4>2
      <4> QED  BY <4>2, <4>3
    <3> QED  BY <3>6, NoElements
  <2> QED  BY <2>1, <2>2, <2>3
<1> QED  BY <1>2, <1>3, <1>4 DEF m, Rewrites

(* Every tool result of a payload answers a call of the entry just before  *)
(* it, in the order of the calls, however the client orders, splits or     *)
(* interrupts its messages (message_normalizer.go, tool_results.go).       *)
THEOREM ResultsAlwaysFollowCalls == Spec => []ResultsFollowCalls
<1>1. ConversationInv => ResultsFollowCalls
  <2> SUFFICES ASSUME ConversationInv, JustSent,
                      \A n \in DOMAIN msgs :
                         msgs[n].role \notin {"user", "assistant"}
                           => ToolResults(msgs[n]) = <<>>,
                      NEW p \in Payloads
               PROVE  LET e == Entries(p)
                          Answers(results, calls) == results = Filter(calls, ToSet(results))
                      IN  \A i \in DOMAIN e : e[i].results # <<>> =>
                            i > 1 /\ Answers(Ids(e[i].results), Ids(e[i - 1].uses))
    BY DEF ResultsFollowCalls
  <2>1. msgs \in Seq(Message) /\ msgs # <<>>  BY DEF ConversationInv, TypeOK, JustSent
  <2>2. Answering(msgs)
    <3>1. DOMAIN msgs = 1..Len(msgs)  BY <2>1
    <3> QED  BY <3>1 DEF Answering, ConversationInv, OwnCalls
  <2>3. PICK w \in Marshallings(msgs, env.tools) : p = BuildPayload(w, env.tools, env.system)
    BY <2>1, AllMessages DEF Payloads, PayloadsOf
  <2>4. w \in Seq(Message) /\ w # <<>> /\ Answering(w)
    BY <2>1, <2>2, MarshalledMessages, MarshalledAnswering
  <2>5. Following(Entries(p))  BY <2>3, <2>4, PayloadFollows
  <2> QED  BY <2>5 DEF Following, Follows
<1> QED  BY <1>1, ConversationInit, ConversationNext, PTL DEF Spec
=============================================================================
