-------------------------- MODULE ToolSearchProofs --------------------------
(***************************************************************************)
(* Theorems about ToolSearch, for any tools and any number of rounds,      *)
(* results, credits and events: the payloads offer what was found, the     *)
(* client sees one message and one answer, and the credits add up.         *)
(*                                                                         *)
(* The invariant has three parts.  OrchestratorInv is about the loop and   *)
(* the tool context.  WriterInv says that what the session has let out and *)
(* what it buffers are together the story of the writer (SSEWriterProofs), *)
(* which is under way, or complete, or followed by an answer.  CreditsInv  *)
(* says where the credits are that are not logged yet.                     *)
(***************************************************************************)
EXTENDS ToolSearch, SSEWriterProofs, FiniteSetTheorems

----------------------------------------------------------------------------
(* The tool context.  PromoteTools is a recursion over the names.          *)

Context == [active : Seq(Tool), deferred : SUBSET Tool]

(* Every tool is either active, in one place, or deferred.                 *)
Split(t) ==
  /\ t \in Context
  /\ IsInjective(t.active)
  /\ ToSet(t.active) \cap t.deferred = {}
  /\ ToSet(t.active) \cup t.deferred = Tool

LEMMA AppendElements ==
  ASSUME NEW X, NEW q \in Seq(X), NEW e \in X, NEW r, r = Append(q, e)
  PROVE  ToSet(r) = ToSet(q) \cup {e}
<1>1. r \in Seq(X) /\ Len(r) = Len(q) + 1 /\ r[Len(q) + 1] = e
      /\ \A i \in 1..Len(q) : r[i] = q[i]
  OBVIOUS
<1>2. DOMAIN r = 1..(Len(q) + 1) /\ DOMAIN q = 1..Len(q)  BY <1>1
<1>3. ASSUME NEW x \in ToSet(r) PROVE x \in ToSet(q) \cup {e}
  <2>1. PICK i \in 1..(Len(q) + 1) : x = r[i]  BY <1>2 DEF ToSet
  <2>2. CASE i \in 1..Len(q)
    <3>1. x = q[i]  BY <1>1, <2>1, <2>2
    <3> QED  BY <1>2, <2>2, <3>1 DEF ToSet
  <2>3. CASE i \notin 1..Len(q)
    <3>1. i = Len(q) + 1  BY <2>3
    <3> QED  BY <1>1, <2>1, <3>1
  <2> QED  BY <2>2, <2>3
<1>4. ASSUME NEW x \in ToSet(q) PROVE x \in ToSet(r)
  <2>1. PICK i \in 1..Len(q) : x = q[i]  BY <1>2 DEF ToSet
  <2>2. i \in DOMAIN r /\ r[i] = x  BY <1>1, <1>2, <2>1
  <2> QED  BY <2>2 DEF ToSet
<1>5. e \in ToSet(r)
  <2>1. Len(q) + 1 \in DOMAIN r  BY <1>2
  <2> QED  BY <1>1, <2>1 DEF ToSet
<1> QED  BY <1>3, <1>4, <1>5

LEMMA AppendStaysInjective ==
  ASSUME NEW X, NEW q \in Seq(X), IsInjective(q), NEW e \in X, e \notin ToSet(q),
         NEW r, r = Append(q, e)
  PROVE  IsInjective(r)
<1>1. r \in Seq(X) /\ Len(r) = Len(q) + 1 /\ r[Len(q) + 1] = e
      /\ \A i \in 1..Len(q) : r[i] = q[i]
  OBVIOUS
<1>2. DOMAIN r = 1..(Len(q) + 1) /\ DOMAIN q = 1..Len(q)  BY <1>1
<1>3. ASSUME NEW i \in DOMAIN q PROVE r[i] = q[i] /\ r[i] # e
  <2>1. r[i] = q[i]  BY <1>1, <1>2
  <2>2. q[i] \in ToSet(q)  BY DEF ToSet
  <2> QED  BY <2>1, <2>2
<1>4. \A i \in DOMAIN r : i \in DOMAIN q \/ i = Len(q) + 1  BY <1>2
<1>5. \A i, j \in DOMAIN q : q[i] = q[j] => i = j  BY DEF IsInjective
<1>6. ASSUME NEW i \in DOMAIN r, NEW j \in DOMAIN r, r[i] = r[j] PROVE i = j
  <2>1. CASE i \in DOMAIN q /\ j \in DOMAIN q  BY <1>3, <1>5, <1>6, <2>1
  <2>2. CASE i \in DOMAIN q /\ j = Len(q) + 1  BY <1>1, <1>3, <1>6, <2>2
  <2>3. CASE i = Len(q) + 1 /\ j \in DOMAIN q  BY <1>1, <1>3, <1>6, <2>3
  <2> QED  BY <1>4, <2>1, <2>2, <2>3
<1> QED  BY <1>6 DEF IsInjective

LEMMA PromoteToolSplits ==
  ASSUME NEW t, Split(t), NEW name \in Tool, NEW c, c = PromoteTool(t, name)
  PROVE  Split(c) /\ ToSet(c.active) = ToSet(t.active) \cup {name}
<1>1. t.active \in Seq(Tool) /\ t.deferred \in SUBSET Tool  BY DEF Split, Context
<1>2. CASE name \in t.deferred
  <2>1. c.active = Append(t.active, name) /\ c.deferred = t.deferred \ {name} /\ c \in Context
    BY <1>1, <1>2 DEF PromoteTool, Context
  <2>2. name \notin ToSet(t.active) /\ IsInjective(t.active)  BY <1>2 DEF Split
  <2>3. ToSet(c.active) = ToSet(t.active) \cup {name} /\ IsInjective(c.active)
    <3> DEFINE q == t.active
               r == c.active
    <3>1. q \in Seq(Tool) /\ r = Append(q, name) /\ name \notin ToSet(q) /\ IsInjective(q)
      BY <1>1, <2>1, <2>2
    <3> HIDE DEF q, r
    <3>2. ToSet(r) = ToSet(q) \cup {name}  BY <3>1, AppendElements
    <3>3. IsInjective(r)  BY <3>1, AppendStaysInjective
    <3> QED  BY <3>2, <3>3 DEF q, r
  <2> QED  BY <1>2, <2>1, <2>3 DEF Split
<1>3. CASE name \notin t.deferred
  <2>1. c = t  BY <1>3 DEF PromoteTool
  <2>2. name \in ToSet(t.active)  BY <1>3 DEF Split
  <2> QED  BY <2>1, <2>2
<1> QED  BY <1>2, <1>3

Promotes(f, t, names, k) ==
  f = [n \in 0..k |-> IF n = 0 THEN t ELSE PromoteTool(f[n - 1], names[n])]

LEMMA PromotesSteps ==
  ASSUME NEW f, NEW t, NEW names, NEW k \in Nat, Promotes(f, t, names, k)
  PROVE  /\ f[0] = t
         /\ \A n \in 1..k : f[n] = PromoteTool(f[n - 1], names[n])
<1>1. f[0] = t  BY DEF Promotes
<1>2. ASSUME NEW n \in 1..k PROVE f[n] = PromoteTool(f[n - 1], names[n])
  <2> DEFINE g == [m \in 0..k |-> IF m = 0 THEN t ELSE PromoteTool(f[m - 1], names[m])]
  <2>1. f = g  BY DEF Promotes
  <2>2. n \in 0..k /\ n # 0  OBVIOUS
  <2>3. g[n] = PromoteTool(f[n - 1], names[n])  BY <2>2
  <2> HIDE DEF g
  <2> QED  BY <2>1, <2>3
<1> QED  BY <1>1, <1>2

LEMMA PromotesExists ==
  ASSUME NEW t, NEW names
  PROVE  \A k \in Nat : \E f : Promotes(f, t, names, k)
<1> DEFINE T == {k \in Nat : \E f : Promotes(f, t, names, k)}
<1>1. 0 \in T
  <2> DEFINE f == [n \in 0..0 |-> t]
  <2>1. Promotes(f, t, names, 0)
    <3>1. \A n \in 0..0 : n = 0  OBVIOUS
    <3> QED  BY <3>1 DEF Promotes
  <2> QED  BY <2>1
<1>2. ASSUME NEW k \in Nat, k \in T PROVE k + 1 \in T
  <2>1. PICK f : Promotes(f, t, names, k)  BY <1>2
  <2>2. f[0] = t /\ \A n \in 1..k : f[n] = PromoteTool(f[n - 1], names[n])
    BY <2>1, PromotesSteps
  <2> DEFINE last == PromoteTool(f[k], names[k + 1])
             g == [n \in 0..(k + 1) |-> IF n = k + 1 THEN last ELSE f[n]]
  <2>3. ASSUME NEW n \in 0..(k + 1)
        PROVE  g[n] = IF n = 0 THEN t ELSE PromoteTool(g[n - 1], names[n])
    <3>1. CASE n = k + 1
      <4>1. n # 0 /\ n - 1 = k /\ k \in 0..(k + 1) /\ k # k + 1  BY <3>1
      <4>2. g[n] = last /\ g[n - 1] = f[k]  BY <3>1, <4>1
      <4> HIDE DEF g
      <4> QED  BY <3>1, <4>1, <4>2
    <3>2. CASE n # k + 1
      <4>1. n \in 0..k  BY <3>2
      <4>2. g[n] = f[n]  BY <3>2
      <4>3. n # 0 => g[n - 1] = f[n - 1] /\ n \in 1..k
        <5>1. n # 0 => n - 1 \in 0..(k + 1) /\ n - 1 # k + 1  BY <4>1
        <5> QED  BY <4>1, <5>1
      <4> HIDE DEF g
      <4> QED  BY <2>2, <4>1, <4>2, <4>3
    <3> QED  BY <3>1, <3>2
  <2>4. g = [n \in 0..(k + 1) |-> g[n]]  OBVIOUS
  <2> HIDE DEF g
  <2>5. Promotes(g, t, names, k + 1)  BY <2>3, <2>4 DEF Promotes
  <2> QED  BY <2>5
<1>3. Nat \subseteq T
  <2> HIDE DEF T
  <2> QED  BY <1>1, <1>2, Induction
<1> QED  BY <1>3

(* Every name that is given is active afterwards, nothing else becomes     *)
(* active, and each tool is still in one place.                            *)
LEMMA PromoteToolsSplits ==
  ASSUME NEW t, Split(t), NEW names \in Seq(Tool), NEW c, c = PromoteTools(t, names)
  PROVE  Split(c) /\ ToSet(c.active) = ToSet(t.active) \cup ToSet(names)
<1> DEFINE k == Len(names)
           f == CHOOSE g : Promotes(g, t, names, k)
           T == {n \in Nat : n <= k =>
                   /\ Split(f[n])
                   /\ ToSet(f[n].active) = ToSet(t.active) \cup {names[i] : i \in 1..n}}
<1>1. k \in Nat  OBVIOUS
<1>2. Promotes(f, t, names, k)  BY <1>1, PromotesExists
<1>3. c = f[k]  BY DEF PromoteTools, Promotes
<1> HIDE DEF f, k
<1>4. f[0] = t /\ \A n \in 1..k : f[n] = PromoteTool(f[n - 1], names[n])
  BY <1>1, <1>2, PromotesSteps
<1>5. 0 \in T
  <2>1. {names[i] : i \in 1..0} = {}  OBVIOUS
  <2> QED  BY <1>4, <2>1
<1>6. ASSUME NEW n \in Nat, n \in T PROVE n + 1 \in T
  <2> SUFFICES ASSUME n + 1 <= k
               PROVE  /\ Split(f[n + 1])
                      /\ ToSet(f[n + 1].active)
                           = ToSet(t.active) \cup {names[i] : i \in 1..(n + 1)}
    OBVIOUS
  <2>1. n + 1 \in 1..k /\ (n + 1) - 1 = n /\ n <= k  BY <1>1
  <2>2. f[n + 1] = PromoteTool(f[n], names[n + 1])  BY <1>4, <2>1
  <2>3. names[n + 1] \in Tool  BY <2>1 DEF k
  <2>4. Split(f[n]) /\ ToSet(f[n].active) = ToSet(t.active) \cup {names[i] : i \in 1..n}
    BY <1>6, <2>1
  <2>5. Split(f[n + 1]) /\ ToSet(f[n + 1].active) = ToSet(f[n].active) \cup {names[n + 1]}
    BY <2>2, <2>3, <2>4, PromoteToolSplits
  <2>6. {names[i] : i \in 1..(n + 1)} = {names[i] : i \in 1..n} \cup {names[n + 1]}
    <3>1. \A i : i \in 1..(n + 1) <=> i \in 1..n \/ i = n + 1  OBVIOUS
    <3> QED  BY <3>1
  <2> QED  BY <2>4, <2>5, <2>6
<1>7. Nat \subseteq T
  <2> HIDE DEF T
  <2> QED  BY <1>5, <1>6, Induction
<1>8. k \in T /\ k <= k  BY <1>1, <1>7
<1>9. Split(f[k]) /\ ToSet(f[k].active) = ToSet(t.active) \cup {names[i] : i \in 1..k}
  BY <1>8
<1>10. {names[i] : i \in 1..k} = ToSet(names)  BY DEF ToSet, k
<1> QED  BY <1>3, <1>9, <1>10

LEMMA SetToSeqExists ==
  ASSUME NEW S \in SUBSET Tool, NEW q, q = SetToSeq(S)
  PROVE  q \in Seq(Tool) /\ IsInjective(q) /\ ToSet(q) = S
<1>1. IsFiniteSet(S)  BY ToolIsFinite, FS_Subset
<1>2. Cardinality(S) \in Nat /\ ExistsBijection(1..Cardinality(S), S)
  BY <1>1, FS_CardinalityType
<1> DEFINE n == Cardinality(S)
<1>3. PICK b : b \in Bijection(1..n, S)  BY <1>2 DEF ExistsBijection
<1>4. b \in [1..n -> S] /\ IsInjective(b)  BY <1>3 DEF Bijection, Injection
<1>5. q \in [1..n -> S] /\ IsInjective(q)  BY <1>4 DEF SetToSeq
<1>6. q \in Seq(S) /\ Len(q) = n /\ DOMAIN q = 1..n  BY <1>2, <1>5, LenProperties, IsASeq
<1>7. q \in Seq(Tool)  BY <1>2, <1>5, IsASeq
<1>8. ASSUME NEW y \in S, y \notin ToSet(q) PROVE FALSE
  <2> DEFINE R == S \ {y}
  <2>1. IsFiniteSet(R) /\ Cardinality(R) = n - 1  BY <1>1, FS_RemoveElement
  <2>2. IsFiniteSet(1..n) /\ Cardinality(1..n) = n
    <3>1. n \in Int /\ 1 \in Int /\ (1 > n => n = 0)  BY <1>2
    <3> QED  BY <3>1, FS_Interval
  <2>3. q \in [1..n -> R]  BY <1>5, <1>6, <1>8 DEF ToSet
  <2>4. \E i, j \in 1..n : i # j /\ q[i] = q[j]
    <3> DEFINE D == 1..n
    <3>1. Cardinality(R) < Cardinality(D)  BY <1>2, <2>1, <2>2
    <3>2. IsFiniteSet(R) /\ IsFiniteSet(D) /\ q \in [D -> R]  BY <2>1, <2>2, <2>3
    <3> HIDE DEF R, D
    <3>3. \E i, j \in D : i # j /\ q[i] = q[j]  BY <3>1, <3>2, FS_PigeonHole
    <3> QED  BY <3>3 DEF D
  <2> QED  BY <1>5, <1>6, <2>4 DEF IsInjective
<1>9. \A x \in ToSet(q) : x \in S  BY <1>5, <1>6 DEF ToSet
<1> QED  BY <1>5, <1>7, <1>8, <1>9

LEMMA NewContextSplits ==
  ASSUME NEW deferred \in SUBSET Tool, NEW t, t = NewContext(deferred)
  PROVE  Split(t)
<1>1. Tool \ deferred \in SUBSET Tool  OBVIOUS
<1>2. /\ SetToSeq(Tool \ deferred) \in Seq(Tool) /\ IsInjective(SetToSeq(Tool \ deferred))
      /\ ToSet(SetToSeq(Tool \ deferred)) = Tool \ deferred
  BY <1>1, SetToSeqExists
<1>3. t.active = SetToSeq(Tool \ deferred) /\ t.deferred = deferred /\ t \in Context
  BY <1>2 DEF NewContext, Context
<1> QED  BY <1>2, <1>3 DEF Split

----------------------------------------------------------------------------
(* The content blocks that a story has opened: every search the proxy ran  *)
(* is followed by its result.  Only the two methods of a search open such  *)
(* blocks; nothing that any other method opens can part a pair.            *)

Starts(m) == Filter(m, StartEvent)

Pairs(q) ==
  \A i \in 1..Len(q) :
    q[i].block = "server_tool_use" =>
      i < Len(q) /\ q[i + 1].block = "tool_search_tool_result"

Coupled(b, wr) == b \in Seq(SSEEvent) /\ Works(wr) /\ Pairs(Starts(Story(b, wr)))

LEMMA PairsAppend ==
  ASSUME NEW X, NEW q \in Seq(X), Pairs(q), NEW e \in X, e.block # "server_tool_use",
         NEW r, r = Append(q, e)
  PROVE  Pairs(r)
<1>1. /\ Len(q) \in Nat /\ Len(r) = Len(q) + 1 /\ r[Len(q) + 1] = e
      /\ \A i \in 1..Len(q) : r[i] = q[i]
  OBVIOUS
<1>2. ASSUME NEW i \in 1..Len(r), r[i].block = "server_tool_use"
      PROVE  i < Len(r) /\ r[i + 1].block = "tool_search_tool_result"
  <2>1. i # Len(q) + 1  BY <1>1, <1>2
  <2>2. i \in 1..Len(q) /\ r[i] = q[i]  BY <1>1, <2>1
  <2>3. i < Len(q) /\ q[i + 1].block = "tool_search_tool_result"  BY <1>2, <2>2 DEF Pairs
  <2>4. i + 1 \in 1..Len(q)  BY <1>1, <2>2, <2>3
  <2> QED  BY <1>1, <2>3, <2>4
<1> QED  BY <1>2 DEF Pairs

LEMMA PairsSearch ==
  ASSUME NEW X, NEW q \in Seq(X), Pairs(q),
         NEW e \in X, NEW f \in X, f.block = "tool_search_tool_result",
         NEW p, p = Append(q, e), NEW r, r = Append(p, f)
  PROVE  Pairs(r)
<1>1. /\ Len(q) \in Nat /\ Len(r) = Len(q) + 2 /\ r[Len(q) + 2] = f
      /\ \A i \in 1..Len(q) : r[i] = q[i]
  OBVIOUS
<1>2. ASSUME NEW i \in 1..Len(r), r[i].block = "server_tool_use"
      PROVE  i < Len(r) /\ r[i + 1].block = "tool_search_tool_result"
  <2>1. i # Len(q) + 2  BY <1>1, <1>2
  <2>2. CASE i = Len(q) + 1
    <3>1. i + 1 = Len(q) + 2  BY <1>1, <2>2
    <3> QED  BY <1>1, <2>2, <3>1
  <2>3. CASE i # Len(q) + 1
    <3>1. i \in 1..Len(q) /\ r[i] = q[i]  BY <1>1, <2>1, <2>3
    <3>2. i < Len(q) /\ q[i + 1].block = "tool_search_tool_result"
      BY <1>2, <3>1 DEF Pairs
    <3>3. i + 1 \in 1..Len(q)  BY <1>1, <3>1, <3>2
    <3> QED  BY <1>1, <3>2, <3>3
  <2> QED  BY <2>2, <2>3
<1> QED  BY <1>2 DEF Pairs

LEMMA StartsAreEvents == StartEvent \subseteq SSEEvent
BY DEF StartEvent

LEMMA StartsType ==
  ASSUME NEW m \in Seq(SSEEvent) PROVE Starts(m) \in Seq(SSEEvent)
BY FilterType DEF Starts

LEMMA StartsAppend ==
  ASSUME NEW m \in Seq(SSEEvent), NEW e \in SSEEvent
  PROVE  Starts(Append(m, e)) = IF e.event = "content_block_start" THEN Append(Starts(m), e)
                                ELSE Starts(m)
<1>1. e \in StartEvent <=> e.event = "content_block_start"  BY DEF StartEvent
<1>2. Filter(Append(m, e), StartEvent)
        = IF e \in StartEvent THEN Append(Filter(m, StartEvent), e) ELSE Filter(m, StartEvent)
  BY FilterAppend
<1> QED  BY <1>1, <1>2 DEF Starts

LEMMA StoryGrows ==
  ASSUME NEW b \in Seq(SSEEvent), NEW wr \in Writer, NEW e \in AnyCall,
         NEW t, t.todo = Append(wr.todo, e)
  PROVE  /\ Story(b, wr) \in Seq(SSEEvent)
         /\ e \in SSEEvent => Story(b, t) = Append(Story(b, wr), e)
         /\ e \notin SSEEvent => Story(b, t) = Story(b, wr)
<1> DEFINE q == Filter(wr.todo, SSEEvent)
<1>1. wr.todo \in Seq(AnyCall)  BY DEF Writer
<1>2. q \in Seq(AnyCall \cap SSEEvent)  BY <1>1, FilterType
<1>3. AnyCall \cap SSEEvent = SSEEvent  BY CallsAreCalls DEF Calls
<1>4. Filter(Append(wr.todo, e), SSEEvent) = IF e \in SSEEvent THEN Append(q, e) ELSE q
  BY <1>1, FilterAppend
<1>5. q \in Seq(SSEEvent)  BY <1>2, <1>3
<1>6. Story(b, wr) = b \o q /\ Story(b, t) = b \o Filter(Append(wr.todo, e), SSEEvent)
  BY DEF Story
<1> HIDE DEF q
<1>7. b \o q \in Seq(SSEEvent)  BY <1>5
<1>8. CASE e \in SSEEvent
  <2>1. b \o Append(q, e) = Append(b \o q, e)  BY <1>5, <1>8
  <2> QED  BY <1>4, <1>6, <1>7, <1>8, <2>1
<1>9. CASE e \notin SSEEvent  BY <1>4, <1>6, <1>7, <1>9
<1> QED  BY <1>8, <1>9

LEMMA AppendCoupled ==
  ASSUME NEW b, NEW wr, Coupled(b, wr), NEW e \in AnyCall, e.block # "server_tool_use",
         NEW t, Works(t), t.todo = Append(wr.todo, e)
  PROVE  Coupled(b, t)
<1> DEFINE m == Story(b, wr)
           q == Starts(m)
<1>1. b \in Seq(SSEEvent) /\ wr \in Writer  BY DEF Coupled, Works
<1>2. /\ m \in Seq(SSEEvent)
      /\ e \in SSEEvent => Story(b, t) = Append(m, e)
      /\ e \notin SSEEvent => Story(b, t) = m
  BY <1>1, StoryGrows
<1>3. Pairs(q)  BY DEF Coupled
<1>4. CASE e \notin SSEEvent  BY <1>1, <1>2, <1>3, <1>4 DEF Coupled
<1>5. CASE e \in SSEEvent
  <2> HIDE DEF m
  <2>1. Starts(Append(m, e)) = IF e.event = "content_block_start" THEN Append(q, e) ELSE q
    BY <1>2, <1>5, StartsAppend
  <2>2. q \in Seq(SSEEvent)  BY <1>2, StartsType
  <2> HIDE DEF q
  <2>3. Pairs(Append(q, e))  BY <1>3, <1>5, <2>2, PairsAppend
  <2>4. Pairs(Starts(Append(m, e)))  BY <1>3, <2>1, <2>3
  <2> QED  BY <1>1, <1>2, <1>5, <2>4 DEF Coupled
<1> QED  BY <1>4, <1>5

LEMMA CoupledSame ==
  ASSUME NEW b, NEW wr, Coupled(b, wr), NEW t, Works(t), t.todo = wr.todo
  PROVE  Coupled(b, t)
BY DEF Coupled, Story

LEMMA WriteSSECoupled ==
  ASSUME NEW b, NEW wr, Coupled(b, wr), NEW n \in Names,
         NEW type \in (BlockType \cup {NoBlock}) \ {"server_tool_use"}, NEW i \in Int,
         NEW t, t = WriteSSE(wr, n, type, i)
  PROVE  Coupled(b, t)
<1> DEFINE e == Event(n, type, i, wr.attempt)
<1>1. wr \in Writer /\ ~wr.writeErr  BY DEF Coupled, Works
<1>2. e \in AnyCall /\ e.block # "server_tool_use"  BY <1>1 DEF Event, AnyCall, Writer
<1>3. t = [wr EXCEPT !.todo = Append(@, e)]  BY <1>1 DEF WriteSSE
<1> HIDE DEF e
<1>4. t.todo = Append(wr.todo, e) /\ Works(t)
  <2>1. Append(wr.todo, e) \in Seq(AnyCall)  BY <1>1, <1>2 DEF Writer
  <2> QED  BY <1>1, <1>3, <2>1 DEF Writer, Works
<1> QED  BY <1>2, <1>4, AppendCoupled

LEMMA EnsureStartedCoupled ==
  ASSUME NEW b, NEW wr, Coupled(b, wr), NEW t, t = EnsureStarted(wr)
  PROVE  Coupled(b, t)
<1> DEFINE r == [wr EXCEPT !.started = TRUE]
           i == -1
<1>1. Works(r) /\ r.todo = wr.todo  BY DEF Coupled, Works, Writer
<1>2. t = IF wr.started THEN wr ELSE WriteSSE(r, "message_start", NoBlock, i)
  BY DEF EnsureStarted
<1>3. /\ i \in Int /\ "message_start" \in Names
      /\ NoBlock \in (BlockType \cup {NoBlock}) \ {"server_tool_use"}
  BY DEF Names, NoBlock
<1> HIDE DEF r, i
<1>4. Coupled(b, r)  BY <1>1, CoupledSame
<1> QED  BY <1>2, <1>3, <1>4, WriteSSECoupled

LEMMA CloseActiveBlockCoupled ==
  ASSUME NEW b, NEW wr, Coupled(b, wr), NEW t, t = CloseActiveBlock(wr)
  PROVE  Coupled(b, t)
<1> DEFINE i == wr.blockIndex
           r == WriteSSE(wr, "content_block_stop", NoBlock, i)
<1>1. /\ i \in Int /\ "content_block_stop" \in Names
      /\ NoBlock \in (BlockType \cup {NoBlock}) \ {"server_tool_use"}
  BY DEF Names, NoBlock, Coupled, Works, Writer
<1>2. t = IF wr.activeType = NoBlock THEN wr ELSE [r EXCEPT !.activeType = NoBlock]
  BY DEF CloseActiveBlock
<1>3. Coupled(b, r)
  <2> HIDE DEF i
  <2> QED  BY <1>1, WriteSSECoupled
<1> HIDE DEF r, i
<1>4. CASE wr.activeType # NoBlock
  <2>1. t = [r EXCEPT !.activeType = NoBlock] /\ Works(r)  BY <1>2, <1>3, <1>4 DEF Coupled
  <2>2. Works(t) /\ t.todo = r.todo  BY <2>1 DEF Works, Writer
  <2> QED  BY <1>3, <2>2, CoupledSame
<1> QED  BY <1>2, <1>4

LEMMA OpenBlockCoupled ==
  ASSUME NEW b, NEW wr, Coupled(b, wr), NEW block \in BlockType \ {"server_tool_use"},
         NEW t, t = OpenBlock(wr, block)
  PROVE  Coupled(b, t)
<1> DEFINE c == CloseActiveBlock(wr)
           i == c.blockIndex + 1
           d == [c EXCEPT !.blockIndex = i, !.activeType = block]
<1>1. Coupled(b, c)  BY CloseActiveBlockCoupled
<1>2. t = WriteSSE(d, "content_block_start", block, i)  BY DEF OpenBlock
<1> HIDE DEF c
<1>3. /\ i \in Int /\ "content_block_start" \in Names
      /\ block \in (BlockType \cup {NoBlock}) \ {"server_tool_use"}
  BY <1>1 DEF Names, Coupled, Works, Writer
<1> HIDE DEF i
<1>4. Works(d) /\ d.todo = c.todo  BY <1>1, <1>3 DEF Coupled, Works, Writer
<1> HIDE DEF d
<1>5. Coupled(b, d)  BY <1>1, <1>4, CoupledSame
<1> QED  BY <1>2, <1>3, <1>5, WriteSSECoupled

LEMMA SwitchBlockCoupled ==
  ASSUME NEW b, NEW wr, Coupled(b, wr), NEW block \in BlockType \ {"server_tool_use"},
         NEW t, t = SwitchBlock(wr, block)
  PROVE  Coupled(b, t)
BY OpenBlockCoupled DEF SwitchBlock

LEMMA WriteDeltaCoupled ==
  ASSUME NEW b, NEW wr, Coupled(b, wr), NEW t, t = WriteDelta(wr)
  PROVE  Coupled(b, t)
<1> DEFINE i == wr.blockIndex
<1>1. /\ i \in Int /\ "content_block_delta" \in Names
      /\ NoBlock \in (BlockType \cup {NoBlock}) \ {"server_tool_use"}
  BY DEF Names, NoBlock, Coupled, Works, Writer
<1>2. t = WriteSSE(wr, "content_block_delta", NoBlock, i)  BY DEF WriteDelta
<1> HIDE DEF i
<1> QED  BY <1>1, <1>2, WriteSSECoupled

LEMMA FireVisibleOutputCoupled ==
  ASSUME NEW b, NEW wr, Coupled(b, wr), NEW t, t = FireVisibleOutput(wr)
  PROVE  Coupled(b, t)
<1> DEFINE e == PromoteCall(wr.attempt)
<1>1. wr \in Writer /\ ~wr.writeErr  BY DEF Coupled, Works
<1>2. e \in AnyCall /\ e.block # "server_tool_use"
  BY <1>1 DEF PromoteCall, Event, AnyCall, Writer, Names, NoBlock
<1>3. t = IF wr.visibleFired THEN wr
          ELSE [wr EXCEPT !.visibleFired = TRUE, !.todo = Append(@, e)]
  BY DEF FireVisibleOutput
<1> HIDE DEF e
<1>4. CASE ~wr.visibleFired
  <2>1. Append(wr.todo, e) \in Seq(AnyCall)  BY <1>1, <1>2 DEF Writer
  <2>2. t.todo = Append(wr.todo, e) /\ Works(t)  BY <1>1, <1>3, <1>4, <2>1 DEF Writer, Works
  <2> QED  BY <1>2, <2>2, AppendCoupled
<1> QED  BY <1>3, <1>4

LEMMA WriteThinkingCoupled ==
  ASSUME NEW b, NEW wr, Coupled(b, wr), NEW t, t = WriteThinking(wr)
  PROVE  Coupled(b, t)
<1> DEFINE a == EnsureStarted(wr)
           u == SwitchBlock(a, "thinking")
<1>1. Coupled(b, a)  BY EnsureStartedCoupled
<1>2. t = WriteDelta(u) /\ "thinking" \in BlockType \ {"server_tool_use"}
  BY DEF WriteThinking, BlockType
<1> HIDE DEF a
<1>3. Coupled(b, u)  BY <1>1, <1>2, SwitchBlockCoupled
<1> HIDE DEF u
<1> QED  BY <1>2, <1>3, WriteDeltaCoupled

LEMMA WriteTextCoupled ==
  ASSUME NEW b, NEW wr, Coupled(b, wr), NEW t, t = WriteText(wr)
  PROVE  Coupled(b, t)
<1> DEFINE a == EnsureStarted(wr)
           f == FireVisibleOutput(a)
           u == SwitchBlock(f, "text")
<1>1. Coupled(b, a)  BY EnsureStartedCoupled
<1>2. t = WriteDelta(u) /\ "text" \in BlockType \ {"server_tool_use"}
  BY DEF WriteText, BlockType
<1> HIDE DEF a
<1>3. Coupled(b, f)  BY <1>1, FireVisibleOutputCoupled
<1> HIDE DEF f
<1>4. Coupled(b, u)  BY <1>2, <1>3, SwitchBlockCoupled
<1> HIDE DEF u
<1> QED  BY <1>2, <1>4, WriteDeltaCoupled

LEMMA DeltasCoupled ==
  ASSUME NEW b, NEW wr, Coupled(b, wr), NEW deltas,
         NEW x, x = IF "thinking" \in deltas THEN WriteThinking(wr) ELSE wr,
         NEW t, t = IF "text" \in deltas THEN WriteText(x) ELSE x
  PROVE  Coupled(b, t)
<1>1. Coupled(b, x)  BY WriteThinkingCoupled
<1> QED  BY <1>1, WriteTextCoupled

LEMMA RecordedWorks ==
  ASSUME NEW wr, Works(wr), NEW deltas, NEW t, t = Recorded(wr, deltas)
  PROVE  Works(t) /\ t.todo = wr.todo /\ t.localStop = wr.localStop
<1> DEFINE u == (wr.thinking \/ "thinking" \in deltas)
           v == (wr.text \/ "text" \in deltas)
<1>1. u \in BOOLEAN /\ v \in BOOLEAN  BY DEF Works, Writer
<1>2. t = [wr EXCEPT !.thinking = u, !.text = v]  BY DEF Recorded
<1> HIDE DEF u, v
<1> QED  BY <1>1, <1>2 DEF Works, Writer

LEMMA ContentCoupled ==
  ASSUME NEW b, NEW wr, Coupled(b, wr), NEW e \in Input, NEW t, t = Content(wr, e)
  PROVE  Coupled(b, t)
<1> DEFINE g == Recorded(wr, e.deltas)
           r == [g EXCEPT !.localStop = e.stop, !.held = e.held]
           x == IF "thinking" \in e.deltas THEN WriteThinking(r) ELSE r
           d == e.deltas
           stop == e.stop
           held == e.held
<1>1. stop \in BOOLEAN /\ held \in BOOLEAN  BY DEF Input
<1>2. Works(wr)  BY DEF Coupled
<1>3. t = IF "text" \in d THEN WriteText(x) ELSE x  BY DEF Content
<1>4. x = IF "thinking" \in d THEN WriteThinking(r) ELSE r  OBVIOUS
<1>5. r = [g EXCEPT !.localStop = stop, !.held = held]  OBVIOUS
<1>6. g = Recorded(wr, d)  OBVIOUS
<1> HIDE DEF x, r, d, g, stop, held
<1>7. Works(g) /\ g.todo = wr.todo  BY <1>2, <1>6, RecordedWorks
<1>8. Works(r) /\ r.todo = g.todo  BY <1>1, <1>5, <1>7 DEF Works, Writer
<1>9. Coupled(b, r)  BY <1>7, <1>8, CoupledSame
<1> QED  BY <1>3, <1>4, <1>9, DeltasCoupled

LEMMA RedactedBlockCoupled ==
  ASSUME NEW b, NEW wr, Coupled(b, wr), NEW t, t = RedactedBlock(wr)
  PROVE  Coupled(b, t)
<1> DEFINE a == EnsureStarted(wr)
           u == OpenBlock(a, "redacted_thinking")
<1>1. Coupled(b, a)  BY EnsureStartedCoupled
<1>2. t = CloseActiveBlock(u) /\ "redacted_thinking" \in BlockType \ {"server_tool_use"}
  BY DEF RedactedBlock, BlockType
<1> HIDE DEF a
<1>3. Coupled(b, u)  BY <1>1, <1>2, OpenBlockCoupled
<1> HIDE DEF u
<1> QED  BY <1>2, <1>3, CloseActiveBlockCoupled

LEMMA ToolBlockCoupled ==
  ASSUME NEW b, NEW wr, Coupled(b, wr), NEW e \in Input, NEW t, t = ToolBlock(wr, e)
  PROVE  Coupled(b, t)
<1> DEFINE r == [wr EXCEPT !.tool = TRUE, !.localStop = e.stop]
           a == EnsureStarted(r)
           f == FireVisibleOutput(a)
           u == OpenBlock(f, "tool_use")
<1>1. e.stop \in BOOLEAN  BY DEF Input
<1>2. Works(r) /\ r.todo = wr.todo  BY <1>1 DEF Coupled, Works, Writer
<1>3. t = WriteDelta(u) /\ "tool_use" \in BlockType \ {"server_tool_use"}
  BY DEF ToolBlock, BlockType
<1> HIDE DEF r
<1>4. Coupled(b, a)  BY <1>2, CoupledSame, EnsureStartedCoupled
<1> HIDE DEF a
<1>5. Coupled(b, f)  BY <1>4, FireVisibleOutputCoupled
<1> HIDE DEF f
<1>6. Coupled(b, u)  BY <1>3, <1>5, OpenBlockCoupled
<1> HIDE DEF u
<1> QED  BY <1>3, <1>6, WriteDeltaCoupled

LEMMA HandleEventCoupled ==
  ASSUME NEW b, NEW wr, Coupled(b, wr), NEW e \in Input, NEW t, t = HandleEvent(wr, e)
  PROVE  Coupled(b, t)
<1>1. e.kind \in {"content", "redacted", "tool"}  BY DEF Input
<1>2. e.kind = "content" => Coupled(b, t)  BY KindsHandled, ContentCoupled
<1>3. e.kind = "redacted" => Coupled(b, t)  BY KindsHandled, RedactedBlockCoupled
<1>4. e.kind = "tool" => Coupled(b, t)  BY KindsHandled, ToolBlockCoupled
<1> QED  BY <1>1, <1>2, <1>3, <1>4

LEMMA EndMessageCoupled ==
  ASSUME NEW b, NEW wr, Coupled(b, wr), NEW t, t = EndMessage(wr)
  PROVE  Coupled(b, t)
<1> DEFINE i == -1
           c == CloseActiveBlock(wr)
           d == WriteSSE(c, "message_delta", NoBlock, i)
<1>1. /\ i \in Int /\ "message_delta" \in Names /\ "message_stop" \in Names
      /\ NoBlock \in (BlockType \cup {NoBlock}) \ {"server_tool_use"}
  BY DEF Names, NoBlock
<1>2. t = WriteSSE(d, "message_stop", NoBlock, i)  BY DEF EndMessage
<1>3. Coupled(b, c)  BY CloseActiveBlockCoupled
<1> HIDE DEF c, i
<1>4. Coupled(b, d)  BY <1>1, <1>3, WriteSSECoupled
<1> HIDE DEF d
<1> QED  BY <1>1, <1>2, <1>4, WriteSSECoupled

LEMMA FinalizedWorks ==
  ASSUME NEW wr, Works(wr), NEW g, NEW f \in Finals(g), NEW t, t = Finalized(wr, f)
  PROVE  Works(t) /\ t.todo = wr.todo
<1> DEFINE d == f.deltas
           stop == f.stop
           r == Recorded(wr, d)
           l == (r.localStop \/ stop)
<1>1. stop \in BOOLEAN  BY DEF Finals
<1>2. Works(r) /\ r.todo = wr.todo  BY RecordedWorks
<1>3. t = [r EXCEPT !.localStop = l, !.held = FALSE]  BY DEF Finalized
<1> HIDE DEF r
<1>4. l \in BOOLEAN  BY <1>1, <1>2 DEF Works, Writer
<1> HIDE DEF l
<1> QED  BY <1>2, <1>3, <1>4 DEF Works, Writer

LEMMA FinishCoupled ==
  ASSUME NEW b, NEW wr, Coupled(b, wr), NEW g, NEW f \in Finals(g), NEW t, t = Finish(wr, f)
  PROVE  Coupled(b, t)
<1> DEFINE a == EnsureStarted(wr)
           r == Finalized(a, f)
           x == IF "thinking" \in f.deltas THEN WriteThinking(r) ELSE r
           y == IF "text" \in f.deltas THEN WriteText(x) ELSE x
           d == f.deltas
<1>1. Coupled(b, a) /\ Works(a)  BY EnsureStartedCoupled DEF Coupled
<1>2. t = EndMessage(y)  BY DEF Finish
<1>3. y = IF "text" \in d THEN WriteText(x) ELSE x  OBVIOUS
<1>4. x = IF "thinking" \in d THEN WriteThinking(r) ELSE r  OBVIOUS
<1> HIDE DEF a, x, y, d
<1>5. Coupled(b, r)  BY <1>1, FinalizedWorks, CoupledSame
<1> HIDE DEF r
<1>6. Coupled(b, y)  BY <1>3, <1>4, <1>5, DeltasCoupled
<1> QED  BY <1>2, <1>6, EndMessageCoupled

LEMMA HandledCoupled ==
  ASSUME NEW b, NEW wr, Coupled(b, wr), NEW e \in Input, NEW t \in Handled(wr, e)
  PROVE  Coupled(b, t)
<1> DEFINE h == HandleEvent(wr, e)
<1>1. Coupled(b, h)  BY HandleEventCoupled
<1>2. CASE e.stop
  <2>1. PICK f \in Finals(h) : t = Finish(h, f)  BY <1>2 DEF Handled
  <2> HIDE DEF h
  <2> QED  BY <1>1, <2>1, FinishCoupled
<1>3. CASE ~e.stop
  <2>1. t = h  BY <1>3 DEF Handled
  <2> QED  BY <1>1, <2>1
<1> QED  BY <1>2, <1>3

(* What a search opens.                                                    *)
OpensOnly(b, t, wr, e) ==
  /\ Works(t)
  /\ Story(b, t) \in Seq(SSEEvent)
  /\ Starts(Story(b, t)) = Append(Starts(Story(b, wr)), e)

OpensNothing(b, t, wr) ==
  /\ Works(t)
  /\ Story(b, t) \in Seq(SSEEvent)
  /\ Starts(Story(b, t)) = Starts(Story(b, wr))

LEMMA WriteSSEStarts ==
  ASSUME NEW b \in Seq(SSEEvent), NEW wr, Works(wr), NEW n \in Names,
         NEW type \in BlockType \cup {NoBlock}, NEW i \in Int,
         NEW t, t = WriteSSE(wr, n, type, i)
  PROVE  /\ n # "content_block_start" => OpensNothing(b, t, wr)
         /\ n = "content_block_start" /\ Event(n, type, i, wr.attempt) \in SSEEvent =>
              OpensOnly(b, t, wr, Event(n, type, i, wr.attempt))
<1> DEFINE e == Event(n, type, i, wr.attempt)
           m == Story(b, wr)
<1>1. wr \in Writer /\ ~wr.writeErr  BY DEF Works
<1>2. e \in AnyCall /\ e.event = n  BY <1>1 DEF Event, AnyCall, Writer
<1>3. t = [wr EXCEPT !.todo = Append(@, e)]  BY <1>1 DEF WriteSSE
<1> HIDE DEF e
<1>4. t.todo = Append(wr.todo, e) /\ Works(t)
  <2>1. Append(wr.todo, e) \in Seq(AnyCall)  BY <1>1, <1>2 DEF Writer
  <2> QED  BY <1>1, <1>3, <2>1 DEF Writer, Works
<1>5. /\ m \in Seq(SSEEvent)
      /\ e \in SSEEvent => Story(b, t) = Append(m, e)
      /\ e \notin SSEEvent => Story(b, t) = m
  BY <1>1, <1>2, <1>4, StoryGrows
<1> HIDE DEF m
<1>6. e \in SSEEvent => Starts(Append(m, e)) = IF e.event = "content_block_start"
                                               THEN Append(Starts(m), e) ELSE Starts(m)
  BY <1>5, StartsAppend
<1>7. Story(b, t) \in Seq(SSEEvent)
  BY <1>5
<1> QED  BY <1>2, <1>4, <1>5, <1>6, <1>7 DEF OpensNothing, OpensOnly, e, m

LEMMA StoryType ==
  ASSUME NEW b \in Seq(SSEEvent), NEW wr, Works(wr)
  PROVE  Story(b, wr) \in Seq(SSEEvent)
<1> DEFINE q == Filter(wr.todo, SSEEvent)
<1>1. wr.todo \in Seq(AnyCall)  BY DEF Works, Writer
<1>2. q \in Seq(AnyCall \cap SSEEvent) /\ AnyCall \cap SSEEvent = SSEEvent
  BY <1>1, FilterType, CallsAreCalls DEF Calls
<1>3. Story(b, wr) = b \o q  BY DEF Story
<1> HIDE DEF q
<1> QED  BY <1>2, <1>3

LEMMA OpensNothingSame ==
  ASSUME NEW b \in Seq(SSEEvent), NEW wr, Works(wr), NEW t, Works(t), t.todo = wr.todo
  PROVE  OpensNothing(b, t, wr)
BY StoryType DEF OpensNothing, Story

LEMMA OpensNothingOn ==
  ASSUME NEW b, NEW r, NEW t, NEW wr, OpensNothing(b, t, wr), OpensNothing(b, r, t)
  PROVE  OpensNothing(b, r, wr)
BY DEF OpensNothing

LEMMA EnsureStartedStarts ==
  ASSUME NEW b \in Seq(SSEEvent), NEW wr, Works(wr), NEW t, t = EnsureStarted(wr)
  PROVE  OpensNothing(b, t, wr)
<1> DEFINE r == [wr EXCEPT !.started = TRUE]
           i == -1
<1>1. Works(r) /\ r.todo = wr.todo  BY DEF Works, Writer
<1>2. t = IF wr.started THEN wr ELSE WriteSSE(r, "message_start", NoBlock, i)
  BY DEF EnsureStarted
<1>3. i \in Int /\ "message_start" \in Names /\ NoBlock \in BlockType \cup {NoBlock}
  BY DEF Names
<1> HIDE DEF r, i
<1>4. OpensNothing(b, r, wr) /\ OpensNothing(b, wr, wr)  BY <1>1, OpensNothingSame
<1>5. CASE ~wr.started
  <2>1. OpensNothing(b, t, r)  BY <1>1, <1>2, <1>3, <1>5, WriteSSEStarts
  <2> QED  BY <1>4, <2>1, OpensNothingOn
<1> QED  BY <1>2, <1>4, <1>5

LEMMA CloseActiveBlockStarts ==
  ASSUME NEW b \in Seq(SSEEvent), NEW wr, Works(wr), NEW t, t = CloseActiveBlock(wr)
  PROVE  OpensNothing(b, t, wr)
<1> DEFINE i == wr.blockIndex
           r == WriteSSE(wr, "content_block_stop", NoBlock, i)
<1>1. i \in Int /\ "content_block_stop" \in Names /\ NoBlock \in BlockType \cup {NoBlock}
  BY DEF Names, Works, Writer
<1>2. t = IF wr.activeType = NoBlock THEN wr ELSE [r EXCEPT !.activeType = NoBlock]
  BY DEF CloseActiveBlock
<1>3. OpensNothing(b, r, wr)
  <2> HIDE DEF i
  <2> QED  BY <1>1, WriteSSEStarts
<1>4. OpensNothing(b, wr, wr)  BY OpensNothingSame
<1> HIDE DEF r, i
<1>5. CASE wr.activeType # NoBlock
  <2>1. t = [r EXCEPT !.activeType = NoBlock] /\ Works(r)  BY <1>2, <1>3, <1>5 DEF OpensNothing
  <2>2. Works(t) /\ t.todo = r.todo  BY <2>1 DEF Works, Writer
  <2> QED  BY <1>3, <2>1, <2>2, OpensNothingSame, OpensNothingOn
<1> QED  BY <1>2, <1>4, <1>5

LEMMA FireVisibleOutputStarts ==
  ASSUME NEW b \in Seq(SSEEvent), NEW wr, Works(wr), NEW t, t = FireVisibleOutput(wr)
  PROVE  OpensNothing(b, t, wr)
<1> DEFINE e == PromoteCall(wr.attempt)
<1>1. e \in AnyCall /\ e \notin SSEEvent
  BY PromoteIsNoEvent DEF PromoteCall, Event, AnyCall, Names, Works, Writer
<1>2. t = IF wr.visibleFired THEN wr
          ELSE [wr EXCEPT !.visibleFired = TRUE, !.todo = Append(@, e)]
  BY DEF FireVisibleOutput
<1> HIDE DEF e
<1>3. OpensNothing(b, wr, wr)  BY OpensNothingSame
<1>4. CASE ~wr.visibleFired
  <2>1. Append(wr.todo, e) \in Seq(AnyCall)  BY <1>1 DEF Works, Writer
  <2>2. t.todo = Append(wr.todo, e) /\ Works(t)  BY <1>2, <1>4, <2>1 DEF Writer, Works
  <2>3. Story(b, t) = Story(b, wr)  BY <1>1, <2>2, StoryGrows DEF Works
  <2> QED  BY <2>2, <2>3, StoryType DEF OpensNothing
<1> QED  BY <1>2, <1>3, <1>4

LEMMA WriteDeltaStarts ==
  ASSUME NEW b \in Seq(SSEEvent), NEW wr, Works(wr), NEW t, t = WriteDelta(wr)
  PROVE  OpensNothing(b, t, wr)
<1> DEFINE i == wr.blockIndex
<1>1. i \in Int /\ "content_block_delta" \in Names /\ NoBlock \in BlockType \cup {NoBlock}
  BY DEF Names, Works, Writer
<1>2. t = WriteSSE(wr, "content_block_delta", NoBlock, i)  BY DEF WriteDelta
<1> HIDE DEF i
<1> QED  BY <1>1, <1>2, WriteSSEStarts

LEMMA OpenBlockStarts ==
  ASSUME NEW b \in Seq(SSEEvent), NEW wr, Works(wr), NEW hi \in Int, hi + 1 <= MaxIndex,
         Within(wr, hi), NEW block \in BlockType, NEW t, t = OpenBlock(wr, block)
  PROVE  \E e \in SSEEvent : e.block = block /\ OpensOnly(b, t, wr, e)
<1> DEFINE c == CloseActiveBlock(wr)
           i == c.blockIndex + 1
           d == [c EXCEPT !.blockIndex = i, !.activeType = block]
           e == Event("content_block_start", block, i, d.attempt)
<1>1. OpensNothing(b, c, wr) /\ Works(c)  BY CloseActiveBlockStarts DEF OpensNothing
<1>2. hi <= MaxIndex  BY MaxIndexIsNat
<1>3. c.blockIndex = wr.blockIndex /\ Within(c, hi)  BY <1>2, CloseActiveBlockWithin
<1>4. t = WriteSSE(d, "content_block_start", block, i)  BY DEF OpenBlock
<1> HIDE DEF c
<1>5. i \in 0..MaxIndex /\ i \in Int  BY <1>3, MaxIndexIsNat DEF Within
<1> HIDE DEF i
<1>6. Works(d) /\ d.todo = c.todo /\ d.attempt = c.attempt /\ c.attempt \in Attempts
  BY <1>1, <1>3, <1>5 DEF Works, Writer, Within, WriterState
<1>7. e \in SSEEvent /\ e.block = block
  BY <1>5, <1>6, EventsAreEvents, EventFields
<1>8. OpensNothing(b, d, wr)  BY <1>1, <1>6, OpensNothingSame, OpensNothingOn
<1> HIDE DEF d
<1>9. OpensOnly(b, t, d, e)
  <2>1. /\ "content_block_start" \in Names /\ block \in BlockType \cup {NoBlock}
    BY DEF Names
  <2> QED  BY <1>4, <1>5, <1>6, <1>7, <2>1, WriteSSEStarts
<1> HIDE DEF e
<1>10. OpensOnly(b, t, wr, e)  BY <1>8, <1>9 DEF OpensOnly, OpensNothing
<1> QED  BY <1>7, <1>10

LEMMA WriteBlockStarts ==
  ASSUME NEW b \in Seq(SSEEvent), NEW wr, Works(wr), NEW hi \in Int, hi + 1 <= MaxIndex,
         Within(wr, hi), NEW block \in BlockType, NEW delta \in BOOLEAN,
         NEW t, t = WriteBlock(wr, block, delta)
  PROVE  \E e \in SSEEvent : e.block = block /\ OpensOnly(b, t, wr, e)
<1> DEFINE u == OpenBlock(wr, block)
           d == IF delta THEN WriteDelta(u) ELSE u
<1>1. PICK e \in SSEEvent : e.block = block /\ OpensOnly(b, u, wr, e)  BY OpenBlockStarts
<1>2. t = CloseActiveBlock(d)  BY DEF WriteBlock
<1> HIDE DEF u
<1>3. OpensNothing(b, d, u) /\ Works(d)
  BY <1>1, WriteDeltaStarts, OpensNothingSame DEF OpensOnly, OpensNothing
<1> HIDE DEF d
<1>4. OpensNothing(b, t, d)  BY <1>2, <1>3, CloseActiveBlockStarts
<1>5. OpensOnly(b, t, wr, e)  BY <1>1, <1>3, <1>4 DEF OpensOnly, OpensNothing
<1> QED  BY <1>1, <1>5

LEMMA SpeaksWorks ==
  ASSUME NEW hi, NEW wr, Within(wr, hi), NEW b, Speaks(b, wr)
  PROVE  Works(wr) /\ b \in Seq(SSEEvent)
BY WriterStateIsWriter DEF Within, Speaks, Works

(* What a search does to the message.                                      *)
LEMMA SearchSpeaks ==
  ASSUME NEW hi \in Int, hi + 2 <= MaxIndex, NEW wr, Within(wr, hi), NEW b, Speaks(b, wr),
         Pairs(Starts(Story(b, wr))),
         NEW t, t = WriteToolSearchResult(WriteServerToolUse(wr))
  PROVE  /\ Within(t, hi + 2) /\ Speaks(b, t) /\ t.activeType = NoBlock
         /\ Pairs(Starts(Story(b, t)))
<1> DEFINE a == EnsureStarted(wr)
           f == FireVisibleOutput(a)
           yes == TRUE
           no == FALSE
           u == WriteBlock(f, "server_tool_use", yes)
           m == hi + 1
<1>1. Works(wr) /\ b \in Seq(SSEEvent)  BY SpeaksWorks
<1>2. Within(a, hi) /\ Speaks(b, a) /\ a.started /\ OpensNothing(b, a, wr)
  BY <1>1, EnsureStartedWithin, EnsureStartedSpeaks, EnsureStartedStarts
<1>3. /\ yes \in BOOLEAN /\ no \in BOOLEAN /\ m \in Int /\ m + 1 = hi + 2 /\ hi + 1 = m
      /\ hi + 1 <= MaxIndex /\ m + 1 <= MaxIndex
      /\ "server_tool_use" \in BlockType /\ "server_tool_use" # NoBlock
      /\ "tool_search_tool_result" \in BlockType /\ "tool_search_tool_result" # NoBlock
  BY MaxIndexIsNat DEF BlockType, NoBlock
<1>4. t = WriteBlock(u, "tool_search_tool_result", no)
  BY DEF WriteToolSearchResult, WriteServerToolUse
<1> HIDE DEF a, yes, no, m
<1>5. Works(a)  BY <1>2 DEF OpensNothing
<1>6. Within(f, hi) /\ Speaks(b, f) /\ f.started /\ OpensNothing(b, f, a)
  BY <1>1, <1>2, <1>5, FireVisibleOutputWithin, FireVisibleOutputSpeaks, FireVisibleOutputStarts
<1> HIDE DEF f
<1>7. Works(f) /\ OpensNothing(b, f, wr)  BY <1>2, <1>6, OpensNothingOn DEF OpensNothing
<1>8. Within(u, m) /\ Speaks(b, u) /\ u.started
  <2>1. Within(u, hi + 1)  BY <1>3, <1>6, WriteBlockWithin
  <2>2. Speaks(b, u) /\ u.started  BY <1>3, <1>6, WriteBlockSpeaks
  <2> QED  BY <1>3, <2>1, <2>2
<1>9. PICK e \in SSEEvent : e.block = "server_tool_use" /\ OpensOnly(b, u, f, e)
  BY <1>1, <1>3, <1>6, <1>7, WriteBlockStarts
<1> HIDE DEF u
<1>10. Works(u)  BY <1>9 DEF OpensOnly
<1>11. Within(t, m + 1) /\ Speaks(b, t)
  BY <1>3, <1>4, <1>8, WriteBlockWithin, WriteBlockSpeaks
<1>12. PICK z \in SSEEvent : z.block = "tool_search_tool_result" /\ OpensOnly(b, t, u, z)
  BY <1>1, <1>3, <1>4, <1>8, <1>10, WriteBlockStarts
<1>13. t.activeType = NoBlock  BY <1>3, <1>4, <1>10, WriteBlockGains
<1>14. Pairs(Starts(Story(b, t)))
  <2> DEFINE q == Starts(Story(b, wr))
             p == Append(q, e)
  <2>1. q \in Seq(SSEEvent)  BY <1>1, StoryType, StartsType
  <2>2. Starts(Story(b, u)) = p  BY <1>7, <1>9 DEF OpensOnly, OpensNothing
  <2>3. Starts(Story(b, t)) = Append(p, z)  BY <1>12, <2>2 DEF OpensOnly
  <2>4. Pairs(q)  OBVIOUS
  <2> HIDE DEF q
  <2>5. Pairs(Append(p, z))  BY <1>12, <2>1, <2>4, PairsSearch
  <2> QED  BY <2>3, <2>5
<1> QED  BY <1>3, <1>11, <1>13, <1>14

----------------------------------------------------------------------------
(* The session, for a writer whose calls have all been made.               *)

Tale(s) == s.out \o s.buf

OpenSession(s) ==
  /\ s \in [promoted : BOOLEAN, usable : BOOLEAN, buf : Seq(SSEEvent), out : Seq(SSEEvent)]
  /\ s.usable
  /\ IF s.promoted THEN s.buf = <<>> ELSE s.out = <<>>

(* The story is under way, or has come to its end.                         *)
Talk(s, wr, hi) ==
  /\ OpenSession(s)
  /\ Within(wr, hi) /\ wr.todo = <<>>
  /\ Speaks(Tale(s), wr)
  /\ Pairs(Starts(Tale(s)))

Quit(s, wr, hi) ==
  /\ OpenSession(s)
  /\ Within(wr, hi) /\ wr.todo = <<>> /\ ~wr.writeErr
  /\ Told(Tale(s), wr) /\ Ends(Tale(s), wr)
  /\ Pairs(Starts(Tale(s)))

LEMMA IdleStory ==
  ASSUME NEW b \in Seq(SSEEvent), NEW wr, wr.todo = <<>>
  PROVE  Story(b, wr) = b
<1>1. Filter(wr.todo, SSEEvent) = <<>>  BY FilterEmpty
<1> QED  BY <1>1 DEF Story

LEMMA TaleType ==
  ASSUME NEW s, OpenSession(s)
  PROVE  Tale(s) \in Seq(SSEEvent) /\ (s.out = Tale(s) \/ s.out = <<>>)
BY DEF OpenSession, Tale

LEMMA AfterTale ==
  ASSUME OpenSession(session), NEW writer, Works(writer), NEW s, s = After(writer)
  PROVE  /\ OpenSession(s) /\ Tale(s) = Story(Tale(session), writer)
         /\ session.promoted => s.promoted
<1> DEFINE q == Filter(writer.todo, SSEEvent)
           visible == \E i \in DOMAIN writer.todo : writer.todo[i].event = "promote"
           c == session.out
           d == session.buf
           r == [session EXCEPT !.buf = @ \o q]
<1>1. q \in Seq(SSEEvent)
  <2>1. writer.todo \in Seq(AnyCall)  BY DEF Works, Writer
  <2>2. q \in Seq(AnyCall \cap SSEEvent) /\ AnyCall \cap SSEEvent = SSEEvent
    BY <2>1, FilterType, CallsAreCalls DEF Calls
  <2> QED  BY <2>2
<1>2. s = IF session.promoted \/ visible THEN Promoted(r) ELSE r  BY DEF After
<1>3. Story(Tale(session), writer) = (c \o d) \o q  BY DEF Story, Tale
<1> HIDE DEF q, visible
<1>4. c \in Seq(SSEEvent) /\ d \in Seq(SSEEvent)  BY DEF OpenSession
<1>5. (c \o d) \o q = c \o (d \o q) /\ d \o q \in Seq(SSEEvent)
  <2> HIDE DEF c, d
  <2> QED  BY <1>1, <1>4, ConcatAssociative
<1>6. /\ r \in [promoted : BOOLEAN, usable : BOOLEAN, buf : Seq(SSEEvent), out : Seq(SSEEvent)]
      /\ r.promoted = session.promoted /\ r.usable /\ r.out = c /\ r.buf = d \o q
  <2> DEFINE dq == d \o q
  <2>1. r = [session EXCEPT !.buf = dq]  OBVIOUS
  <2>2. dq \in Seq(SSEEvent)  BY <1>5
  <2> HIDE DEF dq, r
  <2>3. /\ r \in [promoted : BOOLEAN, usable : BOOLEAN, buf : Seq(SSEEvent), out : Seq(SSEEvent)]
        /\ r.promoted = session.promoted /\ r.usable /\ r.out = c /\ r.buf = dq
    BY <2>1, <2>2 DEF OpenSession
  <2> QED  BY <2>3 DEF dq
<1> HIDE DEF r, c, d
<1>7. CASE session.promoted \/ visible
  <2>1. s = [r EXCEPT !.promoted = TRUE, !.out = @ \o r.buf, !.buf = <<>>]
    BY <1>2, <1>7 DEF Promoted
  <2> DEFINE whole == r.out \o r.buf
  <2>2. whole \in Seq(SSEEvent) /\ <<>> \in Seq(SSEEvent)  BY <1>4, <1>5, <1>6
  <2>3. /\ s \in [promoted : BOOLEAN, usable : BOOLEAN, buf : Seq(SSEEvent), out : Seq(SSEEvent)]
        /\ s.promoted /\ s.usable /\ s.out = r.out \o r.buf /\ s.buf = <<>>
    <3>1. s = [r EXCEPT !.promoted = TRUE, !.out = whole, !.buf = <<>>]  BY <2>1
    <3> HIDE DEF whole
    <3>2. /\ s \in [promoted : BOOLEAN, usable : BOOLEAN, buf : Seq(SSEEvent), out : Seq(SSEEvent)]
          /\ s.promoted /\ s.usable /\ s.out = whole /\ s.buf = <<>>
      BY <1>6, <2>2, <3>1
    <3> QED  BY <3>2 DEF whole
  <2>4. s.out \in Seq(SSEEvent)  BY <2>3
  <2>5. s.out \o s.buf = s.out  BY <2>3, <2>4, ConcatEmptySeq
  <2> QED  BY <1>3, <1>5, <1>6, <2>3, <2>5 DEF OpenSession, Tale
<1>8. CASE ~(session.promoted \/ visible)
  <2>1. s = r  BY <1>2, <1>8
  <2>2. ~s.promoted /\ s.out = <<>>  BY <1>6, <1>8, <2>1 DEF OpenSession, c
  <2>3. Tale(s) = Story(Tale(session), writer)  BY <1>3, <1>5, <1>6, <2>1 DEF Tale
  <2> QED  BY <1>6, <1>8, <2>1, <2>2, <2>3 DEF OpenSession
<1> QED  BY <1>7, <1>8

LEMMA IdleKeeps ==
  ASSUME NEW hi, NEW wr, Within(wr, hi), NEW t, t = Idle(wr)
  PROVE  /\ Within(t, hi) /\ SameBlock(t, wr) /\ t.started = wr.started
         /\ t.writeErr = wr.writeErr /\ t.todo = <<>>
<1>1. wr \in WriterState /\ <<>> \in Seq(Calls)  BY DEF Within
<1>2. t = [wr EXCEPT !.todo = <<>>]  BY DEF Idle
<1>3. /\ t \in WriterState /\ t.activeType = wr.activeType /\ t.blockIndex = wr.blockIndex
      /\ t.attempt = wr.attempt /\ t.started = wr.started /\ t.writeErr = wr.writeErr
      /\ t.todo = <<>>
  BY <1>1, <1>2 DEF WriterState
<1> QED  BY <1>3 DEF Within, SameBlock

LEMMA TalksOn ==
  ASSUME OpenSession(session), NEW hi, NEW writer, Within(writer, hi),
         Speaks(Tale(session), writer), Pairs(Starts(Story(Tale(session), writer))),
         NEW s, s = After(writer), NEW t, t = Idle(writer)
  PROVE  Talk(s, t, hi) /\ t.activeType = writer.activeType
<1>1. Works(writer) /\ Tale(session) \in Seq(SSEEvent)  BY SpeaksWorks
<1>2. OpenSession(s) /\ Tale(s) = Story(Tale(session), writer)  BY <1>1, AfterTale
<1>3. /\ Within(t, hi) /\ SameBlock(t, writer) /\ t.started = writer.started
      /\ t.writeErr = writer.writeErr /\ t.todo = <<>>
  BY IdleKeeps
<1>4. Tale(s) \in Seq(SSEEvent)  BY <1>2, TaleType
<1>5. Story(Tale(s), t) = Tale(s)  BY <1>3, <1>4, IdleStory
<1>6. Speaks(Tale(s), t)  BY <1>2, <1>3, <1>4, <1>5 DEF Speaks, SameBlock
<1>7. Pairs(Starts(Tale(s)))  BY <1>2
<1> QED  BY <1>2, <1>3, <1>6, <1>7 DEF Talk, SameBlock

LEMMA QuitsThere ==
  ASSUME OpenSession(session), NEW hi, NEW writer, Within(writer, hi), Works(writer),
         Told(Tale(session), writer), Ends(Tale(session), writer),
         Pairs(Starts(Story(Tale(session), writer))),
         NEW s, s = After(writer), NEW t, t = Idle(writer)
  PROVE  Quit(s, t, hi)
<1>1. OpenSession(s) /\ Tale(s) = Story(Tale(session), writer)  BY AfterTale
<1>2. Within(t, hi) /\ t.todo = <<>> /\ ~t.writeErr  BY IdleKeeps DEF Works
<1>3. Tale(s) \in Seq(SSEEvent)  BY <1>1, TaleType
<1>4. Story(Tale(s), t) = Tale(s)  BY <1>2, <1>3, IdleStory
<1>5. Told(Tale(s), t) /\ Ends(Tale(s), t)  BY <1>1, <1>3, <1>4 DEF Told, Ends
<1>6. Pairs(Starts(Tale(s)))  BY <1>1
<1> QED  BY <1>1, <1>2, <1>5, <1>6 DEF Quit

----------------------------------------------------------------------------
(* How a request is concluded: a client that stays has a whole message, or *)
(* between blocks an error, or a response.                                 *)

Finished(m) == \E i \in 1..Len(m) : m[i].event = "message_stop"

Answer(m, e) ==
  /\ e.event \in {"error", "response"} /\ e \notin SSEEvent
  /\ ~Finished(m)
  /\ Opens(m) <= Closes(m)

Concluded(s) ==
  /\ s.promoted => s.buf = <<>>
  /\ \E m \in Seq(SSEEvent) :
       /\ WellFormedSoFar(m)
       /\ Pairs(Starts(m))
       /\ \/ s.out = m /\ (s.usable => Finished(m))
          \/ \E e : Answer(m, e) /\ s.out = Append(m, e)

LEMMA AnswersAreNoEvents ==
  ASSUME NEW n \in {"error", "response"}, NEW a
  PROVE  Event(n, NoBlock, -1, a).event = n /\ Event(n, NoBlock, -1, a) \notin SSEEvent
<1> DEFINE e == Event(n, NoBlock, -1, a)
<1>1. e.event = n  BY EventFields
<1>2. e \in SSEEvent => e.event \in Names  BY CallsAreCalls DEF Calls, AnyCall
<1>3. n \notin Names  BY DEF Names
<1> QED  BY <1>1, <1>2, <1>3

LEMMA TalkStory ==
  ASSUME NEW s, NEW wr, NEW hi, Talk(s, wr, hi)
  PROVE  Coupled(Tale(s), wr) /\ Story(Tale(s), wr) = Tale(s)
<1>1. Tale(s) \in Seq(SSEEvent) /\ Story(Tale(s), wr) = Tale(s)
  BY TaleType, IdleStory DEF Talk
<1>2. Works(wr)  BY SpeaksWorks DEF Talk
<1> QED  BY <1>1, <1>2 DEF Talk, Coupled

LEMMA NothingFits ==
  /\ <<>> \in Seq(SSEEvent) /\ WellFormedSoFar(<<>>) /\ Pairs(Starts(<<>>))
  /\ ~Finished(<<>>) /\ Opens(<<>>) <= Closes(<<>>)
<1>1. Starts(<<>>) = <<>>  BY FilterEmpty DEF Starts
<1>2. Pairs(<<>>) /\ ~Finished(<<>>)  BY DEF Pairs, Finished
<1>3. Opens(<<>>) <= Closes(<<>>)
  BY TellsNothing DEF Tells
<1> QED  BY <1>1, <1>2, <1>3, EmptyWellFormed

LEMMA WrittenConcludes ==
  ASSUME NEW s, s.usable \in BOOLEAN, s.promoted => s.buf = <<>>,
         s \in [promoted : BOOLEAN, usable : BOOLEAN, buf : Seq(SSEEvent), out : Seq(SSEEvent)],
         WellFormedSoFar(s.out), Pairs(Starts(s.out)), ~Finished(s.out),
         Opens(s.out) <= Closes(s.out),
         NEW name \in {"error", "response"}, NEW t, t = Written(s, name)
  PROVE  Concluded(t) /\ \E i \in DOMAIN t.out : t.out[i].event = name
<1> DEFINE e == Event(name, NoBlock, -1, w.attempt)
           m == s.out
<1>1. e.event = name /\ e \notin SSEEvent  BY AnswersAreNoEvents
<1>2. t = [s EXCEPT !.out = Append(@, e)]  BY DEF Written
<1> HIDE DEF e
<1>3. t.out = Append(m, e) /\ t.promoted = s.promoted /\ t.buf = s.buf /\ m \in Seq(SSEEvent)
  BY <1>2
<1>4. Answer(m, e)  BY <1>1 DEF Answer
<1>5. Concluded(t)  BY <1>3, <1>4 DEF Concluded
<1>6. Len(m) + 1 \in DOMAIN t.out /\ t.out[Len(m) + 1] = e  BY <1>3
<1> QED  BY <1>1, <1>5, <1>6

LEMMA FinalErrorConcludes ==
  ASSUME OpenSession(session), NEW hi \in Int, hi <= MaxIndex,
         session.promoted => Talk(session, w, hi), FinalError
  PROVE  Concluded(session') /\ \E i \in DOMAIN session'.out : session'.out[i].event = "error"
<1> DEFINE c == CloseActiveBlock(w)
           s == IF session.promoted THEN After(c) ELSE [session EXCEPT !.buf = <<>>]
<1>1. session' = Written(s, "error")  BY DEF FinalError
<1>2. /\ s \in [promoted : BOOLEAN, usable : BOOLEAN, buf : Seq(SSEEvent), out : Seq(SSEEvent)]
      /\ s.promoted => s.buf = <<>>
      /\ WellFormedSoFar(s.out) /\ Pairs(Starts(s.out)) /\ ~Finished(s.out)
      /\ Opens(s.out) <= Closes(s.out)
  <2>1. CASE ~session.promoted
    <3>1. s = [session EXCEPT !.buf = <<>>] /\ s.out = <<>>  BY <2>1 DEF OpenSession
    <3>2. /\ s \in [promoted : BOOLEAN, usable : BOOLEAN, buf : Seq(SSEEvent), out : Seq(SSEEvent)]
          /\ s.buf = <<>>
      BY <3>1 DEF OpenSession
    <3> HIDE DEF s
    <3> QED  BY <3>1, <3>2, NothingFits
  <2>2. CASE session.promoted
    <3> DEFINE b == Tale(session)
    <3>1. s = After(c) /\ Talk(session, w, hi)  BY <2>2
    <3>2. Within(w, hi) /\ Speaks(b, w) /\ Coupled(b, w)  BY <3>1, TalkStory DEF Talk
    <3> HIDE DEF s, b
    <3>3. Speaks(b, c) /\ c.activeType = NoBlock /\ Coupled(b, c)
      BY <3>2, CloseActiveBlockSpeaks, CloseActiveBlockCoupled
    <3> HIDE DEF c
    <3>4. OpenSession(s) /\ Tale(s) = Story(b, c) /\ s.promoted
      BY <2>2, <3>1, <3>3, AfterTale DEF Coupled, b
    <3>5. s.out = Story(b, c) /\ s.buf = <<>>  BY <3>4 DEF OpenSession, Tale
    <3>6. Tells(Story(b, c), c.attempt, c.started, NoBlock, c.blockIndex)
      BY <3>3 DEF Speaks
    <3>7. ~Finished(Story(b, c)) /\ WellFormedSoFar(Story(b, c))
      BY <3>6 DEF Tells, Running, Finished
    <3>8. Opens(Story(b, c)) <= Closes(Story(b, c))
      <4>1. c.blockIndex \in Int  BY <3>3 DEF Coupled, Works, Writer
      <4>2. Opens(Story(b, c)) = c.blockIndex + 1 /\ Closes(Story(b, c)) = c.blockIndex + 1
        BY <3>6 DEF Tells
      <4> QED  BY <4>1, <4>2
    <3> QED  BY <3>3, <3>4, <3>5, <3>7, <3>8 DEF Coupled, OpenSession
  <2> QED  BY <2>1, <2>2
<1> HIDE DEF s
<1>3. s.usable \in BOOLEAN /\ "error" \in {"error", "response"}  BY <1>2
<1> QED  BY <1>1, <1>2, <1>3, WrittenConcludes

----------------------------------------------------------------------------
(* The orchestrator: its locals have their types, and the messages of the  *)
(* next payload name active tools only, because no tool ever becomes       *)
(* deferred again.                                                         *)

OrchestratorInv ==
  /\ stream \in BOOLEAN /\ refs \in SUBSET Tool
  /\ o \in Orchestrator
  /\ seen \in [metered : Nat, charged : Nat, logged : Nat, lost : BOOLEAN]
  /\ Split(tools)
  /\ refs \subseteq ToSet(tools.active) /\ o.named \subseteq ToSet(tools.active)
  /\ o.pc = "call" => o.payload = tools.active

SameTools == tools' = tools /\ stream' = stream /\ refs' = refs

LEMMA FirstRoundType ==
  ASSUME refs \in SUBSET Tool, NEW events \in 0..MaxEvents
  PROVE  FirstRound(events) \in Orchestrator
<1>1. /\ <<>> \in Seq(Tool) /\ <<>> \in Seq(BlockType) /\ 1 \in 1..MaxRounds
      /\ 0 \in 0..MaxCredits
  BY BoundsAreNat, MaxRoundsIsPositive
<1> QED  BY <1>1 DEF FirstRound, Orchestrator

LEMMA BlocksType ==
  ASSUME NEW acc
  PROVE  Blocks(acc) \in Seq(BlockType \ {"server_tool_use"}) /\ Blocks(acc) \in Seq(BlockType)
<1> DEFINE X == BlockType \ {"server_tool_use"}
           q == <<"thinking", "text", "tool_use">>
           present == {b \in {"thinking", "text", "tool_use"} :
                         CASE b = "thinking" -> acc.thinking
                           [] b = "text"     -> acc.text
                           [] b = "tool_use" -> acc.tool}
<1>1. q \in Seq(X) /\ q \in Seq(BlockType)  BY DEF BlockType
<1>2. Blocks(acc) = Filter(q, present)  BY DEF Blocks
<1> HIDE DEF q, X, present
<1>3. Filter(q, present) \in Seq(X) /\ Filter(q, present) \in Seq(BlockType)
  BY <1>1, FilterType
<1> QED  BY <1>2, <1>3 DEF X

LEMMA SearchType ==
  ASSUME OrchestratorInv, NEW result \in Search
  PROVE  result.names \in Seq(Tool)
<1>1. CASE result = [err |-> TRUE, names |-> <<>>]
  <2>1. result.names = <<>>  BY <1>1
  <2> QED  BY <2>1
<1>2. CASE result \in [err : {FALSE}, names : BoundedSeq(tools.deferred, MaxResults)]
  <2> DEFINE q == result.names
             D == tools.deferred
  <2>1. q \in UNION {[1..m -> D] : m \in 0..MaxResults}
    BY <1>2 DEF BoundedSeq, SeqOf
  <2> HIDE DEF q
  <2>2. PICK m \in 0..MaxResults : q \in [1..m -> D]  BY <2>1
  <2>3. D \subseteq Tool  BY DEF OrchestratorInv, Split, Context
  <2>4. m \in Nat /\ q \in [1..m -> Tool]  BY <2>2, <2>3, BoundsAreNat
  <2>5. q \in Seq(Tool)  BY <2>4, IsASeq
  <2> QED  BY <2>5 DEF q
<1> QED  BY <1>1, <1>2 DEF Search

LEMMA ConcatElements ==
  ASSUME NEW names \in Seq(Tool)
  PROVE  ToSet(names) \in SUBSET Tool
BY DEF ToSet

History == [metered : Nat, charged : Nat, logged : Nat, lost : BOOLEAN]

LEMMA SameToolsKeep ==
  ASSUME OrchestratorInv, SameTools, o' \in Orchestrator, seen' \in History,
         o'.named \in {o.named, refs}, o'.pc = "call" => o'.payload = tools.active
  PROVE  OrchestratorInv'
BY DEF OrchestratorInv, SameTools, History

(* Where an action goes, when it reads and writes nothing else.            *)
LEMMA GotoType ==
  ASSUME OrchestratorInv, NEW pc \in {"build", "parse", "parsed", "search", "last", "done"}, Goto(pc)
  PROVE  o' \in Orchestrator /\ o'.named = o.named /\ o'.pc = pc
BY DEF Goto, OrchestratorInv, Orchestrator

LEMMA LogType ==
  ASSUME OrchestratorInv, NEW credits \in Nat, LogCredits(credits)
  PROVE  seen' \in History
BY DEF LogCredits, OrchestratorInv, History

LEMMA FailKeeps ==
  ASSUME OrchestratorInv, stream' = stream, refs' = refs, Fail
  PROVE  OrchestratorInv'
<1>1. o' \in Orchestrator /\ o'.named = o.named /\ o'.pc = "done"  BY GotoType DEF Fail
<1>2. seen' \in History /\ SameTools  BY DEF Fail, OrchestratorInv, History, SameTools
<1> QED  BY <1>1, <1>2, SameToolsKeep

LEMMA TotalsType ==
  ASSUME OrchestratorInv
  PROVE  o.totals \in Nat /\ o.credits \in Nat /\ o.totals + o.credits \in Nat
<1>1. o.totals \in Nat /\ o.credits \in 0..MaxCredits  BY DEF OrchestratorInv, Orchestrator
<1> QED  BY <1>1, BoundsAreNat

LEMMA DeliverKeeps ==
  ASSUME OrchestratorInv, stream' = stream, refs' = refs, NEW writer, Deliver(writer)
  PROVE  OrchestratorInv'
<1> DEFINE sum == o.totals + o.credits
<1>1. o' \in Orchestrator /\ o'.named = o.named /\ o'.pc = "done"  BY GotoType DEF Deliver
<1>2. SameTools /\ LogCredits(sum)  BY DEF Deliver, SameTools
<1>3. sum \in Nat  BY TotalsType
<1> HIDE DEF sum
<1>4. seen' \in History  BY <1>2, <1>3, LogType
<1> QED  BY <1>1, <1>2, <1>4, SameToolsKeep

LEMMA RunAgainKeeps ==
  ASSUME OrchestratorInv, stream' = stream, refs' = refs, NEW credits \in Nat, RunAgain(credits)
  PROVE  OrchestratorInv'
<1>1. seen' \in History /\ SameTools  BY LogType DEF RunAgain, SameTools
<1>2. CASE w.attempt = 1
  <2> DEFINE events == o.events
  <2>1. events \in 0..MaxEvents /\ refs \in SUBSET Tool /\ o' = FirstRound(events)
    BY <1>2 DEF OrchestratorInv, Orchestrator, RunAgain
  <2> HIDE DEF events
  <2>2. o' \in Orchestrator  BY <2>1, FirstRoundType
  <2>3. o'.named = refs /\ o'.pc = "build"  BY <2>1 DEF FirstRound
  <2> QED  BY <1>1, <2>2, <2>3, SameToolsKeep
<1>3. CASE w.attempt # 1
  <2>1. o' \in Orchestrator /\ o'.named = o.named /\ o'.pc = "done"
    BY <1>3, GotoType DEF RunAgain
  <2> QED  BY <1>1, <2>1, SameToolsKeep
<1> QED  BY <1>2, <1>3

LEMMA RespondsKeeps ==
  ASSUME OrchestratorInv, SameTools, NEW run \in Orchestrator, run.named = o.named, Responds(run)
  PROVE  OrchestratorInv'
<1>1. o' = [run EXCEPT !.pc = "done"] /\ LogCredits(run.totals)  BY DEF Responds
<1>2. o' \in Orchestrator /\ o'.named = o.named /\ o'.pc = "done" /\ run.totals \in Nat
  BY <1>1 DEF Orchestrator
<1>3. seen' \in History  BY <1>1, <1>2, LogType
<1> QED  BY <1>2, <1>3, SameToolsKeep

(* The content blocks that a round without a stream adds.                  *)
LEMMA RoundType ==
  ASSUME OrchestratorInv, NEW acc,
         NEW round, round = [o EXCEPT !.totals = @ + o.credits, !.orderedBlocks = @ \o Blocks(acc)]
  PROVE  /\ round \in Orchestrator /\ round.named = o.named
         /\ round.totals = o.totals + o.credits /\ round.totals \in Nat
         /\ round.orderedBlocks = o.orderedBlocks \o Blocks(acc)
         /\ [round EXCEPT !.pc = "search"] \in Orchestrator
         /\ [round EXCEPT !.pc = "search"].named = o.named
<1> DEFINE sum == o.totals + o.credits
           q == o.orderedBlocks \o Blocks(acc)
           named == o.named
<1>1. sum \in Nat  BY TotalsType
<1>2. q \in Seq(BlockType)
  <2>1. o.orderedBlocks \in Seq(BlockType)  BY DEF OrchestratorInv, Orchestrator
  <2> QED  BY <2>1, BlocksType
<1>3. round = [o EXCEPT !.totals = sum, !.orderedBlocks = q]  OBVIOUS
<1>4. o \in Orchestrator  BY DEF OrchestratorInv
<1> HIDE DEF sum, q
<1>5. round \in Orchestrator /\ round.named = o.named /\ round.totals = sum /\ round.orderedBlocks = q
  BY <1>1, <1>2, <1>3, <1>4 DEF Orchestrator
<1>6. [round EXCEPT !.pc = "search"] \in Orchestrator /\ [round EXCEPT !.pc = "search"].named = o.named
  <2> HIDE DEF named
  <2>1. round.named = named  BY <1>5 DEF named
  <2>2. [round EXCEPT !.pc = "search"] \in Orchestrator
        /\ [round EXCEPT !.pc = "search"].named = round.named
    BY <1>5 DEF Orchestrator
  <2> QED  BY <2>1, <2>2 DEF named
<1> QED  BY <1>1, <1>5, <1>6 DEF sum, q

LEMMA SearchRunsKeeps ==
  ASSUME OrchestratorInv, stream' = stream, refs' = refs, SearchRuns
  PROVE  OrchestratorInv'
<1>1. PICK result \in Search :
        /\ tools' = IF result.err THEN tools ELSE PromoteTools(tools, result.names)
        /\ o' = [o EXCEPT !.named = @ \cup ToSet(result.names),
                         !.orderedBlocks = IF stream THEN @
                            ELSE @ \o <<"server_tool_use", "tool_search_tool_result">>,
                         !.pc = IF MoreRounds THEN "build" ELSE "last",
                         !.round = IF MoreRounds THEN @ + 1 ELSE @]
  BY DEF SearchRuns
<1> DEFINE names == result.names
           N == o.named \cup ToSet(names)
           q == IF stream THEN o.orderedBlocks
                ELSE o.orderedBlocks \o <<"server_tool_use", "tool_search_tool_result">>
           pc == IF MoreRounds THEN "build" ELSE "last"
           n == IF MoreRounds THEN o.round + 1 ELSE o.round
<1>2. names \in Seq(Tool)  BY SearchType
<1>3. o \in Orchestrator /\ Split(tools)  BY DEF OrchestratorInv
<1>4. N \in SUBSET Tool
  <2>1. ToSet(names) \in SUBSET Tool  BY <1>2, ConcatElements
  <2> QED  BY <1>3, <2>1 DEF Orchestrator
<1>5. q \in Seq(BlockType)
  <2>1. o.orderedBlocks \in Seq(BlockType)  BY <1>3 DEF Orchestrator
  <2>2. <<"server_tool_use", "tool_search_tool_result">> \in Seq(BlockType)  BY DEF BlockType
  <2> QED  BY <2>1, <2>2
<1>6. n \in 1..MaxRounds /\ pc \in {"build", "last"}
  BY <1>3, MaxRoundsIsPositive DEF MoreRounds, Orchestrator
<1>7. o' = [o EXCEPT !.named = N, !.orderedBlocks = q, !.pc = pc, !.round = n]  BY <1>1
<1> HIDE DEF N, q, pc, n
<1>8. o' \in Orchestrator /\ o'.named = N /\ o'.pc \in {"build", "last"}
  BY <1>3, <1>4, <1>5, <1>6, <1>7 DEF Orchestrator
<1>9. /\ Split(tools') /\ ToSet(tools.active) \subseteq ToSet(tools'.active)
      /\ ToSet(names) \subseteq ToSet(tools'.active)
  <2>1. CASE result.err
    <3>1. names = <<>>
      <4>1. CASE result = [err |-> TRUE, names |-> <<>>]  BY <4>1
      <4>2. CASE result \in [err : {FALSE}, names : BoundedSeq(tools.deferred, MaxResults)]
        <5>1. result.err = FALSE  BY <4>2
        <5> QED  BY <2>1, <5>1
      <4> QED  BY <4>1, <4>2 DEF Search
    <3>2. ToSet(names) = {} /\ tools' = tools  BY <1>1, <2>1, <3>1 DEF ToSet
    <3> QED  BY <1>3, <3>2
  <2>2. CASE ~result.err
    <3>1. tools' = PromoteTools(tools, names)  BY <1>1, <2>2
    <3> HIDE DEF names
    <3>2. Split(tools') /\ ToSet(tools'.active) = ToSet(tools.active) \cup ToSet(names)
      BY <1>2, <1>3, <3>1, PromoteToolsSplits
    <3> QED  BY <3>2
  <2> QED  BY <2>1, <2>2
<1>10. seen' = seen  BY DEF SearchRuns
<1> QED  BY <1>8, <1>9, <1>10 DEF OrchestratorInv, N

LEMMA StepKeepsOrchestrator ==
  ASSUME OrchestratorInv, w \in WriterState, [Next]_vars
  PROVE  OrchestratorInv'
<1> SUFFICES ASSUME Next PROVE OrchestratorInv'
  BY DEF vars, OrchestratorInv
<1>0. stream' = stream /\ refs' = refs  BY DEF Next
<1>1. o \in Orchestrator /\ seen \in History /\ w.held \in BOOLEAN
  BY DEF OrchestratorInv, History, WriterState
<1>2. CASE BuildPayload
  <2> DEFINE q == tools.active
  <2>1. o' = [o EXCEPT !.pc = "call", !.payload = q] /\ SameTools /\ seen' = seen
    BY <1>0, <1>2 DEF BuildPayload, SameTools
  <2>2. q \in Seq(Tool)  BY DEF OrchestratorInv, Split, Context
  <2> HIDE DEF q
  <2>3. o' \in Orchestrator /\ o'.named = o.named /\ o'.payload = q
    BY <1>1, <2>1, <2>2 DEF Orchestrator
  <2> QED  BY <1>1, <2>1, <2>3, SameToolsKeep DEF q
<1>3. CASE CallFails  BY <1>0, <1>3, FailKeeps DEF CallFails
<1>4. CASE CallSucceeds
  <2> DEFINE n == IF stream THEN o.totals + o.credits ELSE o.totals
             l == (seen.lost \/ (o.round > 1 /\ w.held))
             c == seen.charged + seen.metered
  <2>1. /\ o' = [o EXCEPT !.pc = "parse", !.found = "none", !.outcome = "none", !.credits = 0,
                    !.totals = n]
        /\ seen' = [seen EXCEPT !.charged = c, !.metered = 0, !.lost = l]
        /\ SameTools
    BY <1>0, <1>4 DEF CallSucceeds, SameTools
  <2>2. n \in Nat /\ c \in Nat /\ l \in BOOLEAN /\ 0 \in 0..MaxCredits
    BY <1>1, TotalsType, BoundsAreNat DEF History
  <2> HIDE DEF n, l, c
  <2>3. o' \in Orchestrator /\ o'.named = o.named /\ o'.pc = "parse"
    BY <1>1, <2>1, <2>2 DEF Orchestrator
  <2>4. seen' \in History  BY <1>1, <2>1, <2>2 DEF History
  <2> QED  BY <2>1, <2>3, <2>4, SameToolsKeep
<1>5. CASE ReadEventOfStream
  <2>1. o.events < MaxEvents /\ o.pc = "parse" /\ SameTools /\ seen' = seen
    BY <1>0, <1>5 DEF ReadEventOfStream, Reads, At, SameTools
  <2>2. \/ o' = [o EXCEPT !.events = @ + 1]
        \/ \E pc \in {"parsed", "parse"}, outcome \in {"localStop", "none"} :
             o' = [o EXCEPT !.events = @ + 1, !.pc = pc, !.outcome = outcome]
    BY <1>5 DEF ReadEventOfStream
  <2>3. o.events + 1 \in 0..MaxEvents  BY <1>1, <2>1, BoundsAreNat DEF Orchestrator
  <2>4. o' \in Orchestrator /\ o'.named = o.named /\ o'.pc # "call"
    BY <1>1, <2>1, <2>2, <2>3 DEF Orchestrator
  <2> QED  BY <1>1, <2>1, <2>4, SameToolsKeep
<1>6. CASE ReadEvent
  <2>1. /\ o.events < MaxEvents /\ o.pc = "parse" /\ SameTools /\ seen' = seen
        /\ o' = [o EXCEPT !.events = @ + 1]
    BY <1>0, <1>6 DEF ReadEvent, Reads, At, SameTools
  <2>2. o.events + 1 \in 0..MaxEvents  BY <1>1, <2>1, BoundsAreNat DEF Orchestrator
  <2>3. o' \in Orchestrator /\ o'.named = o.named /\ o'.pc # "call"
    BY <1>1, <2>1, <2>2 DEF Orchestrator
  <2> QED  BY <1>1, <2>1, <2>3, SameToolsKeep
<1>7. CASE ReadMetering
  <2>1. PICK credits \in (seen.metered + 1)..MaxCredits :
          o' = [o EXCEPT !.credits = credits] /\ seen' = [seen EXCEPT !.metered = credits]
    BY <1>7 DEF ReadMetering, Metered
  <2>2. o.pc = "parse" /\ SameTools  BY <1>0, <1>7 DEF ReadMetering, At, SameTools
  <2>3. credits \in 0..MaxCredits /\ credits \in Nat  BY <1>1, BoundsAreNat DEF History
  <2>4. o' \in Orchestrator /\ o'.named = o.named /\ o'.pc # "call"
    BY <1>1, <2>1, <2>2, <2>3 DEF Orchestrator
  <2>5. seen' \in History  BY <1>1, <2>1, <2>3 DEF History
  <2> QED  BY <2>2, <2>4, <2>5, SameToolsKeep
<1>8. CASE ReadToolSearch
  <2>1. o.pc = "parse" /\ SameTools /\ seen' = seen
    BY <1>0, <1>8 DEF ReadToolSearch, At, SameTools
  <2>2. \E input \in {"query", "malformed"} : o' = [o EXCEPT !.found = input]
    BY <1>8 DEF ReadToolSearch
  <2>3. o' \in Orchestrator /\ o'.named = o.named /\ o'.pc # "call"
    BY <1>1, <2>1, <2>2 DEF Orchestrator
  <2> QED  BY <1>1, <2>1, <2>3, SameToolsKeep
<1>9. CASE ReadEnds
  <2>1. SameTools /\ seen' = seen  BY <1>0, <1>9 DEF ReadEnds, SameTools
  <2>2. \E outcome \in {"eof", "error"} :
          o' = [o EXCEPT !.pc = "parsed", !.outcome = outcome]
    BY <1>9 DEF ReadEnds
  <2>3. o' \in Orchestrator /\ o'.named = o.named /\ o'.pc # "call"
    BY <1>1, <2>2 DEF Orchestrator
  <2> QED  BY <1>1, <2>1, <2>3, SameToolsKeep
<1>10. CASE RoundFails  BY <1>0, <1>10, FailKeeps DEF RoundFails
<1>11. CASE SearchesInStream
  <2>1. SameTools /\ seen' = seen /\ Goto("search")
    BY <1>0, <1>11 DEF SearchesInStream, SameTools
  <2> QED  BY <1>1, <2>1, GotoType, SameToolsKeep
<1>12. CASE StopsLocally  BY <1>0, <1>12, DeliverKeeps DEF StopsLocally
<1>13. CASE Finishes
  <2> DEFINE sum == o.totals + o.credits
  <2>1. PICK f \in Finals(w) : RunAgain(sum) \/ Deliver(Finish(w, f))
    BY <1>13 DEF Finishes
  <2>2. sum \in Nat  BY TotalsType
  <2> HIDE DEF sum
  <2> QED  BY <1>0, <2>1, <2>2, RunAgainKeeps, DeliverKeeps
<1>14. CASE BuildResponse
  <2>1. PICK f \in Finals(w) :
          LET acc   == Finalized(w, f)
              round == [o EXCEPT !.totals = @ + o.credits, !.orderedBlocks = @ \o Blocks(acc)]
          IN  \/ /\ o' = [round EXCEPT !.pc = "search"]
                 /\ UNCHANGED <<tools, seen>>
              \/ RunAgain(round.totals)
              \/ Responds(round) /\ UNCHANGED tools
    BY <1>14 DEF BuildResponse
  <2> DEFINE acc == Finalized(w, f)
             round == [o EXCEPT !.totals = @ + o.credits, !.orderedBlocks = @ \o Blocks(acc)]
             total == round.totals
  <2>2. /\ round \in Orchestrator /\ round.named = o.named /\ total \in Nat
        /\ [round EXCEPT !.pc = "search"] \in Orchestrator
        /\ [round EXCEPT !.pc = "search"].named = o.named
    <3> HIDE DEF acc
    <3> QED  BY RoundType
  <2>3. \/ o' = [round EXCEPT !.pc = "search"] /\ UNCHANGED <<tools, seen>>
        \/ RunAgain(total)
        \/ Responds(round) /\ UNCHANGED tools
    BY <2>1
  <2> HIDE DEF round, total
  <2>4. CASE o' = [round EXCEPT !.pc = "search"] /\ UNCHANGED <<tools, seen>>
    <3>1. o' \in Orchestrator /\ o'.named = o.named /\ o'.pc # "call"
      BY <2>2, <2>4 DEF Orchestrator
    <3> QED  BY <1>0, <1>1, <2>4, <3>1, SameToolsKeep DEF SameTools
  <2>5. CASE RunAgain(total)  BY <1>0, <2>2, <2>5, RunAgainKeeps
  <2>6. CASE Responds(round) /\ UNCHANGED tools
    BY <1>0, <2>2, <2>6, RespondsKeeps DEF SameTools
  <2> QED  BY <2>3, <2>4, <2>5, <2>6
<1>15. CASE SearchRejected  BY <1>0, <1>15, FailKeeps DEF SearchRejected
<1>16. CASE SearchRuns  BY <1>0, <1>16, SearchRunsKeeps
<1>17. CASE MaxRoundsReached
  <2>1. CASE stream
    <3>1. PICK f \in Finals(w) : Deliver(Finish(w, f))  BY <1>17, <2>1 DEF MaxRoundsReached
    <3> QED  BY <1>0, <3>1, DeliverKeeps
  <2>2. CASE ~stream
    <3>1. Responds(o) /\ SameTools  BY <1>0, <1>17, <2>2 DEF MaxRoundsReached, SameTools
    <3> QED  BY <1>1, <3>1, RespondsKeeps
  <2> QED  BY <2>1, <2>2
<1>18. CASE ClientGone
  <2>1. SameTools /\ seen' = seen /\ Goto("done")  BY <1>0, <1>18 DEF ClientGone, SameTools
  <2> QED  BY <1>1, <2>1, GotoType, SameToolsKeep
<1> QED
  BY <1>2, <1>3, <1>4, <1>5, <1>6, <1>7, <1>8, <1>9, <1>10, <1>11, <1>12, <1>13, <1>14, <1>15,
     <1>16, <1>17, <1>18 DEF Next, Round

LEMMA InitOrchestrator == Init => OrchestratorInv
<1> SUFFICES ASSUME Init PROVE OrchestratorInv
  OBVIOUS
<1>1. PICK deferred \in SUBSET Tool : tools = PromoteTools(NewContext(deferred), SetToSeq(refs))
  BY DEF Init
<1> DEFINE t == NewContext(deferred)
           names == SetToSeq(refs)
<1>2. refs \in SUBSET Tool /\ stream \in BOOLEAN /\ o = FirstRound(0)
      /\ seen = [metered |-> 0, charged |-> 0, logged |-> 0, lost |-> FALSE]
  BY DEF Init
<1>3. Split(t)  BY NewContextSplits
<1>4. names \in Seq(Tool) /\ ToSet(names) = refs  BY <1>2, SetToSeqExists
<1> HIDE DEF t, names
<1>5. Split(tools) /\ ToSet(tools.active) = ToSet(t.active) \cup ToSet(names)
  BY <1>1, <1>3, <1>4, PromoteToolsSplits DEF t, names
<1>6. 0 \in 0..MaxEvents  BY BoundsAreNat
<1>7. o \in Orchestrator /\ o.named = refs /\ o.pc = "build"
  BY <1>2, <1>6, FirstRoundType DEF FirstRound
<1> QED  BY <1>2, <1>4, <1>5, <1>7 DEF OrchestratorInv

----------------------------------------------------------------------------
(* The writer and the session.  Room is the index that the blocks of the   *)
(* events and searches so far may have reached.                            *)

Searches(x) == IF x.pc = "last" THEN x.round ELSE x.round - 1
Room(x)     == 2 * x.events + 2 * Searches(x) - 1

Fresh(x)   == x.pc \in {"build", "call"}
Stopped(x) == x.pc = "parsed" /\ x.outcome = "localStop"

(* A round of a stream begins between two blocks, since the search before  *)
(* it closed its own; once a local stop has ended the message, nothing can *)
(* follow: the round's search, if there is one, came before.               *)
Streams(x, s, wr) ==
  IF Stopped(x) THEN x.found = "none" /\ Quit(s, wr, Room(x) + 2)
  ELSE Talk(s, wr, Room(x)) /\ (Fresh(x) => wr.activeType = NoBlock)

Collects(s, wr) ==
  /\ OpenSession(s) /\ ~s.promoted /\ s.buf = <<>>
  /\ Within(wr, -1) /\ wr.todo = <<>>

Over(s, wr) == Within(wr, MaxIndex) /\ wr.todo = <<>> /\ Concluded(s)

Paired(q) ==
  \A i \in 1..Len(q) :
    q[i] = "server_tool_use" => i < Len(q) /\ q[i + 1] = "tool_search_tool_result"

WriterInv ==
  /\ Paired(o.orderedBlocks)
  /\ IF o.pc = "done" THEN Over(session, w)
     ELSE IF stream THEN Streams(o, session, w)
     ELSE Collects(session, w)

(* The credits of the call at hand are in o.credits until they are added.  *)
Counted ==
  IF o.pc \in {"parse", "parsed"} \/ stream THEN o.totals + o.credits ELSE o.totals
CreditsInv ==
  /\ o.pc \in {"parse", "parsed"} => o.credits = seen.metered
  /\ o.pc # "done" => seen.logged + Counted = seen.charged + seen.metered
  /\ CreditsSummed

LEMMA RoomType ==
  ASSUME NEW x \in Orchestrator
  PROVE  /\ Room(x) \in Int /\ -1 <= Room(x) /\ Room(x) + 2 <= MaxIndex
         /\ x.pc # "last" => Room(x) + 4 <= MaxIndex
<1>1. /\ x.events \in 0..MaxEvents /\ x.round \in 1..MaxRounds
      /\ MaxEvents \in Nat /\ MaxRounds \in Nat
  BY BoundsAreNat, MaxRoundsIsPositive DEF Orchestrator
<1>2. 2 * MaxEvents + 2 * MaxRounds + 1 <= MaxIndex /\ MaxIndex \in Nat
  BY IndicesSuffice, MaxIndexIsNat
<1> DEFINE n == Searches(x)
           k == x.events
<1>3. n \in Nat /\ n <= MaxRounds /\ (x.pc # "last" => n + 1 <= MaxRounds)
  BY <1>1 DEF Searches
<1>4. Room(x) = 2 * k + 2 * n - 1  BY DEF Room
<1>5. k \in Nat /\ k <= MaxEvents  BY <1>1
<1> HIDE DEF n, k
<1> QED  BY <1>1, <1>2, <1>3, <1>4, <1>5

(* One more event.                                                         *)
LEMMA RoomOfEvent ==
  ASSUME NEW x \in Orchestrator, x.pc # "last", NEW y, y.pc # "last", y.round = x.round,
         y.events = x.events + 1
  PROVE  Room(y) = Room(x) + 2
<1>1. x.events \in Int /\ x.round \in Int  BY DEF Orchestrator
<1>2. Room(x) = 2 * x.events + 2 * (x.round - 1) - 1  BY DEF Room, Searches
<1>3. Room(y) = 2 * (x.events + 1) + 2 * (x.round - 1) - 1  BY DEF Room, Searches
<1> QED  BY <1>1, <1>2, <1>3

LEMMA WithinTypes ==
  ASSUME OrchestratorInv, WriterInv
  PROVE  w \in WriterState /\ w.todo = <<>>
BY DEF WriterInv, Over, Streams, Collects, Talk, Quit, Within

(* A step that leaves the writer, the session and the indices alone.       *)
LEMMA UnchangedStreams ==
  ASSUME OrchestratorInv, NEW y, NEW s, NEW wr, Streams(o, s, wr), ~Stopped(o),
         ~Stopped(y), Room(y) = Room(o), Fresh(y) => Fresh(o)
  PROVE  Streams(y, s, wr)
BY DEF Streams

LEMMA FailsOver ==
  ASSUME OrchestratorInv, WriterInv, o.pc # "done", stream => ~Stopped(o), FinalError, w' = w
  PROVE  Over(session', w') /\ \E i \in DOMAIN session'.out : session'.out[i].event = "error"
<1> DEFINE hi == Room(o)
<1>1. hi \in Int /\ hi <= MaxIndex /\ -1 <= MaxIndex /\ -1 \in Int /\ MaxIndex \in Int
  BY RoomType, MaxIndexIsNat DEF OrchestratorInv
<1>2. OpenSession(session) /\ (session.promoted => Talk(session, w, hi))
      /\ (Within(w, hi) \/ Within(w, -1)) /\ w.todo = <<>>
  BY DEF WriterInv, Streams, Collects, Talk
<1> HIDE DEF hi
<1>3. Within(w, MaxIndex)  BY <1>1, <1>2, WithinHigher
<1> QED  BY <1>1, <1>2, <1>3, FinalErrorConcludes DEF Over

(* What has been told to its end goes out as a whole.                      *)
LEMMA DeliversOver ==
  ASSUME OpenSession(session), NEW hi \in Int, hi <= MaxIndex, NEW writer, Within(writer, hi),
         Works(writer), Told(Tale(session), writer), Ends(Tale(session), writer),
         Pairs(Starts(Story(Tale(session), writer))),
         NEW s, s = Promoted(After(writer)), NEW t, t = Idle(writer)
  PROVE  Over(s, t)
<1> DEFINE a == After(writer)
           m == Tale(a)
<1>1. OpenSession(a) /\ m = Story(Tale(session), writer)  BY AfterTale
<1>2. Within(t, hi) /\ t.todo = <<>>  BY IdleKeeps
<1>3. Within(t, MaxIndex)  BY <1>2, WithinHigher, MaxIndexIsNat
<1>4. s = [a EXCEPT !.promoted = TRUE, !.out = @ \o a.buf, !.buf = <<>>]  BY DEF Promoted
<1>5. m \in Seq(SSEEvent) /\ WellFormedSoFar(m) /\ Finished(m) /\ Pairs(Starts(m))
  BY <1>1 DEF Told, Ends, Finished
<1>6. m = a.out \o a.buf  BY DEF Tale
<1> HIDE DEF m, a
<1>7. s.buf = <<>> /\ s.out = m  BY <1>1, <1>4, <1>6 DEF OpenSession
<1> QED  BY <1>2, <1>3, <1>5, <1>7 DEF Over, Concluded

(* The events of a stream: a local stop ends the message.                  *)
LEMMA EventSpeaks ==
  ASSUME NEW hi \in Int, hi + 4 <= MaxIndex, Talk(session, w, hi),
         NEW e \in UpstreamEvents, NEW writer \in Handled(w, e), Emit(writer)
  PROVE  IF e.stop THEN Quit(session', w', hi + 4) ELSE Talk(session', w', hi + 2)
<1> DEFINE b == Tale(session)
           up == hi + 2
           top == hi + 4
<1>1. w' = Idle(writer) /\ session' = After(writer)  BY DEF Emit
<1>2. /\ OpenSession(session) /\ Within(w, hi) /\ Speaks(b, w) /\ Coupled(b, w)
      /\ e \in Input
  BY TalkStory, UpstreamEventsAreInputs DEF Talk
<1> HIDE DEF b
<1>3. Within(writer, top) /\ (~e.stop => Within(writer, up))  BY <1>2, HandledWithin
<1>4. Told(b, writer) /\ (IF e.stop THEN Ends(b, writer) ELSE Speaks(b, writer))
  BY <1>2, HandledTells
<1>5. Works(writer) /\ Pairs(Starts(Story(b, writer)))
  BY <1>2, HandledCoupled DEF Coupled
<1> HIDE DEF up, top
<1>6. CASE e.stop  BY <1>1, <1>2, <1>3, <1>4, <1>5, <1>6, QuitsThere DEF b, top
<1>7. CASE ~e.stop  BY <1>1, <1>2, <1>3, <1>4, <1>5, <1>7, TalksOn DEF b, up
<1> QED  BY <1>6, <1>7

LEMMA FinishOver ==
  ASSUME NEW hi \in Int, hi + 2 <= MaxIndex, Talk(session, w, hi),
         NEW f \in Finals(w), NEW writer, writer = Finish(w, f), Deliver(writer)
  PROVE  Over(session', w')
<1> DEFINE b == Tale(session)
           up == hi + 2
<1>1. w' = Idle(writer) /\ session' = Promoted(After(writer))  BY DEF Deliver
<1>2. OpenSession(session) /\ Within(w, hi) /\ Speaks(b, w) /\ Coupled(b, w)
  BY TalkStory DEF Talk
<1> HIDE DEF b
<1>3. Within(writer, up)  BY <1>2, FinishWithin
<1>4. Told(b, writer) /\ Ends(b, writer)  BY <1>2, FinishTells
<1>5. Works(writer) /\ Pairs(Starts(Story(b, writer)))
  BY <1>2, FinishCoupled DEF Coupled
<1>6. up \in Int /\ up <= MaxIndex  OBVIOUS
<1> HIDE DEF up
<1> QED  BY <1>1, <1>2, <1>3, <1>4, <1>5, <1>6, DeliversOver DEF b

LEMMA StopOver ==
  ASSUME NEW hi \in Int, hi <= MaxIndex, Quit(session, w, hi), Deliver(w)
  PROVE  Over(session', w')
<1> DEFINE b == Tale(session)
<1>1. w' = Idle(w) /\ session' = Promoted(After(w))  BY DEF Deliver
<1>2. /\ OpenSession(session) /\ Within(w, hi) /\ Told(b, w) /\ Ends(b, w)
      /\ w.todo = <<>> /\ Pairs(Starts(b)) /\ b \in Seq(SSEEvent)
  BY DEF Quit, Told
<1>3. Story(b, w) = b  BY <1>2, IdleStory
<1>4. Works(w)  BY <1>2, WriterStateIsWriter DEF Quit, Within, Works
<1> HIDE DEF b
<1> QED  BY <1>1, <1>2, <1>3, <1>4, DeliversOver DEF b

(* The two blocks of a search, and the round after it.                     *)
LEMMA SearchTalks ==
  ASSUME NEW hi \in Int, hi + 2 <= MaxIndex, Talk(session, w, hi),
         Emit(WriteToolSearchResult(WriteServerToolUse(w)))
  PROVE  Talk(session', w', hi + 2) /\ w'.activeType = NoBlock
<1> DEFINE b == Tale(session)
           up == hi + 2
           writer == WriteToolSearchResult(WriteServerToolUse(w))
<1>1. w' = Idle(writer) /\ session' = After(writer)  BY DEF Emit
<1>2. /\ OpenSession(session) /\ Within(w, hi) /\ Speaks(b, w)
      /\ Pairs(Starts(Story(b, w)))
  BY TalkStory DEF Talk
<1> HIDE DEF b
<1>3. /\ Within(writer, up) /\ Speaks(b, writer) /\ writer.activeType = NoBlock
      /\ Pairs(Starts(Story(b, writer)))
  BY <1>2, SearchSpeaks
<1> HIDE DEF up, writer
<1> QED  BY <1>1, <1>2, <1>3, TalksOn DEF b, up

(* The writer of a second run.                                             *)
LEMMA NewRun ==
  ASSUME NEW hi \in Int, -1 <= hi, OpenSession(session), ~session.promoted,
         NEW s, s = Discard(session), NEW t, t = NewSSEWriter(2)
  PROVE  /\ Talk(s, t, hi) /\ t.activeType = NoBlock
         /\ Collects(s, t)
<1>1. s = [session EXCEPT !.buf = <<>>]  BY DEF Discard
<1>2. OpenSession(s) /\ s.buf = <<>> /\ s.out = <<>> /\ ~s.promoted
  BY <1>1 DEF OpenSession
<1>3. Tale(s) = <<>>  BY <1>2 DEF Tale
<1>4. 2 \in Attempts  BY TwoAttempts
<1>5. Within(t, -1) /\ Speaks(<<>>, t)  BY <1>4, NewWriterWithin, NewWriterSpeaks
<1>6. Within(t, hi)  BY <1>5, WithinHigher
<1>7. t.todo = <<>> /\ t.activeType = NoBlock  BY DEF NewSSEWriter
<1>8. Pairs(Starts(Tale(s)))  BY <1>3, NothingFits
<1> QED  BY <1>2, <1>3, <1>5, <1>6, <1>7, <1>8 DEF Talk, Collects

LEMMA ResetTalks ==
  ASSUME NEW hi, Talk(session, w, hi), w.activeType = NoBlock,
         NEW t, t = ResetAccumulator(w)
  PROVE  Talk(session, t, hi) /\ t.activeType = NoBlock
<1>1. w \in WriterState  BY DEF Talk, Within
<1>2. t = [w EXCEPT !.thinking = FALSE, !.text = FALSE, !.tool = FALSE,
                    !.localStop = FALSE, !.held = FALSE, !.activeType = NoBlock]
  BY DEF ResetAccumulator
<1>3. /\ t \in WriterState /\ t.activeType = w.activeType /\ t.blockIndex = w.blockIndex
      /\ t.attempt = w.attempt /\ t.started = w.started /\ t.writeErr = w.writeErr
      /\ t.todo = w.todo
  BY <1>1, <1>2 DEF WriterState
<1>4. SameBlock(t, w)  BY <1>3 DEF SameBlock
<1>5. Within(t, hi)  BY <1>3 DEF Talk, Within
<1>6. Speaks(Tale(session), t)  BY <1>3, <1>4, SpeaksSame DEF Talk
<1> QED  BY <1>3, <1>5, <1>6 DEF Talk

LEMMA ResetCollects ==
  ASSUME Collects(session, w), NEW t, t = ResetAccumulator(w)
  PROVE  Collects(session, t)
<1>1. w \in WriterState  BY DEF Collects, Within
<1>2. t = [w EXCEPT !.thinking = FALSE, !.text = FALSE, !.tool = FALSE,
                    !.localStop = FALSE, !.held = FALSE, !.activeType = NoBlock]
  BY DEF ResetAccumulator
<1>3. /\ t \in WriterState /\ t.activeType = NoBlock /\ t.blockIndex = w.blockIndex
      /\ t.todo = w.todo
  BY <1>1, <1>2 DEF WriterState, NoBlock
<1> QED  BY <1>3 DEF Collects, Within

LEMMA PairedSearch ==
  ASSUME NEW q \in Seq(BlockType), Paired(q),
         NEW r, r = q \o <<"server_tool_use", "tool_search_tool_result">>
  PROVE  Paired(r)
<1> DEFINE p == <<"server_tool_use", "tool_search_tool_result">>
<1>1. p \in Seq(BlockType) /\ Len(p) = 2 /\ p[1] = "server_tool_use"
      /\ p[2] = "tool_search_tool_result"
  BY DEF BlockType
<1> HIDE DEF p
<1>2. r = q \o p  BY DEF p
<1>3. /\ Len(r) = Len(q) + 2 /\ \A i \in 1..Len(q) : r[i] = q[i]
      /\ r[Len(q) + 1] = p[1] /\ r[Len(q) + 2] = p[2]
  BY <1>1, <1>2
<1> QED  BY <1>1, <1>3 DEF Paired

LEMMA PairedBlocks ==
  ASSUME NEW q \in Seq(BlockType), Paired(q), NEW p \in Seq(BlockType \ {"server_tool_use"}),
         NEW r, r = q \o p
  PROVE  Paired(r)
<1>1. /\ Len(r) = Len(q) + Len(p) /\ \A i \in 1..Len(q) : r[i] = q[i]
      /\ \A i \in 1..Len(r) : i > Len(q) => r[i] = p[i - Len(q)]
  OBVIOUS
<1>2. \A i \in 1..Len(p) : p[i] # "server_tool_use"  OBVIOUS
<1> SUFFICES ASSUME NEW i \in 1..Len(r), r[i] = "server_tool_use"
             PROVE  i < Len(r) /\ r[i + 1] = "tool_search_tool_result"
  BY DEF Paired
<1>3. i \in 1..Len(q)  BY <1>1, <1>2
<1>4. i < Len(q) /\ q[i + 1] = "tool_search_tool_result"  BY <1>1, <1>3 DEF Paired
<1> QED  BY <1>1, <1>3, <1>4

LEMMA FailKeepsWriter ==
  ASSUME OrchestratorInv, WriterInv, o.pc # "done", stream => ~Stopped(o), Fail
  PROVE  WriterInv'
<1>1. FinalError /\ w' = w /\ Goto("done")  BY DEF Fail
<1>2. Over(session', w')  BY <1>1, FailsOver
<1>3. o'.pc = "done" /\ o'.orderedBlocks = o.orderedBlocks
  BY <1>1, GotoType DEF Goto, OrchestratorInv, Orchestrator
<1> QED  BY <1>2, <1>3 DEF WriterInv

LEMMA RunAgainKeepsWriter ==
  ASSUME OrchestratorInv, WriterInv, o.pc # "done", stream => ~Stopped(o), stream' = stream,
         ~session.promoted, OpenSession(session), NEW credits, RunAgain(credits)
  PROVE  WriterInv'
<1>1. CASE w.attempt = 1
  <2> DEFINE events == o.events
             hi == Room(o')
  <2>1. /\ o' = FirstRound(events) /\ w' = NewSSEWriter(2) /\ session' = Discard(session)
        /\ refs \in SUBSET Tool /\ events \in 0..MaxEvents
    BY <1>1 DEF RunAgain, OrchestratorInv, Orchestrator
  <2> HIDE DEF events
  <2>2. o' \in Orchestrator  BY <2>1, FirstRoundType
  <2>3. o'.pc = "build" /\ o'.orderedBlocks = <<>>  BY <2>1 DEF FirstRound
  <2>4. hi \in Int /\ -1 <= hi  BY <2>2, RoomType
  <2> HIDE DEF hi
  <2>5. Talk(session', w', hi) /\ w'.activeType = NoBlock /\ Collects(session', w')
    BY <2>1, <2>4, NewRun
  <2>6. Paired(o'.orderedBlocks)  BY <2>3 DEF Paired
  <2>7. Streams(o', session', w')  BY <2>3, <2>5 DEF Streams, Stopped, hi
  <2> QED  BY <2>3, <2>5, <2>6, <2>7 DEF WriterInv
<1>2. CASE w.attempt # 1
  <2>1. FinalError /\ w' = w /\ Goto("done")  BY <1>2 DEF RunAgain
  <2>2. Over(session', w')  BY <2>1, FailsOver
  <2>3. o'.pc = "done" /\ o'.orderedBlocks = o.orderedBlocks
    BY <2>1, GotoType DEF Goto, OrchestratorInv, Orchestrator
  <2> QED  BY <2>2, <2>3 DEF WriterInv
<1> QED  BY <1>1, <1>2

LEMMA RespondsOver ==
  ASSUME Collects(session, w), NEW t, Within(t, -1), t.todo = <<>>,
         NEW s, s = Written(session, "response")
  PROVE  Over(s, t)
<1>1. session.out = <<>> /\ session.buf = <<>>
      /\ session \in [promoted : BOOLEAN, usable : BOOLEAN, buf : Seq(SSEEvent), out : Seq(SSEEvent)]
  BY DEF Collects, OpenSession
<1>2. "response" \in {"error", "response"} /\ session.usable \in BOOLEAN  BY <1>1
<1>3. /\ WellFormedSoFar(session.out) /\ Pairs(Starts(session.out)) /\ ~Finished(session.out)
      /\ Opens(session.out) <= Closes(session.out)
  BY <1>1, NothingFits
<1>4. Concluded(s)  BY <1>1, <1>2, <1>3, WrittenConcludes
<1>5. Within(t, MaxIndex)
  <2>1. -1 \in Int /\ MaxIndex \in Int /\ -1 <= MaxIndex  BY MaxIndexIsNat
  <2> QED  BY <2>1, WithinHigher
<1> QED  BY <1>4, <1>5 DEF Over

LEMMA SearchRunsKeepsWriter ==
  ASSUME OrchestratorInv, WriterInv, OrchestratorInv', stream' = stream, SearchRuns
  PROVE  WriterInv'
<1> DEFINE n == IF MoreRounds THEN o.round + 1 ELSE o.round
           pc == IF MoreRounds THEN "build" ELSE "last"
           q == IF stream THEN o.orderedBlocks
                ELSE o.orderedBlocks \o <<"server_tool_use", "tool_search_tool_result">>
           hi == Room(o)
           up == hi + 2
<1>1. /\ \E result \in Search :
           o' = [o EXCEPT !.named = @ \cup ToSet(result.names), !.orderedBlocks = q,
                          !.pc = pc, !.round = n]
      /\ o.pc = "search"
      /\ IF stream THEN Emit(WriteToolSearchResult(WriteServerToolUse(w)))
         ELSE UNCHANGED <<w, session>>
  BY DEF SearchRuns, At
<1>2. o \in Orchestrator /\ o.orderedBlocks \in Seq(BlockType) /\ o.round \in Nat /\ o.events \in Nat
  BY DEF OrchestratorInv, Orchestrator
<1>3. o'.pc = pc /\ o'.orderedBlocks = q /\ o'.round = n /\ o'.events = o.events
  <2> HIDE DEF pc, q, n
  <2>1. PICK result \in Search :
          o' = [o EXCEPT !.named = @ \cup ToSet(result.names), !.orderedBlocks = q,
                         !.pc = pc, !.round = n]
    BY <1>1
  <2> QED  BY <1>2, <2>1 DEF Orchestrator
<1>4. Paired(q)  BY <1>2, PairedSearch DEF WriterInv
<1>5. Room(o') = up
  <2>1. Searches(o) = o.round - 1  BY <1>1 DEF Searches
  <2>2. Searches(o') = o.round
    BY <1>2, <1>3 DEF Searches
  <2> QED  BY <1>2, <1>3, <2>1, <2>2 DEF Room
<1>6. hi \in Int /\ up <= MaxIndex  BY <1>2, RoomType
<1>7. ~Stopped(o) /\ ~Stopped(o')  BY <1>1, <1>3 DEF Stopped
<1>8. CASE stream
  <2>1. Talk(session, w, hi)  BY <1>1, <1>7, <1>8 DEF WriterInv, Streams
  <2> HIDE DEF hi
  <2>2. Talk(session', w', up) /\ w'.activeType = NoBlock
    BY <1>1, <1>6, <1>8, <2>1, SearchTalks
  <2>3. Streams(o', session', w')  BY <1>5, <1>7, <2>2 DEF Streams
  <2> QED  BY <1>3, <1>4, <1>8, <2>3 DEF WriterInv
<1>9. CASE ~stream
  <2>1. Collects(session, w) /\ w' = w /\ session' = session
    BY <1>1, <1>9 DEF WriterInv
  <2> QED  BY <1>3, <1>4, <1>9, <2>1 DEF WriterInv
<1> QED  BY <1>8, <1>9

(* A step that keeps the round and its place among the searches.           *)
LEMMA OnlyGoesOn ==
  ASSUME OrchestratorInv, WriterInv, o.pc \notin {"done", "last"}, stream => ~Stopped(o),
         UNCHANGED <<w, session, stream>>,
         o'.pc \notin {"done", "last"}, o'.round = o.round, o'.events = o.events,
         o'.orderedBlocks = o.orderedBlocks,
         stream => ~Stopped(o') /\ (Fresh(o') => Fresh(o))
  PROVE  WriterInv'
<1>1. Room(o') = Room(o)  BY DEF Room, Searches
<1>2. CASE stream
  <2>1. Streams(o, session, w)  BY <1>2 DEF WriterInv
  <2>2. Streams(o', session, w)  BY <1>1, <1>2, <2>1, UnchangedStreams
  <2> QED  BY <1>2, <2>2 DEF WriterInv
<1>3. CASE ~stream
  BY <1>3 DEF WriterInv
<1> QED  BY <1>2, <1>3

LEMMA CallSucceedsKeepsWriter ==
  ASSUME OrchestratorInv, WriterInv, OrchestratorInv', stream' = stream, CallSucceeds
  PROVE  WriterInv'
<1> DEFINE t == ResetAccumulator(w)
           n == IF stream THEN o.totals + o.credits ELSE o.totals
           hi == Room(o)
<1>1. /\ o.pc = "call" /\ session' = session /\ (w' = w \/ w' = t)
      /\ o' = [o EXCEPT !.pc = "parse", !.found = "none", !.outcome = "none", !.credits = 0,
                    !.totals = n]
  BY DEF CallSucceeds, At
<1>2. o \in Orchestrator  BY DEF OrchestratorInv
<1> HIDE DEF n
<1>3. /\ o'.pc = "parse" /\ o'.round = o.round /\ o'.events = o.events
      /\ o'.orderedBlocks = o.orderedBlocks
  BY <1>1, <1>2 DEF Orchestrator
<1>4. Room(o') = hi  BY <1>1, <1>3 DEF Room, Searches
<1>5. ~Stopped(o) /\ ~Stopped(o') /\ Fresh(o) /\ ~Fresh(o')
  BY <1>1, <1>3 DEF Stopped, Fresh
<1>6. CASE stream
  <2>1. Talk(session, w, hi) /\ w.activeType = NoBlock
    BY <1>1, <1>5, <1>6 DEF WriterInv, Streams
  <2> HIDE DEF hi
  <2>2. Talk(session', w', hi)  BY <1>1, <2>1, ResetTalks
  <2>3. Streams(o', session', w')  BY <1>4, <1>5, <2>2 DEF Streams
  <2> QED  BY <1>3, <1>6, <2>3 DEF WriterInv
<1>7. CASE ~stream
  <2>1. Collects(session, w)  BY <1>1, <1>7 DEF WriterInv
  <2>2. Collects(session', w')  BY <1>1, <2>1, ResetCollects
  <2> QED  BY <1>3, <1>7, <2>2 DEF WriterInv
<1> QED  BY <1>6, <1>7

LEMMA ReadEventOfStreamKeepsWriter ==
  ASSUME OrchestratorInv, WriterInv, OrchestratorInv', stream' = stream, ReadEventOfStream
  PROVE  WriterInv'
<1> DEFINE hi == Room(o)
           up == hi + 2
           top == hi + 4
<1>1. stream /\ o.pc = "parse" /\ o \in Orchestrator
  BY DEF ReadEventOfStream, Reads, At, OrchestratorInv
<1>2. PICK e \in UpstreamEvents :
        IF InTail
        THEN /\ o' = [o EXCEPT !.events = @ + 1]
             /\ UNCHANGED <<w, session>>
        ELSE /\ \E writer \in Handled(w, e) : Emit(writer)
             /\ o' = [o EXCEPT !.events = @ + 1,
                               !.pc = IF e.stop THEN "parsed" ELSE "parse",
                               !.outcome = IF e.stop THEN "localStop" ELSE "none"]
  BY DEF ReadEventOfStream
<1> DEFINE pc == IF e.stop THEN "parsed" ELSE "parse"
           outcome == IF e.stop THEN "localStop" ELSE "none"
<1>3. hi \in Int /\ top <= MaxIndex  BY <1>1, RoomType
<1>4. Talk(session, w, hi)  BY <1>1 DEF WriterInv, Streams, Stopped
<1>5. CASE InTail
  <2>1. o' = [o EXCEPT !.events = @ + 1] /\ UNCHANGED <<w, session>>  BY <1>2, <1>5
  <2>2. /\ o'.pc = "parse" /\ o'.round = o.round /\ o'.events = o.events + 1
        /\ o'.orderedBlocks = o.orderedBlocks
    BY <1>1, <2>1 DEF Orchestrator
  <2>3. Room(o') = up  BY <1>1, <2>2, RoomOfEvent
  <2> HIDE DEF hi
  <2>4. Talk(session', w', up)
    <3>1. Within(w, up)
      <4>1. Within(w, hi) /\ up \in Int /\ hi <= up  BY <1>3, <1>4 DEF Talk
      <4> HIDE DEF up
      <4> QED  BY <1>3, <4>1, WithinHigher
    <3> QED  BY <1>4, <2>1, <3>1 DEF Talk
  <2>5. Streams(o', session', w')
    <3>1. ~Stopped(o') /\ ~Fresh(o')  BY <2>2 DEF Stopped, Fresh
    <3> QED  BY <2>3, <2>4, <3>1 DEF Streams
  <2> QED  BY <1>1, <2>2, <2>5 DEF WriterInv
<1>6. CASE ~InTail
  <2>1. PICK writer \in Handled(w, e) : Emit(writer)  BY <1>2, <1>6
  <2>2. o' = [o EXCEPT !.events = @ + 1, !.pc = pc, !.outcome = outcome]  BY <1>2, <1>6
  <2>3. o.found = "none"  BY <1>1, <1>6 DEF InTail
  <2>4. /\ o'.pc = pc /\ o'.outcome = outcome /\ o'.round = o.round /\ o'.events = o.events + 1
        /\ o'.orderedBlocks = o.orderedBlocks /\ o'.found = "none"
    <3> HIDE DEF pc, outcome
    <3> QED  BY <1>1, <2>2, <2>3 DEF Orchestrator
  <2>5. Room(o') = up  BY <1>1, <2>4, RoomOfEvent
  <2> HIDE DEF hi
  <2>6. IF e.stop THEN Quit(session', w', top) ELSE Talk(session', w', up)
    BY <1>3, <1>4, <2>1, EventSpeaks
  <2>7. CASE e.stop
    <3>1. Stopped(o') /\ o'.pc = "parsed"  BY <2>4, <2>7 DEF Stopped
    <3>2. up + 2 = top  BY <1>3
    <3>3. Streams(o', session', w')  BY <2>4, <2>5, <2>6, <2>7, <3>1, <3>2 DEF Streams
    <3> QED  BY <1>1, <2>4, <3>1, <3>3 DEF WriterInv
  <2>8. CASE ~e.stop
    <3>1. ~Stopped(o') /\ o'.pc = "parse" /\ ~Fresh(o')  BY <2>4, <2>8 DEF Stopped, Fresh
    <3>2. Streams(o', session', w')  BY <2>5, <2>6, <2>8, <3>1 DEF Streams
    <3> QED  BY <1>1, <2>4, <3>1, <3>2 DEF WriterInv
  <2> QED  BY <2>7, <2>8
<1> QED  BY <1>5, <1>6

LEMMA ReadEventKeepsWriter ==
  ASSUME OrchestratorInv, WriterInv, stream' = stream, ReadEvent
  PROVE  WriterInv'
<1>1. ~stream /\ o.pc = "parse" /\ session' = session /\ o' = [o EXCEPT !.events = @ + 1]
  BY DEF ReadEvent, Reads, At
<1>2. PICK e \in UpstreamEvents : w' = Accumulated(w, e)  BY DEF ReadEvent
<1>3. Collects(session, w) /\ Within(w, -1) /\ w.todo = <<>> /\ e \in Input
  BY <1>1, UpstreamEventsAreInputs DEF WriterInv, Collects
<1>4. Within(w', -1)  BY <1>2, <1>3, AccumulatedWithin
<1>5. w'.todo = w.todo
  <2>1. w \in WriterState  BY <1>3 DEF Within
  <2>2. w' = w \/ w'.todo = w.todo
    <3>1. e.kind \in {"content", "redacted", "tool"}  BY <1>3 DEF Input
    <3>2. CASE w.localStop \/ e.kind = "redacted"  BY <1>2, <3>2 DEF Accumulated
    <3>3. CASE ~w.localStop /\ e.kind = "tool"
      BY <1>2, <2>1, <3>3 DEF Accumulated, WriterState
    <3>4. CASE ~w.localStop /\ e.kind = "content"
      BY <1>2, <2>1, <3>4 DEF Accumulated, Recorded, WriterState
    <3> QED  BY <3>1, <3>2, <3>3, <3>4
  <2> QED  BY <2>2
<1>6. o'.pc = "parse" /\ o'.orderedBlocks = o.orderedBlocks
  BY <1>1 DEF OrchestratorInv, Orchestrator
<1> QED  BY <1>1, <1>3, <1>4, <1>5, <1>6 DEF WriterInv, Collects

LEMMA FinishesKeepsWriter ==
  ASSUME OrchestratorInv, WriterInv, stream' = stream, Finishes
  PROVE  WriterInv'
<1> DEFINE hi == Room(o)
           sum == o.totals + o.credits
<1>1. stream /\ o.pc = "parsed" /\ o.outcome = "eof"  BY DEF Finishes, Ended, At
<1>2. PICK f \in Finals(w) :
        LET writer == Finish(w, f)
        IN  \/ ~After(writer).promoted /\ RunAgain(sum)
            \/ Deliver(writer)
  BY DEF Finishes
<1>3. ~Stopped(o)  BY <1>1 DEF Stopped
<1>4. Talk(session, w, hi)  BY <1>1, <1>3 DEF WriterInv, Streams
<1>5. hi \in Int /\ hi + 2 <= MaxIndex  BY RoomType DEF OrchestratorInv
<1> DEFINE writer == Finish(w, f)
<1>6. CASE ~After(writer).promoted /\ RunAgain(sum)
  <2>1. Works(writer)  BY <1>4, TalkStory, FinishCoupled DEF Coupled
  <2>2. OpenSession(session)  BY <1>4 DEF Talk
  <2> HIDE DEF writer, sum
  <2>3. ~session.promoted  BY <1>6, <2>1, <2>2, AfterTale
  <2> QED  BY <1>1, <1>3, <1>6, <2>2, <2>3, RunAgainKeepsWriter
<1>7. CASE Deliver(writer)
  <2>1. Over(session', w')
    <3> HIDE DEF hi
    <3> QED  BY <1>4, <1>5, <1>7, FinishOver
  <2>2. o'.pc = "done" /\ o'.orderedBlocks = o.orderedBlocks
    BY <1>7, GotoType DEF Deliver, Goto, OrchestratorInv, Orchestrator
  <2> QED  BY <2>1, <2>2 DEF WriterInv
<1> QED  BY <1>2, <1>6, <1>7

LEMMA BuildResponseKeepsWriter ==
  ASSUME OrchestratorInv, WriterInv, stream' = stream, BuildResponse
  PROVE  WriterInv'
<1>1. PICK f \in Finals(w) :
        LET acc   == Finalized(w, f)
            round == [o EXCEPT !.totals = @ + o.credits, !.orderedBlocks = @ \o Blocks(acc)]
        IN  \/ /\ o' = [round EXCEPT !.pc = "search"]
               /\ w' = acc /\ session' = session
            \/ RunAgain(round.totals)
            \/ Responds(round) /\ w' = acc
  BY DEF BuildResponse
<1> DEFINE acc == Finalized(w, f)
           round == [o EXCEPT !.totals = @ + o.credits, !.orderedBlocks = @ \o Blocks(acc)]
           total == round.totals
           q == round.orderedBlocks
<1>2. ~stream /\ o.pc = "parsed"  BY DEF BuildResponse, Ended, At
<1>3. Collects(session, w)  BY <1>2 DEF WriterInv
<1>4. Within(acc, -1) /\ acc.todo = <<>>
  <2>1. Within(w, -1) /\ w.todo = <<>> /\ f.stop \in BOOLEAN  BY <1>3 DEF Collects, Finals
  <2>2. Within(acc, -1)  BY <2>1, FinalizedWithin
  <2>3. w \in WriterState  BY <2>1 DEF Within
  <2>4. acc.todo = w.todo  BY <2>3 DEF Finalized, Recorded, WriterState
  <2> QED  BY <2>1, <2>2, <2>4
<1>5. round \in Orchestrator /\ q = o.orderedBlocks \o Blocks(acc)
      /\ [round EXCEPT !.pc = "search"] \in Orchestrator
  <2> HIDE DEF acc
  <2> QED  BY RoundType
<1>6. Paired(q)
  <2>1. o.orderedBlocks \in Seq(BlockType) /\ Paired(o.orderedBlocks)
    BY DEF WriterInv, OrchestratorInv, Orchestrator
  <2>2. Blocks(acc) \in Seq(BlockType \ {"server_tool_use"})  BY BlocksType
  <2> HIDE DEF acc, q
  <2> QED  BY <1>5, <2>1, <2>2, PairedBlocks
<1>7. \/ o' = [round EXCEPT !.pc = "search"] /\ w' = acc /\ session' = session
      \/ RunAgain(total)
      \/ Responds(round) /\ w' = acc
  BY <1>1
<1> HIDE DEF acc, round, total
<1>8. CASE o' = [round EXCEPT !.pc = "search"] /\ w' = acc /\ session' = session
  <2>1. o'.pc = "search" /\ o'.orderedBlocks = q  BY <1>5, <1>8 DEF Orchestrator
  <2>2. Collects(session', w')  BY <1>3, <1>4, <1>8 DEF Collects
  <2> HIDE DEF q
  <2> QED  BY <1>2, <1>6, <2>1, <2>2 DEF WriterInv
<1>9. CASE RunAgain(total)
  <2>1. OpenSession(session) /\ ~session.promoted  BY <1>3 DEF Collects
  <2> QED  BY <1>2, <1>9, <2>1, RunAgainKeepsWriter
<1>10. CASE Responds(round) /\ w' = acc
  <2>1. o' = [round EXCEPT !.pc = "done"] /\ session' = Written(session, "response")
    BY <1>10 DEF Responds
  <2>2. Over(session', w')  BY <1>3, <1>4, <1>10, <2>1, RespondsOver
  <2>3. o'.pc = "done" /\ o'.orderedBlocks = q  BY <1>5, <2>1, SMTT(30) DEF Orchestrator
  <2> HIDE DEF q
  <2> QED  BY <1>6, <2>2, <2>3 DEF WriterInv
<1> QED  BY <1>7, <1>8, <1>9, <1>10

(* A client that leaves has seen a part of the story.                      *)
LEMMA ClientGoneKeepsWriter ==
  ASSUME OrchestratorInv, WriterInv, stream' = stream, ClientGone
  PROVE  WriterInv'
<1> DEFINE hi == Room(o)
           up == hi + 2
           m == session.out
<1>1. /\ stream /\ o.pc # "done" /\ Goto("done") /\ w' = w
      /\ session' = [session EXCEPT !.usable = FALSE]
  BY DEF ClientGone
<1>2. hi \in Int /\ up \in Int /\ hi <= MaxIndex /\ up <= MaxIndex /\ MaxIndex \in Int
  BY RoomType, MaxIndexIsNat DEF OrchestratorInv
<1>3. Talk(session, w, hi) \/ Quit(session, w, up)  BY <1>1 DEF WriterInv, Streams
<1>4. OpenSession(session) /\ (Within(w, hi) \/ Within(w, up)) /\ w.todo = <<>>
  BY <1>3 DEF Talk, Quit
<1> HIDE DEF hi, up
<1>5. Within(w, MaxIndex)  BY <1>2, <1>4, WithinHigher
<1>6. m \in Seq(SSEEvent) /\ WellFormedSoFar(m) /\ Pairs(Starts(m))
  <2> DEFINE b == Tale(session)
  <2>1. b \in Seq(SSEEvent) /\ (m = b \/ m = <<>>)  BY <1>4, TaleType
  <2>2. Story(b, w) = b  BY <1>4, <2>1, IdleStory
  <2>3. Told(b, w) /\ Pairs(Starts(b))  BY <1>3, SpeaksTold DEF Talk, Quit
  <2> HIDE DEF b
  <2>4. WellFormedSoFar(b)  BY <2>2, <2>3 DEF Told
  <2> QED  BY <2>1, <2>3, <2>4, NothingFits
<1>7. session'.out = m /\ ~session'.usable /\ session'.promoted = session.promoted
      /\ session'.buf = session.buf
  BY <1>1, <1>4 DEF OpenSession
<1> HIDE DEF m
<1>8. Concluded(session')  BY <1>4, <1>6, <1>7 DEF Concluded, OpenSession
<1>9. o'.pc = "done" /\ o'.orderedBlocks = o.orderedBlocks
  BY <1>1, GotoType DEF Goto, OrchestratorInv, Orchestrator
<1> QED  BY <1>1, <1>4, <1>5, <1>8, <1>9 DEF WriterInv, Over

LEMMA StepKeepsWriter ==
  ASSUME OrchestratorInv, WriterInv, OrchestratorInv', [Next]_vars
  PROVE  WriterInv'
<1>0. CASE UNCHANGED vars
  <2>1. /\ o' = o /\ w' = w /\ session' = session /\ stream' = stream
    BY <1>0 DEF vars
  <2> QED  BY <2>1 DEF WriterInv
<1> SUFFICES ASSUME Next PROVE WriterInv'
  BY <1>0
<1>1. stream' = stream /\ o \in Orchestrator  BY DEF Next, OrchestratorInv
<1>2. CASE BuildPayload
  <2>1. o.pc = "build" /\ o' = [o EXCEPT !.pc = "call", !.payload = tools.active]
        /\ UNCHANGED <<w, session>>
    BY <1>2 DEF BuildPayload, At
  <2>2. /\ o'.pc = "call" /\ o'.round = o.round /\ o'.events = o.events
        /\ o'.orderedBlocks = o.orderedBlocks
    BY <1>1, <2>1 DEF Orchestrator
  <2>3. ~Stopped(o) /\ ~Stopped(o') /\ Fresh(o)  BY <2>1, <2>2 DEF Stopped, Fresh
  <2> QED  BY <1>1, <2>1, <2>2, <2>3, OnlyGoesOn
<1>3. CASE CallFails
  <2>1. o.pc = "call" /\ Fail  BY <1>3 DEF CallFails, At
  <2> QED  BY <2>1, FailKeepsWriter DEF Stopped
<1>4. CASE CallSucceeds  BY <1>1, <1>4, CallSucceedsKeepsWriter
<1>5. CASE ReadEventOfStream  BY <1>1, <1>5, ReadEventOfStreamKeepsWriter
<1>6. CASE ReadEvent  BY <1>1, <1>6, ReadEventKeepsWriter
<1>7. CASE ReadMetering
  <2>1. o.pc = "parse" /\ UNCHANGED <<w, session>>
        /\ \E credits \in (seen.metered + 1)..MaxCredits :
             o' = [o EXCEPT !.credits = Metered(credits)]
    BY <1>7 DEF ReadMetering, At
  <2>2. /\ o'.pc = "parse" /\ o'.round = o.round /\ o'.events = o.events
        /\ o'.orderedBlocks = o.orderedBlocks
    BY <1>1, <2>1 DEF Orchestrator
  <2>3. ~Stopped(o) /\ ~Stopped(o') /\ ~Fresh(o')  BY <2>1, <2>2 DEF Stopped, Fresh
  <2> QED  BY <1>1, <2>1, <2>2, <2>3, OnlyGoesOn
<1>8. CASE ReadToolSearch
  <2>1. o.pc = "parse" /\ UNCHANGED <<w, session>>
        /\ \E input \in {"query", "malformed"} : o' = [o EXCEPT !.found = input]
    BY <1>8 DEF ReadToolSearch, At
  <2>2. /\ o'.pc = "parse" /\ o'.round = o.round /\ o'.events = o.events
        /\ o'.orderedBlocks = o.orderedBlocks
    BY <1>1, <2>1 DEF Orchestrator
  <2>3. ~Stopped(o) /\ ~Stopped(o') /\ ~Fresh(o')  BY <2>1, <2>2 DEF Stopped, Fresh
  <2> QED  BY <1>1, <2>1, <2>2, <2>3, OnlyGoesOn
<1>9. CASE ReadEnds
  <2>1. o.pc = "parse" /\ UNCHANGED <<w, session>>
        /\ \E outcome \in {"eof", "error"} :
             o' = [o EXCEPT !.pc = "parsed", !.outcome = outcome]
    BY <1>9 DEF ReadEnds, At
  <2>2. /\ o'.pc = "parsed" /\ o'.round = o.round /\ o'.events = o.events
        /\ o'.orderedBlocks = o.orderedBlocks /\ o'.outcome # "localStop"
    BY <1>1, <2>1 DEF Orchestrator
  <2>3. ~Stopped(o) /\ ~Stopped(o') /\ ~Fresh(o')  BY <2>1, <2>2 DEF Stopped, Fresh
  <2> QED  BY <1>1, <2>1, <2>2, <2>3, OnlyGoesOn
<1>10. CASE RoundFails
  <2>1. o.pc = "parsed" /\ o.outcome = "error" /\ Fail  BY <1>10 DEF RoundFails, Failed, At
  <2> QED  BY <2>1, FailKeepsWriter DEF Stopped
<1>11. CASE SearchesInStream
  <2>1. /\ stream /\ o.pc = "parsed" /\ o.found # "none" /\ o' = [o EXCEPT !.pc = "search"]
        /\ UNCHANGED <<w, session>>
    BY <1>11 DEF SearchesInStream, Ended, At, Goto
  <2>2. ~Stopped(o)  BY <2>1 DEF WriterInv, Streams
  <2>3. /\ o'.pc = "search" /\ o'.round = o.round /\ o'.events = o.events
        /\ o'.orderedBlocks = o.orderedBlocks
    BY <1>1, <2>1 DEF Orchestrator
  <2>4. ~Stopped(o') /\ ~Fresh(o')  BY <2>3 DEF Stopped, Fresh
  <2> QED  BY <1>1, <2>1, <2>2, <2>3, <2>4, OnlyGoesOn
<1>12. CASE StopsLocally
  <2> DEFINE up == Room(o) + 2
  <2>1. /\ stream /\ o.pc = "parsed" /\ o.outcome = "localStop" /\ Deliver(w)
    BY <1>12 DEF StopsLocally, Ended, At
  <2>2. Quit(session, w, up)  BY <2>1 DEF WriterInv, Streams, Stopped
  <2>3. up \in Int /\ up <= MaxIndex  BY <1>1, RoomType
  <2> HIDE DEF up
  <2>4. Over(session', w')  BY <2>1, <2>2, <2>3, StopOver
  <2>5. o'.pc = "done" /\ o'.orderedBlocks = o.orderedBlocks
    BY <1>1, <2>1 DEF Deliver, Goto, Orchestrator
  <2> QED  BY <2>4, <2>5 DEF WriterInv
<1>13. CASE Finishes  BY <1>1, <1>13, FinishesKeepsWriter
<1>14. CASE BuildResponse  BY <1>1, <1>14, BuildResponseKeepsWriter
<1>15. CASE SearchRejected
  <2>1. o.pc = "search" /\ Fail  BY <1>15 DEF SearchRejected, At
  <2> QED  BY <2>1, FailKeepsWriter DEF Stopped
<1>16. CASE SearchRuns  BY <1>1, <1>16, SearchRunsKeepsWriter
<1>17. CASE MaxRoundsReached
  <2>1. o.pc = "last"  BY <1>17 DEF MaxRoundsReached, At
  <2>2. CASE stream
    <3> DEFINE hi == Room(o)
    <3>1. PICK f \in Finals(w) : Deliver(Finish(w, f))  BY <1>17, <2>2 DEF MaxRoundsReached
    <3>2. Talk(session, w, hi)  BY <2>1, <2>2 DEF WriterInv, Streams, Stopped
    <3>3. hi \in Int /\ hi + 2 <= MaxIndex  BY <1>1, RoomType
    <3> HIDE DEF hi
    <3>4. Over(session', w')  BY <3>1, <3>2, <3>3, FinishOver
    <3>5. o'.pc = "done" /\ o'.orderedBlocks = o.orderedBlocks
      BY <1>1, <3>1 DEF Deliver, Goto, Orchestrator
    <3> QED  BY <3>4, <3>5 DEF WriterInv
  <2>3. CASE ~stream
    <3>1. Responds(o) /\ w' = w  BY <1>17, <2>3 DEF MaxRoundsReached
    <3>2. o' = [o EXCEPT !.pc = "done"] /\ session' = Written(session, "response")
      BY <3>1 DEF Responds
    <3>3. Collects(session, w) /\ Within(w, -1) /\ w.todo = <<>>
      BY <2>1, <2>3 DEF WriterInv, Collects
    <3>4. Over(session', w')  BY <3>1, <3>2, <3>3, RespondsOver
    <3>5. o'.pc = "done" /\ o'.orderedBlocks = o.orderedBlocks
      BY <1>1, <3>2 DEF Orchestrator
    <3> QED  BY <3>4, <3>5 DEF WriterInv
  <2> QED  BY <2>2, <2>3
<1>18. CASE ClientGone  BY <1>1, <1>18, ClientGoneKeepsWriter
<1> QED
  BY <1>2, <1>3, <1>4, <1>5, <1>6, <1>7, <1>8, <1>9, <1>10, <1>11, <1>12, <1>13, <1>14, <1>15,
     <1>16, <1>17, <1>18 DEF Next, Round

LEMMA InitWriter == Init => WriterInv
<1> SUFFICES ASSUME Init PROVE WriterInv
  OBVIOUS
<1> DEFINE hi == Room(o)
<1>1. /\ o = FirstRound(0) /\ w = NewSSEWriter(1)
      /\ session = [promoted |-> FALSE, usable |-> TRUE, buf |-> <<>>, out |-> <<>>]
      /\ o \in Orchestrator
  BY InitOrchestrator DEF Init, OrchestratorInv
<1>2. o.pc = "build" /\ o.orderedBlocks = <<>>  BY <1>1 DEF FirstRound
<1>3. hi \in Int /\ -1 <= hi  BY <1>1, RoomType
<1>4. /\ OpenSession(session) /\ ~session.promoted /\ session.buf = <<>>
      /\ Tale(session) = <<>>
  BY <1>1 DEF OpenSession, Tale
<1>5. Within(w, -1) /\ Speaks(<<>>, w) /\ w.todo = <<>> /\ w.activeType = NoBlock
  BY <1>1, TwoAttempts, NewWriterWithin, NewWriterSpeaks DEF NewSSEWriter
<1> HIDE DEF hi
<1>6. Within(w, hi)  BY <1>3, <1>5, WithinHigher
<1>7. Talk(session, w, hi) /\ Collects(session, w)
  BY <1>4, <1>5, <1>6, NothingFits DEF Talk, Collects
<1>8. Streams(o, session, w)  BY <1>2, <1>5, <1>7 DEF Streams, Stopped, hi
<1> QED  BY <1>2, <1>7, <1>8 DEF WriterInv, Paired

----------------------------------------------------------------------------
(* The credits: what is not logged yet is in the locals of the loop.       *)

LEMMA CreditTypes ==
  ASSUME OrchestratorInv
  PROVE  /\ o.totals \in Nat /\ o.credits \in Nat /\ Counted \in Nat
         /\ seen.metered \in Nat /\ seen.charged \in Nat /\ seen.logged \in Nat
<1>1. o.totals \in Nat /\ o.credits \in Nat  BY TotalsType
<1>2. seen.metered \in Nat /\ seen.charged \in Nat /\ seen.logged \in Nat
  BY DEF OrchestratorInv
<1> QED  BY <1>1, <1>2 DEF Counted

LEMMA CreditsGoOn ==
  ASSUME CreditsInv, o.pc # "done", seen' = seen, o'.pc # "done", Counted' = Counted,
         o'.pc \in {"parse", "parsed"} => o.pc \in {"parse", "parsed"} /\ o'.credits = o.credits
  PROVE  CreditsInv'
BY DEF CreditsInv, CreditsSummed

LEMMA CreditsEnd ==
  ASSUME OrchestratorInv, CreditsInv, o.pc # "done", o'.pc = "done", LogCredits(Counted)
  PROVE  CreditsInv'
<1>1. seen' = [seen EXCEPT !.logged = @ + Counted]  BY DEF LogCredits
<1>2. /\ seen'.logged = seen.logged + Counted /\ seen'.metered = seen.metered
      /\ seen'.charged = seen.charged
  BY <1>1 DEF OrchestratorInv
<1>3. seen.logged + Counted = seen.charged + seen.metered  BY DEF CreditsInv
<1> QED  BY <1>2, <1>3 DEF CreditsInv, CreditsSummed

LEMMA CreditsOfFailure ==
  ASSUME o'.pc = "done", \E i \in DOMAIN session'.out : session'.out[i].event = "error"
  PROVE  CreditsInv'
BY DEF CreditsInv, CreditsSummed, Delivered

LEMMA FailKeepsCredits ==
  ASSUME OrchestratorInv, WriterInv, o.pc # "done", stream => ~Stopped(o), Fail
  PROVE  CreditsInv'
<1>1. FinalError /\ w' = w /\ Goto("done")  BY DEF Fail
<1>2. \E i \in DOMAIN session'.out : session'.out[i].event = "error"  BY <1>1, FailsOver
<1>3. o'.pc = "done"  BY <1>1, GotoType
<1> QED  BY <1>2, <1>3, CreditsOfFailure

LEMMA DeliverKeepsCredits ==
  ASSUME OrchestratorInv, CreditsInv, o.pc # "done", stream, NEW writer, Deliver(writer)
  PROVE  CreditsInv'
<1>1. o'.pc = "done"  BY GotoType DEF Deliver
<1>2. Counted = o.totals + o.credits  BY DEF Counted
<1>3. LogCredits(Counted)  BY <1>2 DEF Deliver
<1> QED  BY <1>1, <1>3, CreditsEnd

LEMMA RunAgainKeepsCredits ==
  ASSUME OrchestratorInv, WriterInv, CreditsInv, o.pc # "done", stream => ~Stopped(o),
         stream' = stream, NEW credits, credits = Counted, RunAgain(credits)
  PROVE  CreditsInv'
<1>1. seen' = [seen EXCEPT !.logged = @ + credits]  BY DEF RunAgain, LogCredits
<1>2. CASE w.attempt = 1
  <2>1. o' = FirstRound(o.events)  BY <1>2 DEF RunAgain
  <2>2. o'.pc = "build" /\ o'.totals = 0 /\ o'.credits = 0  BY <2>1 DEF FirstRound
  <2>3. /\ seen'.logged = seen.logged + credits /\ seen'.metered = seen.metered
        /\ seen'.charged = seen.charged
    BY <1>1 DEF OrchestratorInv
  <2>4. seen.logged + Counted = seen.charged + seen.metered  BY DEF CreditsInv
  <2>5. Counted' = 0  BY <2>2 DEF Counted
  <2>6. Counted \in Nat /\ seen.logged \in Nat  BY CreditTypes
  <2> QED  BY <2>2, <2>3, <2>4, <2>5, <2>6 DEF CreditsInv, CreditsSummed
<1>3. CASE w.attempt # 1
  <2>1. FinalError /\ w' = w /\ Goto("done")  BY <1>3 DEF RunAgain
  <2>2. \E i \in DOMAIN session'.out : session'.out[i].event = "error"  BY <2>1, FailsOver
  <2>3. o'.pc = "done"  BY <2>1, GotoType
  <2> QED  BY <2>2, <2>3, CreditsOfFailure
<1> QED  BY <1>2, <1>3

LEMMA BuildResponseKeepsCredits ==
  ASSUME OrchestratorInv, WriterInv, CreditsInv, stream' = stream, BuildResponse
  PROVE  CreditsInv'
<1>1. PICK f \in Finals(w) :
        LET acc   == Finalized(w, f)
            round == [o EXCEPT !.totals = @ + o.credits, !.orderedBlocks = @ \o Blocks(acc)]
        IN  \/ o' = [round EXCEPT !.pc = "search"] /\ seen' = seen
            \/ RunAgain(round.totals)
            \/ Responds(round)
  BY DEF BuildResponse
<1> DEFINE acc == Finalized(w, f)
           round == [o EXCEPT !.totals = @ + o.credits, !.orderedBlocks = @ \o Blocks(acc)]
           total == round.totals
<1>2. ~stream /\ o.pc = "parsed"  BY DEF BuildResponse, Ended, At
<1>3. round \in Orchestrator /\ total = Counted
  <2>1. round \in Orchestrator /\ total = o.totals + o.credits
    <3> HIDE DEF acc
    <3> QED  BY RoundType
  <2> QED  BY <1>2, <2>1 DEF Counted
<1>4. \/ o' = [round EXCEPT !.pc = "search"] /\ seen' = seen
      \/ RunAgain(total)
      \/ Responds(round)
  BY <1>1
<1> HIDE DEF acc, round
<1>5. CASE o' = [round EXCEPT !.pc = "search"] /\ seen' = seen
  <2>1. o'.pc = "search" /\ o'.totals = round.totals  BY <1>3, <1>5, SMTT(30) DEF Orchestrator
  <2>2. Counted' = Counted  BY <1>2, <1>3, <2>1 DEF Counted
  <2> QED  BY <1>2, <1>5, <2>1, <2>2, CreditsGoOn
<1>6. CASE RunAgain(total)
  <2> HIDE DEF total
  <2> QED  BY <1>2, <1>3, <1>6, RunAgainKeepsCredits
<1>7. CASE Responds(round)
  <2>1. o' = [round EXCEPT !.pc = "done"] /\ LogCredits(total)  BY <1>7 DEF Responds
  <2>2. o'.pc = "done"  BY <1>3, <2>1, SMTT(30) DEF Orchestrator
  <2>3. LogCredits(Counted)  BY <1>3, <2>1
  <2> QED  BY <1>2, <2>2, <2>3, CreditsEnd
<1> QED  BY <1>4, <1>5, <1>6, <1>7

LEMMA StepKeepsCredits ==
  ASSUME OrchestratorInv, WriterInv, CreditsInv, [Next]_vars
  PROVE  CreditsInv'
<1>0. CASE UNCHANGED vars
  <2>1. o' = o /\ session' = session /\ stream' = stream /\ seen' = seen
    BY <1>0 DEF vars
  <2> QED  BY <2>1 DEF CreditsInv, CreditsSummed, Counted, Delivered
<1> SUFFICES ASSUME Next PROVE CreditsInv'
  BY <1>0
<1>1. stream' = stream /\ o \in Orchestrator  BY DEF Next, OrchestratorInv
<1>2. CASE BuildPayload
  <2>1. o.pc = "build" /\ o' = [o EXCEPT !.pc = "call", !.payload = tools.active] /\ seen' = seen
    BY <1>2 DEF BuildPayload, At
  <2>2. o'.pc = "call" /\ o'.totals = o.totals /\ o'.credits = o.credits
    BY <1>1, <2>1 DEF Orchestrator
  <2>3. Counted' = Counted  BY <1>1, <2>1, <2>2 DEF Counted
  <2> QED  BY <2>1, <2>2, <2>3, CreditsGoOn
<1>3. CASE CallFails
  <2>1. o.pc = "call" /\ Fail  BY <1>3 DEF CallFails, At
  <2> QED  BY <2>1, FailKeepsCredits DEF Stopped
<1>4. CASE CallSucceeds
  <2> DEFINE n == IF stream THEN o.totals + o.credits ELSE o.totals
  <2>1. /\ o.pc = "call"
        /\ o' = [o EXCEPT !.pc = "parse", !.found = "none", !.outcome = "none", !.credits = 0,
                          !.totals = n]
        /\ seen' = [seen EXCEPT !.charged = @ + seen.metered, !.metered = 0,
                                !.lost = @ \/ (o.round > 1 /\ w.held)]
    BY <1>4 DEF CallSucceeds, At
  <2>2. o'.pc = "parse" /\ o'.credits = 0 /\ o'.totals = n
    <3> HIDE DEF n
    <3> QED  BY <1>1, <2>1 DEF Orchestrator
  <2>3. seen'.metered = 0 /\ seen'.charged = seen.charged + seen.metered
        /\ seen'.logged = seen.logged
    BY <2>1 DEF OrchestratorInv
  <2>4. seen.logged + Counted = seen.charged + seen.metered  BY <2>1 DEF CreditsInv
  <2>5. n = Counted  BY <2>1 DEF Counted
  <2>6. Counted' = Counted + 0  BY <2>2, <2>5 DEF Counted
  <2> QED  BY <2>2, <2>3, <2>4, <2>6, CreditTypes DEF CreditsInv, CreditsSummed
<1>5. CASE ReadEventOfStream
  <2>1. o.pc = "parse" /\ stream /\ seen' = seen
    BY <1>5 DEF ReadEventOfStream, Reads, At
  <2>2. \/ o' = [o EXCEPT !.events = @ + 1]
        \/ \E pc \in {"parsed", "parse"}, outcome \in {"localStop", "none"} :
             o' = [o EXCEPT !.events = @ + 1, !.pc = pc, !.outcome = outcome]
    BY <1>5 DEF ReadEventOfStream
  <2>3. o'.pc \in {"parse", "parsed"} /\ o'.totals = o.totals /\ o'.credits = o.credits
    BY <1>1, <2>1, <2>2 DEF Orchestrator
  <2>4. Counted' = Counted  BY <1>1, <2>1, <2>3 DEF Counted
  <2> QED  BY <2>1, <2>3, <2>4, CreditsGoOn
<1>6. CASE ReadEvent
  <2>1. o.pc = "parse" /\ seen' = seen /\ o' = [o EXCEPT !.events = @ + 1]
    BY <1>6 DEF ReadEvent, Reads, At
  <2>2. o'.pc = "parse" /\ o'.totals = o.totals /\ o'.credits = o.credits
    BY <1>1, <2>1 DEF Orchestrator
  <2>3. Counted' = Counted  BY <1>1, <2>1, <2>2 DEF Counted
  <2> QED  BY <2>1, <2>2, <2>3, CreditsGoOn
<1>7. CASE ReadMetering
  <2>1. PICK credits \in (seen.metered + 1)..MaxCredits :
          o' = [o EXCEPT !.credits = credits] /\ seen' = [seen EXCEPT !.metered = credits]
    BY <1>7 DEF ReadMetering, Metered
  <2>2. o.pc = "parse"  BY <1>7 DEF ReadMetering, At
  <2>3. o'.pc = "parse" /\ o'.totals = o.totals /\ o'.credits = credits
    BY <1>1, <2>1, <2>2 DEF Orchestrator
  <2>4. seen'.metered = credits /\ seen'.charged = seen.charged /\ seen'.logged = seen.logged
    BY <2>1 DEF OrchestratorInv
  <2>5. /\ seen.logged + (o.totals + o.credits) = seen.charged + seen.metered
        /\ o.credits = seen.metered
    BY <2>2 DEF CreditsInv, Counted
  <2>6. credits \in Int  OBVIOUS
  <2>7. seen.logged + o.totals = seen.charged  BY <2>5, CreditTypes
  <2>8. seen'.logged + Counted' = seen'.charged + seen'.metered
    <3>1. Counted' = o.totals + credits  BY <2>3 DEF Counted
    <3> QED  BY <2>4, <2>6, <2>7, <3>1, CreditTypes
  <2> QED  BY <2>3, <2>4, <2>8 DEF CreditsInv, CreditsSummed
<1>8. CASE ReadToolSearch
  <2>1. o.pc = "parse" /\ seen' = seen
        /\ \E input \in {"query", "malformed"} : o' = [o EXCEPT !.found = input]
    BY <1>8 DEF ReadToolSearch, At
  <2>2. o'.pc = "parse" /\ o'.totals = o.totals /\ o'.credits = o.credits
    BY <1>1, <2>1 DEF Orchestrator
  <2>3. Counted' = Counted  BY <1>1, <2>1, <2>2 DEF Counted
  <2> QED  BY <2>1, <2>2, <2>3, CreditsGoOn
<1>9. CASE ReadEnds
  <2>1. o.pc = "parse" /\ seen' = seen
        /\ \E outcome \in {"eof", "error"} :
             o' = [o EXCEPT !.pc = "parsed", !.outcome = outcome]
    BY <1>9 DEF ReadEnds, At
  <2>2. o'.pc = "parsed" /\ o'.totals = o.totals /\ o'.credits = o.credits
    BY <1>1, <2>1 DEF Orchestrator
  <2>3. Counted' = Counted  BY <1>1, <2>1, <2>2 DEF Counted
  <2> QED  BY <2>1, <2>2, <2>3, CreditsGoOn
<1>10. CASE RoundFails
  <2>1. o.pc = "parsed" /\ o.outcome = "error" /\ Fail  BY <1>10 DEF RoundFails, Failed, At
  <2> QED  BY <2>1, FailKeepsCredits DEF Stopped
<1>11. CASE SearchesInStream
  <2>1. /\ stream /\ o.pc = "parsed" /\ o' = [o EXCEPT !.pc = "search"] /\ seen' = seen
    BY <1>11 DEF SearchesInStream, Ended, At, Goto
  <2>2. o'.pc = "search" /\ o'.totals = o.totals /\ o'.credits = o.credits
    BY <1>1, <2>1 DEF Orchestrator
  <2>3. Counted' = Counted  BY <1>1, <2>1, <2>2 DEF Counted
  <2> QED  BY <2>1, <2>2, <2>3, CreditsGoOn
<1>12. CASE StopsLocally
  <2>1. stream /\ o.pc = "parsed" /\ Deliver(w)  BY <1>12 DEF StopsLocally, Ended, At
  <2> QED  BY <2>1, DeliverKeepsCredits
<1>13. CASE Finishes
  <2> DEFINE sum == o.totals + o.credits
  <2>1. stream /\ o.pc = "parsed" /\ o.outcome = "eof"  BY <1>13 DEF Finishes, Ended, At
  <2>2. PICK f \in Finals(w) : RunAgain(sum) \/ Deliver(Finish(w, f))
    BY <1>13 DEF Finishes
  <2>3. sum = Counted  BY <2>1 DEF Counted
  <2>4. ~Stopped(o)  BY <2>1 DEF Stopped
  <2> HIDE DEF sum
  <2> QED  BY <1>1, <2>1, <2>2, <2>3, <2>4, RunAgainKeepsCredits, DeliverKeepsCredits
<1>14. CASE BuildResponse  BY <1>1, <1>14, BuildResponseKeepsCredits
<1>15. CASE SearchRejected
  <2>1. o.pc = "search" /\ Fail  BY <1>15 DEF SearchRejected, At
  <2> QED  BY <2>1, FailKeepsCredits DEF Stopped
<1>16. CASE SearchRuns
  <2> DEFINE n == IF MoreRounds THEN o.round + 1 ELSE o.round
             pc == IF MoreRounds THEN "build" ELSE "last"
             q == IF stream THEN o.orderedBlocks
                  ELSE o.orderedBlocks \o <<"server_tool_use", "tool_search_tool_result">>
  <2>1. /\ o.pc = "search" /\ seen' = seen
        /\ \E result \in Search :
             o' = [o EXCEPT !.named = @ \cup ToSet(result.names), !.orderedBlocks = q,
                            !.pc = pc, !.round = n]
    BY <1>16 DEF SearchRuns, At
  <2>2. o'.pc = pc /\ o'.totals = o.totals /\ o'.credits = o.credits
    <3> HIDE DEF n, pc, q
    <3>1. PICK result \in Search :
            o' = [o EXCEPT !.named = @ \cup ToSet(result.names), !.orderedBlocks = q,
                           !.pc = pc, !.round = n]
      BY <2>1
    <3> QED  BY <1>1, <3>1 DEF Orchestrator
  <2>3. o'.pc \in {"build", "last"}  BY <2>2
  <2>4. Counted' = Counted  BY <1>1, <2>1, <2>2, <2>3 DEF Counted
  <2> QED  BY <2>1, <2>3, <2>4, CreditsGoOn
<1>17. CASE MaxRoundsReached
  <2>1. o.pc = "last"  BY <1>17 DEF MaxRoundsReached, At
  <2>2. CASE stream
    <3>1. PICK f \in Finals(w) : Deliver(Finish(w, f))  BY <1>17, <2>2 DEF MaxRoundsReached
    <3> QED  BY <2>1, <2>2, <3>1, DeliverKeepsCredits
  <2>3. CASE ~stream
    <3>1. Responds(o)  BY <1>17, <2>3 DEF MaxRoundsReached
    <3>2. o' = [o EXCEPT !.pc = "done"] /\ LogCredits(o.totals)  BY <3>1 DEF Responds
    <3>3. o.totals = Counted  BY <2>1, <2>3 DEF Counted
    <3>4. o'.pc = "done"  BY <1>1, <3>2 DEF Orchestrator
    <3> QED  BY <2>1, <3>2, <3>3, <3>4, CreditsEnd
  <2> QED  BY <2>2, <2>3
<1>18. CASE ClientGone
  <2>1. /\ stream /\ o.pc # "done" /\ Goto("done")
        /\ session' = [session EXCEPT !.usable = FALSE]
    BY <1>18 DEF ClientGone
  <2>2. OpenSession(session)  BY <2>1 DEF WriterInv, Streams, Talk, Quit
  <2>3. o'.pc = "done" /\ ~session'.usable  BY <2>1, <2>2, GotoType DEF OpenSession
  <2> QED  BY <2>3 DEF CreditsInv, CreditsSummed
<1> QED
  BY <1>2, <1>3, <1>4, <1>5, <1>6, <1>7, <1>8, <1>9, <1>10, <1>11, <1>12, <1>13, <1>14, <1>15,
     <1>16, <1>17, <1>18 DEF Next, Round

LEMMA InitCredits == Init => CreditsInv
<1> SUFFICES ASSUME Init PROVE CreditsInv
  OBVIOUS
<1>1. o = FirstRound(0) /\ seen = [metered |-> 0, charged |-> 0, logged |-> 0, lost |-> FALSE]
  BY DEF Init
<1>2. o.pc = "build" /\ o.totals = 0 /\ o.credits = 0  BY <1>1 DEF FirstRound
<1>3. Counted = 0  BY <1>2 DEF Counted
<1> QED  BY <1>1, <1>2, <1>3 DEF CreditsInv, CreditsSummed

----------------------------------------------------------------------------
(* What the client has seen.                                               *)

LEMMA NamesOfEvents ==
  ASSUME NEW m \in Seq(SSEEvent), NEW i \in 1..Len(m)
  PROVE  m[i] \in SSEEvent /\ m[i].event \notin {"error", "response"}
<1>1. m[i] \in SSEEvent  OBVIOUS
<1>2. m[i].event \in Names  BY <1>1, CallsAreCalls DEF Calls, AnyCall
<1> QED  BY <1>1, <1>2 DEF Names

LEMMA ConcludedAnswers ==
  ASSUME Concluded(session), session.usable
  PROVE  Cardinality({i \in DOMAIN session.out :
                        session.out[i].event \in {"message_stop", "response", "error"}}) = 1
<1> DEFINE A == {i \in DOMAIN session.out :
                   session.out[i].event \in {"message_stop", "response", "error"}}
<1>1. PICK m \in Seq(SSEEvent) :
        /\ WellFormedSoFar(m)
        /\ \/ session.out = m /\ Finished(m)
           \/ \E e : Answer(m, e) /\ session.out = Append(m, e)
  BY DEF Concluded
<1> SUFFICES \E n : A = {n}
  BY FS_Singleton
<1>2. \A i \in 1..Len(m) : m[i].event \notin {"error", "response"}  BY NamesOfEvents
<1>3. CASE session.out = m /\ Finished(m)
  <2>1. PICK n \in 1..Len(m) : m[n].event = "message_stop"  BY <1>3 DEF Finished
  <2>2. \A i \in 1..Len(m) : m[i].event = "message_stop" => i = Len(m)
    BY <1>1 DEF WellFormedSoFar, InPlace
  <2>3. A = {n}  BY <1>2, <1>3, <2>1, <2>2
  <2> QED  BY <2>3
<1>4. CASE \E e : Answer(m, e) /\ session.out = Append(m, e)
  <2>1. PICK e : Answer(m, e) /\ session.out = Append(m, e)  BY <1>4
  <2> DEFINE n == Len(m) + 1
  <2>2. /\ DOMAIN session.out = 1..n /\ session.out[n] = e
        /\ \A i \in 1..Len(m) : session.out[i] = m[i]
    BY <2>1
  <2>3. \A i \in 1..Len(m) : m[i].event # "message_stop"  BY <2>1 DEF Answer, Finished
  <2>4. e.event \in {"error", "response"}  BY <2>1 DEF Answer
  <2>5. \A i \in 1..n : i \in 1..Len(m) \/ i = n  OBVIOUS
  <2>6. n \in 1..n  OBVIOUS
  <2> HIDE DEF n
  <2>7. A = {n}  BY <1>2, <2>2, <2>3, <2>4, <2>5, <2>6
  <2> QED  BY <2>7
<1> QED  BY <1>1, <1>3, <1>4

(* The events of a message m, with an answer after it or not.              *)
LEMMA MessageIs ==
  ASSUME NEW m \in Seq(SSEEvent),
         session.out = m \/ \E e : Answer(m, e) /\ session.out = Append(m, e)
  PROVE  /\ Message = m
         /\ \A i \in DOMAIN session.out :
              session.out[i].event = "error" => i = Len(session.out) /\ ~Open(m, i)
<1>1. \A i \in 1..Len(m) : m[i].event # "error"  BY NamesOfEvents
<1>2. Filter(m, SSEEvent) = m  BY FilterAll
<1>3. CASE session.out = m
  BY <1>1, <1>2, <1>3 DEF Message
<1>4. CASE \E e : Answer(m, e) /\ session.out = Append(m, e)
  <2>1. PICK e : Answer(m, e) /\ session.out = Append(m, e)  BY <1>4
  <2> DEFINE X == SSEEvent \cup {e}
  <2>2. m \in Seq(X) /\ e \in X /\ e \notin SSEEvent  BY <2>1 DEF Answer
  <2>3. Message = m  BY <1>2, <2>1, <2>2, FilterAppend DEF Message
  <2>4. /\ Len(session.out) = Len(m) + 1 /\ DOMAIN session.out = 1..(Len(m) + 1)
        /\ \A i \in 1..Len(m) : session.out[i] = m[i]
    BY <2>1
  <2>5. ~Open(m, Len(m) + 1)
    <3>1. Opens(m) <= Closes(m)  BY <2>1 DEF Answer
    <3>2. Len(m) + 1 \in Int  OBVIOUS
    <3>3. Opens(m) \in Nat /\ Closes(m) \in Nat  BY <3>2, BeforeType DEF Opens, Closes
    <3> QED  BY <3>1, <3>3 DEF Open, Opened, Opens, Closes
  <2> QED  BY <1>1, <2>3, <2>4, <2>5
<1> QED  BY <1>3, <1>4

LEMMA MessageSoFar ==
  ASSUME WriterInv
  PROVE  \E m \in Seq(SSEEvent) :
           /\ WellFormedSoFar(m)
           /\ Pairs(Starts(m))
           /\ session.out = m \/ \E e : Answer(m, e) /\ session.out = Append(m, e)
<1>1. CASE o.pc = "done"  BY <1>1 DEF WriterInv, Over, Concluded
<1>2. CASE o.pc # "done" /\ stream
  <2> DEFINE b == Tale(session)
             m == session.out
  <2>1. /\ OpenSession(session) /\ w.todo = <<>> /\ Told(b, w) /\ Pairs(Starts(b))
    BY <1>2, SpeaksTold DEF WriterInv, Streams, Talk, Quit
  <2>2. b \in Seq(SSEEvent) /\ (m = b \/ m = <<>>)  BY <2>1, TaleType
  <2>3. WellFormedSoFar(b)
    <3>1. Story(b, w) = b  BY <2>1, <2>2, IdleStory
    <3> HIDE DEF b
    <3> QED  BY <2>1, <3>1 DEF Told
  <2> HIDE DEF b
  <2>4. m \in Seq(SSEEvent) /\ WellFormedSoFar(m) /\ Pairs(Starts(m))
    BY <2>1, <2>2, <2>3, NothingFits
  <2> QED  BY <2>4
<1>3. CASE o.pc # "done" /\ ~stream
  <2>1. session.out = <<>>  BY <1>3 DEF WriterInv, Collects, OpenSession
  <2> QED  BY <2>1, NothingFits
<1> QED  BY <1>1, <1>2, <1>3

LEMMA OneMessage ==
  ASSUME WriterInv, OrchestratorInv PROVE RoundsMakeOneMessage
<1>1. PICK m \in Seq(SSEEvent) :
        /\ WellFormedSoFar(m)
        /\ Pairs(Starts(m))
        /\ session.out = m \/ \E e : Answer(m, e) /\ session.out = Append(m, e)
  BY MessageSoFar
<1>2. /\ Message = m
      /\ \A i \in DOMAIN session.out :
           session.out[i].event = "error" => i = Len(session.out) /\ ~Open(m, i)
  BY <1>1, MessageIs
<1> DEFINE blocks == ContentBlocks
<1>3. \A i \in DOMAIN blocks :
        blocks[i] = "server_tool_use" =>
          i < Len(blocks) /\ blocks[i + 1] = "tool_search_tool_result"
  <2>1. CASE stream
    <3> DEFINE q == Starts(m)
    <3>1. q \in Seq(SSEEvent) /\ Started = q  BY <1>2, StartsType DEF Started, Starts
    <3>2. blocks = [i \in DOMAIN q |-> q[i].block]  BY <2>1, <3>1 DEF ContentBlocks
    <3>3. Pairs(q)  BY <1>1
    <3> HIDE DEF q, blocks
    <3>4. DOMAIN q = 1..Len(q) /\ Len(q) \in Nat  BY <3>1
    <3>5. Len(blocks) = Len(q) /\ DOMAIN blocks = 1..Len(q)
          /\ \A i \in 1..Len(q) : blocks[i] = q[i].block
      BY <3>2, <3>4
    <3> QED  BY <3>3, <3>4, <3>5 DEF Pairs
  <2>2. CASE ~stream
    <3>1. blocks = o.orderedBlocks /\ Paired(blocks) /\ blocks \in Seq(BlockType)
      BY <2>2 DEF ContentBlocks, WriterInv, OrchestratorInv, Orchestrator
    <3> HIDE DEF blocks
    <3> QED  BY <3>1 DEF Paired
  <2> QED  BY <2>1, <2>2
<1> HIDE DEF blocks
<1> QED  BY <1>1, <1>2, <1>3 DEF RoundsMakeOneMessage, blocks

----------------------------------------------------------------------------
(* The theorems.                                                           *)

SearchInv == OrchestratorInv /\ WriterInv /\ CreditsInv

LEMMA SearchInvariance == Spec => []SearchInv
<1>1. Init => SearchInv  BY InitOrchestrator, InitWriter, InitCredits DEF SearchInv
<1>2. SearchInv /\ [Next]_vars => SearchInv'
  <2> SUFFICES ASSUME SearchInv, [Next]_vars PROVE SearchInv'
    OBVIOUS
  <2>1. OrchestratorInv /\ WriterInv /\ CreditsInv  BY DEF SearchInv
  <2>2. w \in WriterState  BY <2>1, WithinTypes
  <2>3. OrchestratorInv'  BY <2>1, <2>2, StepKeepsOrchestrator
  <2>4. WriterInv'  BY <2>1, <2>3, StepKeepsWriter
  <2>5. CreditsInv'  BY <2>1, StepKeepsCredits
  <2> QED  BY <2>3, <2>4, <2>5 DEF SearchInv
<1> QED  BY <1>1, <1>2, PTL DEF Spec

(* The loop's locals, the tool context and the writer keep their types     *)
(* through all rounds and runs: block indices stay below MaxIndex, which   *)
(* is why a bound on the events of a request suffices, and nothing stays   *)
(* buffered in a promoted session.                                         *)
THEOREM SearchTypeCorrect == Spec => []TypeOK
<1>1. SearchInv => TypeOK
  <2> SUFFICES ASSUME SearchInv PROVE TypeOK
    OBVIOUS
  <2>1. OrchestratorInv /\ WriterInv  BY DEF SearchInv
  <2>2. o \in Orchestrator /\ tools \in [active : Seq(Tool), deferred : SUBSET Tool]
    BY <2>1 DEF OrchestratorInv, Split, Context
  <2>3. w.todo = <<>>  BY <2>1, WithinTypes
  <2>4. w.blockIndex \in -1..MaxIndex
    <3> DEFINE hi == Room(o)
               up == hi + 2
    <3>1. /\ hi \in Int /\ up \in Int /\ hi <= MaxIndex /\ up <= MaxIndex
          /\ MaxIndex \in Int /\ -1 <= MaxIndex
      BY <2>2, RoomType, MaxIndexIsNat
    <3>2. Within(w, hi) \/ Within(w, up) \/ Within(w, -1) \/ Within(w, MaxIndex)
      BY <2>1 DEF WriterInv, Over, Streams, Collects, Talk, Quit
    <3> HIDE DEF hi, up
    <3> QED  BY <3>1, <3>2 DEF Within
  <2>5. session.promoted => session.buf = <<>>
    BY <2>1 DEF WriterInv, Over, Streams, Collects, Talk, Quit, OpenSession, Concluded
  <2> QED  BY <2>2, <2>3, <2>4, <2>5 DEF TypeOK
<1> QED  BY <1>1, SearchInvariance, PTL

(* BuildPayload offers every tool that the messages of its payload name as *)
(* found, in this request or an earlier one, because PromoteTools only     *)
(* ever moves a tool from the deferred to the active ones: for any tools,  *)
(* queries and number of rounds.                                           *)
THEOREM FoundToolsAreAlwaysOffered == Spec => []FoundToolsAreOffered
<1>1. SearchInv => FoundToolsAreOffered
  BY DEF SearchInv, OrchestratorInv, Split, FoundToolsAreOffered
<1> QED  BY <1>1, SearchInvariance, PTL

(* However many rounds, runs and events there are, what the client of      *)
(* handleToolSearchOrchestrator sees is one message whose blocks are       *)
(* numbered on, with every search followed by its result, and an error     *)
(* comes between blocks and last.                                          *)
THEOREM RoundsAlwaysMakeOneMessage == Spec => []RoundsMakeOneMessage
<1>1. SearchInv => RoundsMakeOneMessage  BY OneMessage DEF SearchInv
<1> QED  BY <1>1, SearchInvariance, PTL

(* A request whose client stays is answered once: a message with its       *)
(* message_stop, a response, or an error, and never two of them, whichever *)
(* round or run the loop ends in.                                          *)
THEOREM AlwaysAnsweredOnce == Spec => []AnsweredOnce
<1>1. SearchInv => AnsweredOnce
  BY ConcludedAnswers DEF SearchInv, WriterInv, Over, AnsweredOnce
<1> QED  BY <1>1, SearchInvariance, PTL

(* The credits logged for an answered request are those of all its calls,  *)
(* added up in one place when it streams and in another when it does not,  *)
(* a discarded run included.                                               *)
THEOREM CreditsAlwaysSummed == Spec => []CreditsSummed
<1>1. SearchInv => CreditsSummed  BY DEF SearchInv, CreditsInv
<1> QED  BY <1>1, SearchInvariance, PTL
=============================================================================
