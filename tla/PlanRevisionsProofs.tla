------------------------- MODULE PlanRevisionsProofs -------------------------
(***************************************************************************)
(* Proofs about PlanRevisions, for any programs, targets, imports and      *)
(* bounds.                                                                 *)
(***************************************************************************)
EXTENDS PlanRevisions, FiniteSetTheorems, WellFoundedInduction, SequenceTheorems, TLAPS

-----------------------------------------------------------------------------
(* What a graph reaches.  The layers of Reached, for any graphs: that they *)
(* exist, and that they depend only on the needs of what is reached.       *)

LEMMA LeastNatural ==
  ASSUME NEW S, S \subseteq Nat, S # {}
  PROVE  \E n \in S : \A m \in S : n <= m
<1> DEFINE R == {pair \in Nat \X Nat : pair[1] < pair[2]}
<1>1. IsWellFoundedOn(R, Nat)
  BY NatLessThanWellFounded, Zenon DEF OpToRel
<1>2. \A m, n \in Nat : m < n => <<m, n>> \in R
  OBVIOUS
<1> HIDE DEF R
<1>3. PICK n \in S : \A m \in S : ~ (<<m, n>> \in R)
  BY <1>1, WFMin
<1>4. \A m \in S : ~ m < n
  BY <1>2, <1>3
<1> QED
  BY <1>3, <1>4

\* S and what it needs through at most n others, for each n up to N.
Layer(G, S, f, n) == IF n = 0 THEN S ELSE f[n - 1] \cup UNION {G[c[1]][c[2]].needs : c \in f[n - 1]}
IsLayers(G, S, N, f) == f = [n \in 0..N |-> Layer(G, S, f, n)]

LEMMA LayersExist ==
  ASSUME NEW G, NEW S, NEW N \in Nat
  PROVE  \E f : IsLayers(G, S, N, f)
<1> DEFINE without == {n \in Nat : ~ \E f : IsLayers(G, S, n, f)}
<1> SUFFICES ASSUME without # {}
             PROVE  FALSE
  OBVIOUS
<1>1. PICK n \in without : \A m \in without : n <= m
  BY LeastNatural
<1>2. CASE n = 0
  <2>1. IsLayers(G, S, 0, [i \in 0..0 |-> S])
    BY DEF IsLayers, Layer
  <2> QED
    BY <1>2, <2>1
<1>3. CASE n # 0
  <2>1. n - 1 \in Nat /\ n - 1 \notin without
    BY <1>1, <1>3
  <2>2. PICK f : IsLayers(G, S, n - 1, f)
    BY <2>1
  <2> DEFINE last == f[n - 1] \cup UNION {G[c[1]][c[2]].needs : c \in f[n - 1]}
             g == [i \in 0..n |-> IF i = n THEN last ELSE f[i]]
  <2>3. \A i \in 0..n - 1 : f[i] = Layer(G, S, f, i)
    BY <2>2, Zenon DEF IsLayers
  <2>4. \A i \in 0..n - 1 : g[i] = f[i]
    BY <2>1
  <2>5. g[n] = last
    BY <2>1
  <2>6. ASSUME NEW i \in 0..n
        PROVE  g[i] = Layer(G, S, g, i)
    <3>1. CASE i = 0
      <4>1. 0 \in 0..n - 1
        BY <2>1
      <4>2. g[0] = f[0] /\ f[0] = Layer(G, S, f, 0)
        BY <4>1, <2>3, <2>4
      <4> HIDE DEF g
      <4> QED
        BY <4>2, <3>1 DEF Layer
    <3>2. CASE i # 0 /\ i # n
      <4>1. i \in 0..n - 1 /\ i - 1 \in 0..n - 1
        BY <3>2, <2>1
      <4>2. g[i] = f[i] /\ g[i - 1] = f[i - 1] /\ f[i] = Layer(G, S, f, i)
        BY <4>1, <2>3, <2>4
      <4> HIDE DEF g, last
      <4> QED
        BY <4>2, <3>2 DEF Layer
    <3>3. CASE i = n
      <4>1. g[n - 1] = f[n - 1]
        BY <2>1, <2>4
      <4> HIDE DEF g
      <4> QED
        BY <4>1, <3>3, <2>5, <1>3 DEF Layer
    <3> QED
      BY <3>1, <3>2, <3>3
  <2>7. IsLayers(G, S, n, g)
    <3>1. g = [i \in 0..n |-> g[i]]
      OBVIOUS
    <3> HIDE DEF g, last
    <3>2. g = [i \in 0..n |-> Layer(G, S, g, i)]
      BY <3>1, <2>6
    <3> QED
      BY <3>2 DEF IsLayers
  <2> QED
    BY <2>7
<1> QED
  BY <1>2, <1>3

ReachedIn(G, S) ==
  LET from[n \in 0..Cardinality(Candidates)] ==
        IF n = 0 THEN S ELSE from[n - 1] \cup UNION {G[c[1]][c[2]].needs : c \in from[n - 1]}
  IN from[Cardinality(Candidates)]

LEMMA CandidatesCounted == Cardinality(Candidates) \in Nat
BY PlanAssumption, FS_CardinalityType

LEMMA ReachedShown ==
  ASSUME NEW G, NEW S
  PROVE  \E f : /\ IsLayers(G, S, Cardinality(Candidates), f)
                /\ ReachedIn(G, S) = f[Cardinality(Candidates)]
<1> DEFINE N == Cardinality(Candidates)
           f == CHOOSE g : g = [n \in 0..N |-> IF n = 0 THEN S ELSE g[n - 1] \cup UNION {G[c[1]][c[2]].needs : c \in g[n - 1]}]
<1>1. \E g : g = [n \in 0..N |-> IF n = 0 THEN S ELSE g[n - 1] \cup UNION {G[c[1]][c[2]].needs : c \in g[n - 1]}]
  <2>1. PICK g : IsLayers(G, S, N, g)
    BY LayersExist, CandidatesCounted
  <2>2. g = [n \in 0..N |-> IF n = 0 THEN S ELSE g[n - 1] \cup UNION {G[c[1]][c[2]].needs : c \in g[n - 1]}]
    BY <2>1, Zenon DEF IsLayers, Layer
  <2> QED
    BY <2>2, Zenon
<1>2. f = [n \in 0..N |-> IF n = 0 THEN S ELSE f[n - 1] \cup UNION {G[c[1]][c[2]].needs : c \in f[n - 1]}]
  BY <1>1, Zenon
<1>3. IsLayers(G, S, N, f)
  BY <1>2, Zenon DEF IsLayers, Layer
<1>4. ReachedIn(G, S) = f[N]
  BY Zenon DEF ReachedIn
<1> QED
  BY <1>3, <1>4

AgreeOn(G, H, A) ==
  \A c \in A : G[c[1]][c[2]].needs = H[c[1]][c[2]].needs /\ G[c[1]][c[2]].needs \subseteq A

\* Graphs that agree on a set of revisions closed under needs reach the same from it.
LEMMA ReachedAlike ==
  ASSUME NEW G, NEW H, NEW A, NEW S, S \subseteq A, AgreeOn(G, H, A)
  PROVE  ReachedIn(G, S) = ReachedIn(H, S)
<1>0. \A c \in A : G[c[1]][c[2]].needs = H[c[1]][c[2]].needs /\ G[c[1]][c[2]].needs \subseteq A
  BY DEF AgreeOn
<1> DEFINE N == Cardinality(Candidates)
<1>1. N \in Nat
  BY CandidatesCounted
<1>2. PICK f : IsLayers(G, S, N, f) /\ ReachedIn(G, S) = f[N]
  BY ReachedShown
<1>3. PICK g : IsLayers(H, S, N, g) /\ ReachedIn(H, S) = g[N]
  BY ReachedShown
<1> HIDE DEF N
<1>4. \A n \in 0..N : f[n] = Layer(G, S, f, n) /\ g[n] = Layer(H, S, g, n)
  <2>1. \A n \in 0..N : f[n] = Layer(G, S, f, n)
    BY <1>2, Zenon DEF IsLayers
  <2>2. \A n \in 0..N : g[n] = Layer(H, S, g, n)
    BY <1>3, Zenon DEF IsLayers
  <2> QED
    BY <2>1, <2>2
<1> DEFINE apart == {n \in 0..N : ~ (f[n] = g[n] /\ f[n] \subseteq A)}
<1>5. apart = {}
  <2> SUFFICES ASSUME apart # {}
               PROVE  FALSE
    OBVIOUS
  <2>1. PICK n \in apart : \A m \in apart : n <= m
    <3>1. apart \subseteq Nat
      BY <1>1
    <3> HIDE DEF apart
    <3> QED
      BY <3>1, LeastNatural
  <2>2. CASE n = 0
    BY <2>1, <2>2, <1>4 DEF Layer
  <2>3. CASE n # 0
    <3>1. n - 1 \in 0..N /\ n - 1 \notin apart /\ n \in 0..N
      BY <1>1, <2>1, <2>3
    <3>2. f[n - 1] = g[n - 1] /\ f[n - 1] \subseteq A
      BY <3>1
    <3>3. /\ f[n] = f[n - 1] \cup UNION {G[c[1]][c[2]].needs : c \in f[n - 1]}
          /\ g[n] = g[n - 1] \cup UNION {H[c[1]][c[2]].needs : c \in g[n - 1]}
      BY <3>1, <1>4, <2>3 DEF Layer
    <3>4. \A c \in f[n - 1] : G[c[1]][c[2]].needs = H[c[1]][c[2]].needs /\ G[c[1]][c[2]].needs \subseteq A
      BY <3>2, <1>0
    <3>5. UNION {G[c[1]][c[2]].needs : c \in f[n - 1]} = UNION {H[c[1]][c[2]].needs : c \in g[n - 1]}
      BY <3>2, <3>4
    <3>6. UNION {G[c[1]][c[2]].needs : c \in f[n - 1]} \subseteq A
      BY <3>4
    <3>7. f[n] = g[n] /\ f[n] \subseteq A
      BY <3>2, <3>3, <3>5, <3>6
    <3> QED
      BY <3>7, <2>1
  <2> QED
    BY <2>2, <2>3
<1>6. N \in 0..N
  BY <1>1
<1> QED
  BY <1>2, <1>3, <1>5, <1>6

-----------------------------------------------------------------------------
(* The invariant.                                                          *)

\* A program on its way has a graph.
PhasesOK ==
  \A p \in Programs :
    /\ phase[p] \in {"approved", "eligible", "running", "integration_pending"} => graphs[p] # <<>>
    /\ Len(graphs[p]) <= MaxGraphs[p]

\* A graph and what it needs go to one revision of one target.
PinsOK ==
  \A c \in Approved : \A d \in Graph(c).needs :
    Target(d) = Target(c) /\ Graph(d).targetRevision = Graph(c).targetRevision

\* A target has a ref before it has a revision; a head about to be approved
\* stays in the history of the ref.
RefsOK ==
  \A t \in Targets :
    /\ ref[t] = Absent => targets[t] = <<>>
    /\ opening[t] # Absent => ref[t] # Absent /\ IsPrefixOf(opening[t], ref[t])

Placed == {"prepared", "authorized", "promoted"}

\* A candidate that is placed on a head has all it needs there, and one that is
\* promoted is in the head that its own revision of the target records.
WorkOK ==
  \A c \in Candidates :
    /\ work[c].status # "none" => c \in Approved
    /\ work[c].status \in Placed =>
         Graph(c).needs \subseteq Contents(work[c].expected) /\ Rebased(c) \in sources
    /\ work[c].status = "promoted" => c \in Contents(HeadFor(c))

Inv ==
  /\ TypeOK /\ PhasesOK /\ PinsOK /\ RefsOK /\ WorkOK
  /\ HeadsAreHistory /\ NoProgramNeedsItself

-----------------------------------------------------------------------------
(* Revisions of targets and graphs.                                        *)

LEMMA CandidateShown ==
  /\ \A p \in Programs : \A n \in 1..MaxGraphs[p] : <<p, n>> \in Candidates
  /\ \A c \in Candidates : c = <<c[1], c[2]>> /\ c[1] \in Programs /\ c[2] \in 1..MaxGraphs[c[1]] /\ c[2] \in Nat
BY PlanAssumption DEF Candidates

LEMMA SourceShown ==
  ASSUME NEW h \in Sources
  PROVE  Len(h) \in Nat /\ DOMAIN h = 1..Len(h) /\ h # Absent
         /\ \A i \in 1..Len(h) : h[i] \in Imported \cup Candidates
BY LenProperties, ElementOfSeq, PlanAssumption DEF Sources

LEMMA PrefixShown ==
  ASSUME NEW g \in Sources, NEW h \in Sources
  PROVE  IsPrefixOf(g, h) <=> Len(g) <= Len(h) /\ \A i \in 1..Len(g) : g[i] = h[i]
<1>1. Len(g) \in Nat /\ Len(h) \in Nat
  BY SourceShown
<1> SUFFICES ASSUME Len(g) <= Len(h)
             PROVE  g = SubSeq(h, 1, Len(g)) <=> \A i \in 1..Len(g) : g[i] = h[i]
  BY DEF IsPrefixOf
<1> DEFINE k == SubSeq(h, 1, Len(g))
<1>2. \A i \in 1..Len(g) : h[i] \in Imported \cup Candidates
  BY <1>1, SourceShown
<1>3. k \in Sources /\ Len(k) = Len(g) /\ \A i \in 1..Len(g) : k[i] = h[i]
  <2>1. /\ k \in Seq(Imported \cup Candidates)
        /\ Len(k) = IF 1 <= Len(g) THEN Len(g) - 1 + 1 ELSE 0
        /\ \A i \in 1..Len(g) - 1 + 1 : k[i] = h[1 + i - 1]
    BY <1>1, <1>2, SubSeqProperties
  <2> HIDE DEF k
  <2> QED
    BY <2>1, <1>1 DEF Sources
<1> HIDE DEF k
<1>4. (\A i \in 1..Len(g) : g[i] = k[i]) => g = k
  BY <1>3, SeqEqual DEF Sources
<1>5. g = k <=> \A i \in 1..Len(g) : g[i] = h[i]
  BY <1>3, <1>4
<1> QED
  BY <1>5 DEF k

LEMMA PrefixOfItself ==
  ASSUME NEW h \in Sources
  PROVE  IsPrefixOf(h, h)
BY PrefixShown, SourceShown

LEMMA OnTop ==
  ASSUME NEW h \in Sources, NEW c \in Candidates
  PROVE  /\ Append(h, c) \in Sources
         /\ Contents(Append(h, c)) = Contents(h) \cup {c}
         /\ \A g \in Sources : IsPrefixOf(g, h) => IsPrefixOf(g, Append(h, c))
<1>1. c \in Imported \cup Candidates
  OBVIOUS
<1>2. /\ Append(h, c) \in Seq(Imported \cup Candidates) /\ Len(Append(h, c)) = Len(h) + 1
      /\ (\A i \in 1..Len(h) : Append(h, c)[i] = h[i]) /\ Append(h, c)[Len(h) + 1] = c
  BY <1>1, AppendProperties DEF Sources
<1> DEFINE k == Append(h, c)
<1>3. k \in Sources /\ Len(h) \in Nat /\ DOMAIN h = 1..Len(h) /\ DOMAIN k = 1..Len(h) + 1
  BY <1>2, SourceShown DEF Sources
<1> HIDE DEF k
<1>4. Len(k) = Len(h) + 1 /\ (\A i \in 1..Len(h) : k[i] = h[i]) /\ k[Len(h) + 1] = c
  BY <1>2 DEF k
<1>5. Contents(k) = Contents(h) \cup {c}
  BY <1>3, <1>4 DEF Contents
<1>6. ASSUME NEW g \in Sources, IsPrefixOf(g, h)
      PROVE  IsPrefixOf(g, k)
  <2>1. Len(g) \in Nat /\ Len(g) <= Len(h) /\ \A i \in 1..Len(g) : g[i] = h[i]
    BY <1>6, PrefixShown, SourceShown
  <2>2. Len(g) <= Len(k) /\ \A i \in 1..Len(g) : g[i] = k[i]
    BY <2>1, <1>3, <1>4
  <2> QED
    BY <2>2, <1>3, PrefixShown
<1> QED
  BY <1>3, <1>5, <1>6 DEF k

LEMMA ApprovedShown ==
  ASSUME TypeOK, NEW c \in Approved
  PROVE  /\ c \in Candidates /\ Graph(c) \in GraphRevisions
         /\ Graph(c).needs \subseteq Approved
         /\ Target(c) \in Targets
         /\ Graph(c).targetRevision \in DOMAIN targets[Target(c)]
         /\ Graph(c).targetRevision \in 1..Len(targets[Target(c)])
         /\ targets[Target(c)] \in Seq(TargetRevisions)
         /\ HeadFor(c) \in Sources /\ HeadFor(c) \in sources
<1>1. c \in Candidates /\ c[1] \in Programs /\ c[2] \in 1..MaxGraphs[c[1]] /\ c[2] <= Len(graphs[c[1]])
  BY CandidateShown DEF Approved
<1>2. graphs[c[1]] \in Seq(GraphRevisions)
  BY <1>1 DEF TypeOK
<1>3. c[2] \in 1..Len(graphs[c[1]])
  BY <1>1, CandidateShown
<1>4. Graph(c) \in GraphRevisions
  BY <1>2, <1>3, ElementOfSeq DEF Graph
<1>5. /\ Graph(c).needs \subseteq Approved
      /\ Graph(c).targetRevision \in DOMAIN targets[Target(c)]
  BY DEF TypeOK
<1>6. Target(c) \in Targets
  BY <1>4 DEF Target, GraphRevisions
<1>7. targets[Target(c)] \in Seq(TargetRevisions)
  BY <1>6 DEF TypeOK
<1>8. DOMAIN targets[Target(c)] = 1..Len(targets[Target(c)])
  BY <1>7, LenProperties
<1>9. targets[Target(c)][Graph(c).targetRevision] \in TargetRevisions
  BY <1>5, <1>7, <1>8, ElementOfSeq
<1>10. HeadFor(c) \in Sources
  BY <1>9 DEF HeadFor, TargetRevisions
<1>11. HeadFor(c) \in sources
  BY <1>5, <1>6 DEF HeadFor, TypeOK
<1> QED
  BY <1>1, <1>4, <1>5, <1>6, <1>7, <1>8, <1>10, <1>11

LEMMA WorkShown ==
  ASSUME TypeOK, NEW c \in Candidates
  PROVE  work[c] \in Works /\ work[c].expected \in Sources /\ Rebased(c) \in Sources
BY OnTop DEF TypeOK, Works, Rebased

-----------------------------------------------------------------------------
(* No program needs itself.                                                *)

ApprovedIn(G) == {c \in Candidates : c[2] <= Len(G[c[1]])}
NoneNeedsItself(G) ==
  \A c \in ApprovedIn(G) : \A d \in ReachedIn(G, G[c[1]][c[2]].needs) : d[1] # c[1]

LEMMA NeedsShown ==
  /\ NoProgramNeedsItself <=> NoneNeedsItself(graphs)
  /\ NoProgramNeedsItself' <=> NoneNeedsItself(graphs')
  /\ \A S : Reached(S) = ReachedIn(graphs, S)
  /\ Approved = ApprovedIn(graphs) /\ Approved' = ApprovedIn(graphs')
<1>1. \A S : Reached(S) = ReachedIn(graphs, S)
  BY Zenon DEF Reached, ReachedIn, Graph
<1>2. Approved = ApprovedIn(graphs) /\ Approved' = ApprovedIn(graphs')
  BY DEF Approved, ApprovedIn
<1>3. NoProgramNeedsItself <=> NoneNeedsItself(graphs)
  BY Zenon DEF NoProgramNeedsItself, NoneNeedsItself, Reached, ReachedIn, Graph, Approved, ApprovedIn
<1>4. NoProgramNeedsItself' <=> NoneNeedsItself(graphs')
  BY Zenon DEF NoProgramNeedsItself, NoneNeedsItself, Reached, ReachedIn, Graph, Approved, ApprovedIn
<1> QED
  BY <1>1, <1>2, <1>3, <1>4

\* What a step that approves no graph leaves of Approved and of graphs.
LEMMA GraphsKept ==
  ASSUME NoProgramNeedsItself, UNCHANGED graphs
  PROVE  NoProgramNeedsItself'
BY NeedsShown

-----------------------------------------------------------------------------
(* Steps that only plan, or move a program on.                             *)

LEMMA PlanningKeeps ==
  ASSUME Inv, TypeOK', PhasesOK', UNCHANGED <<lane, work, graphs>>, sources \subseteq sources'
  PROVE  Inv'
<1>1. UNCHANGED <<targets, ref, opening, work, graphs>>
  BY DEF lane
<1>2. PinsOK'
  BY <1>1 DEF Inv, PinsOK, Approved, Graph, Target
<1>3. RefsOK'
  BY <1>1 DEF Inv, RefsOK
<1>4. WorkOK'
  BY <1>1 DEF Inv, WorkOK, Approved, Graph, Target, HeadFor, Rebased
<1>5. HeadsAreHistory'
  BY <1>1 DEF Inv, HeadsAreHistory, In, Graph, Target, Rebased
<1>6. NoProgramNeedsItself'
  BY <1>1, GraphsKept DEF Inv
<1> QED
  BY <1>2, <1>3, <1>4, <1>5, <1>6 DEF Inv

\* Sources and refs only gain.
LEMMA RefType ==
  ASSUME TypeOK, NEW t \in Targets
  PROVE  /\ ref[t] \in sources \cup {Absent} /\ (ref[t] # Absent => ref[t] \in Sources)
         /\ opening[t] \in sources \cup {Absent} /\ (opening[t] # Absent => opening[t] \in Sources)
         /\ targets[t] \in Seq(TargetRevisions)
         /\ DOMAIN targets[t] = 1..Len(targets[t]) /\ Len(targets[t]) \in Nat
         /\ \A n \in DOMAIN targets[t] :
              /\ targets[t][n] \in TargetRevisions /\ targets[t][n].head \in sources
              /\ targets[t][n].head \in Sources
<1>1. targets[t] \in Seq(TargetRevisions)
  BY DEF TypeOK
<1>2. DOMAIN targets[t] = 1..Len(targets[t]) /\ Len(targets[t]) \in Nat
      /\ \A n \in DOMAIN targets[t] : targets[t][n] \in TargetRevisions
  BY <1>1, LenProperties, ElementOfSeq
<1> QED
  BY <1>1, <1>2 DEF TypeOK, TargetRevisions

LEMMA RegisterSourceKeeps ==
  ASSUME Inv, NEW i \in Imported, RegisterSource(i)
  PROVE  Inv'
<1>1. sources' = sources \cup {<<i>>} /\ <<i>> \in Sources
  <2>1. <<i>> \in Seq(Imported \cup Candidates)
    OBVIOUS
  <2> QED
    BY <2>1 DEF RegisterSource, Sources
<1>2. UNCHANGED <<workflows, attention, policies, interviewed, graphs, targets, ref, opening, phase, done, work>>
  BY DEF RegisterSource, lane
<1>3. TypeOK'
  BY <1>1, <1>2 DEF Inv, TypeOK, Approved, Graph, Target
<1>4. PhasesOK'
  BY <1>2 DEF Inv, PhasesOK
<1> QED
  BY <1>1, <1>2, <1>3, <1>4, PlanningKeeps DEF lane

LEMMA RegistryKeeps ==
  ASSUME Inv, Registry
  PROVE  Inv'
<1>1. ASSUME NEW i \in Imported, RegisterSource(i)
      PROVE  Inv'
  BY <1>1, RegisterSourceKeeps
<1>2. ASSUME RegisterWorkflow
      PROVE  Inv'
  <2>1. workflows' \in 0..MaxWorkflows
    BY <1>2, PlanAssumption DEF RegisterWorkflow, Inv, TypeOK
  <2>2. UNCHANGED <<sources, attention, policies, interviewed, graphs, targets, ref, opening, phase, done, work>>
    BY <1>2 DEF RegisterWorkflow, lane
  <2>3. TypeOK' /\ PhasesOK'
    BY <2>1, <2>2 DEF Inv, TypeOK, PhasesOK, Approved, Graph, Target
  <2> QED
    BY <2>2, <2>3, PlanningKeeps DEF lane
<1>3. ASSUME NEW routine \in BOOLEAN, ApproveAttentionPolicy(routine)
      PROVE  Inv'
  <2>1. attention \in Seq(BOOLEAN) /\ attention' = Append(attention, routine)
    BY <1>3 DEF ApproveAttentionPolicy, Inv, TypeOK
  <2>2. attention' \in Seq(BOOLEAN) /\ DOMAIN attention \subseteq DOMAIN attention'
    BY <2>1, AppendProperties, LenProperties
  <2>3. UNCHANGED <<sources, workflows, policies, interviewed, graphs, targets, ref, opening, phase, done, work>>
    BY <1>3 DEF ApproveAttentionPolicy, lane
  <2>4. TypeOK' /\ PhasesOK'
    BY <2>2, <2>3 DEF Inv, TypeOK, PhasesOK, Approved, Graph, Target
  <2> QED
    BY <2>3, <2>4, PlanningKeeps DEF lane
<1>4. ASSUME NEW lanes \in SUBSET Lanes, ApprovePortfolioPolicy(lanes)
      PROVE  Inv'
  <2> DEFINE r == [attention |-> Len(attention), lanes |-> lanes]
  <2>1. attention \in Seq(BOOLEAN) /\ attention # <<>> /\ policies' = Append(policies, r)
        /\ policies \in Seq(Policies)
    BY <1>4 DEF ApprovePortfolioPolicy, Inv, TypeOK
  <2>2. Len(attention) \in DOMAIN attention /\ Len(attention) \in Nat
    BY <2>1, EmptySeq, LenProperties
  <2>3. r \in Policies
    BY <2>2 DEF Policies
  <2>4. /\ policies' \in Seq(Policies) /\ DOMAIN policies' = DOMAIN policies \cup {Len(policies) + 1}
        /\ \A n \in DOMAIN policies : policies'[n] = policies[n]
        /\ policies'[Len(policies) + 1] = r
    BY <2>1, <2>3, AppendProperties, LenProperties
  <2>5. \A n \in DOMAIN policies' : policies'[n].attention \in DOMAIN attention
    BY <2>2, <2>4 DEF Inv, TypeOK
  <2>6. UNCHANGED <<sources, workflows, attention, interviewed, graphs, targets, ref, opening, phase, done, work>>
    BY <1>4 DEF ApprovePortfolioPolicy, lane
  <2>7. TypeOK' /\ PhasesOK'
    BY <2>4, <2>5, <2>6 DEF Inv, TypeOK, PhasesOK, Approved, Graph, Target
  <2> QED
    BY <2>6, <2>7, PlanningKeeps DEF lane
<1> QED
  BY <1>1, <1>2, <1>3, <1>4 DEF Registry

\* A program changes its phase, and is interviewed or done with its milestone.
LEMMA PhaseKeeps ==
  ASSUME Inv, NEW p \in Programs, NEW to \in Phases, phase' = [phase EXCEPT ![p] = to],
         to \in {"approved", "eligible", "running", "integration_pending"} => graphs[p] # <<>>,
         UNCHANGED <<plans, lane, work>>, done' \subseteq Programs
  PROVE  Inv'
<1>1. UNCHANGED <<sources, workflows, attention, policies, interviewed, graphs, targets, ref, opening, work>>
  BY DEF plans, lane
<1>2. TypeOK'
  BY <1>1 DEF Inv, TypeOK, Approved, Graph, Target
<1>3. PhasesOK'
  BY <1>1 DEF Inv, TypeOK, PhasesOK
<1> QED
  BY <1>1, <1>2, <1>3, PlanningKeeps DEF lane

LEMMA ProgramMoves ==
  ASSUME Inv, NEW p \in Programs,
         \/ CreateProgram(p) \/ ApproveProgram(p) \/ Kickoff(p)
         \/ StartProgram(p) \/ Coordinate(p) \/ FinishRun(p) \/ Advance(p)
  PROVE  Inv'
<1>1. done \subseteq Programs /\ (phase[p] \in {"approved", "eligible", "running"} => graphs[p] # <<>>)
  BY DEF Inv, TypeOK, PhasesOK
<1>2. CASE CreateProgram(p) \/ ApproveProgram(p)
  BY <1>1, <1>2, PhaseKeeps DEF CreateProgram, ApproveProgram, Enter, Phases
<1>3. CASE Kickoff(p)
  BY <1>1, <1>3, PhaseKeeps DEF Kickoff, Enter, Phases
<1>4. CASE StartProgram(p)
  BY <1>1, <1>4, PhaseKeeps DEF StartProgram, Move, Phases
<1>5. CASE Coordinate(p)
  BY <1>1, <1>5, PhaseKeeps DEF Coordinate, Move, Phases
<1>6. CASE FinishRun(p)
  BY <1>1, <1>6, PhaseKeeps DEF FinishRun, Move, Phases
<1>7. CASE Advance(p)
  BY <1>1, <1>7, PhaseKeeps DEF Advance, Move, Phases
<1> QED
  BY <1>2, <1>3, <1>4, <1>5, <1>6, <1>7

LEMMA InterviewKeeps ==
  ASSUME Inv, NEW p \in Programs, CaptureInterview(p)
  PROVE  Inv'
<1>1. UNCHANGED <<sources, workflows, attention, policies, graphs, targets, ref, opening, phase, done, work>>
      /\ interviewed' \subseteq Programs
  BY DEF CaptureInterview, lane, Inv, TypeOK
<1>2. TypeOK' /\ PhasesOK'
  BY <1>1 DEF Inv, TypeOK, PhasesOK, Approved, Graph, Target
<1> QED
  BY <1>1, <1>2, PlanningKeeps DEF lane

-----------------------------------------------------------------------------
(* A graph is approved.                                                    *)

LEMMA GraphAppended ==
  ASSUME TypeOK, PhasesOK, NEW p \in Programs, NEW g \in GraphRevisions,
         Len(graphs[p]) < MaxGraphs[p], graphs' = [graphs EXCEPT ![p] = Append(@, g)]
  PROVE  LET new == <<p, Len(graphs[p]) + 1>> IN
         /\ graphs' \in [Programs -> Seq(GraphRevisions)]
         /\ new \in Candidates /\ new \notin Approved /\ Approved' = Approved \cup {new}
         /\ graphs'[p][Len(graphs[p]) + 1] = g
         /\ \A c \in Approved : graphs'[c[1]][c[2]] = Graph(c)
         /\ \A q \in Programs : Len(graphs'[q]) <= MaxGraphs[q] /\ (graphs[q] # <<>> => graphs'[q] # <<>>)
         /\ graphs'[p] # <<>>
<1> DEFINE n == Len(graphs[p])
<1>1. graphs \in [Programs -> Seq(GraphRevisions)] /\ MaxGraphs[p] \in Nat
  BY PlanAssumption DEF TypeOK
<1>2. /\ Append(graphs[p], g) \in Seq(GraphRevisions) /\ Len(Append(graphs[p], g)) = n + 1
      /\ \A i \in 1..n : Append(graphs[p], g)[i] = graphs[p][i]
      /\ Append(graphs[p], g)[n + 1] = g
      /\ n \in Nat
  BY <1>1, AppendProperties, LenProperties
<1>3. graphs'[p] = Append(graphs[p], g) /\ \A q \in Programs : q # p => graphs'[q] = graphs[q]
  BY <1>1
<1>4. graphs' \in [Programs -> Seq(GraphRevisions)]
  BY <1>1, <1>2
<1>5. <<p, n + 1>> \in Candidates
  BY <1>1, <1>2, CandidateShown
<1> HIDE DEF n
<1>6. \A c \in Candidates : c = <<c[1], c[2]>> /\ c[1] \in Programs /\ c[2] \in Nat /\ c[2] > 0
  BY CandidateShown
<1>7. \A c \in Candidates : c[2] <= Len(graphs'[c[1]]) <=> c[2] <= Len(graphs[c[1]]) \/ c = <<p, n + 1>>
  <2> TAKE c \in Candidates
  <2>1. CASE c[1] # p
    BY <2>1, <1>3, <1>6
  <2>2. CASE c[1] = p
    BY <2>2, <1>2, <1>3, <1>6 DEF n
  <2> QED
    BY <2>1, <2>2
<1>8. Approved' = Approved \cup {<<p, n + 1>>} /\ <<p, n + 1>> \notin Approved
  <2>1. <<p, n + 1>> \notin Approved
    BY <1>2 DEF Approved, n
  <2> QED
    BY <2>1, <1>5, <1>7 DEF Approved
<1>9. ASSUME NEW c \in Approved
      PROVE  graphs'[c[1]][c[2]] = Graph(c)
  <2>1. c[1] \in Programs /\ c[2] \in Nat /\ c[2] > 0 /\ c[2] <= Len(graphs[c[1]])
    BY <1>6 DEF Approved
  <2>2. CASE c[1] = p
    BY <2>1, <2>2, <1>2, <1>3 DEF Graph, n
  <2>3. CASE c[1] # p
    BY <2>1, <2>3, <1>3 DEF Graph
  <2> QED
    BY <2>2, <2>3
<1>10. ASSUME NEW q \in Programs
       PROVE  Len(graphs'[q]) <= MaxGraphs[q] /\ (graphs[q] # <<>> => graphs'[q] # <<>>)
  <2>1. CASE q = p
    <3>1. Len(graphs'[q]) = n + 1 /\ n + 1 <= MaxGraphs[p] /\ Len(<<>>) = 0
      BY <2>1, <1>1, <1>2, <1>3, EmptySeq DEF n
    <3> QED
      BY <3>1, <2>1, <1>2
  <2>2. CASE q # p
    BY <2>2, <1>3 DEF PhasesOK
  <2> QED
    BY <2>1, <2>2
<1>11. graphs'[p] # <<>>
  BY <1>2, <1>3, EmptySeq
<1> QED
  BY <1>2, <1>3, <1>4, <1>5, <1>8, <1>9, <1>10, <1>11 DEF n

LEMMA ApproveGraphKeeps ==
  ASSUME Inv, NEW p \in Programs, NEW t \in Targets, NEW S \in SUBSET Approved, ApproveGraph(p, t, S)
  PROVE  Inv'
<1> DEFINE k == Len(targets[t])
           g == [policy |-> Len(policies), target |-> t, targetRevision |-> k, needs |-> S]
           new == <<p, Len(graphs[p]) + 1>>
<1>1. /\ graphs' = [graphs EXCEPT ![p] = Append(@, g)]
      /\ Len(graphs[p]) < MaxGraphs[p]
      /\ phase' = [phase EXCEPT ![p] = "approved"]
      /\ UNCHANGED <<sources, workflows, attention, policies, interviewed, targets, ref, opening, done, work>>
  BY DEF ApproveGraph, Superseded, lane
<1>2. /\ policies # <<>> /\ k > 0
      /\ \A c \in S : Target(c) = t /\ Graph(c).targetRevision = k
      /\ ReachesNot(p, S)
  BY DEF ApproveGraph, Pinnable
<1>3. /\ policies \in Seq(Policies) /\ Len(policies) \in DOMAIN policies /\ Len(policies) \in Nat
      /\ k \in DOMAIN targets[t] /\ k \in Nat
  BY <1>2, EmptySeq, LenProperties, RefType DEF Inv, TypeOK
<1>4. g \in GraphRevisions /\ g.policy = Len(policies) /\ g.target = t /\ g.targetRevision = k /\ g.needs = S
  BY <1>3 DEF GraphRevisions, Approved
<1> HIDE DEF g, k
<1>5. /\ graphs' \in [Programs -> Seq(GraphRevisions)]
      /\ new \in Candidates /\ new \notin Approved /\ Approved' = Approved \cup {new}
      /\ graphs'[p][Len(graphs[p]) + 1] = g
      /\ \A c \in Approved : graphs'[c[1]][c[2]] = Graph(c)
      /\ \A q \in Programs : Len(graphs'[q]) <= MaxGraphs[q] /\ (graphs[q] # <<>> => graphs'[q] # <<>>)
      /\ graphs'[p] # <<>>
  BY <1>1, <1>4, GraphAppended DEF Inv
<1>6. graphs'[new[1]][new[2]] = g /\ new[1] = p
  BY <1>5
<1> HIDE DEF new
<1>7. \A c \in Approved : Graph(c).needs \subseteq Approved
  BY ApprovedShown DEF Inv
<1>8. TypeOK'
  <2>1. ASSUME NEW c \in Approved'
        PROVE  /\ graphs'[c[1]][c[2]].policy \in DOMAIN policies
               /\ graphs'[c[1]][c[2]].needs \subseteq Approved'
               /\ graphs'[c[1]][c[2]].targetRevision \in DOMAIN targets[graphs'[c[1]][c[2]].target]
    <3>1. CASE c \in Approved
      BY <3>1, <1>5, <1>7 DEF Inv, TypeOK, Target
    <3>2. CASE c = new
      BY <3>2, <1>3, <1>4, <1>5, <1>6
    <3> QED
      BY <3>1, <3>2, <1>5
  <2>2. phase' \in [Programs -> Phases]
    BY <1>1 DEF Inv, TypeOK, Phases
  <2>3. (\A c \in Approved :
           /\ Graph(c).policy \in DOMAIN policies /\ Graph(c).needs \subseteq Approved
           /\ Graph(c).targetRevision \in DOMAIN targets[Target(c)])'
    BY <2>1, <1>1 DEF Graph, Target
  <2> QED
    BY <2>2, <2>3, <1>1, <1>5 DEF Inv, TypeOK
<1>9. PhasesOK'
  <2>1. phase \in [Programs -> Phases]
    BY DEF Inv, TypeOK
  <2> QED
    BY <2>1, <1>1, <1>5 DEF Inv, PhasesOK
<1>10. PinsOK'
  <2> SUFFICES ASSUME NEW c \in Approved', NEW d \in graphs'[c[1]][c[2]].needs
               PROVE  /\ graphs'[d[1]][d[2]].target = graphs'[c[1]][c[2]].target
                      /\ graphs'[d[1]][d[2]].targetRevision = graphs'[c[1]][c[2]].targetRevision
    BY DEF PinsOK, Graph, Target
  <2>1. CASE c \in Approved
    <3>1. d \in Graph(c).needs /\ d \in Approved
      BY <2>1, <1>5, <1>7
    <3> QED
      BY <3>1, <2>1, <1>5 DEF Inv, PinsOK, Target
  <2>2. CASE c = new
    <3>1. d \in S /\ d \in Approved
      BY <2>2, <1>4, <1>6
    <3> QED
      BY <3>1, <2>2, <1>2, <1>4, <1>5, <1>6 DEF Target
  <2> QED
    BY <2>1, <2>2, <1>5
<1>11. RefsOK'
  BY <1>1 DEF Inv, RefsOK
<1>12. WorkOK'
  <2> SUFFICES ASSUME NEW c \in Candidates, work[c].status # "none"
               PROVE  /\ c \in Approved'
                      /\ work[c].status \in Placed =>
                           /\ graphs'[c[1]][c[2]].needs \subseteq Contents(work[c].expected)
                           /\ Append(work[c].expected, c) \in sources
                      /\ work[c].status = "promoted" =>
                           c \in Contents(targets[graphs'[c[1]][c[2]].target][graphs'[c[1]][c[2]].targetRevision].head)
    BY <1>1 DEF WorkOK, Graph, Target, HeadFor, Rebased, Placed
  <2>1. c \in Approved
    BY DEF Inv, WorkOK
  <2> QED
    BY <2>1, <1>5 DEF Inv, WorkOK, HeadFor, Target, Rebased
<1>13. HeadsAreHistory'
  <2>1. ASSUME NEW c \in Candidates, work[c].status = "promoted"
        PROVE  IsPrefixOf(Append(work[c].expected, c), ref[graphs'[c[1]][c[2]].target])
    <3>1. c \in Approved
      BY <2>1 DEF Inv, WorkOK
    <3> QED
      BY <3>1, <2>1, <1>5 DEF Inv, HeadsAreHistory, In, Target, Rebased
  <2> QED
    BY <2>1, <1>1 DEF Inv, HeadsAreHistory, In, Graph, Target, Rebased
<1>14. NoProgramNeedsItself'
  <2>1. \A c \in Approved : /\ graphs[c[1]][c[2]].needs = graphs'[c[1]][c[2]].needs
                            /\ graphs[c[1]][c[2]].needs \subseteq Approved
    BY <1>5, <1>7 DEF Graph
  <2>2. ASSUME NEW T \in SUBSET Approved
        PROVE  ReachedIn(graphs', T) = ReachedIn(graphs, T)
    <3>1. PICK G, H, A : G = graphs /\ H = graphs' /\ A = Approved
      OBVIOUS
    <3>2. AgreeOn(G, H, A)
      BY <2>1, <3>1 DEF AgreeOn
    <3>3. T \subseteq A
      BY <3>1
    <3>4. ReachedIn(G, T) = ReachedIn(H, T)
      BY <3>2, <3>3, ReachedAlike
    <3> QED
      BY <3>1, <3>4
  <2>3. ASSUME NEW c \in Approved', NEW d \in ReachedIn(graphs', graphs'[c[1]][c[2]].needs)
        PROVE  d[1] # c[1]
    <3>1. CASE c \in Approved
      <4>1. graphs'[c[1]][c[2]].needs = graphs[c[1]][c[2]].needs /\ graphs[c[1]][c[2]].needs \subseteq Approved
        BY <3>1, <2>1
      <4>2. d \in ReachedIn(graphs, graphs[c[1]][c[2]].needs)
        BY <4>1, <2>2, <2>3
      <4>3. NoneNeedsItself(graphs) /\ c \in ApprovedIn(graphs)
        BY <3>1, NeedsShown DEF Inv
      <4> QED
        BY <4>2, <4>3 DEF NoneNeedsItself
    <3>2. CASE c = new
      <4>1. d \in ReachedIn(graphs', S)
        BY <3>2, <2>3, <1>4, <1>6
      <4>2. d \in Reached(S)
        BY <4>1, <2>2, NeedsShown
      <4>3. d[1] # p
        BY <4>2, <1>2 DEF ReachesNot
      <4> QED
        BY <4>3, <3>2, <1>6
    <3> QED
      BY <3>1, <3>2, <1>5
  <2>4. NoneNeedsItself(graphs')
    BY <2>3, NeedsShown DEF NoneNeedsItself
  <2> QED
    BY <2>4, NeedsShown
<1> QED
  BY <1>8, <1>9, <1>10, <1>11, <1>12, <1>13, <1>14 DEF Inv

-----------------------------------------------------------------------------
(* Refs and the revisions of targets.                                      *)

\* The refs move, those of targets with a revision only onwards.
LEMMA RefsMove ==
  ASSUME Inv, RefsOK', UNCHANGED <<plans, targets, phase, done, work>>,
         ref' \in [Targets -> sources \cup {Absent}], opening' \in [Targets -> sources \cup {Absent}],
         \A t \in Targets : targets[t] # <<>> =>
           \A g \in Sources : IsPrefixOf(g, ref[t]) => IsPrefixOf(g, ref'[t])
  PROVE  Inv'
<1>1. UNCHANGED <<sources, workflows, attention, policies, interviewed, graphs>>
  BY DEF plans
<1>2. TypeOK'
  BY <1>1 DEF Inv, TypeOK, Approved, Graph, Target
<1>3. PhasesOK' /\ PinsOK' /\ WorkOK'
  BY <1>1 DEF Inv, PhasesOK, PinsOK, WorkOK, Approved, Graph, Target, HeadFor, Rebased
<1>4. HeadsAreHistory'
  <2>1. ASSUME NEW t \in Targets, NEW n \in DOMAIN targets[t]
        PROVE  IsPrefixOf(targets[t][n].head, ref'[t])
    <3>1. targets[t] # <<>> /\ targets[t][n].head \in Sources
      BY RefType, EmptySeq DEF Inv
    <3> QED
      BY <3>1 DEF Inv, HeadsAreHistory
  <2>2. ASSUME NEW c \in In("promoted")
        PROVE  IsPrefixOf(Rebased(c), ref'[Target(c)])
    <3>1. c \in Candidates /\ c \in Approved
      BY DEF In, Inv, WorkOK
    <3>2. Target(c) \in Targets /\ targets[Target(c)] # <<>> /\ Rebased(c) \in Sources
      BY <3>1, ApprovedShown, WorkShown, EmptySeq DEF Inv
    <3> QED
      BY <3>2 DEF Inv, HeadsAreHistory
  <2> QED
    BY <2>1, <2>2, <1>1 DEF HeadsAreHistory, In, Rebased, Target, Graph
<1>5. NoProgramNeedsItself'
  BY <1>1, GraphsKept DEF Inv
<1> QED
  BY <1>2, <1>3, <1>4, <1>5 DEF Inv

LEMMA OpenTargetKeeps ==
  ASSUME Inv, NEW t \in Targets, NEW h \in sources, OpenTarget(t, h)
  PROVE  Inv'
<1>1. /\ ref' = [ref EXCEPT ![t] = h] /\ opening' = [opening EXCEPT ![t] = h]
      /\ ref[t] \in {Absent, h} /\ UNCHANGED <<plans, targets, phase, done, work>>
  BY DEF OpenTarget, CanInitialize
<1>2. ref \in [Targets -> sources \cup {Absent}] /\ opening \in [Targets -> sources \cup {Absent}]
      /\ h \in Sources
  BY DEF Inv, TypeOK
<1>3. h # Absent /\ IsPrefixOf(h, h)
  BY <1>2, SourceShown, PrefixOfItself
<1>4. \A s \in Targets : IF s = t THEN ref'[s] = h /\ opening'[s] = h
                                  ELSE ref'[s] = ref[s] /\ opening'[s] = opening[s]
  BY <1>1, <1>2
<1>5. RefsOK'
  BY <1>1, <1>3, <1>4 DEF Inv, RefsOK
<1>6. \A s \in Targets : targets[s] # <<>> => ref'[s] = ref[s]
  BY <1>1, <1>4 DEF Inv, RefsOK
<1>7. /\ ref' \in [Targets -> sources \cup {Absent}]
      /\ opening' \in [Targets -> sources \cup {Absent}]
  BY <1>1, <1>2
<1> QED
  BY <1>1, <1>5, <1>6, <1>7, RefsMove

LEMMA AbandonTargetKeeps ==
  ASSUME Inv, NEW t \in Targets, AbandonTarget(t)
  PROVE  Inv'
<1>1. opening' = [opening EXCEPT ![t] = Absent] /\ UNCHANGED <<plans, targets, ref, phase, done, work>>
  BY DEF AbandonTarget
<1>2. ref \in [Targets -> sources \cup {Absent}] /\ opening \in [Targets -> sources \cup {Absent}]
  BY DEF Inv, TypeOK
<1>3. RefsOK'
  BY <1>1, <1>2 DEF Inv, RefsOK
<1>4. opening' \in [Targets -> sources \cup {Absent}]
  BY <1>1, <1>2
<1> QED
  BY <1>1, <1>2, <1>3, <1>4, RefsMove

LEMMA MoveRefKeeps ==
  ASSUME Inv, NEW c \in Candidates, MoveRef(c)
  PROVE  Inv'
<1> DEFINE t == Target(c)
           h == Rebased(c)
<1>1. /\ work[c].status = "authorized" /\ ref[t] = work[c].expected /\ ref' = [ref EXCEPT ![t] = h]
      /\ UNCHANGED <<plans, targets, opening, phase, done, work>>
  BY DEF MoveRef, In, ExpectedCommit
<1>2. c \in Approved /\ h \in sources
  BY <1>1 DEF Inv, WorkOK, Placed
<1>3. t \in Targets /\ work[c].expected \in Sources /\ h \in Sources
  BY <1>2, ApprovedShown, WorkShown DEF Inv
<1>4. ref \in [Targets -> sources \cup {Absent}] /\ opening \in [Targets -> sources \cup {Absent}]
  BY DEF Inv, TypeOK
<1>5. \A g \in Sources : IsPrefixOf(g, ref[t]) => IsPrefixOf(g, h)
  BY <1>1, <1>3, OnTop DEF Rebased
<1> HIDE DEF t, h
<1>6. ref' \in [Targets -> sources \cup {Absent}]
  BY <1>1, <1>2, <1>4
<1>7. \A s \in Targets : IF s = t THEN ref'[s] = h ELSE ref'[s] = ref[s]
  BY <1>1, <1>4
<1>8. h # Absent
  BY <1>3, SourceShown
<1>9. \A s \in Targets : \A g \in Sources : IsPrefixOf(g, ref[s]) => IsPrefixOf(g, ref'[s])
  BY <1>5, <1>7
<1>10. RefsOK'
  <2> SUFFICES ASSUME NEW s \in Targets
               PROVE  /\ ref'[s] = Absent => targets[s] = <<>>
                      /\ opening[s] # Absent => ref'[s] # Absent /\ IsPrefixOf(opening[s], ref'[s])
    BY <1>1 DEF RefsOK
  <2>1. opening[s] # Absent => opening[s] \in Sources
    BY RefType DEF Inv
  <2> QED
    BY <2>1, <1>7, <1>8, <1>9 DEF Inv, RefsOK
<1> QED
  BY <1>1, <1>4, <1>6, <1>9, <1>10, RefsMove

LEMMA ApproveTargetKeeps ==
  ASSUME Inv, NEW t \in Targets, NEW l \in Lanes, ApproveTarget(t, l)
  PROVE  Inv'
<1> DEFINE k == Len(targets[t]) + 1
           r == [lane |-> l, head |-> opening[t]]
<1>1. /\ opening[t] # Absent /\ targets' = [targets EXCEPT ![t] = Append(@, r)]
      /\ opening' = [opening EXCEPT ![t] = Absent]
      /\ UNCHANGED <<plans, ref, phase, done, work>>
  BY DEF ApproveTarget
<1>2. UNCHANGED <<sources, workflows, attention, policies, interviewed, graphs, ref, phase, done, work>>
  BY <1>1 DEF plans
<1>3. opening[t] \in sources /\ opening[t] \in Sources /\ targets \in [Targets -> Seq(TargetRevisions)]
      /\ opening \in [Targets -> sources \cup {Absent}]
  BY <1>1, RefType DEF Inv, TypeOK
<1>4. r \in TargetRevisions /\ r.head = opening[t]
  BY <1>3 DEF TargetRevisions
<1> HIDE DEF r
<1>5. /\ Append(targets[t], r) \in Seq(TargetRevisions) /\ Len(Append(targets[t], r)) = k
      /\ (\A n \in 1..Len(targets[t]) : Append(targets[t], r)[n] = targets[t][n])
      /\ Append(targets[t], r)[k] = r
  BY <1>3, <1>4, AppendProperties
<1>6. /\ targets' \in [Targets -> Seq(TargetRevisions)] /\ targets'[t] = Append(targets[t], r)
      /\ \A s \in Targets : s # t => targets'[s] = targets[s]
  BY <1>1, <1>3, <1>5
<1>7. DOMAIN targets[t] = 1..Len(targets[t]) /\ Len(targets[t]) \in Nat /\ DOMAIN targets'[t] = 1..k
  BY <1>3, <1>5, <1>6, LenProperties
<1> HIDE DEF k
<1>8. /\ DOMAIN targets'[t] = DOMAIN targets[t] \cup {k}
      /\ (\A n \in DOMAIN targets[t] : targets'[t][n] = targets[t][n]) /\ targets'[t][k] = r
  BY <1>5, <1>6, <1>7 DEF k
<1>9. \A s \in Targets : /\ DOMAIN targets[s] \subseteq DOMAIN targets'[s]
                         /\ \A n \in DOMAIN targets[s] : targets'[s][n] = targets[s][n]
  BY <1>6, <1>8
<1>10. \A s \in Targets : \A n \in DOMAIN targets'[s] :
         n \in DOMAIN targets[s] \/ (s = t /\ targets'[s][n].head = opening[t])
  BY <1>4, <1>6, <1>8
<1>11. opening' \in [Targets -> sources \cup {Absent}]
       /\ \A s \in Targets : IF s = t THEN opening'[s] = Absent ELSE opening'[s] = opening[s]
  BY <1>1, <1>3
<1>12. \A c \in Approved : /\ Target(c) \in Targets /\ Graph(c).targetRevision \in DOMAIN targets[Target(c)]
                           /\ targets'[Target(c)][Graph(c).targetRevision] = targets[Target(c)][Graph(c).targetRevision]
  BY <1>9, ApprovedShown DEF Inv
<1>13. TypeOK'
  <2>1. \A s \in Targets : {targets'[s][n].head : n \in DOMAIN targets'[s]} \subseteq sources
    <3> SUFFICES ASSUME NEW s \in Targets, NEW n \in DOMAIN targets'[s]
                 PROVE  targets'[s][n].head \in sources
      OBVIOUS
    <3>1. n \in DOMAIN targets[s] => targets[s][n].head \in sources
      BY RefType DEF Inv
    <3> QED
      BY <3>1, <1>3, <1>9, <1>10
  <2>2. (\A c \in Approved :
           /\ Graph(c).policy \in DOMAIN policies /\ Graph(c).needs \subseteq Approved
           /\ Graph(c).targetRevision \in DOMAIN targets[Target(c)])'
    BY <1>2, <1>9, <1>12 DEF Inv, TypeOK, Approved, Graph, Target
  <2> QED
    BY <2>1, <2>2, <1>2, <1>6, <1>11 DEF Inv, TypeOK
<1>14. PhasesOK' /\ PinsOK'
  BY <1>2 DEF Inv, PhasesOK, PinsOK, Approved, Graph, Target
<1>15. RefsOK'
  <2>1. ref[t] # Absent
    BY <1>1 DEF Inv, RefsOK
  <2> QED
    BY <2>1, <1>2, <1>6, <1>11 DEF Inv, RefsOK
<1>16. WorkOK'
  BY <1>2, <1>12 DEF Inv, WorkOK, Approved, Graph, Target, HeadFor, Rebased, Placed
<1>17. HeadsAreHistory'
  <2>1. ASSUME NEW s \in Targets, NEW n \in DOMAIN targets'[s]
        PROVE  IsPrefixOf(targets'[s][n].head, ref[s])
    <3>1. CASE n \in DOMAIN targets[s]
      BY <3>1, <1>9 DEF Inv, HeadsAreHistory
    <3>2. CASE s = t /\ targets'[s][n].head = opening[t]
      BY <3>2, <1>1 DEF Inv, RefsOK
    <3> QED
      BY <3>1, <3>2, <1>10
  <2> QED
    BY <2>1, <1>2 DEF Inv, HeadsAreHistory, In, Rebased, Target, Graph
<1>18. NoProgramNeedsItself'
  BY <1>2, GraphsKept DEF Inv
<1> QED
  BY <1>13, <1>14, <1>15, <1>16, <1>17, <1>18 DEF Inv

LEMMA OpeningKeeps ==
  ASSUME Inv, NEW t \in Targets, Opening(t)
  PROVE  Inv'
BY OpenTargetKeeps, ApproveTargetKeeps, AbandonTargetKeeps DEF Opening

-----------------------------------------------------------------------------
(* Candidates.                                                             *)

\* A candidate takes a step before its promotion.
LEMMA CandidateMoves ==
  ASSUME Inv, NEW c \in Approved, NEW w \in Works, work' = [work EXCEPT ![c] = w],
         work[c].status # "promoted", w.status # "promoted",
         w.status \in Placed =>
           Graph(c).needs \subseteq Contents(w.expected) /\ Append(w.expected, c) \in sources',
         UNCHANGED <<workflows, attention, policies, interviewed, graphs, lane, phase, done>>,
         sources \subseteq sources', sources' \subseteq Sources
  PROVE  Inv'
<1>1. UNCHANGED <<targets, ref, opening>> /\ c \in Candidates /\ work \in [Candidates -> Works]
  BY DEF lane, Inv, TypeOK, Approved
<1>2. work' \in [Candidates -> Works] /\ work'[c] = w /\ \A d \in Candidates : d # c => work'[d] = work[d]
  BY <1>1
<1>3. TypeOK'
  BY <1>1, <1>2 DEF Inv, TypeOK, Approved, Graph, Target
<1>4. PhasesOK' /\ PinsOK' /\ RefsOK'
  BY <1>1 DEF Inv, PhasesOK, PinsOK, RefsOK, Approved, Graph, Target
<1>5. WorkOK'
  <2> SUFFICES ASSUME NEW d \in Candidates
               PROVE  /\ work'[d].status # "none" => d \in Approved
                      /\ work'[d].status \in Placed =>
                           Graph(d).needs \subseteq Contents(work'[d].expected) /\ Append(work'[d].expected, d) \in sources'
                      /\ work'[d].status = "promoted" => d \in Contents(HeadFor(d))
    BY <1>1 DEF WorkOK, Approved, Graph, Target, HeadFor, Rebased, Placed
  <2>1. CASE d = c
    BY <2>1, <1>2
  <2>2. CASE d # c
    BY <2>2, <1>2 DEF Inv, WorkOK, Rebased
  <2> QED
    BY <2>1, <2>2
<1>6. HeadsAreHistory'
  <2>1. \A d \in Candidates : work'[d].status = "promoted" => work'[d] = work[d]
    BY <1>2
  <2> QED
    BY <2>1, <1>1 DEF Inv, HeadsAreHistory, In, Rebased, Target, Graph
<1>7. NoProgramNeedsItself'
  BY GraphsKept DEF Inv
<1> QED
  BY <1>3, <1>4, <1>5, <1>6, <1>7 DEF Inv

LEMMA QueueCandidateKeeps ==
  ASSUME Inv, NEW p \in Programs, QueueCandidate(p)
  PROVE  Inv'
<1> DEFINE c == Current(p)
<1>1. PICK s \in {"pending", "refused"} : work' = [work EXCEPT ![c].status = s]
  BY DEF QueueCandidate
<1>2. /\ phase[p] = "integration_pending" /\ work[c].status = "none"
      /\ UNCHANGED <<plans, lane, phase, done>>
  BY DEF QueueCandidate
<1>3. c \in Approved
  <2>1. graphs[p] \in Seq(GraphRevisions) /\ graphs[p] # <<>> /\ Len(graphs[p]) <= MaxGraphs[p]
    BY <1>2 DEF Inv, TypeOK, PhasesOK
  <2>2. Len(graphs[p]) \in 1..MaxGraphs[p]
    BY <2>1, EmptySeq, LenProperties, PlanAssumption
  <2> QED
    BY <2>2, CandidateShown DEF Current, Approved
<1> HIDE DEF c
<1>4. PICK w : w = [work[c] EXCEPT !.status = s]
  OBVIOUS
<1>5. c \in Candidates /\ work[c] \in Works
  BY <1>3 DEF Inv, TypeOK, Approved
<1>6. w \in Works /\ w.status = s /\ work' = [work EXCEPT ![c] = w]
  BY <1>1, <1>4, <1>5 DEF Works
<1>7. UNCHANGED <<sources, workflows, attention, policies, interviewed, graphs, lane, phase, done>>
      /\ sources \subseteq Sources
  BY <1>2 DEF plans, Inv, TypeOK
<1> QED
  BY <1>2, <1>3, <1>6, <1>7, CandidateMoves DEF Placed

LEMMA PrepareKeeps ==
  ASSUME Inv, NEW c \in Candidates, Prepare(c)
  PROVE  Inv'
<1> DEFINE h == HeadFor(c)
           w == [status |-> "prepared", expected |-> h]
<1>1. /\ work[c].status = "pending" /\ work' = [work EXCEPT ![c] = w]
      /\ sources' = sources \cup {Append(h, c)}
      /\ UNCHANGED <<workflows, attention, policies, interviewed, graphs, lane, phase, done>>
  BY DEF Prepare, In
<1>2. c \in Approved
  BY <1>1 DEF Inv, WorkOK
<1>3. h \in Sources /\ Append(h, c) \in Sources
  BY <1>2, ApprovedShown, OnTop DEF Inv
<1>4. w \in Works /\ w.status = "prepared" /\ w.expected = h
  BY <1>3 DEF Works
<1>5. Graph(c).needs \subseteq Contents(h)
  <2> SUFFICES ASSUME NEW d \in Graph(c).needs
               PROVE  d \in Contents(h)
    OBVIOUS
  <2>1. d \in Candidates /\ work[d].status = "promoted"
    BY DEF Prepare, PrecursorsPromoted, In
  <2>2. d \in Contents(HeadFor(d))
    BY <2>1 DEF Inv, WorkOK
  <2>3. HeadFor(d) = h
    BY <1>2 DEF Inv, PinsOK, HeadFor
  <2> QED
    BY <2>2, <2>3
<1>6. sources \subseteq sources' /\ sources' \subseteq Sources /\ Append(h, c) \in sources'
  BY <1>1, <1>3 DEF Inv, TypeOK
<1> HIDE DEF w, h
<1> QED
  BY <1>1, <1>2, <1>4, <1>5, <1>6, CandidateMoves

LEMMA IntegrateKeeps ==
  ASSUME Inv, NEW c \in Candidates, Integrate(c)
  PROVE  Inv'
<1>1. /\ work[c].status = "prepared" /\ work' = [work EXCEPT ![c].status = "authorized"]
      /\ UNCHANGED <<plans, lane, phase, done>>
  BY DEF Integrate, In
<1>2. c \in Approved /\ Graph(c).needs \subseteq Contents(work[c].expected) /\ Rebased(c) \in sources
  BY <1>1 DEF Inv, WorkOK, Placed
<1>3. PICK w : w = [work[c] EXCEPT !.status = "authorized"]
  OBVIOUS
<1>4. work[c] \in Works
  BY DEF Inv, TypeOK
<1>5. /\ w \in Works /\ w.status = "authorized" /\ w.expected = work[c].expected
      /\ work' = [work EXCEPT ![c] = w]
  BY <1>1, <1>3, <1>4 DEF Works
<1>6. UNCHANGED <<sources, workflows, attention, policies, interviewed, graphs, lane, phase, done>>
      /\ sources \subseteq Sources
  BY <1>1 DEF plans, Inv, TypeOK
<1>7. Append(w.expected, c) \in sources'
  BY <1>2, <1>5, <1>6 DEF Rebased
<1> QED
  BY <1>1, <1>2, <1>5, <1>6, <1>7, CandidateMoves

LEMMA RecordPromotionKeeps ==
  ASSUME Inv, NEW c \in Candidates, RecordPromotion(c)
  PROVE  Inv'
<1> DEFINE t == Target(c)
           r == Graph(c).targetRevision
           h == Rebased(c)
<1>1. /\ work[c].status = "authorized" /\ ref[t] = h /\ HeadFor(c) = work[c].expected
      /\ targets' = [targets EXCEPT ![t][r].head = h]
      /\ work' = [work EXCEPT ![c].status = "promoted"]
      /\ phase' = [phase EXCEPT ![c[1]] = "completed"]
      /\ UNCHANGED <<sources, workflows, attention, policies, interviewed, graphs, ref, opening, done>>
  BY DEF RecordPromotion, In, plans
<1>2. c \in Approved /\ h \in sources /\ Graph(c).needs \subseteq Contents(work[c].expected)
  BY <1>1 DEF Inv, WorkOK, Placed
<1>3. /\ t \in Targets /\ r \in 1..Len(targets[t]) /\ r \in DOMAIN targets[t]
      /\ targets[t] \in Seq(TargetRevisions) /\ HeadFor(c) \in Sources /\ h \in Sources
  BY <1>2, ApprovedShown, WorkShown DEF Inv
<1>4. Contents(h) = Contents(HeadFor(c)) \cup {c}
  BY <1>1, <1>3, OnTop DEF Rebased
<1>5. c[1] \in Programs
  BY CandidateShown
<1>6. targets \in [Targets -> Seq(TargetRevisions)] /\ work \in [Candidates -> Works] /\ phase \in [Programs -> Phases]
  BY DEF Inv, TypeOK
<1>7. /\ work' \in [Candidates -> Works] /\ work'[c].status = "promoted"
      /\ \A d \in Candidates : work'[d].expected = work[d].expected /\ (d # c => work'[d] = work[d])
  BY <1>1, <1>6 DEF Works
<1>8. phase' \in [Programs -> Phases] /\ \A p \in Programs : phase'[p] \in {phase[p], "completed"}
  BY <1>1, <1>5, <1>6 DEF Phases
<1>9. HeadFor(c) = targets[t][r].head
  BY DEF HeadFor
<1>10. \A d \in Candidates : Rebased(d) = Append(work[d].expected, d)
  BY DEF Rebased
<1> HIDE DEF t, r, h
<1>11. targets[t][r] \in TargetRevisions /\ [targets[t][r] EXCEPT !.head = h] \in TargetRevisions
       /\ [targets[t][r] EXCEPT !.head = h].head = h
  <2>1. targets[t][r] \in TargetRevisions
    BY <1>3, ElementOfSeq
  <2> QED
    BY <2>1, <1>3 DEF TargetRevisions
<1>12. /\ targets' \in [Targets -> Seq(TargetRevisions)]
       /\ \A s \in Targets : DOMAIN targets'[s] = DOMAIN targets[s]
       /\ \A s \in Targets : \A n \in DOMAIN targets[s] :
            targets'[s][n].head = IF s = t /\ n = r THEN h ELSE targets[s][n].head
  <2> DEFINE new == [targets[t][r] EXCEPT !.head = h]
             revised == [targets[t] EXCEPT ![r] = new]
  <2>1. targets' = [targets EXCEPT ![t] = revised]
    BY <1>1
  <2>2. targets[t] \in [1..Len(targets[t]) -> TargetRevisions]
    BY <1>3
  <2> HIDE DEF new
  <2>3. new \in TargetRevisions /\ new.head = h
    BY <1>11 DEF new
  <2>4. /\ revised \in [1..Len(targets[t]) -> TargetRevisions] /\ DOMAIN revised = DOMAIN targets[t]
        /\ revised[r] = new /\ \A n \in DOMAIN targets[t] : n # r => revised[n] = targets[t][n]
    BY <1>3, <2>2, <2>3
  <2> HIDE DEF revised
  <2>5. revised \in Seq(TargetRevisions)
    BY <1>3, <2>4
  <2>6. \A s \in Targets : targets'[s] = IF s = t THEN revised ELSE targets[s]
    BY <2>1, <1>6
  <2>7. targets' \in [Targets -> Seq(TargetRevisions)]
    BY <2>1, <2>5, <1>6
  <2> QED
    BY <2>3, <2>4, <2>6, <2>7
<1>13. \A d \in Approved :
         /\ Target(d) \in Targets /\ Graph(d).targetRevision \in DOMAIN targets[Target(d)]
         /\ targets'[Target(d)][Graph(d).targetRevision].head
              = IF Target(d) = t /\ Graph(d).targetRevision = r THEN h ELSE HeadFor(d)
  BY <1>12, ApprovedShown DEF Inv, HeadFor
<1>14. TypeOK'
  <2>1. \A s \in Targets : {targets'[s][n].head : n \in DOMAIN targets'[s]} \subseteq sources
    BY <1>2, <1>12, RefType DEF Inv
  <2>2. (\A d \in Approved :
           /\ Graph(d).policy \in DOMAIN policies /\ Graph(d).needs \subseteq Approved
           /\ Graph(d).targetRevision \in DOMAIN targets[Target(d)])'
    BY <1>1, <1>12, <1>13 DEF Inv, TypeOK, Approved, Graph, Target
  <2> QED
    BY <2>1, <2>2, <1>1, <1>7, <1>8, <1>12 DEF Inv, TypeOK
<1>15. PhasesOK'
  <2>1. \A p \in Programs : phase'[p] \in {"approved", "eligible", "running", "integration_pending"} => phase'[p] = phase[p]
    BY <1>8
  <2> QED
    BY <2>1, <1>1 DEF Inv, PhasesOK
<1>16. PinsOK'
  BY <1>1 DEF Inv, PinsOK, Approved, Graph, Target
<1>17. RefsOK'
  <2>1. ref[t] # Absent
    BY <1>1, <1>3, SourceShown
  <2>2. \A s \in Targets : s # t => targets'[s] = targets[s]
    BY <1>1, <1>6
  <2> QED
    BY <2>1, <2>2, <1>1 DEF Inv, RefsOK
<1>18. WorkOK'
  <2> SUFFICES ASSUME NEW d \in Candidates
               PROVE  /\ work'[d].status # "none" => d \in Approved
                      /\ work'[d].status \in Placed =>
                           Graph(d).needs \subseteq Contents(work[d].expected) /\ Append(work[d].expected, d) \in sources
                      /\ work'[d].status = "promoted" =>
                           d \in Contents(targets'[Target(d)][Graph(d).targetRevision].head)
    <3>1. Approved' = Approved /\ \A d \in Candidates : Graph(d)' = Graph(d)
      BY <1>1 DEF Approved, Graph
    <3>2. \A d \in Candidates : HeadFor(d)' = targets'[Target(d)][Graph(d).targetRevision].head
      BY <1>1 DEF HeadFor, Target, Graph
    <3>3. \A d \in Candidates : Rebased(d)' = Append(work[d].expected, d)
      BY <1>7 DEF Rebased
    <3> QED
      BY <3>1, <3>2, <3>3, <1>1, <1>7 DEF WorkOK, Placed
  <2>1. CASE d = c
    <3>1. targets'[Target(d)][Graph(d).targetRevision].head = h
      BY <2>1, <1>2, <1>13 DEF t, r
    <3>2. Append(work[d].expected, d) \in sources /\ d \in Contents(h)
      BY <2>1, <1>2, <1>4 DEF h, Rebased
    <3> QED
      BY <2>1, <3>1, <3>2, <1>2
  <2>2. CASE d # c
    <3>1. work'[d] = work[d]
      BY <2>2, <1>7
    <3>2. ASSUME work[d].status = "promoted"
          PROVE  d \in Contents(targets'[Target(d)][Graph(d).targetRevision].head)
      <4>1. d \in Approved /\ d \in Contents(HeadFor(d))
        BY <3>2 DEF Inv, WorkOK
      <4>2. CASE Target(d) = t /\ Graph(d).targetRevision = r
        <5>1. HeadFor(d) = HeadFor(c)
          BY <4>2, <1>9 DEF HeadFor
        <5> QED
          BY <5>1, <4>1, <4>2, <1>4, <1>13
      <4>3. CASE ~ (Target(d) = t /\ Graph(d).targetRevision = r)
        BY <4>1, <4>3, <1>13
      <4> QED
        BY <4>2, <4>3
    <3> QED
      BY <3>1, <3>2, <1>10 DEF Inv, WorkOK
  <2> QED
    BY <2>1, <2>2
<1>19. HeadsAreHistory'
  <2>1. IsPrefixOf(h, ref[t])
    BY <1>1, <1>3, PrefixOfItself
  <2>2. ASSUME NEW s \in Targets, NEW n \in DOMAIN targets[s]
        PROVE  IsPrefixOf(targets'[s][n].head, ref[s])
    BY <2>1, <1>12 DEF Inv, HeadsAreHistory
  <2>3. ASSUME NEW d \in Candidates, work'[d].status = "promoted"
        PROVE  IsPrefixOf(Append(work[d].expected, d), ref[Target(d)])
    <3>1. CASE d = c
      BY <3>1, <2>1 DEF h, t, Rebased
    <3>2. CASE d # c
      BY <3>2, <2>3, <1>7 DEF Inv, HeadsAreHistory, In, Rebased
    <3> QED
      BY <3>1, <3>2
  <2> QED
    BY <2>2, <2>3, <1>1, <1>7, <1>12 DEF HeadsAreHistory, In, Rebased, Target, Graph
<1>20. NoProgramNeedsItself'
  BY <1>1, GraphsKept DEF Inv
<1> QED
  BY <1>14, <1>15, <1>16, <1>17, <1>18, <1>19, <1>20 DEF Inv

-----------------------------------------------------------------------------
(* The specification.                                                      *)

LEMMA InitHolds == Init => Inv
<1> SUFFICES ASSUME Init
             PROVE  Inv
  OBVIOUS
<1>1. \A p \in Programs : graphs[p] = <<>> /\ Len(graphs[p]) = 0
  BY EmptySeq DEF Init
<1>2. Approved = {}
  BY <1>1, CandidateShown DEF Approved
<1>3. <<>> \in Sources
  BY EmptySeq DEF Sources
<1>4. TypeOK
  <2>1. /\ sources \subseteq Sources /\ workflows \in 0..MaxWorkflows
        /\ attention \in Seq(BOOLEAN) /\ policies \in Seq(Policies)
        /\ \A n \in DOMAIN policies : policies[n].attention \in DOMAIN attention
    BY EmptySeq, PlanAssumption DEF Init
  <2>2. /\ targets \in [Targets -> Seq(TargetRevisions)]
        /\ \A t \in Targets : {targets[t][n].head : n \in DOMAIN targets[t]} \subseteq sources
        /\ graphs \in [Programs -> Seq(GraphRevisions)]
    BY EmptySeq DEF Init
  <2>3. /\ ref \in [Targets -> sources \cup {Absent}] /\ opening \in [Targets -> sources \cup {Absent}]
        /\ interviewed \subseteq Programs /\ done \subseteq Programs
        /\ phase \in [Programs -> Phases] /\ work \in [Candidates -> Works]
    BY <1>3 DEF Init, Phases, Works
  <2> QED
    BY <2>1, <2>2, <2>3, <1>2 DEF TypeOK
<1>5. PhasesOK /\ PinsOK /\ RefsOK /\ WorkOK
  BY <1>1, <1>2, PlanAssumption DEF Init, PhasesOK, PinsOK, RefsOK, WorkOK, Placed
<1>6. HeadsAreHistory
  BY DEF Init, HeadsAreHistory, In
<1>7. NoProgramNeedsItself
  BY <1>2 DEF NoProgramNeedsItself
<1> QED
  BY <1>4, <1>5, <1>6, <1>7 DEF Inv

LEMMA NextHolds == Inv /\ [Next]_vars => Inv'
<1> SUFFICES ASSUME Inv, [Next]_vars
             PROVE  Inv'
  OBVIOUS
<1>1. CASE Registry
  BY <1>1, RegistryKeeps
<1>2. ASSUME NEW t \in Targets, Opening(t)
      PROVE  Inv'
  BY <1>2, OpeningKeeps
<1>3. ASSUME NEW p \in Programs, Program(p)
      PROVE  Inv'
  BY <1>3, ProgramMoves, InterviewKeeps, ApproveGraphKeeps, QueueCandidateKeeps DEF Program
<1>4. ASSUME NEW c \in Candidates, Integration(c)
      PROVE  Inv'
  BY <1>4, PrepareKeeps, IntegrateKeeps, MoveRefKeeps, RecordPromotionKeeps DEF Integration
<1>5. CASE UNCHANGED vars
  <2>1. UNCHANGED <<plans, lane, work, graphs, phase, done, sources, workflows, attention, policies, interviewed,
                    targets, ref, opening>>
    BY <1>5 DEF vars, plans, lane
  <2>2. TypeOK' /\ PhasesOK'
    BY <2>1 DEF Inv, TypeOK, PhasesOK, Approved, Graph, Target
  <2> QED
    BY <2>1, <2>2, PlanningKeeps
<1> QED
  BY <1>1, <1>2, <1>3, <1>4, <1>5 DEF Next

LEMMA InvHolds == Spec => []Inv
BY InitHolds, NextHolds, PTL DEF Spec

\* program-graph.approve: whatever graphs of whatever programs are revised, all
\* that is cited exists, and no program comes to need itself.
THEOREM PlanInvHolds == Spec => []PlanInv
<1>1. Inv => PlanInv
  BY DEF Inv, PlanInv
<1> QED
  BY <1>1, InvHolds, PTL

\* integration.prepare and integration.record-promotion: the heads of all
\* revisions of a target, and all promoted candidates, stay in the history of
\* the one ref they move.
THEOREM HeadsAreHistoryHolds == Spec => []HeadsAreHistory
<1>1. Inv => HeadsAreHistory
  BY DEF Inv
<1> QED
  BY <1>1, InvHolds, PTL

\* integration.prepare: a candidate is placed on a head with all that its graph
\* pins, whichever revisions came after.
THEOREM DependentsFollowHolds == Spec => []DependentsFollow
<1>1. Inv => DependentsFollow
  BY DEF Inv, WorkOK, DependentsFollow, In, Placed
<1> QED
  BY <1>1, InvHolds, PTL
=============================================================================
