------------------------ MODULE WorkflowExecutionProofs ------------------------
(***************************************************************************)
(* The graph that was accepted, certified and linked is one graph, all of  *)
(* its required nodes run, and the decision of a completed workflow tells  *)
(* the worst answer that the governance gave in it.                        *)
(*                                                                         *)
(* The properties speak of the last state.  What makes them inductive is   *)
(* that a definition is the normal form of a payload that was accepted,    *)
(* that an execution goes by what it read of it once, that the sessions    *)
(* linked are those of the plan up to the step worked at, and that every   *)
(* answer but ALLOW is among the results as soon as it is given.           *)
(***************************************************************************)
EXTENDS WorkflowExecution, TLAPS, FiniteSetTheorems, SequenceTheorems, WellFoundedInduction

-----------------------------------------------------------------------------
\* Sequences chosen from

\* A set of naturals that is not empty has a least element.
LEMMA LeastElement ==
    ASSUME NEW S \in SUBSET Nat, S # {}
    PROVE  \E x \in S : \A y \in S : x <= y
  <1> DEFINE less == OpToRel(<, Nat)
  <1>1. IsWellFoundedOn(less, Nat)
    BY NatLessThanWellFounded
  <1>2. \A x, y \in Nat : y < x => <<y, x>> \in less
    BY DEF OpToRel
  <1> HIDE DEF less
  <1>3. PICK x \in S : \A y \in S : ~(<<y, x>> \in less)
    BY <1>1, WFMin
  <1>4. \A y \in S : ~(y < x)
    BY <1>2, <1>3
  <1> QED BY <1>4

\* A bounded one has a greatest.
LEMMA GreatestElement ==
    ASSUME NEW m \in Nat, NEW S \in SUBSET (0 .. m), S # {}
    PROVE  \E x \in S : \A y \in S : y <= x
<1> DEFINE T == {m - x : x \in S}
<1>1. T \in SUBSET Nat /\ T # {}
  <2>1. \A x \in S : x \in 0 .. m /\ m - x \in Nat
    OBVIOUS
  <2> QED BY <2>1
<1>2. PICK t \in T : \A u \in T : t <= u
  BY <1>1, LeastElement
<1>3. PICK x \in S : t = m - x
  OBVIOUS
<1>4. ASSUME NEW y \in S PROVE y <= x
  <2>1. m - x <= m - y
    BY <1>2, <1>3
  <2> QED BY <2>1
<1> QED BY <1>4

\* How many of the places kept come before i.
Before(kept, i) == Cardinality({j \in kept : j < i})

\* Every place kept has its number, and every number up to theirs its place.
LEMMA PlaceFacts ==
    ASSUME NEW m \in Nat, NEW kept \in SUBSET (1 .. m)
    PROVE  /\ Cardinality(kept) \in Nat
           /\ \A n \in 1 .. Cardinality(kept) :
                 Place(kept, n) \in kept /\ Before(kept, Place(kept, n)) = n - 1
           /\ \A i \in kept : \E n \in 1 .. Cardinality(kept) : Place(kept, n) = i
<1> DEFINE K == Cardinality(kept)
<1>0. \A i \in kept : i \in Nat
  OBVIOUS
<1>1. IsFiniteSet(kept) /\ K \in Nat
  <2>1. IsFiniteSet(1 .. m)
    BY FS_Interval
  <2>2. IsFiniteSet(kept)
    BY <2>1, FS_Subset
  <2> QED BY <2>2, FS_CardinalityType
<1>2. ASSUME NEW i \in kept
      PROVE  /\ IsFiniteSet({j \in kept : j < i}) /\ Before(kept, i) \in 0 .. K - 1
             /\ \A h \in kept : h < i => Before(kept, h) < Before(kept, i)
  <2> DEFINE B(h) == {j \in kept : j < h}
  <2>1. ASSUME NEW h \in kept PROVE IsFiniteSet(B(h)) /\ Cardinality(B(h)) \in Nat
    <3>1. B(h) \in SUBSET kept
      OBVIOUS
    <3>2. IsFiniteSet(B(h))
      BY <1>1, <3>1, FS_Subset
    <3> QED BY <3>2, FS_CardinalityType
  <2>2. ASSUME NEW h \in kept PROVE Cardinality(B(h) \cup {h}) = Cardinality(B(h)) + 1
    BY <2>1, FS_AddElement
  <2>3. Cardinality(B(i)) + 1 <= K
    <3>1. B(i) \cup {i} \in SUBSET kept
      OBVIOUS
    <3>2. Cardinality(B(i) \cup {i}) <= K
      BY <1>1, <3>1, FS_Subset
    <3> QED BY <2>2, <3>2
  <2>4. ASSUME NEW h \in kept, h < i PROVE Cardinality(B(h)) < Cardinality(B(i))
    <3>1. B(h) \cup {h} \in SUBSET B(i)
      <4> SUFFICES ASSUME NEW j \in B(h) \cup {h} PROVE j \in kept /\ j < i
        OBVIOUS
      <4>1. j \in Nat /\ h \in Nat /\ i \in Nat /\ j \in kept /\ (j < h \/ j = h)
        BY <1>0
      <4> QED BY <2>4, <4>1
    <3>2. Cardinality(B(h) \cup {h}) <= Cardinality(B(i))
      BY <2>1, <3>1, FS_Subset
    <3> QED BY <2>1, <2>2, <3>2
  <2> QED BY <1>1, <2>1, <2>3, <2>4 DEF Before
<1>20. \A i \in kept : Before(kept, i) \in 0 .. K - 1 /\ Before(kept, i) \in Nat
  <2> SUFFICES ASSUME NEW i \in kept
               PROVE  Before(kept, i) \in 0 .. K - 1 /\ Before(kept, i) \in Nat
    OBVIOUS
  <2>1. Before(kept, i) \in 0 .. K - 1
    BY <1>2
  <2> QED BY <2>1
<1> HIDE DEF K
<1>3. \A h, i \in kept : Before(kept, h) = Before(kept, i) => h = i
  <2> SUFFICES ASSUME NEW h \in kept, NEW i \in kept, Before(kept, h) = Before(kept, i),
                      h # i
               PROVE  FALSE
    OBVIOUS
  <2>1. Before(kept, h) \in Int /\ Before(kept, i) \in Int
    BY <1>20
  <2>2. h < i \/ i < h
    BY <1>0
  <2>3. Before(kept, h) < Before(kept, i) \/ Before(kept, i) < Before(kept, h)
    BY <1>2, <2>2
  <2> QED BY <2>1, <2>3
<1>4. ASSUME NEW n \in 1 .. K PROVE \E i \in kept : Before(kept, i) = n - 1
  <2> DEFINE f == [i \in kept |-> Before(kept, i)]
  <2>1. f \in Injection(kept, 0 .. K - 1)
    BY <1>20, <1>3 DEF Injection, IsInjective
  <2>2. IsFiniteSet(0 .. K - 1) /\ Cardinality(0 .. K - 1) = K
    <3>1. 0 \in Int /\ K - 1 \in Int
      BY <1>1
    <3>2. /\ IsFiniteSet(0 .. K - 1)
          /\ Cardinality(0 .. K - 1) = IF 0 > K - 1 THEN 0 ELSE K - 1 - 0 + 1
      BY <3>1, FS_Interval
    <3> QED BY <1>1, <3>2
  <2> HIDE DEF f
  <2>3. f \in Surjection(kept, 0 .. K - 1)
    BY <2>1, <2>2, FS_Injection DEF K
  <2>4. n - 1 \in 0 .. K - 1
    BY <1>1
  <2>5. PICK i \in kept : f[i] = n - 1
    BY <2>3, <2>4 DEF Surjection
  <2> QED BY <2>5 DEF f
<1>5. ASSUME NEW n \in 1 .. K
      PROVE  Place(kept, n) \in kept /\ Before(kept, Place(kept, n)) = n - 1
  BY <1>4 DEF Place, Before
<1>6. ASSUME NEW i \in kept PROVE \E n \in 1 .. K : Place(kept, n) = i
  <2> DEFINE n == Before(kept, i) + 1
  <2>1. n \in 1 .. K /\ n - 1 = Before(kept, i)
    BY <1>1, <1>20
  <2>2. Place(kept, n) \in kept /\ Before(kept, Place(kept, n)) = n - 1
    BY <1>5, <2>1
  <2>3. Place(kept, n) = i
    BY <1>3, <2>1, <2>2
  <2> QED BY <2>1, <2>3
<1> QED BY <1>1, <1>5, <1>6 DEF K

\* What is chosen are the elements at the places kept, and all of them.
LEMMA ChosenFacts ==
    ASSUME NEW S, NEW s \in Seq(S), NEW kept \in SUBSET DOMAIN s
    PROVE  /\ Chosen(s, kept) \in Seq(S)
           /\ \A n \in DOMAIN Chosen(s, kept) : \E i \in kept : Chosen(s, kept)[n] = s[i]
           /\ \A i \in kept : \E n \in DOMAIN Chosen(s, kept) : Chosen(s, kept)[n] = s[i]
<1>1. Len(s) \in Nat /\ DOMAIN s = 1 .. Len(s)
  OBVIOUS
<1> DEFINE K == Cardinality(kept)
<1>2. /\ K \in Nat
      /\ \A n \in 1 .. K : Place(kept, n) \in kept
      /\ \A i \in kept : \E n \in 1 .. K : Place(kept, n) = i
  BY <1>1, PlaceFacts
<1>3. /\ DOMAIN Chosen(s, kept) = 1 .. K
      /\ \A n \in 1 .. K : Chosen(s, kept)[n] = s[Place(kept, n)]
  BY DEF Chosen
<1>4. Chosen(s, kept) \in Seq(S)
  <2>1. \A n \in 1 .. K : s[Place(kept, n)] \in S
    BY <1>1, <1>2
  <2>2. Chosen(s, kept) = [n \in 1 .. K |-> s[Place(kept, n)]]
    BY DEF Chosen
  <2> HIDE DEF K
  <2> QED BY <1>2, <2>1, <2>2
<1> HIDE DEF K
<1> QED BY <1>2, <1>3, <1>4

\* Whoever keeps all chooses the sequence itself.
LEMMA ChosenAll ==
    ASSUME NEW S, NEW s \in Seq(S)
    PROVE  Chosen(s, DOMAIN s) = s
<1> DEFINE m == Len(s)
<1>1. m \in Nat /\ DOMAIN s = 1 .. m
  OBVIOUS
<1>2. Cardinality(1 .. m) = m
  BY <1>1, FS_Interval
<1>3. ASSUME NEW n \in 1 .. m PROVE Place(1 .. m, n) = n
  <2>1. Place(1 .. m, n) \in 1 .. m /\ Before(1 .. m, Place(1 .. m, n)) = n - 1
    BY <1>1, <1>2, PlaceFacts
  <2>2. ASSUME NEW i \in 1 .. m PROVE Before(1 .. m, i) = i - 1
    <3>1. {j \in 1 .. m : j < i} = 1 .. (i - 1)
      BY <1>1
    <3>2. Cardinality(1 .. (i - 1)) = i - 1
      BY <1>1, FS_Interval
    <3> QED BY <3>1, <3>2 DEF Before
  <2> QED BY <1>1, <2>1, <2>2
<1>4. Chosen(s, DOMAIN s) = [n \in 1 .. m |-> s[n]]
  BY <1>1, <1>2, <1>3 DEF Chosen
<1> QED BY <1>1, <1>4

\* A sequence without places is empty.
LEMMA NoPlaces ==
    ASSUME NEW S, NEW s \in Seq(S), DOMAIN s = {}
    PROVE  s = <<>>
<1>1. Len(s) \in Nat /\ DOMAIN s = 1 .. Len(s)
  OBVIOUS
<1>2. Len(s) = 0
  <2> DEFINE n == Len(s)
  <2> HIDE DEF n
  <2>1. n # 0 => 1 \in 1 .. n
    BY <1>1 DEF n
  <2> QED BY <1>1, <2>1 DEF n
<1> QED BY <1>2, EmptySeq

\* The first of each element stays, and no element is there twice.
LEMMA OnceFacts ==
    ASSUME NEW S, NEW s \in Seq(S)
    PROVE  /\ Once(s) \in Seq(S) /\ ToSet(Once(s)) = ToSet(s)
           /\ FirstPlaces(Once(s)) = DOMAIN Once(s)
           /\ Once(s) = <<>> => s = <<>>
<1> DEFINE kept == FirstPlaces(s)
<1>1. Len(s) \in Nat /\ DOMAIN s = 1 .. Len(s) /\ kept \in SUBSET (1 .. Len(s))
  BY DEF FirstPlaces
<1>2. ASSUME NEW i \in DOMAIN s PROVE \E k \in kept : s[k] = s[i]
  <2> DEFINE same == {k \in DOMAIN s : s[k] = s[i]}
  <2>1. same \in SUBSET Nat /\ i \in same
    BY <1>1
  <2>2. PICK k \in same : \A j \in same : k <= j
    BY <2>1, LeastElement
  <2>3. ASSUME NEW j \in 1 .. k - 1 PROVE s[j] # s[k]
    <3>1. k \in 1 .. Len(s) /\ j \in 1 .. Len(s) /\ ~(k <= j)
      BY <1>1
    <3>2. j \notin same
      BY <2>2, <3>1
    <3> QED BY <1>1, <2>2, <3>1, <3>2
  <2> QED BY <2>2, <2>3 DEF FirstPlaces
<1>3. \A i, j \in kept : s[i] = s[j] => i = j
  <2> SUFFICES ASSUME NEW i \in kept, NEW j \in kept, s[i] = s[j], i # j PROVE FALSE
    OBVIOUS
  <2>1. i \in Nat /\ j \in Nat /\ i >= 1 /\ j >= 1
    BY <1>1
  <2>2. i \in 1 .. j - 1 \/ j \in 1 .. i - 1
    BY <2>1
  <2> QED BY <2>2 DEF FirstPlaces
<1>4. Once(s) = Chosen(s, kept)
  BY DEF Once
<1> HIDE DEF kept
<1>5. /\ Once(s) \in Seq(S)
      /\ \A n \in DOMAIN Once(s) : \E i \in kept : Once(s)[n] = s[i]
      /\ \A i \in kept : \E n \in DOMAIN Once(s) : Once(s)[n] = s[i]
  <2>1. kept \in SUBSET DOMAIN s
    BY <1>1
  <2>2. /\ Chosen(s, kept) \in Seq(S)
        /\ \A n \in DOMAIN Chosen(s, kept) : \E i \in kept : Chosen(s, kept)[n] = s[i]
        /\ \A i \in kept : \E n \in DOMAIN Chosen(s, kept) : Chosen(s, kept)[n] = s[i]
    BY <2>1, ChosenFacts
  <2> QED BY <1>4, <2>2
<1>6. ToSet(Once(s)) = ToSet(s)
  <2>1. \A i \in kept : i \in DOMAIN s
    BY <1>1
  <2>2. ASSUME NEW x \in ToSet(Once(s)) PROVE x \in ToSet(s)
    BY <1>5, <2>1 DEF ToSet
  <2>3. ASSUME NEW x \in ToSet(s) PROVE x \in ToSet(Once(s))
    <3>1. PICK i \in DOMAIN s : s[i] = x
      BY DEF ToSet
    <3>2. PICK k \in kept : s[k] = x
      BY <1>2, <3>1
    <3>3. PICK n \in DOMAIN Once(s) : Once(s)[n] = x
      BY <1>5, <3>2
    <3> QED BY <3>3 DEF ToSet
  <2> QED BY <2>2, <2>3
<1>7. FirstPlaces(Once(s)) = DOMAIN Once(s)
  <2> DEFINE K == Cardinality(kept)
  <2>1. /\ K \in Nat
        /\ \A n \in 1 .. K : Place(kept, n) \in kept /\ Before(kept, Place(kept, n)) = n - 1
    BY <1>1, PlaceFacts
  <2>2. DOMAIN Once(s) = 1 .. K /\ \A n \in 1 .. K : Once(s)[n] = s[Place(kept, n)]
    BY <1>4 DEF Chosen
  <2> HIDE DEF K
  <2>3. ASSUME NEW n \in 1 .. K, NEW m \in 1 .. n - 1 PROVE Once(s)[m] # Once(s)[n]
    <3>1. m \in 1 .. K /\ n - 1 # m - 1
      BY <2>1
    <3>2. Place(kept, m) # Place(kept, n)
      BY <2>1, <3>1
    <3> QED BY <1>3, <2>1, <2>2, <3>1, <3>2
  <2> QED BY <2>2, <2>3 DEF FirstPlaces
<1>8. ASSUME Once(s) = <<>> PROVE s = <<>>
  <2>1. DOMAIN Once(s) = {}
    BY <1>8
  <2>2. DOMAIN s = {}
    BY <1>2, <1>5, <2>1
  <2> QED BY <2>2, NoPlaces
<1> QED BY <1>5, <1>6, <1>7, <1>8

\* What is left of a sequence without one of its elements.
LEMMA RemoveAtFacts ==
    ASSUME NEW S, NEW s \in Seq(S), NEW k \in DOMAIN s
    PROVE  /\ RemoveAt(s, k) \in Seq(S)
           /\ \A n \in DOMAIN RemoveAt(s, k) : \E i \in DOMAIN s \ {k} : RemoveAt(s, k)[n] = s[i]
           /\ \A i \in DOMAIN s \ {k} : \E n \in DOMAIN RemoveAt(s, k) : RemoveAt(s, k)[n] = s[i]
<1> DEFINE m == Len(s)
           a == SubSeq(s, 1, k - 1)
           b == SubSeq(s, k + 1, m)
<1>1. m \in Nat /\ DOMAIN s = 1 .. m /\ k \in 1 .. m
  OBVIOUS
<1>2. a \in Seq(S) /\ Len(a) = k - 1 /\ \A i \in 1 .. k - 1 : a[i] = s[i]
  BY <1>1
<1>3. b \in Seq(S) /\ Len(b) = m - k /\ \A i \in 1 .. m - k : b[i] = s[k + i]
  BY <1>1
<1>4. RemoveAt(s, k) = a \o b
  BY DEF RemoveAt
<1> HIDE DEF a, b
<1>5. /\ a \o b \in Seq(S) /\ Len(a \o b) = m - 1
      /\ DOMAIN (a \o b) = 1 .. m - 1
  <2>1. a \o b \in Seq(S) /\ Len(a \o b) = Len(a) + Len(b)
    BY <1>2, <1>3, ConcatProperties
  <2>2. Len(a) + Len(b) = m - 1
    BY <1>1, <1>2, <1>3
  <2> QED BY <2>1, <2>2
<1>6. /\ \A n \in 1 .. k - 1 : (a \o b)[n] = s[n]
      /\ \A n \in k .. m - 1 : (a \o b)[n] = s[n + 1]
  <2>1. \A n \in 1 .. Len(a) + Len(b) :
           (a \o b)[n] = IF n <= Len(a) THEN a[n] ELSE b[n - Len(a)]
    BY <1>2, <1>3, ConcatProperties
  <2>2. ASSUME NEW n \in 1 .. k - 1 PROVE (a \o b)[n] = s[n]
    <3>1. n \in 1 .. Len(a) + Len(b) /\ n <= Len(a)
      BY <1>1, <1>2, <1>3
    <3> QED BY <1>2, <2>1, <3>1
  <2>3. ASSUME NEW n \in k .. m - 1 PROVE (a \o b)[n] = s[n + 1]
    <3>1. n \in 1 .. Len(a) + Len(b) /\ ~(n <= Len(a))
      BY <1>1, <1>2, <1>3
    <3>2. (a \o b)[n] = b[n - Len(a)]
      BY <2>1, <3>1
    <3>3. n - Len(a) = n - k + 1 /\ k + (n - k + 1) = n + 1 /\ n - k + 1 \in 1 .. m - k
      BY <1>1, <1>2
    <3> QED BY <1>3, <3>2, <3>3
  <2> QED BY <2>2, <2>3
<1>7. ASSUME NEW n \in 1 .. m - 1 PROVE \E i \in (1 .. m) \ {k} : (a \o b)[n] = s[i]
  <2>1. CASE n < k
    <3>1. n \in 1 .. k - 1 /\ n \in (1 .. m) \ {k}
      BY <1>1, <2>1
    <3> QED BY <1>6, <3>1
  <2>2. CASE ~(n < k)
    <3>1. n \in k .. m - 1 /\ n + 1 \in (1 .. m) \ {k}
      BY <1>1, <2>2
    <3> QED BY <1>6, <3>1
  <2> QED BY <2>1, <2>2
<1>8. ASSUME NEW i \in (1 .. m) \ {k} PROVE \E n \in 1 .. m - 1 : (a \o b)[n] = s[i]
  <2>1. CASE i < k
    <3>1. i \in 1 .. k - 1 /\ i \in 1 .. m - 1
      BY <1>1, <2>1
    <3> QED BY <1>6, <3>1
  <2>2. CASE ~(i < k)
    <3>1. i - 1 \in k .. m - 1 /\ i - 1 \in 1 .. m - 1 /\ (i - 1) + 1 = i
      BY <1>1, <2>2
    <3> QED BY <1>6, <3>1
  <2> QED BY <2>1, <2>2
<1> QED BY <1>1, <1>4, <1>5, <1>7, <1>8

-----------------------------------------------------------------------------
\* The graph of a definition

\* What POST /v1/workflow-definitions stores was accepted, and is stored normalised.
SavedFromPayload ==
    definition # NoDefinition => \E p \in Payloads : Accepted(p) /\ definition = Definition(p)

\* Whichever way the nodes are given, they are nodes.
LEMMA NodesInputType ==
    ASSUME NEW p \in Payloads
    PROVE  NodesInput(p) \in Seq(Node)
<1>1. p.nodes \in Seq(Node) /\ p.steps \in Seq(Step) /\ p.lead \in Agents
  BY WorkflowExecutionAssumption
<1>2. LeadNode(p) \in Node
  BY <1>1, WorkflowGraphAssumption
     DEF LeadNode, Node, NodeTypes, Policies, Keywords, None
<1>3. \A st \in Step : NodeFromStep(st) \in Node
  <2> SUFFICES ASSUME NEW st \in Step PROVE NodeFromStep(st) \in Node
    OBVIOUS
  <2>1. /\ st.id \in NodeIds /\ st.agent \in Agents \cup {None}
        /\ st.policy \in Policies \cup {None} /\ st.keywords \in Keywords
    BY DEF Step
  <2>2. "conditional" \in Policies
    BY DEF Policies
  <2> QED BY <2>1, <2>2 DEF NodeFromStep, Node
<1>4. [i \in DOMAIN p.steps |-> NodeFromStep(p.steps[i])] \in Seq(Node)
  <2>1. DOMAIN p.steps = 1 .. Len(p.steps) /\ Len(p.steps) \in Nat
    BY <1>1
  <2>2. \A i \in 1 .. Len(p.steps) : NodeFromStep(p.steps[i]) \in Node
    BY <1>1, <1>3, <2>1
  <2> QED BY <2>1, <2>2
<1>5. <<LeadNode(p)>> \in Seq(Node)
  BY <1>2
<1> QED BY <1>1, <1>4, <1>5 DEF NodesInput

\* Normalising a node keeps its id and its agent and gives it the agent's type.
LEMMA NormalizedNode ==
    ASSUME NEW input \in Seq(Node), NEW i \in DOMAIN input
    PROVE  /\ DOMAIN NormalizeNodes(input) = DOMAIN input
           /\ NormalizeNodes(input)[i].id = input[i].id
           /\ NormalizeNodes(input)[i].agent = input[i].agent
           /\ NormalizeNodes(input)[i].type = AgentType[input[i].agent]
<1>1. input[i] \in Node
  OBVIOUS
<1> QED BY <1>1 DEF NormalizeNodes, Node

\* The edges, drawn or given, or from the lead to every step.
LEMMA EdgesInputFacts ==
    ASSUME NEW p \in Payloads
    PROVE  /\ EdgesInput(p) \in Seq(Edge)
           /\ EdgesInput(p) = <<>> => p.visual = <<>> \/ (p.visual = Absent /\ p.steps = <<>>)
<1>1. /\ p.edges \in Seq(Edge) /\ p.visual \in Seq(Edge) \cup {Absent} /\ p.steps \in Seq(Step)
  BY WorkflowExecutionAssumption
<1> DEFINE fan == [i \in DOMAIN p.steps |-> <<LeadId, p.steps[i].id>>]
<1>2. DOMAIN p.steps = 1 .. Len(p.steps) /\ Len(p.steps) \in Nat
  BY <1>1
<1>3. fan \in Seq(Edge)
  <2>1. ASSUME NEW i \in 1 .. Len(p.steps) PROVE <<LeadId, p.steps[i].id>> \in Edge
    <3>1. p.steps[i] \in Step
      BY <1>1, <1>2
    <3> QED BY <3>1, WorkflowGraphAssumption DEF Edge, Step
  <2> QED BY <1>2, <2>1
<1>4. fan = <<>> => p.steps = <<>>
  <2>1. DOMAIN fan = DOMAIN p.steps
    OBVIOUS
  <2>2. fan = <<>> => DOMAIN p.steps = {}
    <3>1. DOMAIN << >> = {}
      OBVIOUS
    <3> QED BY <2>1, <3>1
  <2>3. DOMAIN p.steps = {} => Len(p.steps) = 0
    <3> DEFINE n == Len(p.steps)
    <3>1. n \in Nat /\ DOMAIN p.steps = 1 .. n
      BY <1>2
    <3> HIDE DEF n
    <3>2. n # 0 => 1 \in 1 .. n
      BY <3>1
    <3> QED BY <3>1, <3>2 DEF n
  <2> QED BY <1>1, <2>2, <2>3, EmptySeq
<1> HIDE DEF fan
<1>5. EdgesInput(p) = IF p.edges # <<>> THEN p.edges
                      ELSE IF p.visual # Absent THEN p.visual ELSE fan
  BY DEF EdgesInput, fan
<1> QED BY <1>1, <1>3, <1>4, <1>5

\* What is accepted passes the criteria of the evaluation.
LEMMA AcceptedIsSound ==
    ASSUME NEW p \in Payloads, Accepted(p)
    PROVE  /\ GraphDefined(Definition(p)) /\ TypesMatch(Definition(p))
           /\ InvalidEdges(Definition(p)) = {}
<1> DEFINE input == NodesInput(p)
           w == Definition(p)
<1>1. w.nodes = NormalizeNodes(input) /\ ToSet(w.edges) = ToSet(EdgesInput(p))
  BY EdgesInputFacts, OnceFacts DEF Definition
<1>2. input \in Seq(Node) /\ NodesAccepted(input) /\ EdgesAccepted(EdgesInput(p), Ids(input))
  BY NodesInputType DEF Accepted
<1>3. DOMAIN w.nodes = DOMAIN input
  BY <1>1 DEF NormalizeNodes
<1>4. \A i \in DOMAIN input :
        /\ w.nodes[i].id = input[i].id /\ w.nodes[i].agent = input[i].agent
        /\ w.nodes[i].type = AgentType[input[i].agent]
  BY <1>1, <1>2, NormalizedNode
<1> HIDE DEF w, input
<1>5. GraphDefined(w)
  BY <1>2, <1>3, <1>4 DEF GraphDefined, NodesAccepted
<1>6. TypesMatch(w)
  <2>1. ASSUME NEW i \in DOMAIN input PROVE AgentType[input[i].agent] \in NodeTypes
    <3>1. input[i] \in Node /\ input[i].agent # None
      BY <1>2 DEF NodesAccepted
    <3> QED BY <3>1, WorkflowGraphAssumption DEF Node
  <2> QED BY <1>3, <1>4, <2>1 DEF TypesMatch
<1>7. InvalidEdges(w) = {}
  <2>1. Ids(w.nodes) = Ids(input)
    BY <1>3, <1>4 DEF Ids
  <2>2. ASSUME NEW e \in ToSet(w.edges)
        PROVE  e[1] # e[2] /\ e[2] # LeadId /\ {e[1], e[2]} \subseteq Ids(w.nodes)
    <3>1. PICK i \in DOMAIN EdgesInput(p) : e = EdgesInput(p)[i]
      BY <1>1, <2>2 DEF ToSet
    <3> QED BY <1>2, <2>1, <3>1 DEF EdgesAccepted
  <2> QED BY <2>2 DEF InvalidEdges
<1> QED BY <1>5, <1>6, <1>7 DEF w

-----------------------------------------------------------------------------
\* What is saved

\* A definition as upsert_workflow_definition stores it: normalised, with a lead, an
\* agent in each node, ids that are each one node's, and edges between the nodes, each
\* once.
WellMade(w) ==
    /\ w.nodes \in Seq(StoredNode) /\ w.steps \in Seq(Step) /\ w.edges \in Seq(Edge)
    /\ w.visual \in Seq(Edge) \cup {Absent}
    /\ \A i \in DOMAIN w.nodes : w.nodes[i].agent # None
    /\ \A i, j \in DOMAIN w.nodes : w.nodes[i].id = w.nodes[j].id => i = j
    /\ GraphDefined(w) /\ InvalidEdges(w) = {} /\ FirstPlaces(w.edges) = DOMAIN w.edges
    /\ w.edges = <<>> => w.visual = <<>> \/ (w.visual = Absent /\ w.steps = <<>>)

LEMMA DefaultPolicyType == \A type : DefaultPolicy(type) \in Policies
  BY Zenon DEF DefaultPolicy, Policies

\* A node is stored with an agent, its type and a policy.
LEMMA NormalizedType ==
    ASSUME NEW input \in Seq(Node), NodesAccepted(input)
    PROVE  NormalizeNodes(input) \in Seq(StoredNode)
<1>1. ASSUME NEW i \in DOMAIN input PROVE NormalizeNodes(input)[i] \in StoredNode
  <2>1. /\ input[i] \in Node /\ input[i].agent # None
    BY DEF NodesAccepted
  <2>2. input[i].agent \in Agents
    BY <2>1 DEF Node
  <2> DEFINE type == AgentType[input[i].agent]
             policy == IF input[i].policy = None THEN DefaultPolicy(type) ELSE input[i].policy
  <2>3. type \in NodeTypes
    BY <2>2, WorkflowGraphAssumption
  <2>4. policy \in Policies
    BY <2>1, DefaultPolicyType DEF Node
  <2>5. NormalizeNodes(input)[i] = [input[i] EXCEPT !.type = type, !.policy = policy]
    BY <2>1 DEF NormalizeNodes, Node
  <2> HIDE DEF type, policy
  <2> QED BY <2>1, <2>2, <2>3, <2>4, <2>5 DEF Node, StoredNode
<1>2. Len(input) \in Nat /\ DOMAIN input = 1 .. Len(input)
  OBVIOUS
<1>3. DOMAIN NormalizeNodes(input) = 1 .. Len(input)
  BY <1>2 DEF NormalizeNodes
<1>4. NormalizeNodes(input) = [i \in 1 .. Len(input) |-> NormalizeNodes(input)[i]]
  BY <1>2 DEF NormalizeNodes
<1> DEFINE normal(i) == NormalizeNodes(input)[i]
<1>5. \A i \in 1 .. Len(input) : normal(i) \in StoredNode
  BY <1>1, <1>2
<1>6. [i \in 1 .. Len(input) |-> normal(i)] \in Seq(StoredNode)
  <2> HIDE DEF normal
  <2> QED BY <1>2, <1>5
<1> QED BY <1>4, <1>6

LEMMA SavedIsWellMade ==
    ASSUME NEW p \in Payloads, Accepted(p)
    PROVE  WellMade(Definition(p))
<1> DEFINE input == NodesInput(p)
           w == Definition(p)
<1>1. /\ w.nodes = NormalizeNodes(input) /\ w.edges = Once(EdgesInput(p)) /\ w.steps = p.steps
      /\ w.visual = p.visual
  BY DEF Definition
<1>2. input \in Seq(Node) /\ NodesAccepted(input)
  BY NodesInputType DEF Accepted
<1>20. w.nodes \in Seq(StoredNode)
  BY <1>1, <1>2, NormalizedType
<1>21. DOMAIN w.nodes = DOMAIN input
  BY <1>1 DEF NormalizeNodes
<1>4. GraphDefined(w) /\ InvalidEdges(w) = {}
  BY AcceptedIsSound
<1>5. p.steps \in Seq(Step) /\ p.visual \in Seq(Edge) \cup {Absent}
  BY WorkflowExecutionAssumption
<1>6. /\ w.edges \in Seq(Edge) /\ FirstPlaces(w.edges) = DOMAIN w.edges
      /\ w.edges = <<>> => w.visual = <<>> \/ (w.visual = Absent /\ w.steps = <<>>)
  BY <1>1, EdgesInputFacts, OnceFacts
<1> HIDE DEF w, input
<1>3. \A i \in DOMAIN input : w.nodes[i].id = input[i].id /\ w.nodes[i].agent = input[i].agent
  BY <1>1, <1>2, NormalizedNode
<1>7. /\ \A i \in DOMAIN w.nodes : w.nodes[i].agent # None
      /\ \A i, j \in DOMAIN w.nodes : w.nodes[i].id = w.nodes[j].id => i = j
  BY <1>2, <1>21, <1>3 DEF NodesAccepted
<1>8. WellMade(w)
  BY <1>1, <1>20, <1>4, <1>5, <1>6, <1>7 DEF WellMade
<1> QED BY <1>8 DEF w

-----------------------------------------------------------------------------
\* What an execution reads

\* The first lead is a node.
LEMMA ManifestLeadIs ==
    ASSUME NEW w, WellMade(w)
    PROVE  ManifestLead(w) \in DOMAIN w.nodes /\ w.nodes[ManifestLead(w)].type = "lead_agent"
<1> DEFINE leads == {i \in DOMAIN w.nodes : w.nodes[i].type = "lead_agent"}
<1>1. w.nodes \in Seq(StoredNode) /\ DOMAIN w.nodes = 1 .. Len(w.nodes) /\ Len(w.nodes) \in Nat
  BY DEF WellMade
<1>2. leads # {} /\ leads \in SUBSET Nat
  BY <1>1 DEF WellMade, GraphDefined
<1>3. PICK i \in leads : \A j \in leads : i <= j
  BY <1>2, LeastElement
<1>4. ASSUME NEW j \in 1 .. i - 1 PROVE w.nodes[j].type # "lead_agent"
  <2>1. j \in DOMAIN w.nodes /\ i \in Nat /\ j \in Nat /\ ~(i <= j)
    BY <1>1
  <2> QED BY <1>3, <2>1
<1>5. /\ i \in DOMAIN w.nodes /\ w.nodes[i].type = "lead_agent"
      /\ \A j \in 1 .. i - 1 : w.nodes[j].type # "lead_agent"
  BY <1>4
<1> QED BY <1>5 DEF ManifestLead

\* What a step does not say its node does: it stays a step with its id.
LEMMA EnrichedStep ==
    ASSUME NEW w, WellMade(w), NEW s \in Step
    PROVE  Enriched(w, s) \in Step /\ Enriched(w, s).id = s.id
<1>1. /\ s.id \in NodeIds /\ s.agent \in Agents \cup {None} /\ s.policy \in Policies \cup {None}
      /\ s.keywords \in Keywords
  BY DEF Step
<1>2. "conditional" \in Policies
  BY DEF Policies
<1>3. CASE StepNode(w, s.id) = {}
  <2> DEFINE policy == IF s.policy = None THEN "conditional" ELSE s.policy
  <2>1. Enriched(w, s) = [s EXCEPT !.policy = policy]
    BY <1>3 DEF Enriched, Step
  <2>2. policy \in Policies \cup {None}
    BY <1>1, <1>2
  <2> HIDE DEF policy
  <2> QED BY <2>1, <2>2 DEF Step
<1>4. CASE StepNode(w, s.id) # {}
  <2> DEFINE node == CHOOSE n \in StepNode(w, s.id) : TRUE
             agent == IF s.agent = None THEN node.agent ELSE s.agent
             policy == IF s.policy = None THEN node.policy ELSE s.policy
             keywords == IF s.keywords = None THEN node.keywords ELSE s.keywords
  <2>1. node \in StepNode(w, s.id)
    BY <1>4
  <2>2. node \in StoredNode
    BY <2>1 DEF StepNode, WellMade
  <2>3. agent \in Agents \cup {None} /\ policy \in Policies \cup {None} /\ keywords \in Keywords
    BY <1>1, <2>2 DEF StoredNode
  <2>4. Enriched(w, s) = [s EXCEPT !.agent = agent, !.policy = policy, !.keywords = keywords]
    BY <1>4 DEF Enriched, Step
  <2> HIDE DEF agent, policy, keywords
  <2> QED BY <2>3, <2>4 DEF Step
<1> QED BY <1>3, <1>4

\* The steps are steps; the definition's keep their ids, and the manifest's are those
\* of all nodes but the lead.
LEMMA StepsFacts ==
    ASSUME NEW w, WellMade(w)
    PROVE  /\ \A path \in Paths : Steps(w, path) \in Seq(Step)
           /\ DOMAIN Steps(w, "definition") = DOMAIN w.steps
           /\ \A i \in DOMAIN w.steps : Steps(w, "definition")[i] = Enriched(w, w.steps[i])
           /\ \A i \in DOMAIN w.nodes \ {ManifestLead(w)} :
                 \E n \in DOMAIN Steps(w, "manifest") :
                    Steps(w, "manifest")[n] = ManifestStep(w.nodes[i])
           /\ \A n \in DOMAIN Steps(w, "manifest") :
                 \E i \in DOMAIN w.nodes \ {ManifestLead(w)} :
                    Steps(w, "manifest")[n] = ManifestStep(w.nodes[i])
<1>1. /\ w.steps \in Seq(Step) /\ Len(w.steps) \in Nat /\ DOMAIN w.steps = 1 .. Len(w.steps)
      /\ w.nodes \in Seq(StoredNode)
  BY DEF WellMade
<1>2. Steps(w, "definition") = [i \in DOMAIN w.steps |-> Enriched(w, w.steps[i])]
  BY DEF Steps
<1>3. Steps(w, "definition") \in Seq(Step)
  <2> DEFINE enriched(i) == Enriched(w, w.steps[i])
  <2>1. \A i \in 1 .. Len(w.steps) : enriched(i) \in Step
    BY <1>1, EnrichedStep
  <2>2. [i \in 1 .. Len(w.steps) |-> enriched(i)] \in Seq(Step)
    <3> HIDE DEF enriched
    <3> QED BY <1>1, <2>1
  <2> QED BY <1>1, <1>2, <2>2
<1> DEFINE lead == ManifestLead(w)
           nodes == w.nodes
           rest == RemoveAt(nodes, lead)
<1>4. /\ rest \in Seq(StoredNode)
      /\ \A i \in DOMAIN nodes \ {lead} : \E n \in DOMAIN rest : rest[n] = nodes[i]
      /\ \A n \in DOMAIN rest : \E i \in DOMAIN nodes \ {lead} : rest[n] = nodes[i]
  <2>1. nodes \in Seq(StoredNode) /\ lead \in DOMAIN nodes
    BY <1>1, ManifestLeadIs
  <2> HIDE DEF nodes, lead
  <2> QED BY <2>1, RemoveAtFacts
<1> HIDE DEF rest
<1>5. Steps(w, "manifest") = [i \in DOMAIN rest |-> ManifestStep(rest[i])]
  BY DEF Steps, rest
<1>6. Len(rest) \in Nat /\ DOMAIN rest = 1 .. Len(rest)
  BY <1>4
<1>7. \A n \in StoredNode : ManifestStep(n) \in Step
  <2> SUFFICES ASSUME NEW n \in StoredNode PROVE ManifestStep(n) \in Step
    OBVIOUS
  <2>1. n.id \in NodeIds /\ n.agent \in Agents /\ n.tool \in BOOLEAN
    BY DEF StoredNode
  <2> QED BY <2>1 DEF ManifestStep, Step, Policies, Keywords
<1>8. Steps(w, "manifest") \in Seq(Step)
  <2> DEFINE step(i) == ManifestStep(rest[i])
  <2>1. \A i \in 1 .. Len(rest) : step(i) \in Step
    BY <1>4, <1>6, <1>7
  <2>2. [i \in 1 .. Len(rest) |-> step(i)] \in Seq(Step)
    <3> HIDE DEF step
    <3> QED BY <1>6, <2>1
  <2> QED BY <1>5, <1>6, <2>2
<1>9. \A i \in DOMAIN w.nodes \ {ManifestLead(w)} :
        \E n \in DOMAIN Steps(w, "manifest") : Steps(w, "manifest")[n] = ManifestStep(w.nodes[i])
  BY <1>4, <1>5
<1>10. \A n \in DOMAIN Steps(w, "manifest") :
         \E i \in DOMAIN w.nodes \ {ManifestLead(w)} :
            Steps(w, "manifest")[n] = ManifestStep(w.nodes[i])
  BY <1>4, <1>5
<1> QED BY <1>2, <1>3, <1>8, <1>9, <1>10 DEF Paths

\* The edges an execution goes by are edges that were saved, those from the lead
\* aside, and all of those between steps it knows.
LEMMA ConnectionsFacts ==
    ASSUME NEW w, WellMade(w), NEW path \in Paths
    PROVE  /\ Connections(w, path) \in Seq(Edge)
           /\ \A i \in DOMAIN Connections(w, path) :
                 Connections(w, path)[i][1] # LeadId => Connections(w, path)[i] \in ToSet(w.edges)
           /\ \A e \in ToSet(w.edges) :
                 {e[1], e[2]} \subseteq {LeadId} \cup Ids(Steps(w, path)) =>
                    \E i \in DOMAIN Connections(w, path) : Connections(w, path)[i] = e
<1> DEFINE steps == Steps(w, path)
           known == {LeadId} \cup Ids(steps)
           fan == [i \in DOMAIN steps |-> <<LeadId, steps[i].id>>]
<1>1. w.edges \in Seq(Edge) /\ InvalidEdges(w) = {} /\ w.visual \in Seq(Edge) \cup {Absent}
  BY DEF WellMade
<1>2. steps \in Seq(Step) /\ Len(steps) \in Nat /\ DOMAIN steps = 1 .. Len(steps)
  BY StepsFacts
<1>3. Connections(w, path) = IF w.edges # <<>> THEN Chosen(w.edges, Valid(w.edges, known))
                             ELSE IF w.visual # Absent THEN Chosen(w.visual, Valid(w.visual, known))
                             ELSE Once(fan)
  BY DEF Connections
<1>4. fan \in Seq(Edge) /\ \A i \in DOMAIN fan : fan[i][1] = LeadId
  <2>1. ASSUME NEW i \in 1 .. Len(steps) PROVE <<LeadId, steps[i].id>> \in Edge
    <3>1. steps[i] \in Step
      BY <1>2
    <3> QED BY <3>1, WorkflowGraphAssumption DEF Edge, Step
  <2> QED BY <1>2, <2>1
<1> HIDE DEF steps, known, fan
<1>5. CASE w.edges # <<>>
  <2> DEFINE kept == Valid(w.edges, known)
  <2>1. kept \in SUBSET DOMAIN w.edges /\ Connections(w, path) = Chosen(w.edges, kept)
    BY <1>3, <1>5 DEF Valid, FirstPlaces
  <2>2. ASSUME NEW i \in DOMAIN w.edges, w.edges[i][1] \in known, w.edges[i][2] \in known
        PROVE  i \in kept
    <3>1. w.edges[i] \in ToSet(w.edges)
      BY DEF ToSet
    <3>2. w.edges[i][1] # w.edges[i][2] /\ w.edges[i][2] # LeadId
      BY <1>1, <3>1 DEF InvalidEdges
    <3>3. i \in FirstPlaces(w.edges)
      BY DEF WellMade
    <3> QED BY <2>2, <3>2, <3>3 DEF Valid
  <2> HIDE DEF kept
  <2>3. /\ Connections(w, path) \in Seq(Edge)
        /\ \A n \in DOMAIN Connections(w, path) :
              \E i \in kept : Connections(w, path)[n] = w.edges[i]
        /\ \A i \in kept : \E n \in DOMAIN Connections(w, path) : Connections(w, path)[n] = w.edges[i]
    BY <1>1, <2>1, ChosenFacts
  <2>4. \A n \in DOMAIN Connections(w, path) : Connections(w, path)[n] \in ToSet(w.edges)
    BY <2>1, <2>3 DEF ToSet
  <2>5. ASSUME NEW e \in ToSet(w.edges), {e[1], e[2]} \subseteq known
        PROVE  \E n \in DOMAIN Connections(w, path) : Connections(w, path)[n] = e
    <3>1. PICK i \in DOMAIN w.edges : w.edges[i] = e
      BY DEF ToSet
    <3> QED BY <2>2, <2>3, <2>5, <3>1
  <2> QED BY <2>3, <2>4, <2>5 DEF known, steps
<1>6. CASE w.edges = <<>>
  <2>1. ToSet(w.edges) = {}
    BY <1>6 DEF ToSet
  <2>2. CASE w.visual = <<>> /\ w.visual # Absent
    <3> DEFINE drawn == w.visual
               kept == Valid(drawn, known)
    <3>1. kept = {} /\ Connections(w, path) = Chosen(drawn, kept)
      BY <1>3, <1>6, <2>2 DEF Valid, FirstPlaces
    <3>2. drawn \in Seq(Edge) /\ kept \in SUBSET DOMAIN drawn
      BY <2>2, <3>1
    <3> HIDE DEF kept, drawn
    <3>3. /\ Chosen(drawn, kept) \in Seq(Edge)
          /\ \A n \in DOMAIN Chosen(drawn, kept) :
                \E i \in kept : Chosen(drawn, kept)[n] = drawn[i]
      BY <3>2, ChosenFacts
    <3> QED BY <2>1, <3>1, <3>3
  <2>3. CASE w.visual = Absent
    <3>1. Connections(w, path) = Once(fan)
      BY <1>3, <1>6, <2>3
    <3>2. Once(fan) \in Seq(Edge) /\ ToSet(Once(fan)) = ToSet(fan)
      BY <1>4, OnceFacts
    <3>3. \A i \in DOMAIN Once(fan) : Once(fan)[i] \in ToSet(fan)
      BY <3>2 DEF ToSet
    <3>4. \A e \in ToSet(fan) : e[1] = LeadId
      BY <1>4 DEF ToSet
    <3> QED BY <2>1, <3>1, <3>2, <3>3, <3>4
  <2>4. w.visual = <<>> \/ w.visual = Absent
    BY <1>6 DEF WellMade
  <2> QED BY <2>2, <2>3, <2>4
<1> QED BY <1>5, <1>6

\* The steps an execution runs are steps it knows, and every one that the lead
\* activates and that has an agent.
LEMMA SelectedFacts ==
    ASSUME NEW w, WellMade(w), NEW path \in Paths
    PROVE  /\ Selected(w, path) \in Seq(Step)
           /\ \A n \in DOMAIN Selected(w, path) : Selected(w, path)[n].id \in Ids(Steps(w, path))
           /\ \A i \in DOMAIN Steps(w, path) :
                 Runs(Steps(w, path)[i]) =>
                    \E n \in DOMAIN Selected(w, path) : Selected(w, path)[n] = Steps(w, path)[i]
<1> DEFINE steps == Steps(w, path)
           kept == {i \in DOMAIN steps : Runs(steps[i])}
<1>1. steps \in Seq(Step) /\ kept \in SUBSET DOMAIN steps
  BY StepsFacts
<1>2. Selected(w, path) = Chosen(steps, kept)
  BY DEF Selected
<1>3. \A i \in kept : steps[i].id \in Ids(steps)
  BY DEF Ids
<1>4. \A i \in DOMAIN steps : Runs(steps[i]) => i \in kept
  OBVIOUS
<1> HIDE DEF kept
<1>5. /\ Chosen(steps, kept) \in Seq(Step)
      /\ \A n \in DOMAIN Chosen(steps, kept) : \E i \in kept : Chosen(steps, kept)[n] = steps[i]
      /\ \A i \in kept : \E n \in DOMAIN Chosen(steps, kept) : Chosen(steps, kept)[n] = steps[i]
  <2> HIDE DEF steps
  <2> QED BY <1>1, ChosenFacts
<1> HIDE DEF steps
<1>6. \A n \in DOMAIN Selected(w, path) : Selected(w, path)[n].id \in Ids(steps)
  BY <1>2, <1>3, <1>5
<1>7. \A i \in DOMAIN steps :
        Runs(steps[i]) => \E n \in DOMAIN Selected(w, path) : Selected(w, path)[n] = steps[i]
  BY <1>2, <1>4, <1>5
<1> QED BY <1>2, <1>5, <1>6, <1>7 DEF steps

\* A node that must run, in a deployment or by a step that lets its node say so.
Required(w, path, node) ==
    /\ node.policy \in {"always", "human_required"}
    /\ node.type # "lead_agent" /\ node.id # LeadId
    /\ path = "definition" =>
          \E step \in ToSet(w.steps) :
              step.id = node.id /\ step.policy \in {None, "always", "human_required"}

\* It is selected.
LEMMA RequiredSelected ==
    ASSUME NEW w, WellMade(w), NEW path \in Paths, NEW node \in ToSet(w.nodes),
           Required(w, path, node)
    PROVE  \E n \in DOMAIN Selected(w, path) : Selected(w, path)[n].id = node.id
<1>1. PICK i \in DOMAIN w.nodes : w.nodes[i] = node
  BY DEF ToSet
<1>2. node.agent # None /\ node \in StoredNode
  BY <1>1 DEF WellMade
<1>3. ASSUME NEW k \in DOMAIN Steps(w, path), Runs(Steps(w, path)[k]),
             Steps(w, path)[k].id = node.id
      PROVE  \E n \in DOMAIN Selected(w, path) : Selected(w, path)[n].id = node.id
  BY <1>3, SelectedFacts
<1>4. CASE path = "manifest"
  <2>1. i # ManifestLead(w)
    BY <1>1, ManifestLeadIs DEF Required
  <2>2. PICK k \in DOMAIN Steps(w, "manifest") : Steps(w, "manifest")[k] = ManifestStep(node)
    BY <1>1, <2>1, StepsFacts
  <2>3. ManifestStep(node).id = node.id /\ Runs(ManifestStep(node))
    BY <1>2 DEF ManifestStep, Runs, Activates, None
  <2> QED BY <1>3, <1>4, <2>2, <2>3
<1>5. CASE path = "definition"
  <2>1. PICK k \in DOMAIN w.steps :
           w.steps[k].id = node.id /\ w.steps[k].policy \in {None, "always", "human_required"}
    BY <1>5 DEF Required, ToSet
  <2> DEFINE s == w.steps[k]
  <2>2. s \in Step
    BY DEF WellMade
  <2>3. StepNode(w, s.id) = {node}
    <3>1. node \in StepNode(w, s.id)
      BY <1>1, <2>1 DEF StepNode, Required
    <3>2. \A n \in StepNode(w, s.id) : n = node
      BY <1>1, <2>1 DEF StepNode, WellMade
    <3> QED BY <3>1, <3>2
  <2>4. k \in DOMAIN Steps(w, path) /\ Steps(w, path)[k] = Enriched(w, s)
    BY <1>5, StepsFacts
  <2> HIDE DEF s
  <2>5. (CHOOSE n \in StepNode(w, s.id) : TRUE) = node /\ StepNode(w, s.id) # {}
    BY <2>3
  <2> DEFINE agent == IF s.agent = None THEN node.agent ELSE s.agent
             policy == IF s.policy = None THEN node.policy ELSE s.policy
             keywords == IF s.keywords = None THEN node.keywords ELSE s.keywords
  <2>6. Enriched(w, s) = [s EXCEPT !.agent = agent, !.policy = policy, !.keywords = keywords]
    BY <2>2, <2>5 DEF Enriched, Step
  <2>7. agent # None /\ policy \in {"always", "human_required"}
    <3>1. s.policy = None \/ s.policy \in {"always", "human_required"}
      BY <2>1 DEF s
    <3> QED BY <1>2, <3>1 DEF Required
  <2> HIDE DEF agent, policy, keywords
  <2>8. Runs(Enriched(w, s)) /\ Enriched(w, s).id = node.id
    <3>1. /\ Enriched(w, s).agent = agent /\ Enriched(w, s).policy = policy
          /\ Enriched(w, s).id = s.id
      BY <2>2, <2>6 DEF Step
    <3>2. s.id = node.id
      BY <2>1 DEF s
    <3> QED BY <2>7, <3>1, <3>2 DEF Runs, Activates
  <2> QED BY <1>3, <2>4, <2>8
<1> QED BY <1>4, <1>5 DEF Paths

\* Where all nodes are known the edges are gone by as they were saved; without an edge
\* there is nobody to hand off to.
LEMMA EdgesAsSaved ==
    ASSUME NEW w, WellMade(w), NEW path \in Paths,
           Ids(w.nodes) \subseteq {LeadId} \cup Ids(Steps(w, path)),
           w.edges = <<>> => w.visual = <<>> \/ Steps(w, path) = <<>>
    PROVE  Connections(w, path) = w.edges
<1> DEFINE edges == w.edges
           steps == Steps(w, path)
           known == {LeadId} \cup Ids(steps)
           fan == [i \in DOMAIN steps |-> <<LeadId, steps[i].id>>]
<1>1. edges \in Seq(Edge) /\ w.visual \in Seq(Edge) \cup {Absent}
  BY DEF WellMade
<1>2. \A e \in ToSet(edges) : e[1] # e[2] /\ e[2] # LeadId /\ e[1] \in known /\ e[2] \in known
  BY DEF WellMade, InvalidEdges
<1>3. Connections(w, path) = IF edges # <<>> THEN Chosen(edges, Valid(edges, known))
                             ELSE IF w.visual # Absent THEN Chosen(w.visual, Valid(w.visual, known))
                             ELSE Once(fan)
  BY DEF Connections
<1>4. edges = <<>> => w.visual = <<>> \/ steps = <<>>
  OBVIOUS
<1>5. \A s : s = <<>> => Valid(s, known) = DOMAIN s /\ FirstPlaces(s) = DOMAIN s
  BY DEF Valid, FirstPlaces
<1>6. steps = <<>> => fan = <<>>
  OBVIOUS
<1>11. FirstPlaces(edges) = DOMAIN edges
  BY DEF WellMade
<1>12. Chosen(<<>>, DOMAIN << >>) = <<>>
  <2>1. <<>> \in Seq(Edge)
    OBVIOUS
  <2> QED BY <2>1, ChosenAll
<1>10. edges = <<>> => w.visual = <<>> \/ (w.visual = Absent)
  BY DEF WellMade
<1> HIDE DEF known, edges, steps, fan
<1>7. CASE edges # <<>>
  <2>1. \A i \in DOMAIN edges : edges[i] \in ToSet(edges)
    BY DEF ToSet
  <2>2. Valid(edges, known) = DOMAIN edges
    BY <1>2, <1>11, <2>1 DEF Valid
  <2> QED BY <1>1, <1>3, <1>7, <2>2, ChosenAll DEF edges
<1>8. CASE edges = <<>> /\ w.visual # Absent
  <2>1. w.visual = <<>>
    BY <1>8, <1>10
  <2>2. Connections(w, path) = Chosen(<<>>, DOMAIN << >>)
    BY <1>3, <1>5, <1>8, <2>1
  <2> QED BY <1>8, <1>12, <2>2 DEF edges
<1>9. CASE edges = <<>> /\ w.visual = Absent
  <2>1. w.visual # <<>>
    BY <1>9 DEF Absent
  <2>2. fan = <<>>
    BY <1>4, <1>6, <1>9, <2>1
  <2>3. Once(fan) = <<>>
    BY <1>5, <1>12, <2>2 DEF Once
  <2> QED BY <1>3, <1>9, <2>3 DEF edges
<1> QED BY <1>7, <1>8, <1>9

\* A certified graph is run by its edges, as CertifiedRunsItsEdges says of the saved one.
LEMMA CertifiedEdges ==
    ASSUME NEW w, WellMade(w), Certifiable(w)
    PROVE  /\ w.nodes[ManifestLead(w)].id = LeadId => Connections(w, "manifest") = w.edges
           /\ Ids(w.nodes) \subseteq {LeadId} \cup Ids(w.steps)
                 => Connections(w, "definition") = w.edges
<1>1. /\ w.nodes \in Seq(StoredNode) /\ Len(w.nodes) \in Nat /\ DOMAIN w.nodes = 1 .. Len(w.nodes)
      /\ w.steps \in Seq(Step)
  BY DEF WellMade
<1>2. ASSUME w.nodes[ManifestLead(w)].id = LeadId
      PROVE  Connections(w, "manifest") = w.edges
  <2>1. Ids(w.nodes) \subseteq {LeadId} \cup Ids(Steps(w, "manifest"))
    <3> SUFFICES ASSUME NEW i \in DOMAIN w.nodes, w.nodes[i].id # LeadId
                 PROVE  w.nodes[i].id \in Ids(Steps(w, "manifest"))
      BY DEF Ids
    <3>1. i \in DOMAIN w.nodes \ {ManifestLead(w)}
      BY <1>2
    <3>2. PICK n \in DOMAIN Steps(w, "manifest") :
             Steps(w, "manifest")[n] = ManifestStep(w.nodes[i])
      BY <3>1, StepsFacts
    <3>3. Steps(w, "manifest")[n].id = w.nodes[i].id
      BY <3>2 DEF ManifestStep
    <3> QED BY <3>3 DEF Ids
  <2>2. w.edges = <<>> => Steps(w, "manifest") = <<>>
    <3> SUFFICES ASSUME w.edges = <<>> PROVE Steps(w, "manifest") = <<>>
      OBVIOUS
    <3>1. ToSet(w.edges) = {}
      BY DEF ToSet
    <3>2. ~(Len(w.nodes) > 1)
      BY <3>1 DEF Certifiable, EdgesValid, LeadHandsOff
    <3>3. DOMAIN w.nodes \ {ManifestLead(w)} = {}
      <4>1. \A i, j \in 1 .. Len(w.nodes) : i = j
        BY <1>1, <3>2
      <4> QED BY <1>1, <4>1, ManifestLeadIs
    <3>4. DOMAIN Steps(w, "manifest") = {}
      BY <3>3, StepsFacts
    <3>5. Steps(w, "manifest") \in Seq(Step)
      BY StepsFacts DEF Paths
    <3> QED BY <3>4, <3>5, NoPlaces
  <2> QED BY <2>1, <2>2, EdgesAsSaved DEF Paths
<1>3. ASSUME Ids(w.nodes) \subseteq {LeadId} \cup Ids(w.steps)
      PROVE  Connections(w, "definition") = w.edges
  <2>1. /\ Steps(w, "definition") \in Seq(Step) /\ DOMAIN Steps(w, "definition") = DOMAIN w.steps
        /\ \A i \in DOMAIN w.steps : Steps(w, "definition")[i].id = w.steps[i].id
    BY <1>1, StepsFacts, EnrichedStep DEF Paths
  <2>2. Ids(Steps(w, "definition")) = Ids(w.steps)
    BY <2>1 DEF Ids
  <2>3. w.steps = <<>> => Steps(w, "definition") = <<>>
    <3> SUFFICES ASSUME w.steps = <<>> PROVE Steps(w, "definition") = <<>>
      OBVIOUS
    <3>1. DOMAIN w.steps = {}
      OBVIOUS
    <3> QED BY <2>1, <3>1, NoPlaces
  <2>4. w.edges = <<>> => w.visual = <<>> \/ Steps(w, "definition") = <<>>
    BY <2>3 DEF WellMade
  <2> QED BY <1>3, <2>2, <2>4, EdgesAsSaved DEF Paths
<1> QED BY <1>2, <1>3

\* Who hands off to a node are the first ends of the edges into it, or the lead.
LEMMA IncomingFacts ==
    ASSUME NEW connections \in Seq(Edge), NEW id \in NodeIds
    PROVE  /\ Incoming(connections, id) \in Seq(NodeIds)
           /\ \A i \in DOMAIN Incoming(connections, id) :
                 Incoming(connections, id)[i] # LeadId =>
                    \E k \in DOMAIN connections :
                       connections[k] = <<Incoming(connections, id)[i], id>>
           /\ \A k \in DOMAIN connections :
                 connections[k][2] = id =>
                    \E i \in DOMAIN Incoming(connections, id) :
                       Incoming(connections, id)[i] = connections[k][1]
<1> DEFINE kept == {i \in DOMAIN connections : connections[i][2] = id}
           into == Chosen(connections, kept)
<1>1. kept \in SUBSET DOMAIN connections
  OBVIOUS
<1>2. /\ \A k \in kept : k \in DOMAIN connections /\ connections[k][2] = id
      /\ \A k \in DOMAIN connections : connections[k][2] = id => k \in kept
  OBVIOUS
<1>3. Incoming(connections, id) = IF into = <<>> THEN <<LeadId>>
                                  ELSE [i \in DOMAIN into |-> into[i][1]]
  BY DEF Incoming
<1> HIDE DEF kept
<1>4. /\ into \in Seq(Edge)
      /\ \A n \in DOMAIN into : \E k \in kept : into[n] = connections[k]
      /\ \A k \in kept : \E n \in DOMAIN into : into[n] = connections[k]
  BY <1>1, ChosenFacts
<1> HIDE DEF into
<1>5. CASE into = <<>>
  <2>1. kept = {}
    BY <1>4, <1>5
  <2>2. Incoming(connections, id) = <<LeadId>>
    BY <1>3, <1>5
  <2>3. <<LeadId>> \in Seq(NodeIds) /\ \A i \in DOMAIN <<LeadId>> : <<LeadId>>[i] = LeadId
    BY WorkflowGraphAssumption
  <2> QED BY <1>2, <2>1, <2>2, <2>3
<1>6. CASE into # <<>>
  <2> DEFINE from == [i \in DOMAIN into |-> into[i][1]]
  <2>1. Incoming(connections, id) = from
    BY <1>3, <1>6
  <2>2. Len(into) \in Nat /\ DOMAIN into = 1 .. Len(into)
    BY <1>4
  <2>3. \A i \in 1 .. Len(into) : into[i][1] \in NodeIds
    BY <1>4, <2>2 DEF Edge
  <2>4. from \in Seq(NodeIds)
    BY <2>2, <2>3
  <2>5. \A i \in DOMAIN from : \E k \in DOMAIN connections : connections[k] = <<from[i], id>>
    <3> SUFFICES ASSUME NEW i \in DOMAIN into
                 PROVE  \E k \in DOMAIN connections : connections[k] = <<into[i][1], id>>
      OBVIOUS
    <3>1. PICK k \in kept : into[i] = connections[k]
      BY <1>4
    <3>2. connections[k] \in Edge /\ connections[k][2] = id /\ k \in DOMAIN connections
      BY <1>2
    <3>3. connections[k] = <<connections[k][1], connections[k][2]>>
      BY <3>2 DEF Edge
    <3> QED BY <3>1, <3>2, <3>3
  <2>6. \A k \in DOMAIN connections :
          connections[k][2] = id => \E i \in DOMAIN from : from[i] = connections[k][1]
    BY <1>2, <1>4
  <2> HIDE DEF from
  <2> QED BY <2>1, <2>4, <2>5, <2>6
<1> QED BY <1>5, <1>6

-----------------------------------------------------------------------------
\* What is saved stays saved

\* Nothing but saving it changes a definition.
LEMMA SavedNext == SavedFromPayload /\ [Next]_vars => SavedFromPayload'
<1> SUFFICES ASSUME SavedFromPayload, [Next]_vars PROVE SavedFromPayload'
  OBVIOUS
<1>1. CASE \E p \in Payloads : Save(p)
  BY <1>1 DEF Save, SavedFromPayload
<1>2. CASE definition' = definition
  BY <1>2 DEF SavedFromPayload
<1>3. Execute => definition' = definition
  <2>1. ASSUME NEW from, NEW to, EnsureSession(from, to) PROVE definition' = definition
    BY <2>1 DEF EnsureSession
  <2>2. ASSUME NEW from, NEW to, NEW id, NEW parent, LinkSession(from, to, id, parent)
        PROVE  definition' = definition
    BY <2>2 DEF LinkSession
  <2>3. NextStep \/ CallRaises \/ Summarise => definition' = definition
    BY DEF NextStep, CallRaises, Summarise, rows
  <2>4. CallTool \/ Respond \/ CompleteStep => definition' = definition
    BY DEF CallTool, Respond, CompleteStep
  <2>5. CloseLead \/ Finish \/ Evaluate => definition' = definition
    BY DEF CloseLead, Finish, Evaluate
  <2> QED BY <2>1, <2>2, <2>3, <2>4, <2>5 DEF Execute
<1>4. (\E path \in Paths : Start(path)) \/ Die => definition' = definition
  BY DEF Start, Die, rows
<1>5. (\E a \in Agents : DeleteAgent(a)) \/ (\E n \in DOMAIN review : ResolveReviewItem(n))
      \/ UNCHANGED vars => definition' = definition
  BY DEF DeleteAgent, ResolveReviewItem, vars
<1> QED BY <1>1, <1>2, <1>3, <1>4, <1>5 DEF Next

LEMMA SavedAlways == Spec => []SavedFromPayload
<1>1. Init => SavedFromPayload
  BY DEF Init, SavedFromPayload
<1> QED BY <1>1, SavedNext, PTL DEF Spec

\* A graph that normalize_workflow_definition accepted has a lead, the types of its
\* agents and only edges that hand off between its nodes, as the evaluation demands:
\* for every payload.
THEOREM SavedIsSound == Spec => []SavedGraphIsSound
<1>1. SavedFromPayload => SavedGraphIsSound
  BY AcceptedIsSound DEF SavedFromPayload, SavedGraphIsSound
<1> QED BY <1>1, SavedAlways, PTL

-----------------------------------------------------------------------------
\* What was answered

\* Every answer but ALLOW, and every item left in the queue, is in the results.
AnswersAreResults ==
    /\ \A n \in DOMAIN answers, d \in {"REVIEW", "BLOCK"} :
          d \in answers[n] => Contains(run.results, d)
    /\ \A n \in DOMAIN review : review[n] # "none" => Contains(run.results, "REVIEW")

\* A completed workflow has the worst of the results, and its execution adds none.
CompletedWithWorst ==
    workflow.status = "COMPLETED" =>
        /\ run.pc \in {"evaluate", "returned", "raised", "died"}
        /\ workflow.decision = Worst(run.results)

Inv ==
    /\ run \in Run
    /\ AnswersAreResults
    /\ CompletedWithWorst

-----------------------------------------------------------------------------
\* Sequences of decisions

\* A result that was there stays, and the new one is there (run_multi_agent_workflow
\* appends each step's decision).
LEMMA AppendContains ==
    ASSUME NEW s \in Seq(Decisions), NEW d \in Decisions
    PROVE  /\ Append(s, d) \in Seq(Decisions)
           /\ Contains(Append(s, d), d)
           /\ \A e : Contains(s, e) => Contains(Append(s, d), e)
<1>1. Append(s, d) \in Seq(Decisions) /\ Len(Append(s, d)) = Len(s) + 1 /\ Len(s) \in Nat
  OBVIOUS
<1>2. Append(s, d)[Len(s) + 1] = d /\ \A i \in 1 .. Len(s) : Append(s, d)[i] = s[i]
  OBVIOUS
<1>3. DOMAIN s = 1 .. Len(s) /\ DOMAIN Append(s, d) = 1 .. Len(s) + 1
  OBVIOUS
<1>4. Contains(Append(s, d), d)
  BY <1>1, <1>2, <1>3 DEF Contains
<1>5. ASSUME NEW e, Contains(s, e) PROVE Contains(Append(s, d), e)
  <2>1. PICK i \in 1 .. Len(s) : s[i] = e
    BY <1>5, <1>3 DEF Contains
  <2> QED BY <2>1, <1>1, <1>2, <1>3 DEF Contains
<1> QED BY <1>1, <1>4, <1>5

\* The decision of a workflow is a decision.
LEMMA WorstIsDecision == \A s : Worst(s) \in Decisions
  BY DEF Worst, Decisions

-----------------------------------------------------------------------------
\* The steps that leave the results alone

\* What was read stays, and the step worked at.
SameReading ==
    /\ run'.path = run.path /\ run'.plan = run.plan /\ run'.connections = run.connections
    /\ run'.session = run.session

\* A step of the program counter alone.
LEMMA GotoRun ==
    ASSUME run \in Run, NEW pc, Goto(pc),
           pc \in {"lead", "link lead", "next", "session", "link", "call", "respond",
                   "complete", "close lead", "finish", "evaluate", "returned", "raised", "died"}
    PROVE  /\ run' \in Run /\ run'.pc = pc /\ run'.results = run.results
           /\ SameReading
  BY DEF Goto, Run, SameReading

\* A step that gives a result.
LEMMA ResultRun ==
    ASSUME run \in Run, NEW d \in Decisions, Result(d, "complete")
    PROVE  /\ run' \in Run /\ run'.pc = "complete"
           /\ run'.results = Append(run.results, d) /\ SameReading
<1>1. run.results \in Seq(Decisions)
  BY DEF Run
<1>2. Append(run.results, d) \in Seq(Decisions)
  BY <1>1, AppendContains
<1>3. run' = [run EXCEPT !.pc = "complete", !.results = Append(run.results, d)]
  BY DEF Result
<1> QED BY <1>2, <1>3 DEF Run, SameReading

\* What was told stays told when the results only grow and no answer is added.
LEMMA AnswersKept ==
    ASSUME Inv, NEW r, \A e : Contains(run.results, e) => Contains(r, e)
    PROVE  /\ \A n \in DOMAIN answers, d \in {"REVIEW", "BLOCK"} :
                 d \in answers[n] => Contains(r, d)
           /\ \A n \in DOMAIN review : review[n] # "none" => Contains(r, "REVIEW")
  BY DEF Inv, AnswersAreResults

-----------------------------------------------------------------------------
\* The invariant, action by action

LEMMA InvInit == Init => Inv
<1>1. Init => run \in Run
  <2>1. <<>> \in Seq(Step) /\ <<>> \in Seq(Edge) /\ <<>> \in Seq(Decisions)
    OBVIOUS
  <2> QED BY <2>1 DEF Init, Run, Paths
<1> QED BY <1>1 DEF Init, Inv, AnswersAreResults, CompletedWithWorst, NoWorkflow

\* An execution reads the plan and the connections of its definition.
LEMMA StartReads ==
    ASSUME run \in Run, SavedFromPayload, NEW path \in Paths, Start(path)
    PROVE  /\ definition # NoDefinition /\ run.pc = "idle"
           /\ run' \in Run /\ run'.results = run.results /\ run'.session = run.session
           /\ run'.pc \in {"lead", "raised"} /\ run'.path = path
           /\ run'.plan = Selected(definition, path)
           /\ run'.connections = Connections(definition, path)
<1>1. definition # NoDefinition /\ run.pc = "idle"
  BY DEF Start, At
<1>2. WellMade(definition)
  BY <1>1, SavedIsWellMade DEF SavedFromPayload
<1> DEFINE plan == Selected(definition, path)
           connections == Connections(definition, path)
<1>3. plan \in Seq(Step) /\ connections \in Seq(Edge)
  BY <1>2, SelectedFacts, ConnectionsFacts
<1>4. PICK pc \in {"lead", "raised"} :
        run' = [run EXCEPT !.pc = pc, !.path = path, !.plan = plan, !.connections = connections]
  BY DEF Start
<1> HIDE DEF plan, connections
<1>5. /\ run' \in Run /\ run'.results = run.results /\ run'.session = run.session
      /\ run'.pc = pc /\ run'.path = path /\ run'.plan = plan /\ run'.connections = connections
  BY <1>3, <1>4 DEF Run
<1> QED BY <1>1, <1>4, <1>5 DEF plan, connections

LEMMA StartStep ==
    ASSUME Inv, SavedFromPayload, NEW path \in Paths, Start(path)
    PROVE  Inv'
<1>1. run' \in Run /\ run'.results = run.results /\ run'.pc \in {"lead", "raised"}
  BY StartReads DEF Inv
<1>2. workflow'.status # "COMPLETED"
  BY DEF Inv, Start, At, CompletedWithWorst
<1> QED BY <1>1, <1>2 DEF Inv, Start, AnswersAreResults, CompletedWithWorst

LEMMA EnsureSessionStep ==
    ASSUME Inv, NEW from \in {"lead", "session"}, NEW to \in {"link lead", "link"},
           EnsureSession(from, to)
    PROVE  Inv'
<1>1. run' \in Run /\ run'.results = run.results
  BY GotoRun DEF Inv, EnsureSession
<1>2. workflow'.status # "COMPLETED"
  BY DEF Inv, EnsureSession, At, CompletedWithWorst
<1> QED BY <1>1, <1>2 DEF Inv, EnsureSession, AnswersAreResults, CompletedWithWorst

\* The rows of one more session are the old ones and the new.
LEMMA GrownValues ==
    ASSUME NEW f, NEW new, NEW n \in DOMAIN Grown(f, new)
    PROVE  (n \in DOMAIN f /\ Grown(f, new)[n] = f[n]) \/ Grown(f, new)[n] = new
  BY DEF Grown

LEMMA LinkSessionStep ==
    ASSUME Inv, NEW from \in {"link lead", "link"}, NEW to \in {"next", "call"},
           NEW id, NEW parent, LinkSession(from, to, id, parent)
    PROVE  Inv'
<1>1. run' \in Run /\ run'.results = run.results
  BY GotoRun DEF Inv, LinkSession
<1>2. workflow'.status # "COMPLETED"
  BY DEF Inv, LinkSession, At, CompletedWithWorst
<1>3. CASE answers' = Grown(answers, {}) /\ review' = Grown(review, "none")
  <2>1. ASSUME NEW n \in DOMAIN answers', NEW d \in {"REVIEW", "BLOCK"}, d \in answers'[n]
        PROVE  n \in DOMAIN answers /\ d \in answers[n]
    <3>1. n \in DOMAIN Grown(answers, {}) /\ d \in Grown(answers, {})[n]
      BY <1>3, <2>1
    <3> QED BY <3>1, GrownValues
  <2>2. ASSUME NEW n \in DOMAIN review', review'[n] # "none"
        PROVE  n \in DOMAIN review /\ review[n] # "none"
    <3>1. n \in DOMAIN Grown(review, "none") /\ Grown(review, "none")[n] # "none"
      BY <1>3, <2>2
    <3> QED BY <3>1, GrownValues
  <2>3. AnswersAreResults'
    BY <1>1, <2>1, <2>2 DEF Inv, AnswersAreResults
  <2> QED BY <1>1, <1>2, <2>3 DEF Inv, CompletedWithWorst
<1>4. CASE answers' = answers /\ review' = review
  BY <1>1, <1>2, <1>4 DEF Inv, AnswersAreResults, CompletedWithWorst
<1> QED BY <1>3, <1>4 DEF LinkSession

LEMMA NextStepStep ==
    ASSUME Inv, NextStep
    PROVE  Inv'
<1>1. run' \in Run /\ run'.results = run.results
  <2>1. run \in Run /\ run.session \in Nat
    BY DEF Inv, Run
  <2>2. CASE run' = [run EXCEPT !.pc = "session", !.session = run.session + 1]
    <3>1. run.session + 1 \in Nat
      BY <2>1
    <3> DEFINE n == run.session + 1
    <3> HIDE DEF n
    <3> QED BY <2>1, <2>2, <3>1 DEF Run, n
  <2>3. CASE run' = [run EXCEPT !.pc = "close lead"]
    BY <2>1, <2>3 DEF Run
  <2> QED BY <2>2, <2>3 DEF NextStep
<1>2. workflow'.status # "COMPLETED"
  BY DEF Inv, NextStep, At, CompletedWithWorst, rows
<1> QED BY <1>1, <1>2 DEF Inv, NextStep, rows, AnswersAreResults, CompletedWithWorst

\* An answer in the current session is among the results, unless it is ALLOW.
LEMMA AnswerStep ==
    ASSUME Inv, NEW d \in Decisions, Answered(d), run' \in Run,
           \A e : Contains(run.results, e) => Contains(run'.results, e),
           d # "ALLOW" => Contains(run'.results, d),
           review' = review \/ (d = "REVIEW" /\ review' = [review EXCEPT ![run.session] = "PENDING"]),
           workflow'.status # "COMPLETED"
    PROVE  Inv'
<1>1. \A n \in DOMAIN answers' : n \in DOMAIN answers /\ answers'[n] \subseteq answers[n] \cup {d}
  BY DEF Answered
<1>2. ASSUME NEW n \in DOMAIN answers', NEW e \in {"REVIEW", "BLOCK"}, e \in answers'[n]
      PROVE  Contains(run'.results, e)
  BY <1>1, <1>2, AnswersKept
<1>3. ASSUME NEW n \in DOMAIN review', review'[n] # "none"
      PROVE  Contains(run'.results, "REVIEW")
  <2>1. CASE d = "REVIEW"
    BY <2>1
  <2>2. CASE review' = review
    BY <2>2, <1>3, AnswersKept
  <2> QED BY <2>1, <2>2
<1> QED BY <1>2, <1>3 DEF Inv, AnswersAreResults, CompletedWithWorst

LEMMA CallToolStep ==
    ASSUME Inv, CallTool
    PROVE  Inv'
<1>1. PICK d \in Decisions :
        /\ IF d = "ALLOW" THEN Goto("respond") ELSE Result(d, "complete")
        /\ Answered(d)
        /\ review' \in IF d = "REVIEW" THEN {review, [review EXCEPT ![run.session] = "PENDING"]}
                       ELSE {review}
  BY DEF CallTool
<1>2. workflow'.status # "COMPLETED"
  BY DEF Inv, CallTool, At, CompletedWithWorst
<1>3. CASE d = "ALLOW"
  <2>1. run' \in Run /\ run'.results = run.results
    BY <1>1, <1>3, GotoRun DEF Inv
  <2> QED BY <1>1, <1>2, <1>3, <2>1, AnswerStep
<1>4. CASE d # "ALLOW"
  <2>1. run' \in Run /\ run'.results = Append(run.results, d) /\ run.results \in Seq(Decisions)
    BY <1>1, <1>4, ResultRun DEF Inv, Run
  <2> QED BY <1>1, <1>2, <1>4, <2>1, AnswerStep, AppendContains
<1> QED BY <1>3, <1>4

LEMMA RespondStep ==
    ASSUME Inv, Respond
    PROVE  Inv'
<1>1. PICK d \in Decisions : Result(d, "complete") /\ Answered(d)
  BY DEF Respond
<1>2. workflow'.status # "COMPLETED" /\ review' = review
  BY DEF Inv, Respond, At, CompletedWithWorst
<1>3. run' \in Run /\ run'.results = Append(run.results, d) /\ run.results \in Seq(Decisions)
  BY <1>1, ResultRun DEF Inv, Run
<1> QED BY <1>1, <1>2, <1>3, AnswerStep, AppendContains

LEMMA CallRaisesStep ==
    ASSUME Inv, CallRaises
    PROVE  Inv'
<1>1. run' \in Run /\ run'.results = run.results
  BY GotoRun DEF Inv, CallRaises
<1>2. workflow'.status # "COMPLETED"
  BY DEF Inv, CallRaises, At, CompletedWithWorst, rows
<1> QED BY <1>1, <1>2 DEF Inv, CallRaises, rows, AnswersAreResults, CompletedWithWorst

LEMMA SummariseStep ==
    ASSUME Inv, Summarise
    PROVE  Inv'
<1>1. /\ run' \in Run /\ run'.results = Append(run.results, Worst(run.results))
      /\ run.results \in Seq(Decisions)
  BY ResultRun, WorstIsDecision DEF Inv, Summarise, Run
<1>2. \A e : Contains(run.results, e) => Contains(run'.results, e)
  BY <1>1, AppendContains, WorstIsDecision
<1>3. workflow'.status # "COMPLETED" /\ review' = review /\ answers' = answers
  BY DEF Inv, Summarise, At, CompletedWithWorst, rows
<1>4. AnswersAreResults'
  BY <1>2, <1>3, AnswersKept DEF AnswersAreResults
<1> QED BY <1>1, <1>3, <1>4 DEF Inv, CompletedWithWorst

LEMMA CompleteStepStep ==
    ASSUME Inv, CompleteStep
    PROVE  Inv'
<1>1. run' \in Run /\ run'.results = run.results
  BY GotoRun DEF Inv, CompleteStep
<1>2. workflow'.status # "COMPLETED"
  BY DEF Inv, CompleteStep, At, CompletedWithWorst
<1> QED BY <1>1, <1>2 DEF Inv, CompleteStep, AnswersAreResults, CompletedWithWorst

LEMMA CloseLeadStep ==
    ASSUME Inv, CloseLead
    PROVE  Inv'
<1>1. run' \in Run /\ run'.results = run.results
  BY GotoRun DEF Inv, CloseLead
<1>2. workflow'.status # "COMPLETED"
  BY DEF Inv, CloseLead, At, CompletedWithWorst
<1> QED BY <1>1, <1>2 DEF Inv, CloseLead, AnswersAreResults, CompletedWithWorst

\* The workflow takes the worst of the results.
LEMMA FinishStep ==
    ASSUME Inv, Finish
    PROVE  Inv'
<1>1. run' \in Run /\ run'.results = run.results /\ run'.pc = "evaluate"
  BY GotoRun DEF Inv, Finish
<1>2. workflow'.decision = Worst(run'.results)
  BY <1>1 DEF Finish, Completed
<1> QED BY <1>1, <1>2 DEF Inv, Finish, AnswersAreResults, CompletedWithWorst

LEMMA EvaluateStep ==
    ASSUME Inv, Evaluate
    PROVE  Inv'
<1>1. run' \in Run /\ run'.results = run.results /\ run'.pc \in {"returned", "raised"}
  BY GotoRun DEF Inv, Evaluate
<1> QED BY <1>1 DEF Inv, Evaluate, AnswersAreResults, CompletedWithWorst

LEMMA DieStep ==
    ASSUME Inv, Die
    PROVE  Inv'
<1>1. run' \in Run /\ run'.results = run.results /\ run'.pc = "died"
  BY GotoRun DEF Inv, Die
<1> QED BY <1>1 DEF Inv, Die, rows, AnswersAreResults, CompletedWithWorst

\* Saving a definition and deleting an agent touch nothing the invariant reads;
\* an item that is resolved was in the queue.
LEMMA OthersStep ==
    ASSUME Inv,
           \/ \E p \in Payloads : Save(p)
           \/ \E a \in Agents : DeleteAgent(a)
           \/ \E n \in DOMAIN review : ResolveReviewItem(n)
           \/ UNCHANGED vars
    PROVE  Inv'
<1>1. CASE \E p \in Payloads : Save(p)
  BY <1>1 DEF Inv, Save, AnswersAreResults, CompletedWithWorst
<1>2. CASE \E a \in Agents : DeleteAgent(a)
  BY <1>2 DEF Inv, DeleteAgent, AnswersAreResults, CompletedWithWorst
<1>3. CASE \E n \in DOMAIN review : ResolveReviewItem(n)
  <2>1. PICK n \in DOMAIN review : ResolveReviewItem(n)
    BY <1>3
  <2>2. /\ DOMAIN review' = DOMAIN review
        /\ \A m \in DOMAIN review : review'[m] # "none" => review[m] # "none"
    BY <2>1 DEF ResolveReviewItem
  <2> QED BY <2>1, <2>2 DEF Inv, ResolveReviewItem, AnswersAreResults, CompletedWithWorst
<1>4. CASE UNCHANGED vars
  BY <1>4 DEF Inv, vars, AnswersAreResults, CompletedWithWorst
<1> QED BY <1>1, <1>2, <1>3, <1>4

LEMMA InvNext == Inv /\ SavedFromPayload /\ [Next]_vars => Inv'
<1> SUFFICES ASSUME Inv, SavedFromPayload, [Next]_vars PROVE Inv'
  OBVIOUS
<1>1. CASE Execute
  <2>1. CASE \/ EnsureSession("lead", "link lead") \/ EnsureSession("session", "link")
    BY <2>1, EnsureSessionStep
  <2>2. CASE \/ LinkSession("link lead", "next", LeadId, -1)
             \/ LinkSession("link", "call", Current.id, Parent)
    BY <2>2, LinkSessionStep
  <2>3. CASE NextStep \/ CallTool \/ Respond \/ CallRaises \/ Summarise \/ CompleteStep
    BY <2>3, NextStepStep, CallToolStep, RespondStep, CallRaisesStep, SummariseStep,
       CompleteStepStep
  <2>4. CASE CloseLead \/ Finish \/ Evaluate
    BY <2>4, CloseLeadStep, FinishStep, EvaluateStep
  <2> QED BY <1>1, <2>1, <2>2, <2>3, <2>4 DEF Execute
<1>2. CASE \E path \in Paths : Start(path)
  BY <1>2, StartStep
<1>3. CASE Die
  BY <1>3, DieStep
<1>4. CASE \/ \E p \in Payloads : Save(p)
           \/ \E a \in Agents : DeleteAgent(a)
           \/ \E n \in DOMAIN review : ResolveReviewItem(n)
           \/ UNCHANGED vars
  BY <1>4, OthersStep
<1> QED BY <1>1, <1>2, <1>3, <1>4 DEF Next

LEMMA InvTells == Inv => DecisionTellsTheWorst
<1> SUFFICES ASSUME Inv, workflow.status = "COMPLETED"
             PROVE  LET all == UNION {answers[n] : n \in DOMAIN answers}
                    IN  /\ "BLOCK" \in all => workflow.decision = "BLOCK"
                        /\ "REVIEW" \in all => workflow.decision # "ALLOW"
                        /\ (\E n \in DOMAIN review : review[n] # "none")
                              => workflow.decision # "ALLOW"
  BY DEF DecisionTellsTheWorst
<1>1. workflow.decision = Worst(run.results)
  BY DEF Inv, CompletedWithWorst
<1>2. Contains(run.results, "BLOCK") => workflow.decision = "BLOCK"
  BY <1>1 DEF Worst
<1>3. Contains(run.results, "REVIEW") => workflow.decision # "ALLOW"
  BY <1>1 DEF Worst
<1> QED BY <1>2, <1>3 DEF Inv, AnswersAreResults

\* The decision of a completed workflow is no milder than any answer the governance
\* gave in one of its sessions, or than an item left in the queue
\* (run_multi_agent_workflow), for every graph, agent and order of deletions.
THEOREM TellsTheWorst == Spec => []DecisionTellsTheWorst
<1>1. Spec => []Inv
  BY InvInit, InvNext, SavedAlways, PTL DEF Spec
<1> QED BY <1>1, InvTells, PTL

-----------------------------------------------------------------------------
\* What is linked

\* An execution that has begun goes by what it read of the definition.
ReadOnce ==
    /\ definition = NoDefinition => At("idle")
    /\ ~At("idle") => /\ run.plan = Selected(definition, run.path)
                      /\ run.connections = Connections(definition, run.path)

\* The sessions linked are those of the lead and of the steps up to the one worked at,
\* and at the end of all of them.
PlanLinked ==
    /\ run.session \in 0 .. Len(run.plan)
    /\ Len(link) \in {run.session, run.session + 1}
    /\ \A i \in 2 .. Len(link) : link[i].id = run.plan[i - 1].id
    /\ run.pc \in {"idle", "lead", "link lead"} => run.session = 0 /\ Len(link) = 0
    /\ run.pc \in {"session", "link"} => run.session > 0 /\ Len(link) = run.session
    /\ run.pc \in {"next", "call", "respond", "complete"} => Len(link) = run.session + 1
    /\ run.pc \in {"close lead", "finish", "evaluate", "returned"} \/ workflow.status = "COMPLETED"
          => ~At("idle") /\ run.session = Len(run.plan) /\ Len(link) = run.session + 1

Progress == TypeOK /\ ReadOnce /\ PlanLinked /\ LinksFollowTheGraph

ExecutionInductive == Inv /\ SavedFromPayload /\ Progress

LEMMA ProgressInit == Init => Progress
<1> SUFFICES ASSUME Init PROVE Progress
  OBVIOUS
<1>1. run \in Run
  BY InvInit DEF Inv
<1>2. Len(link) = 0 /\ link = <<>> /\ DOMAIN link = {} /\ link \in Seq(Link)
  BY DEF Init
<1>3. session \in [0 .. Len(link) -> SessionStatus]
  BY <1>2 DEF Init, SessionStatus
<1>4. TypeOK
  BY <1>1, <1>2, <1>3 DEF Init, TypeOK, NoWorkflow, ReviewStatus, Score
<1>5. ReadOnce
  BY DEF Init, ReadOnce, At
<1>6. PlanLinked
  <2>1. run.session = 0 /\ Len(run.plan) = 0 /\ run.pc = "idle"
    BY DEF Init
  <2> QED BY <1>2, <2>1 DEF Init, PlanLinked, NoWorkflow
<1>7. LinksFollowTheGraph
  BY <1>2 DEF LinksFollowTheGraph
<1> QED BY <1>4, <1>5, <1>6, <1>7 DEF Progress

-----------------------------------------------------------------------------
\* Steps that link no session

Arrows == {<<"lead", "link lead">>, <<"session", "link">>, <<"call", "respond">>,
           <<"call", "complete">>, <<"respond", "complete">>, <<"complete", "next">>,
           <<"close lead", "finish">>, <<"finish", "evaluate">>, <<"evaluate", "returned">>}

\* The execution goes on in the step it works at, or ends in it, or somebody else acts.
Stays ==
    /\ UNCHANGED <<definition, link>> /\ SameReading
    /\ \/ run' = run /\ workflow' = workflow
       \/ <<run.pc, run'.pc>> \in Arrows /\ workflow' = workflow
       \/ <<run.pc, run'.pc>> = <<"finish", "evaluate">>
       \/ run.pc # "idle" /\ run'.pc \in {"raised", "died"} /\ workflow' = workflow

LEMMA StaysStep ==
    ASSUME ExecutionInductive, Stays
    PROVE  ReadOnce' /\ PlanLinked' /\ LinksFollowTheGraph'
<1>1. definition' = definition /\ link' = link /\ SameReading
  BY DEF Stays
<1>2. ReadOnce /\ PlanLinked /\ LinksFollowTheGraph /\ CompletedWithWorst
  BY DEF ExecutionInductive, Progress, Inv
<1>3. run.pc = "idle" <=> run'.pc = "idle"
  BY DEF Stays, Arrows
<1>4. ReadOnce'
  BY <1>1, <1>2, <1>3 DEF ReadOnce, At, SameReading
<1>5. LinksFollowTheGraph'
  BY <1>1, <1>2 DEF LinksFollowTheGraph
<1>6. /\ run'.session \in 0 .. Len(run'.plan)
      /\ Len(link') \in {run'.session, run'.session + 1}
      /\ \A i \in 2 .. Len(link') : link'[i].id = run'.plan[i - 1].id
  BY <1>1, <1>2 DEF PlanLinked, SameReading
<1>7. /\ run'.pc \in {"idle", "lead", "link lead"} => run'.session = 0 /\ Len(link') = 0
      /\ run'.pc \in {"session", "link"} => run'.session > 0 /\ Len(link') = run'.session
      /\ run'.pc \in {"next", "call", "respond", "complete"} => Len(link') = run'.session + 1
  BY <1>1, <1>2 DEF Stays, Arrows, PlanLinked, SameReading
<1>8. run'.pc \in {"close lead", "finish", "evaluate", "returned"} \/ workflow'.status = "COMPLETED"
         => run'.pc # "idle" /\ run'.session = Len(run'.plan) /\ Len(link') = run'.session + 1
  BY <1>1, <1>2, <1>3 DEF Stays, Arrows, PlanLinked, SameReading, At
<1>9. PlanLinked'
  BY <1>6, <1>7, <1>8 DEF PlanLinked, At
<1> QED BY <1>4, <1>5, <1>9

LEMMA TypeKept ==
    ASSUME TypeOK, UNCHANGED <<definition, link>>, run' \in Run, deleted' \subseteq Agents,
           workflow' \in Workflow \cup {NoWorkflow},
           session' \in [0 .. Len(link) -> SessionStatus],
           \A n \in DOMAIN review' : review'[n] \in ReviewStatus, score' \in Score
    PROVE  TypeOK'
  BY DEF TypeOK

LEMMA StatusPut ==
    ASSUME TypeOK, NEW n, NEW s \in SessionStatus
    PROVE  [session EXCEPT ![n] = s] \in [0 .. Len(link) -> SessionStatus]
  BY DEF TypeOK

\* ensure_agent_session for the lead's session and for a step's.
LEMMA EnsureStays ==
    ASSUME ExecutionInductive, Inv', NEW from \in {"lead", "session"}, NEW to,
           <<from, to>> \in Arrows, EnsureSession(from, to)
    PROVE  TypeOK' /\ Stays
<1>1. TypeOK /\ run \in Run /\ run' \in Run
  BY DEF ExecutionInductive, Progress, Inv
<1>2. /\ deleted \subseteq Agents /\ workflow \in Workflow \cup {NoWorkflow} /\ score \in Score
      /\ session \in [0 .. Len(link) -> SessionStatus]
      /\ \A n \in DOMAIN review : review[n] \in ReviewStatus
  BY <1>1 DEF TypeOK
<1>3. UNCHANGED <<definition, deleted, workflow, link, review, score>> /\ run.pc = from
  BY DEF EnsureSession, At
<1>4. session' \in [0 .. Len(link) -> SessionStatus]
  BY <1>1, <1>2, StatusPut DEF EnsureSession, SessionStatus
<1>5. (to = "link lead" \/ to = "link") /\ (Goto(to) \/ Goto("raised"))
  BY DEF EnsureSession, Arrows
<1>6. SameReading /\ (run'.pc = to \/ run'.pc = "raised")
  BY <1>1, <1>5, GotoRun
<1>7. Stays
  BY <1>3, <1>6 DEF Stays
<1> QED BY <1>1, <1>2, <1>3, <1>4, <1>7, TypeKept

LEMMA ExecuteStays ==
    ASSUME ExecutionInductive, Inv',
           \/ EnsureSession("lead", "link lead") \/ EnsureSession("session", "link")
           \/ CallTool \/ Respond \/ CallRaises \/ Summarise \/ CompleteStep
           \/ CloseLead \/ Finish \/ Evaluate
    PROVE  TypeOK' /\ Stays
<1>1. TypeOK /\ run \in Run /\ run' \in Run
  BY DEF ExecutionInductive, Progress, Inv
<1>2. /\ deleted \subseteq Agents /\ workflow \in Workflow \cup {NoWorkflow} /\ score \in Score
      /\ session \in [0 .. Len(link) -> SessionStatus]
      /\ \A n \in DOMAIN review : review[n] \in ReviewStatus
  BY <1>1 DEF TypeOK
<1>3. {"RUNNING", "REVIEW", "BLOCK", "COMPLETED"} \subseteq SessionStatus
  BY DEF SessionStatus
<1>5. CASE CallTool
  <2>1. PICK d \in Decisions :
          /\ session' = IF d = "ALLOW" THEN session ELSE [session EXCEPT ![run.session] = d]
          /\ IF d = "ALLOW" THEN Goto("respond") ELSE Result(d, "complete")
          /\ review' \in IF d = "REVIEW" THEN {review, [review EXCEPT ![run.session] = "PENDING"]}
                         ELSE {review}
    BY <1>5 DEF CallTool
  <2>2. UNCHANGED <<definition, deleted, workflow, link, score>> /\ run.pc = "call"
    BY <1>5 DEF CallTool, At
  <2>3. session' \in [0 .. Len(link) -> SessionStatus]
    BY <1>1, <1>2, <1>3, <2>1, StatusPut DEF Decisions
  <2>4. SameReading /\ run'.pc \in {"respond", "complete"}
    BY <1>1, <2>1, GotoRun, ResultRun
  <2>5. \A n \in DOMAIN review' : review'[n] \in ReviewStatus
    BY <1>2, <2>1 DEF ReviewStatus
  <2>6. Stays
    BY <2>2, <2>4 DEF Stays, Arrows
  <2> QED BY <1>1, <1>2, <2>2, <2>3, <2>5, <2>6, TypeKept
<1>6. CASE Respond
  <2>1. PICK d \in Decisions :
          /\ session' = [session EXCEPT ![run.session] = IF d = "BLOCK" THEN d ELSE "COMPLETED"]
          /\ Result(d, "complete")
    BY <1>6 DEF Respond
  <2>2. UNCHANGED <<definition, deleted, workflow, link, review, score>> /\ run.pc = "respond"
    BY <1>6 DEF Respond, At
  <2>3. session' \in [0 .. Len(link) -> SessionStatus]
    BY <1>1, <1>3, <2>1, StatusPut
  <2>4. SameReading /\ run'.pc = "complete"
    BY <1>1, <2>1, ResultRun
  <2>5. Stays
    BY <2>2, <2>4 DEF Stays, Arrows
  <2> QED BY <1>1, <1>2, <2>2, <2>3, <2>5, TypeKept
<1>7. CASE CallRaises
  <2>1. UNCHANGED rows /\ run.pc \in {"call", "respond"} /\ Goto("raised")
    BY <1>7 DEF CallRaises, At
  <2>2. SameReading /\ run'.pc = "raised"
    BY <1>1, <2>1, GotoRun
  <2>3. Stays
    BY <2>1, <2>2 DEF Stays, rows
  <2> QED BY <1>1, <1>2, <2>1, <2>3, TypeKept DEF rows
<1>8. CASE Summarise
  <2>1. UNCHANGED rows /\ run.pc = "call" /\ Result(Worst(run.results), "complete")
    BY <1>8 DEF Summarise, At
  <2>2. SameReading /\ run'.pc = "complete"
    BY <1>1, <2>1, ResultRun, WorstIsDecision
  <2>3. Stays
    BY <2>1, <2>2 DEF Stays, rows, Arrows
  <2> QED BY <1>1, <1>2, <2>1, <2>3, TypeKept DEF rows
<1>9. CASE CompleteStep
  <2>1. /\ UNCHANGED <<definition, deleted, workflow, link, review, score>>
        /\ run.pc = "complete" /\ Goto("next")
        /\ session' = [session EXCEPT ![run.session] = "COMPLETED"]
    BY <1>9 DEF CompleteStep, At
  <2>2. session' \in [0 .. Len(link) -> SessionStatus]
    BY <1>1, <1>3, <2>1, StatusPut
  <2>3. SameReading /\ run'.pc = "next"
    BY <1>1, <2>1, GotoRun
  <2>4. Stays
    BY <2>1, <2>3 DEF Stays, Arrows
  <2> QED BY <1>1, <1>2, <2>1, <2>2, <2>4, TypeKept
<1>10. CASE CloseLead
  <2>1. /\ UNCHANGED <<definition, deleted, workflow, link, review, score>>
        /\ run.pc = "close lead" /\ Goto("finish")
        /\ session' = [session EXCEPT ![0] = "COMPLETED"]
    BY <1>10 DEF CloseLead, At
  <2>2. session' \in [0 .. Len(link) -> SessionStatus]
    BY <1>1, <1>3, <2>1, StatusPut
  <2>3. SameReading /\ run'.pc = "finish"
    BY <1>1, <2>1, GotoRun
  <2>4. Stays
    BY <2>1, <2>3 DEF Stays, Arrows
  <2> QED BY <1>1, <1>2, <2>1, <2>2, <2>4, TypeKept
<1>11. CASE Finish
  <2>1. /\ UNCHANGED <<definition, deleted, session, link, review, score>>
        /\ run.pc = "finish" /\ Goto("evaluate")
        /\ workflow' = Completed(Worst(run.results))
    BY <1>11 DEF Finish, At
  <2>2. workflow' \in Workflow
    BY <2>1, WorstIsDecision DEF Completed, Workflow
  <2>3. SameReading /\ run'.pc = "evaluate"
    BY <1>1, <2>1, GotoRun
  <2>4. Stays
    BY <2>1, <2>3 DEF Stays
  <2> QED BY <1>1, <1>2, <2>1, <2>2, <2>4, TypeKept
<1>12. CASE Evaluate
  <2>1. UNCHANGED <<definition, deleted, workflow, session, link, review>> /\ run.pc = "evaluate"
    BY <1>12 DEF Evaluate, At
  <2>2. score' \in Score
    <3>1. CompletionScore \in Score
      BY DEF CompletionScore, Score
    <3>2. NotScored \in Score
      BY DEF Score
    <3> QED BY <1>2, <1>12, <3>1, <3>2 DEF Evaluate
  <2>3. Goto("returned") \/ Goto("raised")
    BY <1>12 DEF Evaluate
  <2>4. SameReading /\ run'.pc \in {"returned", "raised"}
    BY <1>1, <2>3, GotoRun
  <2>5. Stays
    BY <2>1, <2>4 DEF Stays, Arrows
  <2> QED BY <1>1, <1>2, <2>1, <2>2, <2>5, TypeKept
<1>13. CASE EnsureSession("lead", "link lead") \/ EnsureSession("session", "link")
  <2>1. <<"lead", "link lead">> \in Arrows /\ <<"session", "link">> \in Arrows
    BY DEF Arrows
  <2> QED BY <1>13, <2>1, EnsureStays
<1> QED BY <1>5, <1>6, <1>7, <1>8, <1>9, <1>10, <1>11, <1>12, <1>13

\* A death, an agent deleted, an item resolved.
LEMMA OthersStay ==
    ASSUME ExecutionInductive, Inv',
           \/ Die
           \/ \E a \in Agents : DeleteAgent(a)
           \/ \E n \in DOMAIN review : ResolveReviewItem(n)
           \/ UNCHANGED vars
    PROVE  TypeOK' /\ Stays
<1>1. TypeOK /\ run \in Run /\ run' \in Run
  BY DEF ExecutionInductive, Progress, Inv
<1>2. /\ deleted \subseteq Agents /\ workflow \in Workflow \cup {NoWorkflow} /\ score \in Score
      /\ session \in [0 .. Len(link) -> SessionStatus]
      /\ \A n \in DOMAIN review : review[n] \in ReviewStatus
  BY <1>1 DEF TypeOK
<1>3. CASE Die
  <2>1. UNCHANGED rows /\ run.pc # "idle" /\ Goto("died")
    BY <1>3 DEF Die, Over
  <2>2. SameReading /\ run'.pc = "died"
    BY <1>1, <2>1, GotoRun
  <2>3. Stays
    BY <2>1, <2>2 DEF Stays, rows
  <2> QED BY <1>1, <1>2, <2>1, <2>3, TypeKept DEF rows
<1>4. CASE \E a \in Agents : DeleteAgent(a)
  <2>1. /\ UNCHANGED <<definition, workflow, session, link, review, score, run>>
        /\ deleted' \subseteq Agents
    BY <1>2, <1>4 DEF DeleteAgent
  <2>2. Stays
    BY <2>1 DEF Stays, SameReading
  <2> QED BY <1>1, <1>2, <2>1, <2>2, TypeKept
<1>5. CASE \E n \in DOMAIN review : ResolveReviewItem(n)
  <2>1. UNCHANGED <<definition, deleted, workflow, session, link, score, run>>
    BY <1>5 DEF ResolveReviewItem
  <2>2. \A n \in DOMAIN review' : review'[n] \in ReviewStatus
    BY <1>2, <1>5 DEF ResolveReviewItem, ReviewStatus
  <2>3. Stays
    BY <2>1 DEF Stays, SameReading
  <2> QED BY <1>1, <1>2, <2>1, <2>2, <2>3, TypeKept
<1>6. CASE UNCHANGED vars
  <2>1. Stays
    BY <1>6 DEF vars, Stays, SameReading
  <2> QED BY <1>1, <1>2, <1>6, <2>1, TypeKept DEF vars
<1> QED BY <1>3, <1>4, <1>5, <1>6

-----------------------------------------------------------------------------
\* Steps that link a session or choose what is linked

LEMMA SaveProgress ==
    ASSUME ExecutionInductive, Inv', SavedFromPayload', NEW p \in Payloads, Save(p)
    PROVE  Progress'
<1>1. TypeOK /\ ReadOnce /\ PlanLinked /\ run \in Run
  BY DEF ExecutionInductive, Progress, Inv
<1>2. /\ UNCHANGED <<deleted, workflow, session, link, review, score, run>>
      /\ definition = NoDefinition /\ definition' = Definition(p)
  BY DEF Save
<1>3. run.pc = "idle" /\ run.session = 0 /\ Len(link) = 0 /\ link \in Seq(Link)
  BY <1>1, <1>2 DEF ReadOnce, PlanLinked, At, TypeOK
<1>4. WellMade(Definition(p))
  BY SavedIsWellMade DEF Save
<1>5. TypeOK'
  BY <1>1, <1>2, <1>4 DEF TypeOK, WellMade
<1>6. ReadOnce'
  BY <1>2, <1>3 DEF ReadOnce, At
<1>7. PlanLinked'
  BY <1>1, <1>2 DEF PlanLinked, At
<1>8. LinksFollowTheGraph'
  <2>1. DOMAIN link = {}
    BY <1>3
  <2> QED BY <1>2, <2>1 DEF LinksFollowTheGraph
<1> QED BY <1>5, <1>6, <1>7, <1>8 DEF Progress

LEMMA StartProgress ==
    ASSUME ExecutionInductive, Inv', NEW path \in Paths, Start(path)
    PROVE  Progress'
<1>1. /\ TypeOK /\ ReadOnce /\ PlanLinked /\ LinksFollowTheGraph /\ CompletedWithWorst
      /\ SavedFromPayload /\ run \in Run /\ run' \in Run
  BY DEF ExecutionInductive, Progress, Inv
<1>2. /\ definition # NoDefinition /\ run.pc = "idle"
      /\ run'.session = run.session /\ run'.pc \in {"lead", "raised"} /\ run'.path = path
      /\ run'.plan = Selected(definition, path)
      /\ run'.connections = Connections(definition, path)
  BY <1>1, StartReads
<1>3. /\ UNCHANGED <<definition, deleted, session, link, review, score>>
      /\ workflow' = workflow \/ workflow' = [status |-> "RUNNING", decision |-> None]
  BY DEF Start
<1>4. run.session = 0 /\ Len(link) = 0 /\ link \in Seq(Link) /\ workflow.status # "COMPLETED"
  BY <1>1, <1>2 DEF PlanLinked, CompletedWithWorst, TypeOK
<1>5. TypeOK'
  BY <1>1, <1>3 DEF TypeOK, Workflow
<1>6. ReadOnce'
  BY <1>2, <1>3 DEF ReadOnce, At
<1>7. PlanLinked'
  <2>1. run'.plan \in Seq(Step)
    BY <1>1 DEF Run
  <2>2. 0 \in 0 .. Len(run'.plan)
    BY <2>1
  <2>3. link' = link /\ run'.session = 0 /\ run'.pc \in {"lead", "raised"}
        /\ workflow'.status # "COMPLETED"
    BY <1>2, <1>3, <1>4
  <2>4. Len(link') = 0 /\ 2 .. Len(link') = {}
    BY <1>4, <2>3
  <2>5. run'.session \in 0 .. Len(run'.plan) /\ Len(link') \in {run'.session, run'.session + 1}
    BY <2>2, <2>3, <2>4
  <2> QED BY <2>3, <2>4, <2>5 DEF PlanLinked
<1>8. LinksFollowTheGraph'
  BY <1>1, <1>3 DEF LinksFollowTheGraph
<1> QED BY <1>5, <1>6, <1>7, <1>8 DEF Progress

LEMMA NextStepProgress ==
    ASSUME ExecutionInductive, Inv', NextStep
    PROVE  Progress'
<1>1. /\ TypeOK /\ ReadOnce /\ PlanLinked /\ LinksFollowTheGraph /\ CompletedWithWorst
      /\ run \in Run /\ run' \in Run
  BY DEF ExecutionInductive, Progress, Inv
<1>2. /\ UNCHANGED <<definition, deleted, workflow, session, link, review, score>>
      /\ run.pc = "next" /\ workflow.status # "COMPLETED"
  BY <1>1 DEF NextStep, At, rows, CompletedWithWorst
<1>3. /\ run.session \in Nat /\ run.plan \in Seq(Step) /\ Len(run.plan) \in Nat
      /\ run.session \in 0 .. Len(run.plan) /\ Len(link) = run.session + 1
  <2>1. run.session \in Nat /\ run.plan \in Seq(Step)
    BY <1>1 DEF Run
  <2>2. run.session \in 0 .. Len(run.plan) /\ Len(link) = run.session + 1
    BY <1>1, <1>2 DEF PlanLinked
  <2> QED BY <2>1, <2>2
<1>4. /\ run'.path = run.path /\ run'.plan = run.plan /\ run'.connections = run.connections
      /\ \/ /\ run.session < Len(run.plan)
            /\ run'.pc = "session" /\ run'.session = run.session + 1
         \/ /\ run.session = Len(run.plan)
            /\ run'.pc = "close lead" /\ run'.session = run.session
  <2>1. CASE run.session < Len(run.plan)
    <3>1. run' = [run EXCEPT !.pc = "session", !.session = run.session + 1]
      BY <2>1 DEF NextStep, Plan
    <3> QED BY <1>1, <2>1, <3>1 DEF Run
  <2>2. CASE ~(run.session < Len(run.plan))
    <3>1. run' = [run EXCEPT !.pc = "close lead"]
      BY <2>2 DEF NextStep, Plan
    <3>2. run.session = Len(run.plan)
      BY <1>3, <2>2
    <3> QED BY <1>1, <3>1, <3>2 DEF Run
  <2> QED BY <2>1, <2>2
<1>5. TypeOK'
  BY <1>1, <1>2 DEF TypeOK
<1>6. ReadOnce'
  BY <1>1, <1>2, <1>4 DEF ReadOnce, At
<1>7. PlanLinked'
  <2>1. \A i \in 2 .. Len(link) : link[i].id = run.plan[i - 1].id
    BY <1>1 DEF PlanLinked
  <2>2. run'.session \in 0 .. Len(run'.plan) /\ Len(link) \in {run'.session, run'.session + 1}
    <3>1. CASE run.session < Len(run.plan) /\ run'.session = run.session + 1
      <4>1. run'.plan = run.plan
        BY <1>4
      <4>2. run.session + 1 \in 0 .. Len(run.plan)
        BY <1>3, <3>1
      <4> QED BY <1>3, <3>1, <4>1, <4>2
    <3>2. CASE run.session = Len(run.plan) /\ run'.session = run.session
      BY <1>3, <1>4, <3>2
    <3> QED BY <1>4, <3>1, <3>2
  <2>3. link' = link /\ workflow'.status # "COMPLETED"
    BY <1>2
  <2>4. run'.pc \in {"session", "close lead"}
    BY <1>4
  <2>5. run'.pc = "session" => run'.session > 0 /\ Len(link) = run'.session
    BY <1>3, <1>4
  <2>6. run'.pc = "close lead" => run'.session = Len(run'.plan) /\ Len(link) = run'.session + 1
    BY <1>3, <1>4
  <2> QED BY <1>4, <2>1, <2>2, <2>3, <2>4, <2>5, <2>6 DEF PlanLinked, At
<1>8. LinksFollowTheGraph'
  BY <1>1, <1>2 DEF LinksFollowTheGraph
<1> QED BY <1>5, <1>6, <1>7, <1>8 DEF Progress

\* The sessions linked whose node hands off to id.
Handing(id) == {j \in 2 .. Len(link) : /\ link[j].id # LeadId
                                       /\ <<link[j].id, id>> \in ToSet(definition.edges)}

\* _parent_session_for_step finds one of them, if there is one.
LEMMA ParentHands ==
    ASSUME ExecutionInductive, At("link")
    PROVE  /\ Parent \in Nat /\ Current.id \in NodeIds
           /\ IF Parent = 0 THEN Handing(Current.id) = {} ELSE Parent + 1 \in Handing(Current.id)
<1> DEFINE w == definition
           path == run.path
           plan == run.plan
           connections == run.connections
           id == Current.id
           from == Incoming(connections, id)
           ran == {i \in DOMAIN from : from[i] # LeadId /\ SessionsOf(from[i]) # {}}
           known == {LeadId} \cup Ids(Steps(w, path))
<1>1. ReadOnce /\ PlanLinked /\ run \in Run /\ SavedFromPayload /\ run.pc = "link"
  BY DEF ExecutionInductive, Progress, Inv, At
<1>2. w # NoDefinition /\ plan = Selected(w, path) /\ connections = Connections(w, path)
  BY <1>1 DEF ReadOnce, At
<1>3. WellMade(w) /\ path \in Paths
  BY <1>1, <1>2, SavedIsWellMade DEF SavedFromPayload, Run
<1>4. /\ run.session \in Nat /\ run.session > 0 /\ run.session <= Len(plan)
      /\ Len(link) = run.session /\ Len(plan) \in Nat /\ DOMAIN plan = 1 .. Len(plan)
      /\ \A i \in 2 .. Len(link) : link[i].id = plan[i - 1].id
  <2>1. run.session \in Nat /\ plan \in Seq(Step)
    BY <1>1 DEF Run
  <2>2. /\ run.session \in 0 .. Len(plan) /\ run.session > 0 /\ Len(link) = run.session
        /\ \A i \in 2 .. Len(link) : link[i].id = plan[i - 1].id
    BY <1>1 DEF PlanLinked
  <2> QED BY <2>1, <2>2
<1>5. plan \in Seq(Step) /\ \A n \in 1 .. Len(plan) : plan[n].id \in known
  <2>1. /\ Selected(w, path) \in Seq(Step)
        /\ \A n \in DOMAIN Selected(w, path) : Selected(w, path)[n].id \in Ids(Steps(w, path))
    BY <1>3, SelectedFacts
  <2> QED BY <1>2, <1>4, <2>1
<1>6. id = plan[run.session].id /\ id \in NodeIds /\ id \in known
  <2>1. id = plan[run.session].id
    BY DEF Current, Plan
  <2>2. run.session \in 1 .. Len(plan)
    BY <1>4
  <2> HIDE DEF id, plan, known
  <2>3. plan[run.session] \in Step
    BY <1>4, <1>5, <2>2
  <2> QED BY <1>5, <2>1, <2>2, <2>3 DEF Step
<1>7. /\ connections \in Seq(Edge)
      /\ \A k \in DOMAIN connections :
            connections[k][1] # LeadId => connections[k] \in ToSet(w.edges)
      /\ \A e \in ToSet(w.edges) :
            {e[1], e[2]} \subseteq known => \E k \in DOMAIN connections : connections[k] = e
  BY <1>2, <1>3, ConnectionsFacts
<1>8. Parent = IF ran = {} THEN 0
               ELSE LET first == CHOOSE i \in ran : \A j \in ran : i <= j
                    IN  CHOOSE n \in SessionsOf(from[first]) :
                           \A m \in SessionsOf(from[first]) : m <= n
  BY DEF Parent
<1>9. \A x : SessionsOf(x) = {n \in 1 .. run.session - 1 : plan[n].id = x}
  BY DEF SessionsOf, Plan
<1> HIDE DEF w, path, plan, connections, id, known
<1>10. /\ from \in Seq(NodeIds)
       /\ \A i \in DOMAIN from :
             from[i] # LeadId => \E k \in DOMAIN connections : connections[k] = <<from[i], id>>
       /\ \A k \in DOMAIN connections :
             connections[k][2] = id => \E i \in DOMAIN from : from[i] = connections[k][1]
  BY <1>6, <1>7, IncomingFacts
<1> HIDE DEF from
<1>11. Handing(id) = {j \in 2 .. Len(link) : /\ link[j].id # LeadId
                                             /\ <<link[j].id, id>> \in ToSet(w.edges)}
  BY DEF Handing, w
<1>12. CASE ran = {}
  <2>1. ASSUME NEW j \in 2 .. Len(link), link[j].id # LeadId,
               <<link[j].id, id>> \in ToSet(w.edges)
        PROVE  FALSE
    <3>1. j - 1 \in 1 .. run.session - 1 /\ j - 1 \in 1 .. Len(plan)
          /\ link[j].id = plan[j - 1].id
      BY <1>4
    <3> DEFINE from2 == link[j].id
               edge == <<from2, id>>
    <3>2. from2 \in known /\ edge[1] = from2 /\ edge[2] = id
      BY <1>5, <3>1
    <3>3. PICK k \in DOMAIN connections : connections[k] = edge
      BY <1>6, <1>7, <2>1, <3>2
    <3>4. PICK i \in DOMAIN from : from[i] = from2
      BY <1>10, <3>2, <3>3
    <3>5. j - 1 \in SessionsOf(from2)
      BY <1>9, <3>1
    <3> QED BY <1>12, <2>1, <3>4, <3>5
  <2>2. Handing(id) = {} /\ Parent = 0
    BY <1>8, <1>11, <1>12, <2>1
  <2> QED BY <1>6, <2>2 DEF id
<1>13. CASE ran # {}
  <2> DEFINE first == CHOOSE i \in ran : \A j \in ran : i <= j
             sessions == SessionsOf(from[first])
  <2>1. \E i \in ran : \A j \in ran : i <= j
    <3>1. ran \in SUBSET Nat
      BY <1>10
    <3> HIDE DEF ran
    <3> QED BY <1>13, <3>1, LeastElement
  <2>2. first \in ran
    BY <2>1
  <2>3. first \in DOMAIN from /\ from[first] # LeadId /\ sessions # {}
    BY <2>2
  <2>4. Parent = CHOOSE n \in sessions : \A m \in sessions : m <= n
    BY <1>8, <1>13
  <2> HIDE DEF first
  <2>5. sessions \in SUBSET (0 .. run.session)
    BY <1>4, <1>9
  <2> HIDE DEF sessions
  <2>6. Parent \in sessions
    <3>1. \E n \in sessions : \A m \in sessions : m <= n
      BY <1>4, <2>3, <2>5, GreatestElement
    <3> QED BY <2>4, <3>1
  <2>7. Parent \in 1 .. run.session - 1 /\ plan[Parent].id = from[first]
    BY <1>9, <2>6 DEF sessions
  <2>8. <<from[first], id>> \in ToSet(w.edges)
    <3>1. PICK k \in DOMAIN connections : connections[k] = <<from[first], id>>
      BY <1>10, <2>3
    <3>2. connections[k][1] = from[first]
      BY <3>1
    <3> QED BY <1>7, <2>3, <3>1, <3>2
  <2>9. /\ Parent \in Nat /\ Parent # 0 /\ Parent + 1 \in 2 .. Len(link)
        /\ (Parent + 1) - 1 = Parent
    BY <1>4, <2>7
  <2>10. link[Parent + 1].id = from[first]
    BY <1>4, <2>7, <2>9
  <2>11. Parent + 1 \in Handing(id)
    BY <1>11, <2>3, <2>8, <2>9, <2>10
  <2> QED BY <1>6, <2>9, <2>11 DEF id
<1> QED BY <1>12, <1>13

\* The links before i whose node hands off to that of i.
HandingIn(l, i) == {j \in 2 .. i - 1 : /\ l[j].id # LeadId
                                       /\ <<l[j].id, l[i].id>> \in ToSet(definition.edges)}

\* One more session is linked, after the others.
LEMMA LinkFollows ==
    ASSUME TypeOK, LinksFollowTheGraph, NEW id \in NodeIds, NEW parent \in Int,
           Len(link) = run.session, definition' = definition,
           link' = Append(link, [session |-> run.session, id |-> id, parent |-> parent]),
           parent = -1 <=> Len(link) = 0,
           Len(link) > 0 =>
              IF parent = 0 THEN Handing(id) = {} ELSE parent + 1 \in Handing(id)
    PROVE  LinksFollowTheGraph'
<1> DEFINE new == [session |-> run.session, id |-> id, parent |-> parent]
           m == Len(link)
<1>1. /\ link \in Seq(Link) /\ m \in Nat /\ DOMAIN link = 1 .. m /\ run.session = m
  BY DEF TypeOK
<1>2. new.session = m /\ new.id = id /\ new.parent = parent
  BY <1>1
<1>3. new \in Link
  BY <1>1 DEF Link
<1> HIDE DEF new
<1>4. /\ Append(link, new)[m + 1] = new /\ \A i \in 1 .. m : Append(link, new)[i] = link[i]
      /\ DOMAIN Append(link, new) = 1 .. m + 1
  BY <1>1, <1>3
<1>5. link' = Append(link, new)
  BY DEF new
<1> DEFINE l == link'
<1>6. l[m + 1] = new /\ (\A i \in 1 .. m : l[i] = link[i]) /\ DOMAIN l = 1 .. m + 1
  BY <1>4, <1>5
<1> HIDE DEF m
<1>7. ASSUME NEW i \in DOMAIN l
      PROVE  /\ l[i].session = i - 1
             /\ i = 1 <=> l[i].parent = -1
             /\ i > 1 => IF l[i].parent = 0 THEN HandingIn(l, i) = {}
                         ELSE l[i].parent + 1 \in HandingIn(l, i)
  <2>1. CASE i \in 1 .. m
    <3>1. /\ link[i].session = i - 1
          /\ i = 1 <=> link[i].parent = -1
          /\ i > 1 => IF link[i].parent = 0 THEN HandingIn(link, i) = {}
                      ELSE link[i].parent + 1 \in HandingIn(link, i)
      BY <1>1, <2>1 DEF LinksFollowTheGraph, HandingIn
    <3>2. l[i] = link[i] /\ \A j \in 2 .. i - 1 : l[j] = link[j]
      BY <1>1, <1>6, <2>1
    <3>3. HandingIn(l, i) = HandingIn(link, i)
      BY <3>2 DEF HandingIn
    <3> QED BY <3>1, <3>2, <3>3
  <2>2. CASE i = m + 1
    <3>1. i - 1 = m /\ (i = 1 <=> m = 0) /\ (i > 1 => m > 0)
      BY <1>1, <2>2
    <3>2. \A j \in 2 .. i - 1 : l[j] = link[j]
      BY <1>1, <1>6, <2>2
    <3>3. l[i].session = i - 1 /\ l[i].id = id /\ l[i].parent = parent
      BY <1>2, <1>6, <2>2, <3>1
    <3>4. Handing(id) = HandingIn(l, i)
      BY <3>1, <3>2, <3>3 DEF Handing, HandingIn, m
    <3>5. i = 1 <=> parent = -1
      BY <3>1 DEF m
    <3>6. i > 1 => IF parent = 0 THEN Handing(id) = {} ELSE parent + 1 \in Handing(id)
      BY <3>1 DEF m
    <3> QED BY <3>3, <3>4, <3>5, <3>6
  <2> QED BY <1>1, <1>6, <2>1, <2>2
<1> QED BY <1>7 DEF LinksFollowTheGraph, HandingIn

\* The lead's session, or that of the step worked at with its parent.
Linking(from, to, id, parent) ==
    \/ from = "link lead" /\ to = "next" /\ parent = -1
    \/ /\ from = "link" /\ to = "call" /\ parent # -1
       /\ id = run.plan[run.session].id
       /\ IF parent = 0 THEN Handing(id) = {} ELSE parent + 1 \in Handing(id)

\* The rows of one more session, for the lead as for a step.
LEMMA LinkProgress ==
    ASSUME ExecutionInductive, Inv', NEW id \in NodeIds, NEW parent \in Int,
           NEW from, NEW to, Linking(from, to, id, parent), LinkSession(from, to, id, parent)
    PROVE  Progress'
<1>0. (from = "link lead" /\ to = "next") \/ (from = "link" /\ to = "call")
  BY DEF Linking
<1>1. /\ TypeOK /\ ReadOnce /\ PlanLinked /\ LinksFollowTheGraph /\ CompletedWithWorst
      /\ run \in Run /\ run' \in Run
  BY DEF ExecutionInductive, Progress, Inv
<1>2. run.pc = from /\ UNCHANGED <<definition, deleted, workflow, score>>
  BY DEF LinkSession, At
<1>3. CASE UNCHANGED <<link, session, review>> /\ Goto("raised")
  <2>1. SameReading /\ run'.pc = "raised"
    BY <1>1, <1>3, GotoRun
  <2>2. Stays
    BY <1>0, <1>2, <1>3, <2>1 DEF Stays
  <2>3. TypeOK'
    BY <1>1, <1>2, <1>3 DEF TypeOK
  <2> QED BY <2>2, <2>3, StaysStep DEF Progress
<1>4. CASE /\ link' = Append(link, [session |-> run.session, id |-> id, parent |-> parent])
           /\ session' = Grown(session, "none") /\ review' = Grown(review, "none")
           /\ Goto(to)
  <2> DEFINE new == [session |-> run.session, id |-> id, parent |-> parent]
             m == Len(link)
  <2>1. SameReading /\ run'.pc = to /\ workflow'.status # "COMPLETED"
    BY <1>0, <1>1, <1>2, <1>4, GotoRun DEF CompletedWithWorst
  <2>2. /\ m \in Nat /\ run.session = m /\ Len(link) = m /\ link \in Seq(Link)
        /\ run.plan \in Seq(Step) /\ run.session \in 0 .. Len(run.plan)
        /\ parent = -1 <=> m = 0
    <3>1. run.session \in Nat /\ link \in Seq(Link) /\ run.plan \in Seq(Step)
      BY <1>1 DEF TypeOK, Run
    <3>2. run.session \in 0 .. Len(run.plan)
      BY <1>1 DEF PlanLinked
    <3>3. CASE from = "link lead"
      <4>1. run.session = 0 /\ m = 0
        BY <1>1, <1>2, <3>3 DEF PlanLinked
      <4>2. parent = -1
        BY <3>3 DEF Linking
      <4> QED BY <3>1, <3>2, <4>1, <4>2
    <3>4. CASE from = "link"
      <4>1. run.session > 0 /\ m = run.session
        BY <1>1, <1>2, <3>4 DEF PlanLinked
      <4>2. parent # -1
        BY <3>4 DEF Linking
      <4> QED BY <3>1, <3>2, <4>1, <4>2
    <3> QED BY <1>0, <3>3, <3>4
  <2>3. new \in Link /\ new.id = id
    BY <2>2 DEF Link
  <2> HIDE DEF new, m
  <2>4. /\ link' = Append(link, new) /\ link' \in Seq(Link) /\ Len(link') = m + 1
        /\ link'[m + 1] = new /\ \A i \in 1 .. m : link'[i] = link[i]
    <3>1. link' = Append(link, new)
      BY <1>4 DEF new
    <3>2. /\ Append(link, new) \in Seq(Link) /\ Len(Append(link, new)) = m + 1
          /\ Append(link, new)[m + 1] = new /\ \A i \in 1 .. m : Append(link, new)[i] = link[i]
      BY <2>2, <2>3
    <3> QED BY <3>1, <3>2
  <2>5. TypeOK'
    <3>1. session' \in [0 .. m + 1 -> SessionStatus]
      <4>1. session \in [0 .. m -> SessionStatus]
        BY <1>1 DEF TypeOK, m
      <4>2. session' = [k \in 0 .. m + 1 |-> IF k \in DOMAIN session THEN session[k] ELSE "none"]
        BY <1>4 DEF Grown, m
      <4>3. \A k \in DOMAIN session : session[k] \in SessionStatus
        BY <4>1
      <4>4. "none" \in SessionStatus
        BY DEF SessionStatus
      <4> QED BY <4>2, <4>3, <4>4
    <3>2. \A n \in DOMAIN review' : review'[n] \in ReviewStatus
      <4>1. review' = [k \in 0 .. m + 1 |-> IF k \in DOMAIN review THEN review[k] ELSE "none"]
        BY <1>4 DEF Grown, m
      <4>2. \A n \in DOMAIN review : review[n] \in ReviewStatus
        BY <1>1 DEF TypeOK
      <4>3. "none" \in ReviewStatus
        BY DEF ReviewStatus
      <4> QED BY <4>1, <4>2, <4>3
    <3>3. session' \in [0 .. Len(link') -> SessionStatus]
      BY <2>4, <3>1
    <3> QED BY <1>1, <1>2, <2>4, <3>2, <3>3 DEF TypeOK
  <2>6. ReadOnce'
    <3>1. run'.pc # "idle" /\ run.pc # "idle"
      BY <1>0, <1>2, <2>1
    <3> QED BY <1>1, <1>2, <2>1, <3>1 DEF ReadOnce, At, SameReading
  <2>7. PlanLinked'
    <3>1. run'.session = run.session /\ run'.plan = run.plan
      BY <2>1 DEF SameReading
    <3>2. ASSUME NEW i \in 2 .. m + 1 PROVE link'[i].id = run.plan[i - 1].id
      <4>1. CASE i \in 2 .. m
        <5>1. link[i].id = run.plan[i - 1].id
          BY <1>1, <2>2, <4>1 DEF PlanLinked
        <5>2. i \in 1 .. m
          BY <2>2, <4>1
        <5> QED BY <2>4, <5>1, <5>2
      <4>2. CASE i = m + 1
        <5>1. m # 0 /\ i - 1 = run.session
          BY <2>2, <4>2
        <5>2. parent # -1
          BY <2>2, <5>1
        <5>3. id = run.plan[run.session].id
          BY <5>2 DEF Linking
        <5> QED BY <2>3, <2>4, <4>2, <5>1, <5>3
      <4> QED BY <2>2, <4>1, <4>2
    <3>3. Len(link') = run'.session + 1 /\ run'.session \in 0 .. Len(run'.plan)
      BY <2>2, <2>4, <3>1
    <3>4. \A i \in 2 .. Len(link') : link'[i].id = run'.plan[i - 1].id
      BY <2>4, <3>1, <3>2
    <3>5. run'.pc \in {"next", "call"}
      BY <1>0, <2>1
    <3> QED BY <2>1, <3>3, <3>4, <3>5 DEF PlanLinked
  <2>8. LinksFollowTheGraph'
    <3>1. parent = -1 <=> Len(link) = 0
      BY <2>2
    <3>2. Len(link) > 0 => IF parent = 0 THEN Handing(id) = {} ELSE parent + 1 \in Handing(id)
      <4>1. parent # -1 => IF parent = 0 THEN Handing(id) = {} ELSE parent + 1 \in Handing(id)
        BY DEF Linking
      <4>2. Len(link) > 0 => parent # -1
        BY <2>2
      <4> QED BY <4>1, <4>2
    <3>3. Len(link) = run.session
      BY <2>2
    <3> QED BY <1>1, <1>2, <1>4, <3>1, <3>2, <3>3, LinkFollows
  <2> QED BY <2>5, <2>6, <2>7, <2>8 DEF Progress
<1> QED BY <1>3, <1>4 DEF LinkSession

LEMMA MinusOne == -1 \in Int
  OBVIOUS

\* The lead's session is linked by the id "lead".
LEMMA LinkLeadProgress ==
    ASSUME ExecutionInductive, Inv', LinkSession("link lead", "next", LeadId, -1)
    PROVE  Progress'
<1>1. LeadId \in NodeIds
  BY WorkflowGraphAssumption
<1>2. Linking("link lead", "next", LeadId, -1)
  BY DEF Linking
<1> QED BY <1>1, <1>2, MinusOne, LinkProgress

LEMMA LinkStepProgress ==
    ASSUME ExecutionInductive, Inv', At("link"), LinkSession("link", "call", Current.id, Parent)
    PROVE  Progress'
<1> DEFINE id == Current.id
           parent == Parent
<1>1. /\ parent \in Nat /\ id \in NodeIds
      /\ IF parent = 0 THEN Handing(id) = {} ELSE parent + 1 \in Handing(id)
  BY ParentHands
<1>2. parent \in Int /\ parent # -1
  BY <1>1
<1>3. id = run.plan[run.session].id
  BY DEF Current, Plan
<1>4. LinkSession("link", "call", id, parent)
  OBVIOUS
<1> HIDE DEF id, parent
<1>5. Linking("link", "call", id, parent)
  BY <1>1, <1>2, <1>3 DEF Linking
<1> QED BY <1>1, <1>2, <1>4, <1>5, LinkProgress

LEMMA ProgressNext == ExecutionInductive /\ Inv' /\ SavedFromPayload' /\ [Next]_vars => Progress'
<1> SUFFICES ASSUME ExecutionInductive, Inv', SavedFromPayload', [Next]_vars PROVE Progress'
  OBVIOUS
<1>1. CASE \E p \in Payloads : Save(p)
  BY <1>1, SaveProgress
<1>2. CASE \E path \in Paths : Start(path)
  BY <1>2, StartProgress
<1>3. CASE NextStep
  BY <1>3, NextStepProgress
<1>4. CASE LinkSession("link lead", "next", LeadId, -1)
  BY <1>4, LinkLeadProgress
<1>5. CASE At("link") /\ LinkSession("link", "call", Current.id, Parent)
  BY <1>5, LinkStepProgress
<1>6. CASE \/ EnsureSession("lead", "link lead") \/ EnsureSession("session", "link")
           \/ CallTool \/ Respond \/ CallRaises \/ Summarise \/ CompleteStep
           \/ CloseLead \/ Finish \/ Evaluate
  BY <1>6, ExecuteStays, StaysStep DEF Progress
<1>7. CASE \/ Die
           \/ \E a \in Agents : DeleteAgent(a)
           \/ \E n \in DOMAIN review : ResolveReviewItem(n)
           \/ UNCHANGED vars
  BY <1>7, OthersStay, StaysStep DEF Progress
<1> QED BY <1>1, <1>2, <1>3, <1>4, <1>5, <1>6, <1>7 DEF Next, Execute

LEMMA InductiveAlways == Spec => []ExecutionInductive
<1>1. Init => ExecutionInductive
  <2>1. Init => SavedFromPayload
    BY DEF Init, SavedFromPayload
  <2> QED BY <2>1, InvInit, ProgressInit DEF ExecutionInductive
<1>2. ExecutionInductive /\ [Next]_vars => ExecutionInductive'
  <2>1. ExecutionInductive /\ [Next]_vars => Inv' /\ SavedFromPayload'
    BY InvNext, SavedNext DEF ExecutionInductive
  <2> QED BY <2>1, ProgressNext DEF ExecutionInductive
<1> QED BY <1>1, <1>2, PTL DEF Spec

-----------------------------------------------------------------------------
\* What it entails

\* When the execution is over every step of its plan has its session, and a node that
\* must run is in the plan.
LEMMA RequiredRun == ExecutionInductive => RequiredNodesRun
<1> SUFFICES ASSUME ExecutionInductive, workflow.status = "COMPLETED",
                    NEW node \in ToSet(definition.nodes), Required(definition, run.path, node)
             PROVE  \E i \in DOMAIN link : link[i].id = node.id
  BY DEF RequiredNodesRun, Required
<1>1. /\ ReadOnce /\ PlanLinked /\ run \in Run /\ SavedFromPayload
      /\ link \in Seq(Link)
  BY DEF ExecutionInductive, Progress, Inv, TypeOK
<1>2. /\ run.pc # "idle" /\ Len(link) = Len(run.plan) + 1
      /\ \A i \in 2 .. Len(link) : link[i].id = run.plan[i - 1].id
  BY <1>1 DEF PlanLinked, At
<1>3. definition # NoDefinition /\ run.plan = Selected(definition, run.path)
  BY <1>1, <1>2 DEF ReadOnce, At
<1>4. WellMade(definition) /\ run.path \in Paths /\ run.plan \in Seq(Step)
  BY <1>1, <1>3, SavedIsWellMade DEF SavedFromPayload, Run
<1>5. PICK n \in DOMAIN run.plan : run.plan[n].id = node.id
  BY <1>3, <1>4, RequiredSelected
<1>6. n + 1 \in 2 .. Len(link) /\ (n + 1) - 1 = n /\ n + 1 \in DOMAIN link
  BY <1>1, <1>2, <1>4
<1> QED BY <1>2, <1>5, <1>6

LEMMA CertifiedRun == SavedFromPayload => CertifiedRunsItsEdges
  BY SavedIsWellMade, CertifiedEdges DEF SavedFromPayload, CertifiedRunsItsEdges

\* A graph that was saved is the one that is evaluated, executed and linked: what is
\* certified is run by its edges (_workflow_connections), the sessions are linked to
\* parents that hand off to them (_parent_session_for_step), and a workflow that
\* completes has run every node that is always activated or asks for a human
\* (_lead_routing_decision); for every set of payloads, agents and node ids.
THEOREM ExecutionInvariance == Spec => []ExecutionInvariant
<1>1. ExecutionInductive => ExecutionInvariant
  <2>1. SavedFromPayload => SavedGraphIsSound
    BY AcceptedIsSound DEF SavedFromPayload, SavedGraphIsSound
  <2> QED BY <2>1, RequiredRun, CertifiedRun
          DEF ExecutionInductive, Progress, ExecutionInvariant
<1> QED BY <1>1, InductiveAlways, PTL
=============================================================================
