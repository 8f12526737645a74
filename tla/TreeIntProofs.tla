---------------------------- MODULE TreeIntProofs ----------------------------
(***************************************************************************)
(* Proofs about the two trees of TreeInt, for any number of keys and any   *)
(* sequence of calls.  What a tree is is said once for both: every node    *)
(* has a span, the set of the nodes at and under it, and the spans of its  *)
(* children are what lies on either side of it.  The lemmas about spans    *)
(* are about any functions with these properties; what a loop does to the  *)
(* pointers is then an instance of one of four of them, or of two.         *)
(***************************************************************************)
EXTENDS TreeInt, FiniteSetTheorems, WellFoundedInduction, TLAPS

Side == {"LEFT", "RIGHT"}
Other(s) == IF s = "LEFT" THEN "RIGHT" ELSE "LEFT"
Node == Key \cup {NULL}
Links == [Side -> [Key -> Node]]
Pointers == [Key -> Node]

(* Key x belongs on side s of key m.                                       *)
Beyond(s, m, x) == IF s = "LEFT" THEN x < m ELSE x > m

(* The tree of the nodes M with root r and children ch: sp[m] are the      *)
(* nodes at and under m.                                                   *)
Spans(M, r, ch, sp) ==
  /\ M \subseteq Key
  /\ r \in M \cup {NULL} /\ sp[r] = M /\ sp[NULL] = {}
  /\ \A m \in M :
       /\ m \in sp[m] /\ sp[m] \subseteq M
       /\ \A s \in Side :
            /\ ch[s][m] \in M \cup {NULL}
            /\ sp[ch[s][m]] = {x \in sp[m] : Beyond(s, m, x)}

(* The parents pa agree with the children.                                 *)
Parents(M, r, ch, pa) ==
  /\ \A m \in M, s \in Side : ch[s][m] # NULL => pa[ch[s][m]] = m
  /\ \A m \in M :
       IF m = r THEN pa[m] = NULL
       ELSE pa[m] \in M /\ \E s \in Side : ch[s][pa[m]] = m

Tree(M, r, ch, pa, sp) == Spans(M, r, ch, sp) /\ Parents(M, r, ch, pa)

(* Reaching a set of nodes from another, as Subtree does.                  *)
Children(ch, T) == {ch[s][x] : s \in Side, x \in T} \ {NULL}
BelowIs(ch, f) ==
  f = [T \in SUBSET Key |->
         IF T \cup Children(ch, T) = T THEN T ELSE f[T \cup Children(ch, T)]]

-----------------------------------------------------------------------------
(* Sides and keys.                                                         *)
LEMMA Keys ==
  /\ Key \subseteq Int /\ IsFiniteSet(Key) /\ NULL \notin Key
  /\ NONE \notin Key /\ NONE \notin {"insert", "remove", "find"} /\ NONE \notin BOOLEAN
<1>1. /\ IsFiniteSet(Key) /\ Key = 0 .. Cardinality(Key) - 1 /\ NULL \notin Key
      /\ NONE \notin Key /\ NONE \notin {"insert", "remove", "find"} /\ NONE \notin BOOLEAN
  BY TreeIntAssumption
<1>2. Cardinality(Key) \in Nat
  BY <1>1, FS_CardinalityType, Zenon
<1>3. QED
  BY <1>1, <1>2

LEMMA Sides ==
  ASSUME NEW s \in Side
  PROVE  Other(s) \in Side /\ Other(s) # s /\ Other(Other(s)) = s
         /\ \A u \in Side : u = s \/ u = Other(s)
BY DEF Side, Other

LEMMA Order ==
  ASSUME NEW s \in Side
  PROVE  \A x, y, z \in Key :
           /\ x = y \/ Beyond(s, x, y) \/ Beyond(Other(s), x, y)
           /\ ~(Beyond(s, x, y) /\ Beyond(Other(s), x, y))
           /\ ~Beyond(s, x, x)
           /\ Beyond(s, x, y) <=> Beyond(Other(s), y, x)
           /\ Beyond(s, x, y) /\ Beyond(s, y, z) => Beyond(s, x, z)
BY Keys DEF Side, Other, Beyond

(* Of a collection of sets of keys, one that contains no other.            *)
LEMMA LeastSet ==
  ASSUME NEW C \in SUBSET SUBSET Key, C # {}
  PROVE  \E T \in C : \A U \in C : U \subseteq T => U = T
<1>1. IsWellFoundedOn(StrictSubsetOrdering(Key), SUBSET Key)
  <2>1. FiniteSubsetsOf(Key) = SUBSET Key
    BY FS_FiniteSubsetsOfFinite, Keys, Zenon
  <2>2. QED
    BY <2>1, FS_StrictSubsetOrderingWellFounded, Zenon
<1>2. PICK T \in C : \A U \in C : ~(<<U, T>> \in StrictSubsetOrdering(Key))
  BY <1>1, WFMin, Zenon
<1>3. ASSUME NEW U \in C, U \subseteq T, U # T
      PROVE  FALSE
  <2>1. <<U, T>> \in StrictSubsetOrdering(Key)
    BY <1>3 DEF StrictSubsetOrdering
  <2>2. QED
    BY <1>2, <2>1
<1>4. QED
  BY <1>3

(* ... and one that is contained in no other.                              *)
LEMMA GreatestSet ==
  ASSUME NEW C \in SUBSET SUBSET Key, C # {}
  PROVE  \E T \in C : \A U \in C : T \subseteq U => U = T
<1> DEFINE D == {Key \ T : T \in C}
<1>1. D \in SUBSET SUBSET Key /\ D # {}
  <2>1. PICK T \in C : TRUE
    OBVIOUS
  <2>2. Key \ T \in D
    OBVIOUS
  <2>3. \A V \in D : V \subseteq Key
    OBVIOUS
  <2>4. QED
    BY <2>2, <2>3, Zenon
<1>2. PICK V \in D : \A U \in D : U \subseteq V => U = V
  BY <1>1, LeastSet, Zenon
<1>3. PICK T \in C : V = Key \ T
  OBVIOUS
<1>4. ASSUME NEW U \in C, T \subseteq U
      PROVE  U = T
  <2>1. Key \ U \in D /\ Key \ U \subseteq V
    BY <1>3, <1>4
  <2>2. Key \ U = V
    BY <1>2, <2>1, Zenon
  <2>3. QED
    BY <1>3, <2>2
<1>5. QED
  BY <1>4

-----------------------------------------------------------------------------
(* Subtree is well defined: it is the least set that contains the node and *)
(* the children of its elements.                                           *)
Closed(ch, C) == Children(ch, C) \subseteq C
Closure(ch, T) == {x \in Key : \A C \in SUBSET Key : T \subseteq C /\ Closed(ch, C) => x \in C}

LEMMA ChildrenAre ==
  ASSUME NEW ch \in Links, NEW T \in SUBSET Key
  PROVE  /\ Children(ch, T) \in SUBSET Key
         /\ \A C \in SUBSET Key : T \subseteq C => Children(ch, T) \subseteq Children(ch, C)
BY DEF Children, Links, Node

LEMMA ClosureStep ==
  ASSUME NEW ch \in Links, NEW T \in SUBSET Key
  PROVE  /\ T \cup Children(ch, T) \in SUBSET Key
         /\ Closure(ch, T \cup Children(ch, T)) = Closure(ch, T)
         /\ T \cup Children(ch, T) = T => Closure(ch, T) = T
<1>1. T \cup Children(ch, T) \in SUBSET Key
  BY ChildrenAre
<1>2. ASSUME NEW C \in SUBSET Key
      PROVE  T \subseteq C /\ Closed(ch, C) <=> T \cup Children(ch, T) \subseteq C /\ Closed(ch, C)
  BY ChildrenAre DEF Closed
<1>3. Closure(ch, T \cup Children(ch, T)) = Closure(ch, T)
  BY <1>2 DEF Closure
<1>4. T \cup Children(ch, T) = T => Closure(ch, T) = T
  BY DEF Closure, Closed
<1>5. QED
  BY <1>1, <1>3, <1>4

LEMMA BelowExists ==
  ASSUME NEW ch \in Links
  PROVE  BelowIs(ch, [T \in SUBSET Key |-> Closure(ch, T)])
BY ClosureStep DEF BelowIs

LEMMA BelowUnique ==
  ASSUME NEW ch \in Links, NEW f, BelowIs(ch, f), NEW T \in SUBSET Key
  PROVE  f[T] = Closure(ch, T)
<1> DEFINE C == {U \in SUBSET Key : f[U] # Closure(ch, U)}
<1>1. SUFFICES ASSUME C # {}
               PROVE  FALSE
  OBVIOUS
<1>2. C \in SUBSET SUBSET Key
  OBVIOUS
<1>3. PICK V \in SUBSET Key : V \in C /\ \A U \in C : V \subseteq U => U = V
  <2> HIDE DEF C
  <2>1. QED
    BY <1>1, <1>2, GreatestSet, Zenon
<1> DEFINE more == V \cup Children(ch, V)
<1>4. more \in SUBSET Key /\ Closure(ch, more) = Closure(ch, V) /\ (more = V => Closure(ch, V) = V)
  BY ClosureStep, Zenon
<1>5. f[V] = IF more = V THEN V ELSE f[more]
  BY Zenon DEF BelowIs
<1>6. more # V /\ f[more] # Closure(ch, more)
  BY <1>3, <1>4, <1>5
<1>7. more \in C
  BY <1>4, <1>6
<1>8. QED
  BY <1>3, <1>6, <1>7

LEMMA BelowChosen ==
  ASSUME NEW ch \in Links
  PROVE  BelowIs(ch, CHOOSE f : BelowIs(ch, f))
BY BelowExists, Zenon

LEMMA SubtreeClosure ==
  ASSUME child \in Links, NEW m \in Node
  PROVE  /\ ST!Subtree(m) = Closure(child, {m} \ {NULL})
         /\ RB!Subtree(m) = Closure(child, {m} \ {NULL})
<1>1. {m} \ {NULL} \in SUBSET Key
  BY DEF Node
<1>2. (CHOOSE f : BelowIs(child, f))[{m} \ {NULL}] = Closure(child, {m} \ {NULL})
  BY <1>1, BelowChosen, BelowUnique
<1>3. ST!Subtree(m) = (CHOOSE f : BelowIs(child, f))[{m} \ {NULL}]
  BY DEF ST!Subtree, ST!Side, BelowIs, Children, Side
<1>4. RB!Subtree(m) = (CHOOSE f : BelowIs(child, f))[{m} \ {NULL}]
  BY DEF RB!Subtree, RB!Side, BelowIs, Children, Side
<1>5. QED
  BY <1>2, <1>3, <1>4

(* A span has the spans of its nodes in it.                                *)
LEMMA SpanIn ==
  ASSUME NEW M, NEW r, NEW ch, NEW sp, Spans(M, r, ch, sp)
  PROVE  /\ M \subseteq Key /\ r \in M \cup {NULL} /\ sp[r] = M /\ sp[NULL] = {}
         /\ \A m \in M :
              /\ m \in sp[m] /\ sp[m] \subseteq M
              /\ \A x \in sp[m] : x \in M /\ sp[x] \subseteq sp[m]
              /\ \A x \in sp[m] : x = m \/ \E s \in Side : Beyond(s, m, x)
              /\ \A s \in Side :
                   /\ ch[s][m] \in M \cup {NULL}
                   /\ sp[ch[s][m]] = {x \in sp[m] : Beyond(s, m, x)}
                   /\ m \notin sp[ch[s][m]] /\ sp[ch[s][m]] \subseteq sp[m]
<1>1. /\ M \subseteq Key /\ r \in M \cup {NULL} /\ sp[r] = M /\ sp[NULL] = {}
      /\ \A x \in M : x \in sp[x] /\ sp[x] \subseteq M
      /\ \A x \in M, s \in Side : ch[s][x] \in M \cup {NULL}
                                  /\ sp[ch[s][x]] = {y \in sp[x] : Beyond(s, x, y)}
  BY DEF Spans
<1>2. ASSUME NEW m \in M, NEW x \in sp[m]
      PROVE  x = m \/ \E s \in Side : Beyond(s, m, x)
  <2>1. m \in Key /\ x \in Key
    BY <1>1
  <2>2. "LEFT" \in Side /\ Other("LEFT") \in Side
    BY DEF Side, Other
  <2>3. QED
    BY <2>1, <2>2, Order
<1>3. ASSUME NEW m \in M, NEW s \in Side
      PROVE  m \notin sp[ch[s][m]] /\ sp[ch[s][m]] \subseteq sp[m]
  BY <1>1, Order
<1>4. \A m \in M : \A x \in sp[m] : x \in M /\ sp[x] \subseteq sp[m]
  <2>1. SUFFICES ASSUME NEW v \in M, ~ \A x \in sp[v] : sp[x] \subseteq sp[v]
                 PROVE  FALSE
    BY <1>1
  <2> DEFINE C == {sp[u] : u \in {w \in M : \E x \in sp[w] : ~(sp[x] \subseteq sp[w])}}
  <2>2. C \in SUBSET SUBSET Key /\ C # {}
    BY <1>1, <2>1
  <2>3. PICK T \in C : \A U \in C : U \subseteq T => U = T
    BY <2>2, LeastSet, Zenon
  <2>4. PICK u \in M : T = sp[u] /\ \E x \in sp[u] : ~(sp[x] \subseteq sp[u])
    OBVIOUS
  <2>5. PICK x \in sp[u] : ~(sp[x] \subseteq sp[u])
    BY <2>4
  <2>6. PICK s \in Side : Beyond(s, u, x)
    BY <1>2, <2>5
  <2>7. x \in sp[ch[s][u]] /\ ch[s][u] \in M
    BY <1>1, <2>5, <2>6
  <2>8. ~(sp[x] \subseteq sp[ch[s][u]])
    BY <1>3, <2>5
  <2>9. sp[ch[s][u]] \in C
    BY <2>7, <2>8
  <2>10. QED
    BY <1>1, <1>3, <2>3, <2>4, <2>9, Zenon
<1>5. QED
  BY <1>1, <1>2, <1>3, <1>4

(* The subtree of a node is its span.                                      *)
LEMMA SpanClosure ==
  ASSUME NEW M, NEW r, NEW ch \in Links, NEW sp, Spans(M, r, ch, sp), NEW m \in M \cup {NULL}
  PROVE  Closure(ch, {m} \ {NULL}) = sp[m]
<1>1. /\ M \subseteq Key /\ sp[NULL] = {}
      /\ \A x \in M : x \in sp[x] /\ sp[x] \subseteq M
      /\ \A x \in M, s \in Side : ch[s][x] \in M \cup {NULL}
                                  /\ sp[ch[s][x]] = {y \in sp[x] : Beyond(s, x, y)}
  BY DEF Spans
<1>2. sp[m] \in SUBSET Key /\ {m} \ {NULL} \subseteq sp[m]
  BY <1>1
<1>3. \A x \in sp[m] : x \in M /\ sp[x] \subseteq sp[m]
  BY <1>1, SpanIn
<1>4. Closed(ch, sp[m])
  <2>1. ASSUME NEW s \in Side, NEW x \in sp[m], ch[s][x] # NULL
        PROVE  ch[s][x] \in sp[m]
    <3>1. x \in M /\ sp[x] \subseteq sp[m]
      BY <1>3
    <3>2. ch[s][x] \in sp[ch[s][x]] /\ sp[ch[s][x]] \subseteq sp[x]
      BY <1>1, <2>1, <3>1
    <3>3. QED
      BY <3>1, <3>2
  <2>2. QED
    BY <2>1 DEF Closed, Children
<1>5. Closure(ch, {m} \ {NULL}) \subseteq sp[m]
  BY <1>2, <1>4 DEF Closure
<1>6. ASSUME NEW D \in SUBSET Key, {m} \ {NULL} \subseteq D, Closed(ch, D), NEW z \in sp[m]
      PROVE  z \in D
  <2>1. SUFFICES ASSUME z \notin D
                 PROVE  FALSE
    OBVIOUS
  <2>2. m \in M /\ m \in D
    BY <1>1, <1>6
  <2> DEFINE C == {sp[u] : u \in {w \in M : w \in D /\ z \in sp[w]}}
  <2>3. C \in SUBSET SUBSET Key /\ C # {}
    BY <1>1, <2>2
  <2>4. PICK T \in C : \A U \in C : U \subseteq T => U = T
    BY <2>3, LeastSet, Zenon
  <2>5. PICK u \in M : T = sp[u] /\ u \in D /\ z \in sp[u]
    OBVIOUS
  <2>6. z # u
    BY <2>1, <2>5
  <2>7. PICK s \in Side : Beyond(s, u, z)
    BY <2>5, <2>6, SpanIn
  <2>8. z \in sp[ch[s][u]] /\ ch[s][u] \in M /\ sp[ch[s][u]] \subseteq sp[u]
    BY <1>1, <2>5, <2>7
  <2>9. u \notin sp[ch[s][u]] /\ u \in sp[u]
    BY <2>5, SpanIn
  <2>10. ch[s][u] \in D
    <3>1. ch[s][u] \in Children(ch, D)
      BY <1>1, <2>5, <2>8, Keys DEF Children
    <3>2. QED
      BY <1>6, <3>1 DEF Closed
  <2>11. sp[ch[s][u]] \in C
    BY <2>8, <2>10
  <2>12. QED
    BY <2>4, <2>5, <2>8, <2>9, <2>11
<1>7. QED
  BY <1>1, <1>2, <1>5, <1>6 DEF Closure


-----------------------------------------------------------------------------
(* What follows from the shape.                                            *)
LEMMA TreeFacts ==
  ASSUME NEW M, NEW r, NEW ch, NEW pa, NEW sp, Tree(M, r, ch, pa, sp)
  PROVE  /\ \A m \in M : m # r => pa[m] \in M /\ \E s \in Side : ch[s][pa[m]] = m
         /\ r \in M => pa[r] = NULL
         /\ \A m \in M, s \in Side : ch[s][m] # NULL =>
              /\ ch[s][m] \in M /\ ch[s][m] # r /\ ch[s][m] # m
              /\ pa[ch[s][m]] = m /\ Beyond(s, m, ch[s][m])
         /\ \A x, y \in M, s, t \in Side : ch[s][x] # NULL /\ ch[s][x] = ch[t][y] => x = y /\ s = t
         /\ \A x, y \in M : x \in sp[y] /\ y \in sp[x] => x = y
<1>1. /\ \A m \in M, s \in Side : ch[s][m] # NULL => pa[ch[s][m]] = m
      /\ \A m \in M : IF m = r THEN pa[m] = NULL
                       ELSE pa[m] \in M /\ \E s \in Side : ch[s][pa[m]] = m
  BY DEF Tree, Parents
<1>2. Spans(M, r, ch, sp) /\ M \subseteq Key
  BY SpanIn DEF Tree
<1>3. ASSUME NEW m \in M, NEW s \in Side, ch[s][m] # NULL
      PROVE  /\ ch[s][m] \in M /\ ch[s][m] # r /\ ch[s][m] # m
             /\ pa[ch[s][m]] = m /\ Beyond(s, m, ch[s][m])
  <2>1. ch[s][m] \in M /\ pa[ch[s][m]] = m /\ ch[s][m] \in sp[ch[s][m]]
    BY <1>1, <1>2, <1>3, SpanIn
  <2>2. ch[s][m] # m /\ Beyond(s, m, ch[s][m])
    BY <1>2, <2>1, SpanIn
  <2>3. ch[s][m] # r
    BY <1>1, <1>2, <2>1, Keys, Zenon
  <2>4. QED
    BY <2>1, <2>2, <2>3
<1>4. ASSUME NEW x \in M, NEW y \in M, NEW s \in Side, NEW t \in Side,
             ch[s][x] # NULL, ch[s][x] = ch[t][y]
      PROVE  x = y /\ s = t
  <2>1. x = y /\ Beyond(s, x, ch[s][x]) /\ Beyond(t, x, ch[s][x]) /\ ch[s][x] \in M
    BY <1>3, <1>4
  <2>2. t = s \/ t = Other(s)
    BY Sides
  <2>3. QED
    BY <1>2, <2>1, <2>2, Order
<1>5. ASSUME NEW x \in M, NEW y \in M, x \in sp[y], y \in sp[x]
      PROVE  x = y
  <2>1. SUFFICES ASSUME x # y
                 PROVE  FALSE
    OBVIOUS
  <2>2. PICK s \in Side : Beyond(s, y, x)
    BY <1>2, <1>5, <2>1, SpanIn
  <2>3. x \in sp[ch[s][y]] /\ y \notin sp[ch[s][y]] /\ ch[s][y] \in M
    BY <1>2, <1>5, <2>2, SpanIn
  <2>4. sp[x] \subseteq sp[ch[s][y]]
    BY <1>2, <2>3, SpanIn
  <2>5. QED
    BY <1>5, <2>3, <2>4
<1>6. QED
  BY <1>1, <1>3, <1>4, <1>5, <1>2, SpanIn

(* The parent of a node under x is at or under x.                          *)
LEMMA UpIn ==
  ASSUME NEW M, NEW r, NEW ch, NEW pa, NEW sp, Tree(M, r, ch, pa, sp),
         NEW x \in M, NEW w \in sp[x], w # x
  PROVE  w \in M /\ w # r /\ pa[w] \in sp[x]
<1>1. SUFFICES ASSUME ~(w # r /\ pa[w] \in sp[x])
               PROVE  FALSE
  BY SpanIn DEF Tree
<1>2. Spans(M, r, ch, sp) /\ w \in M
  BY SpanIn DEF Tree
<1> DEFINE C == {sp[y] : y \in {z \in M : w \in sp[z] /\ w # z /\ ~(w # r /\ pa[w] \in sp[z])}}
<1>3. C \in SUBSET SUBSET Key /\ C # {}
  <2>1. sp[x] \in C
    BY <1>1
  <2>2. \A y \in M : sp[y] \subseteq Key
    BY <1>2, SpanIn
  <2>3. QED
    BY <2>1, <2>2
<1>4. PICK T \in C : \A U \in C : U \subseteq T => U = T
  BY <1>3, LeastSet, Zenon
<1>5. PICK y \in M : T = sp[y] /\ w \in sp[y] /\ w # y /\ ~(w # r /\ pa[w] \in sp[y])
  OBVIOUS
<1>6. PICK s \in Side : Beyond(s, y, w)
  BY <1>2, <1>5, SpanIn
<1>7. w \in sp[ch[s][y]] /\ ch[s][y] \in M /\ y \notin sp[ch[s][y]] /\ sp[ch[s][y]] \subseteq sp[y]
  BY <1>2, <1>5, <1>6, SpanIn
<1>8. CASE w = ch[s][y]
  <2>1. ch[s][y] # NULL
    BY <1>2, <1>7, SpanIn, Keys
  <2>2. w # r /\ pa[w] = y /\ y \in sp[y]
    BY <1>2, <1>8, <2>1, TreeFacts, SpanIn
  <2>3. QED
    BY <1>5, <2>2
<1>9. CASE w # ch[s][y]
  <2>1. ~(w # r /\ pa[w] \in sp[ch[s][y]])
    BY <1>5, <1>7
  <2>2. sp[ch[s][y]] \in C
    BY <1>7, <1>9, <2>1
  <2>3. y \in sp[y]
    BY <1>2, SpanIn
  <2>4. QED
    BY <1>4, <1>5, <1>7, <2>2, <2>3
<1>10. QED
  BY <1>8, <1>9

-----------------------------------------------------------------------------
(* The four changes of a tree.  A node k is attached under q, where no     *)
(* other node on the way from the root tells the two apart ...             *)
LEMMA Attach ==
  ASSUME NEW M, NEW r, NEW ch, NEW pa, NEW sp, Tree(M, r, ch, pa, sp),
         NEW k \in Key, k \notin M, NEW q \in M, NEW s \in Side, ch[s][q] = NULL, Beyond(s, q, k),
         \A m \in M : q \in sp[m] /\ m # q => \A u \in Side : Beyond(u, m, k) <=> Beyond(u, m, q),
         NEW ch2, NEW pa2,
         \A m \in M, t \in Side : ch2[t][m] = IF m = q /\ t = s THEN k ELSE ch[t][m],
         \A t \in Side : ch2[t][k] = NULL,
         \A m \in M : pa2[m] = pa[m],
         pa2[k] = q
  PROVE  \E sp2 : Tree(M \cup {k}, r, ch2, pa2, sp2)
<1> DEFINE sp2 == [m \in Node |-> IF m = k THEN {k} ELSE IF m # NULL /\ q \in sp[m] THEN sp[m] \cup {k} ELSE sp[m]]
           N == M \cup {k}
<1>1. Spans(M, r, ch, sp) /\ M \subseteq Key /\ r \in M \cup {NULL} /\ sp[NULL] = {} /\ sp[r] = M
  BY SpanIn DEF Tree
<1>2. k # NULL /\ M \subseteq Node /\ k \in Node /\ NULL \in Node /\ q # NULL /\ r # k /\ NULL \notin M
  BY <1>1, Keys DEF Node
<1>3. sp2[NULL] = {} /\ sp2[k] = {k} /\ \A m \in M : sp2[m] = IF q \in sp[m] THEN sp[m] \cup {k} ELSE sp[m]
  BY <1>1, <1>2
<1> HIDE DEF sp2
<1>12. \A c \in M \cup {NULL} : sp2[c] = IF q \in sp[c] THEN sp[c] \cup {k} ELSE sp[c]
  BY <1>1, <1>3, Zenon
<1>4. N \subseteq Key /\ r \in N \cup {NULL} /\ sp2[r] = N
  BY <1>1, <1>2, <1>3, Zenon
<1>5. ASSUME NEW m \in M, NEW t \in Side
      PROVE  /\ m \in sp2[m] /\ sp2[m] \subseteq N /\ ch2[t][m] \in N \cup {NULL}
             /\ sp2[ch2[t][m]] = {x \in sp2[m] : Beyond(t, m, x)}
  <2>1. m \in sp[m] /\ sp[m] \subseteq M /\ ch[t][m] \in M \cup {NULL} /\ sp[ch[t][m]] = {x \in sp[m] : Beyond(t, m, x)}
    BY <1>1, SpanIn
  <2>2. ch2[t][m] = IF m = q /\ t = s THEN k ELSE ch[t][m]
    OBVIOUS
  <2>3. m \in sp2[m] /\ sp2[m] \subseteq N /\ ch2[t][m] \in N \cup {NULL}
    BY <1>3, <2>1, <2>2, ZenonT(40)
  <2>4. CASE q \notin sp[m]
    <3>1. m # q /\ q \notin sp[ch[t][m]]
      BY <2>1, <2>4
    <3>2. ch2[t][m] = ch[t][m] /\ sp2[ch[t][m]] = sp[ch[t][m]] /\ sp2[m] = sp[m]
      BY <1>12, <2>1, <2>2, <2>4, <3>1, Zenon
    <3>3. QED
      BY <2>1, <2>3, <3>2
  <2>5. CASE m = q /\ t = s
    <3>1. sp2[m] = sp[m] \cup {k} /\ {x \in sp[m] : Beyond(t, m, x)} = {}
      BY <1>1, <1>3, <2>1, <2>5, Zenon
    <3>2. QED
      BY <1>3, <2>2, <2>5, <3>1, <2>3
  <2>6. CASE m = q /\ t # s
    <3>1. ~Beyond(t, q, k) /\ q \notin sp[ch[t][q]]
      <4>1. t = Other(s)
        BY <2>6, Sides
      <4>2. QED
        BY <1>1, <4>1, Order, SpanIn
    <3>2. ch2[t][m] = ch[t][m] /\ sp2[ch[t][m]] = sp[ch[t][m]] /\ sp2[m] = sp[m] \cup {k}
      BY <1>12, <2>1, <2>2, <2>6, <3>1, Zenon
    <3>3. {x \in sp2[m] : Beyond(t, m, x)} = {x \in sp[m] : Beyond(t, m, x)}
      BY <2>6, <3>1, <3>2
    <3>4. QED
      BY <2>1, <2>3, <3>2, <3>3
  <2>7. CASE m # q /\ q \in sp[m]
    <3>1. Beyond(t, m, k) <=> Beyond(t, m, q)
      BY <2>7
    <3>2. sp2[m] = sp[m] \cup {k} /\ ch2[t][m] = ch[t][m]
      BY <1>3, <2>2, <2>7, Zenon
    <3>3. CASE Beyond(t, m, q)
      <4>1. q \in sp[ch[t][m]] /\ ch[t][m] \in M
        BY <1>1, <2>1, <2>7, <3>3
      <4>2. sp2[ch[t][m]] = sp[ch[t][m]] \cup {k}
        BY <1>3, <4>1, Zenon
      <4>3. {x \in sp[m] \cup {k} : Beyond(t, m, x)} = {x \in sp[m] : Beyond(t, m, x)} \cup {k}
        BY <3>1, <3>3
      <4>4. QED
        BY <2>1, <2>3, <3>2, <4>2, <4>3
    <3>4. CASE ~Beyond(t, m, q)
      <4>1. q \notin sp[ch[t][m]] /\ sp2[ch[t][m]] = sp[ch[t][m]]
        BY <1>1, <1>3, <2>1, <3>4, Zenon
      <4>2. QED
        BY <2>1, <2>3, <3>1, <3>2, <3>4, <4>1
    <3>5. QED
      BY <3>3, <3>4
  <2>8. QED
    BY <2>4, <2>5, <2>6, <2>7, <1>1, SpanIn
<1>6. ASSUME NEW t \in Side
      PROVE  ch2[t][k] = NULL /\ sp2[NULL] = {x \in sp2[k] : Beyond(t, k, x)}
  BY <1>3, Order
<1>7. Spans(N, r, ch2, sp2)
  BY <1>3, <1>4, <1>5, <1>6 DEF Spans
<1>8. ASSUME NEW m \in N, NEW t \in Side, ch2[t][m] # NULL
      PROVE  pa2[ch2[t][m]] = m
  BY <1>2, <1>8, TreeFacts
<1>9. ASSUME NEW m \in N
      PROVE  IF m = r THEN pa2[m] = NULL ELSE pa2[m] \in N /\ \E t \in Side : ch2[t][pa2[m]] = m
  <2>1. CASE m = k
    BY <1>2, <2>1
  <2>2. CASE m = r /\ m # k
    BY <2>2, TreeFacts
  <2>3. CASE m # r /\ m # k
    <3>1. PICK t \in Side : pa[m] \in M /\ ch[t][pa[m]] = m
      BY <2>3, TreeFacts
    <3>2. m \in M /\ m # NULL
      BY <1>2, <2>3
    <3>3. ~(pa[m] = q /\ t = s)
      BY <3>1, <3>2
    <3>4. ch2[t][pa2[m]] = m
      BY <3>1, <3>2, <3>3
    <3>5. QED
      BY <2>3, <3>1, <3>2, <3>4
  <2>4. QED
    BY <2>1, <2>2, <2>3
<1>10. Parents(N, r, ch2, pa2)
  BY <1>8, <1>9 DEF Parents
<1>11. QED
  BY <1>7, <1>10 DEF Tree

(* ... a child y of x goes up to the place of its parent ...               *)
LEMMA Turn ==
  ASSUME NEW M, NEW r, NEW ch, NEW pa, NEW sp, Tree(M, r, ch, pa, sp),
         NEW x \in M, NEW s \in Side, NEW y, y = ch[s][x], y # NULL,
         NEW z, z = ch[Other(s)][y],
         NEW r2, NEW ch2, NEW pa2,
         r2 = IF r = x THEN y ELSE r,
         \A m \in M, t \in Side : ch2[t][m] = IF m = x /\ t = s THEN z
                                              ELSE IF m = y /\ t = Other(s) THEN x
                                              ELSE IF ch[t][m] = x THEN y ELSE ch[t][m],
         \A m \in M : pa2[m] = IF m = y THEN pa[x] ELSE IF m = x THEN y
                               ELSE IF m = z THEN x ELSE pa[m]
  PROVE  \E sp2 : Tree(M, r2, ch2, pa2, sp2)
<1> DEFINE o == Other(s)
           sp2 == [m \in Node |-> IF m = y THEN sp[x]
                                  ELSE IF m = x THEN {w \in sp[x] : Beyond(o, y, w)} ELSE sp[m]]
<1>1. Spans(M, r, ch, sp) /\ M \subseteq Key /\ r \in M \cup {NULL} /\ sp[NULL] = {} /\ sp[r] = M
  BY SpanIn DEF Tree
<1>2. o \in Side /\ o # s /\ Other(o) = s /\ \A u \in Side : u = s \/ u = o
  BY Sides
<1>3. y \in M /\ y # x /\ y # r /\ Beyond(s, x, y) /\ pa[y] = x /\ y \in sp[x]
  BY <1>1, TreeFacts, SpanIn
<1>4. NULL \notin M /\ M \subseteq Node /\ NULL \in Node /\ x # NULL
  BY <1>1, Keys DEF Node
<1>5. z \in M \cup {NULL} /\ z # y /\ (z # NULL => pa[z] = y)
  BY <1>1, <1>2, <1>3, <1>4, TreeFacts, SpanIn
<1>6. x \notin sp[y] /\ z # x
  <2>1. x \notin sp[y]
    BY <1>1, SpanIn
  <2>2. z # NULL => z \in sp[z] /\ sp[z] \subseteq sp[y]
    BY <1>1, <1>2, <1>3, <1>5, SpanIn
  <2>3. QED
    BY <1>4, <2>1, <2>2
<1>7. /\ sp2[y] = sp[x] /\ sp2[x] = {w \in sp[x] : Beyond(o, y, w)}
      /\ \A m \in M \cup {NULL} : m # x /\ m # y => sp2[m] = sp[m]
  BY <1>3, <1>4
<1> HIDE DEF sp2
<1>8. r2 \in M \cup {NULL} /\ sp2[r2] = M /\ sp2[NULL] = {}
  BY <1>1, <1>3, <1>4, <1>7
<1>9. /\ sp[x] \subseteq M /\ sp[x] \subseteq Key /\ x \in sp[x] /\ y \in sp[y] /\ x \in Key /\ y \in Key
      /\ sp[y] = {w \in sp[x] : Beyond(s, x, w)}
      /\ sp[z] = {w \in sp[y] : Beyond(o, y, w)}
      /\ \A t \in Side : ch[t][x] # x /\ ch[t][y] # y /\ ch[t][y] # x /\ (ch[t][x] = y => t = s)
      /\ \A m \in M, t \in Side : ch[t][m] = y => m = x /\ t = s
      /\ \A m \in M, t \in Side : ch[t][m] = x => pa[x] = m
  <2>1. /\ sp[x] \subseteq M /\ sp[x] \subseteq Key /\ x \in sp[x] /\ y \in sp[y] /\ x \in Key /\ y \in Key
        /\ sp[y] = {w \in sp[x] : Beyond(s, x, w)}
        /\ sp[z] = {w \in sp[y] : Beyond(o, y, w)}
    BY <1>1, <1>2, <1>3, SpanIn
  <2>2. ASSUME NEW t \in Side
        PROVE  ch[t][x] # x /\ ch[t][y] # y /\ ch[t][y] # x
    <3>1. ch[t][x] # x /\ ch[t][y] # y
      BY <1>3, <1>4, TreeFacts
    <3>2. ch[t][y] # NULL => ch[t][y] \in sp[y]
      BY <1>1, <1>3, SpanIn
    <3>3. QED
      BY <1>4, <1>6, <3>1, <3>2
  <2>3. \A m \in M, t \in Side : ch[t][m] = y => m = x /\ t = s
    BY TreeFacts
  <2>4. \A m \in M, t \in Side : ch[t][m] = x => pa[x] = m
    BY <1>4, TreeFacts
  <2>5. QED
    BY <2>1, <2>2, <2>3, <2>4
<1>10. ASSUME NEW m \in M
       PROVE  m \in sp2[m] /\ sp2[m] \subseteq M
  <2>1. m \in sp[m] /\ sp[m] \subseteq M
    BY <1>1, SpanIn
  <2>2. Beyond(o, y, x)
    BY <1>2, <1>3, <1>9, Order
  <2>3. QED
    BY <1>3, <1>7, <1>9, <2>1, <2>2
<1>11. ASSUME NEW m \in M, NEW t \in Side
       PROVE  ch2[t][m] \in M \cup {NULL} /\ sp2[ch2[t][m]] = {w \in sp2[m] : Beyond(t, m, w)}
  <2>1. ch[t][m] \in M \cup {NULL} /\ sp[ch[t][m]] = {w \in sp[m] : Beyond(t, m, w)}
    BY <1>1, SpanIn
  <2>2. CASE m = y /\ t = o
    <3>1. ch2[t][m] = x
      BY <1>2, <1>3, <2>2
    <3>2. QED
      BY <1>7, <2>2, <3>1
  <2>3. CASE m = y /\ t = s
    <3>1. ch2[t][m] = ch[s][y] /\ ch[s][y] # x /\ ch[s][y] # y
      BY <1>2, <1>3, <1>9, <2>3
    <3>2. \A w \in sp[x] : Beyond(s, y, w) => Beyond(s, x, w)
      BY <1>3, <1>9, Order
    <3>3. sp2[ch2[t][m]] = {w \in sp[y] : Beyond(s, y, w)}
      BY <1>7, <2>1, <2>3, <3>1
    <3>4. sp2[m] = sp[x]
      BY <1>7, <2>3
    <3>5. QED
      BY <1>9, <2>1, <2>3, <3>1, <3>2, <3>3, <3>4
  <2>4. CASE m = x /\ t = s
    <3>1. ch2[t][m] = z /\ sp2[z] = sp[z]
      BY <1>5, <1>6, <1>7, <2>4
    <3>2. QED
      BY <1>5, <1>7, <1>9, <2>4, <3>1
  <2>5. CASE m = x /\ t = o
    <3>1. ch2[t][m] = ch[o][x] /\ ch[o][x] # x /\ ch[o][x] # y
      BY <1>2, <1>3, <1>9, <2>5
    <3>2. sp2[ch2[t][m]] = {w \in sp[x] : Beyond(o, x, w)}
      BY <1>7, <2>1, <2>5, <3>1
    <3>3. \A w \in sp[x] : Beyond(o, x, w) => Beyond(o, y, w)
      BY <1>2, <1>3, <1>9, Order
    <3>4. QED
      BY <1>7, <2>1, <2>5, <3>1, <3>2, <3>3
  <2>6. CASE m # x /\ m # y
    <3>1. sp2[m] = sp[m] /\ ch[t][m] # y
      BY <1>7, <1>9, <2>6
    <3>2. ch2[t][m] = IF ch[t][m] = x THEN y ELSE ch[t][m]
      BY <2>6
    <3>3. sp2[ch2[t][m]] = sp[ch[t][m]]
      BY <1>7, <2>1, <3>1, <3>2
    <3>4. QED
      BY <1>3, <2>1, <3>1, <3>2, <3>3
  <2>7. QED
    BY <1>2, <2>2, <2>3, <2>4, <2>5, <2>6
<1>12. Spans(M, r2, ch2, sp2)
  BY <1>1, <1>8, <1>10, <1>11 DEF Spans
<1>13. ASSUME NEW m \in M, NEW t \in Side, ch2[t][m] # NULL
       PROVE  pa2[ch2[t][m]] = m
  <2>1. ch[t][m] # NULL => ch[t][m] \in M /\ pa[ch[t][m]] = m
    BY TreeFacts
  <2>2. CASE m = x /\ t = s
    <3>1. ch2[t][m] = z
      BY <2>2
    <3>2. QED
      BY <1>5, <1>6, <1>13, <2>2, <3>1
  <2>3. CASE m = y /\ t = o
    <3>1. ch2[t][m] = x
      BY <1>2, <1>3, <2>3
    <3>2. QED
      BY <1>3, <2>3, <3>1
  <2>4. CASE ~(m = x /\ t = s) /\ ~(m = y /\ t = o) /\ ch[t][m] = x
    <3>1. ch2[t][m] = y
      BY <2>4
    <3>2. QED
      BY <1>3, <1>9, <2>4, <3>1
  <2>5. CASE ~(m = x /\ t = s) /\ ~(m = y /\ t = o) /\ ch[t][m] # x
    <3>1. ch2[t][m] = ch[t][m] /\ ch[t][m] # NULL
      BY <1>13, <2>5
    <3>2. ch[t][m] # y
      BY <1>9, <2>5
    <3>3. ch[t][m] # z
      <4>1. ASSUME ch[t][m] = z
            PROVE  m = y /\ t = o
        BY <1>2, <1>3, <3>1, <4>1, TreeFacts
      <4>2. QED
        BY <2>5, <4>1
    <3>4. QED
      BY <2>1, <2>5, <3>1, <3>2, <3>3
  <2>6. QED
    BY <2>2, <2>3, <2>4, <2>5
<1>14. ASSUME NEW m \in M
       PROVE  IF m = r2 THEN pa2[m] = NULL ELSE pa2[m] \in M /\ \E t \in Side : ch2[t][pa2[m]] = m
  <2>1. m # r => pa[m] \in M /\ \E t \in Side : ch[t][pa[m]] = m
    BY TreeFacts
  <2>2. m = r => pa[m] = NULL
    BY TreeFacts
  <2>3. CASE m = y
    <3>1. pa2[m] = pa[x]
      BY <2>3
    <3>2. CASE r = x
      BY <2>3, <3>1, <3>2, TreeFacts
    <3>3. CASE r # x
      <4>1. PICK t \in Side : pa[x] \in M /\ ch[t][pa[x]] = x
        BY <3>3, TreeFacts
      <4>2. pa[x] # x /\ pa[x] # y
        BY <1>9, <4>1
      <4>3. ch2[t][pa[x]] = y
        BY <4>1, <4>2
      <4>4. QED
        BY <1>3, <2>3, <3>1, <3>3, <4>1, <4>3
    <3>4. QED
      BY <3>2, <3>3
  <2>4. CASE m = x
    <3>1. pa2[m] = y /\ m # r2 /\ ch2[o][y] = x
      BY <1>2, <1>3, <2>4
    <3>2. QED
      BY <1>2, <1>3, <2>4, <3>1
  <2>5. CASE m = z
    <3>1. m # r
      BY <1>2, <1>3, <1>4, <2>5, TreeFacts
    <3>2. pa2[m] = x /\ m # r2 /\ ch2[s][x] = z
      BY <1>3, <1>5, <1>6, <2>5, <3>1
    <3>3. QED
      BY <2>5, <3>2
  <2>6. CASE m # x /\ m # y /\ m # z
    <3>1. pa2[m] = pa[m]
      BY <2>6
    <3>2. CASE m = r
      BY <2>2, <2>6, <3>1, <3>2
    <3>3. CASE m # r
      <4>1. PICK t \in Side : pa[m] \in M /\ ch[t][pa[m]] = m
        BY <2>1, <3>3
      <4>2. ~(pa[m] = x /\ t = s) /\ ~(pa[m] = y /\ t = o)
        BY <2>6, <4>1
      <4>3. ch2[t][pa[m]] = m
        BY <2>6, <4>1, <4>2
      <4>4. QED
        BY <2>6, <3>1, <3>3, <4>1, <4>3
    <3>4. QED
      BY <3>2, <3>3
  <2>7. QED
    BY <2>3, <2>4, <2>5, <2>6
<1>15. Parents(M, r2, ch2, pa2)
  BY <1>13, <1>14 DEF Parents
<1>16. QED
  BY <1>12, <1>15 DEF Tree

Turned(M, x, s, r, ch, pa, r2, ch2, pa2) ==
  LET y == ch[s][x]
      z == ch[Other(s)][y]
  IN  /\ r2 = IF r = x THEN y ELSE r
      /\ \A m \in M, t \in Side : ch2[t][m] = IF m = x /\ t = s THEN z
                                              ELSE IF m = y /\ t = Other(s) THEN x
                                              ELSE IF ch[t][m] = x THEN y ELSE ch[t][m]
      /\ \A m \in M : pa2[m] = IF m = y THEN pa[x] ELSE IF m = x THEN y
                               ELSE IF m = z THEN x ELSE pa[m]

LEMMA TurnedTree ==
  ASSUME NEW M, NEW r, NEW ch, NEW pa, NEW sp, Tree(M, r, ch, pa, sp),
         NEW x \in M, NEW s \in Side, ch[s][x] # NULL,
         NEW r2, NEW ch2, NEW pa2, Turned(M, x, s, r, ch, pa, r2, ch2, pa2)
  PROVE  \E sp2 : Tree(M, r2, ch2, pa2, sp2)
<1> DEFINE y == ch[s][x]
           z == ch[Other(s)][y]
<1>1. /\ r2 = IF r = x THEN y ELSE r
      /\ \A m \in M, t \in Side : ch2[t][m] = IF m = x /\ t = s THEN z
                                              ELSE IF m = y /\ t = Other(s) THEN x
                                              ELSE IF ch[t][m] = x THEN y ELSE ch[t][m]
      /\ \A m \in M : pa2[m] = IF m = y THEN pa[x] ELSE IF m = x THEN y
                               ELSE IF m = z THEN x ELSE pa[m]
  BY DEF Turned
<1>2. y = ch[s][x] /\ y # NULL /\ z = ch[Other(s)][y]
  OBVIOUS
<1> HIDE DEF y, z
<1>3. QED
  BY <1>1, <1>2, Turn

(* ... a node x without a child on one side gives way to its other child,  *)
(* if there is one ...                                                     *)
LEMMA Cut ==
  ASSUME NEW M, NEW r, NEW ch, NEW pa, NEW sp, Tree(M, r, ch, pa, sp),
         NEW x \in M, NEW s \in Side, ch[Other(s)][x] = NULL, NEW c, c = ch[s][x],
         NEW r2, NEW ch2, NEW pa2,
         r2 = IF r = x THEN c ELSE r,
         \A m \in M \ {x}, t \in Side : ch2[t][m] = IF ch[t][m] = x THEN c ELSE ch[t][m],
         \A m \in M \ {x} : pa2[m] = IF m = c THEN pa[x] ELSE pa[m]
  PROVE  \E sp2 : Tree(M \ {x}, r2, ch2, pa2, sp2)
<1> DEFINE N == M \ {x}
           sp2 == [m \in Node |-> IF m \in N THEN sp[m] \ {x} ELSE {}]
<1>1. Spans(M, r, ch, sp) /\ M \subseteq Key /\ r \in M \cup {NULL} /\ sp[NULL] = {} /\ sp[r] = M
  BY SpanIn DEF Tree
<1>2. NULL \notin M /\ M \subseteq Node /\ NULL \in Node /\ x # NULL
  BY <1>1, Keys, Zenon DEF Node
<1>3. c \in M \cup {NULL} /\ c # x /\ (c # NULL => pa[c] = x /\ c # r)
  BY <1>1, <1>2, TreeFacts, SpanIn
<1>4. sp[c] = sp[x] \ {x} /\ x \notin sp[c] /\ x \in sp[x]
  <2>1. /\ sp[c] = {w \in sp[x] : Beyond(s, x, w)}
        /\ {} = {w \in sp[x] : Beyond(Other(s), x, w)}
        /\ x \in sp[x] /\ sp[x] \subseteq Key /\ x \notin sp[c]
    BY <1>1, Sides, SpanIn
  <2>2. QED
    BY <2>1, Order
<1>5. sp2[NULL] = {} /\ \A m \in N : sp2[m] = sp[m] \ {x}
  BY <1>2
<1> HIDE DEF sp2
<1>6. \A m \in N \cup {NULL} : sp2[m] = sp[m] \ {x}
  BY <1>1, <1>5
<1>7. sp2[c] = sp[c] /\ c \in N \cup {NULL}
  BY <1>3, <1>4, <1>6
<1>8. N \subseteq Key /\ r2 \in N \cup {NULL} /\ sp2[r2] = N
  BY <1>1, <1>4, <1>6, <1>7
<1>9. ASSUME NEW m \in N, NEW t \in Side
      PROVE  /\ m \in sp2[m] /\ sp2[m] \subseteq N /\ ch2[t][m] \in N \cup {NULL}
             /\ sp2[ch2[t][m]] = {w \in sp2[m] : Beyond(t, m, w)}
  <2>1. /\ m \in sp[m] /\ sp[m] \subseteq M /\ ch[t][m] \in M \cup {NULL}
        /\ sp[ch[t][m]] = {w \in sp[m] : Beyond(t, m, w)}
    BY <1>1, SpanIn
  <2>2. m \in sp2[m] /\ sp2[m] \subseteq N /\ sp2[m] = sp[m] \ {x}
    BY <1>6, <2>1
  <2>3. CASE ch[t][m] = x
    <3>1. ch2[t][m] = c
      BY <2>3
    <3>2. sp2[c] = sp[ch[t][m]] \ {x}
      BY <1>4, <1>7, <2>3
    <3>3. QED
      BY <1>7, <2>1, <2>2, <3>1, <3>2
  <2>4. CASE ch[t][m] # x
    <3>1. ch2[t][m] = ch[t][m] /\ ch[t][m] \in N \cup {NULL}
      BY <2>1, <2>4
    <3>2. sp2[ch[t][m]] = sp[ch[t][m]] \ {x}
      BY <1>6, <3>1
    <3>3. QED
      BY <2>1, <2>2, <3>1, <3>2
  <2>5. QED
    BY <2>3, <2>4
<1>10. Spans(N, r2, ch2, sp2)
  BY <1>5, <1>8, <1>9 DEF Spans
<1>11. ASSUME NEW m \in N, NEW t \in Side, ch2[t][m] # NULL
       PROVE  pa2[ch2[t][m]] = m
  <2>1. CASE ch[t][m] = x
    <3>1. ch2[t][m] = c /\ c \in N /\ pa[x] = m
      BY <1>2, <1>7, <1>11, <2>1, TreeFacts
    <3>2. QED
      BY <3>1
  <2>2. CASE ch[t][m] # x
    <3>1. ch2[t][m] = ch[t][m] /\ ch[t][m] \in N /\ pa[ch[t][m]] = m
      BY <1>11, <2>2, TreeFacts
    <3>2. ch[t][m] # c
      BY <1>3, <1>11, <3>1
    <3>3. QED
      BY <3>1, <3>2
  <2>3. QED
    BY <2>1, <2>2
<1>12. ASSUME NEW m \in N
       PROVE  IF m = r2 THEN pa2[m] = NULL ELSE pa2[m] \in N /\ \E t \in Side : ch2[t][pa2[m]] = m
  <2>1. CASE m = c
    <3>1. pa2[m] = pa[x] /\ m # r
      BY <1>2, <1>3, <2>1
    <3>2. CASE r = x
      BY <2>1, <3>1, <3>2, TreeFacts
    <3>3. CASE r # x
      <4>1. PICK t \in Side : pa[x] \in M /\ ch[t][pa[x]] = x
        BY <3>3, TreeFacts
      <4>2. pa[x] \in N
        BY <1>2, <4>1, TreeFacts
      <4>3. ch2[t][pa[x]] = c
        BY <4>1, <4>2
      <4>4. QED
        BY <2>1, <3>1, <3>3, <4>2, <4>3
    <3>4. QED
      BY <3>2, <3>3
  <2>2. CASE m # c /\ m = r
    BY <2>2, TreeFacts
  <2>3. CASE m # c /\ m # r
    <3>1. PICK t \in Side : pa[m] \in M /\ ch[t][pa[m]] = m
      BY <2>3, TreeFacts
    <3>2. pa[m] # x
      <4>1. SUFFICES ASSUME pa[m] = x
                     PROVE  FALSE
        OBVIOUS
      <4>2. t = s \/ t = Other(s)
        BY Sides
      <4>3. QED
        BY <1>2, <2>3, <3>1, <4>1, <4>2
    <3>3. ch2[t][pa[m]] = m /\ pa2[m] = pa[m]
      BY <2>3, <3>1, <3>2
    <3>4. m # r2
      BY <2>3
    <3>5. QED
      BY <3>1, <3>2, <3>3, <3>4
  <2>4. QED
    BY <2>1, <2>2, <2>3
<1>13. Parents(N, r2, ch2, pa2)
  BY <1>11, <1>12 DEF Parents
<1>14. QED
  BY <1>10, <1>13 DEF Tree

(* ... and a node a gives its place to one b that is not in the tree, and  *)
(* no node of which is between the two.                                    *)
LEMMA Rename ==
  ASSUME NEW M, NEW r, NEW ch, NEW pa, NEW sp, Tree(M, r, ch, pa, sp),
         NEW a \in M, NEW b \in Key, b \notin M,
         \A m \in M \ {a}, u \in Side : Beyond(u, a, m) <=> Beyond(u, b, m),
         NEW r2, NEW ch2, NEW pa2,
         r2 = IF r = a THEN b ELSE r,
         \A t \in Side : ch2[t][b] = ch[t][a],
         \A m \in M \ {a}, t \in Side : ch2[t][m] = IF ch[t][m] = a THEN b ELSE ch[t][m],
         pa2[b] = pa[a],
         \A m \in M \ {a} : pa2[m] = IF pa[m] = a THEN b ELSE pa[m]
  PROVE  \E sp2 : Tree((M \ {a}) \cup {b}, r2, ch2, pa2, sp2)
<1> DEFINE N == (M \ {a}) \cup {b}
           ren(D) == IF a \in D THEN (D \ {a}) \cup {b} ELSE D
           sp2 == [m \in Node |-> ren(IF m = b THEN sp[a] ELSE IF m = a THEN {} ELSE sp[m])]
<1>1. Spans(M, r, ch, sp) /\ M \subseteq Key /\ r \in M \cup {NULL} /\ sp[NULL] = {} /\ sp[r] = M
  BY SpanIn DEF Tree
<1>2. NULL \notin M /\ M \subseteq Node /\ NULL \in Node /\ a # NULL /\ b # NULL /\ b \in Node
      /\ a \in Key /\ a # b
  BY <1>1, Keys, Zenon DEF Node
<1>3. a \in sp[a] /\ sp[a] \subseteq M
  BY <1>1, SpanIn
<1>4. sp2[NULL] = {} /\ sp2[b] = (sp[a] \ {a}) \cup {b} /\ \A m \in M \ {a} : sp2[m] = ren(sp[m])
  BY <1>1, <1>2, <1>3, Zenon
<1> HIDE DEF sp2
<1>5. \A e \in M \cup {NULL} : sp2[IF e = a THEN b ELSE e] = ren(sp[e])
  BY <1>1, <1>2, <1>3, <1>4, Zenon
<1>6. r2 \in N \cup {NULL} /\ N \subseteq Key /\ sp2[r2] = N
  <2>1. sp2[r2] = ren(M)
    BY <1>1, <1>5, Zenon
  <2>2. QED
    BY <1>1, <2>1
<1>7. ASSUME NEW e \in M, NEW t \in Side, NEW D \in SUBSET M
      PROVE  ren({x \in D : Beyond(t, e, x)}) = {x \in ren(D) : Beyond(t, IF e = a THEN b ELSE e, x)}
  <2>1. CASE e = a
    <3>1. ~Beyond(t, a, a) /\ ~Beyond(t, b, b)
      BY <1>2, Order
    <3>2. \A x \in D : x # a => (Beyond(t, a, x) <=> Beyond(t, b, x))
      OBVIOUS
    <3>3. a \notin {x \in D : Beyond(t, a, x)}
      BY <3>1
    <3>4. {x \in ren(D) : Beyond(t, b, x)} = {x \in D \ {a} : Beyond(t, b, x)}
      BY <3>1
    <3>5. QED
      BY <2>1, <3>1, <3>2, <3>3, <3>4
  <2>2. CASE e # a
    <3>1. Beyond(t, e, a) <=> Beyond(t, e, b)
      <4>1. e \in Key /\ Other(t) \in Side
        BY <1>1, Sides
      <4>2. (Beyond(t, e, a) <=> Beyond(Other(t), a, e)) /\ (Beyond(t, e, b) <=> Beyond(Other(t), b, e))
        BY <1>2, <4>1, Order
      <4>3. QED
        BY <2>2, <4>1, <4>2
    <3>2. a \notin D => a \notin {x \in D : Beyond(t, e, x)} /\ ren(D) = D
      OBVIOUS
    <3>3. CASE a \in D /\ Beyond(t, e, a)
      <4>1. ren({x \in D : Beyond(t, e, x)}) = ({x \in D : Beyond(t, e, x)} \ {a}) \cup {b}
        BY <3>3
      <4>2. QED
        BY <2>2, <3>1, <3>3, <4>1
    <3>4. CASE a \in D /\ ~Beyond(t, e, a)
      <4>1. ren({x \in D : Beyond(t, e, x)}) = {x \in D : Beyond(t, e, x)}
        BY <3>4
      <4>2. QED
        BY <2>2, <3>1, <3>4, <4>1
    <3>5. QED
      BY <2>2, <3>2, <3>3, <3>4
  <2>3. QED
    BY <2>1, <2>2
<1>8. ASSUME NEW e \in M, NEW t \in Side, NEW f, f = IF e = a THEN b ELSE e
      PROVE  /\ f \in sp2[f] /\ sp2[f] \subseteq N /\ ch2[t][f] \in N \cup {NULL}
             /\ sp2[ch2[t][f]] = {w \in sp2[f] : Beyond(t, f, w)}
  <2>1. /\ e \in sp[e] /\ sp[e] \subseteq M /\ ch[t][e] \in M \cup {NULL} /\ ch[t][e] # e
        /\ sp[ch[t][e]] = {w \in sp[e] : Beyond(t, e, w)}
    BY <1>1, <1>2, SpanIn, TreeFacts
  <2>2. sp2[f] = ren(sp[e]) /\ f \in sp2[f] /\ sp2[f] \subseteq N
    BY <1>5, <1>8, <2>1
  <2>3. ch2[t][f] = IF ch[t][e] = a THEN b ELSE ch[t][e]
    BY <1>8, <2>1
  <2>4. sp2[ch2[t][f]] = ren(sp[ch[t][e]])
    BY <1>5, <2>1, <2>3, Zenon
  <2>5. ren({w \in sp[e] : Beyond(t, e, w)}) = {w \in ren(sp[e]) : Beyond(t, f, w)}
    BY <1>7, <1>8, <2>1
  <2>6. QED
    BY <2>1, <2>2, <2>3, <2>4, <2>5
<1>9. Spans(N, r2, ch2, sp2)
  <2>1. ASSUME NEW f \in N
        PROVE  \E e \in M : f = IF e = a THEN b ELSE e
    OBVIOUS
  <2>2. ASSUME NEW f \in N, NEW t \in Side
        PROVE  /\ f \in sp2[f] /\ sp2[f] \subseteq N /\ ch2[t][f] \in N \cup {NULL}
               /\ sp2[ch2[t][f]] = {w \in sp2[f] : Beyond(t, f, w)}
    BY <1>8, <2>1
  <2>3. "LEFT" \in Side
    BY DEF Side
  <2>4. QED
    BY <1>4, <1>6, <2>2, <2>3 DEF Spans
<1>10. ASSUME NEW m \in N, NEW t \in Side, ch2[t][m] # NULL
       PROVE  pa2[ch2[t][m]] = m
  <2>1. CASE m = b
    <3>1. ch2[t][m] = ch[t][a] /\ ch[t][a] \in M \ {a} /\ pa[ch[t][a]] = a
      BY <1>10, <2>1, TreeFacts
    <3>2. QED
      BY <2>1, <3>1
  <2>2. CASE m # b /\ ch[t][m] = a
    <3>1. ch2[t][m] = b /\ pa[a] = m
      BY <1>2, <2>2, TreeFacts
    <3>2. QED
      BY <3>1
  <2>3. CASE m # b /\ ch[t][m] # a
    <3>1. ch2[t][m] = ch[t][m] /\ ch[t][m] \in M \ {a} /\ pa[ch[t][m]] = m
      BY <1>10, <2>3, TreeFacts
    <3>2. QED
      BY <2>3, <3>1
  <2>4. QED
    BY <2>1, <2>2, <2>3
<1>11. ASSUME NEW m \in N
       PROVE  IF m = r2 THEN pa2[m] = NULL ELSE pa2[m] \in N /\ \E t \in Side : ch2[t][pa2[m]] = m
  <2>1. \A e \in M : e # r => pa[e] # e
    BY <1>1, <1>2, TreeFacts
  <2>2. CASE m = b /\ r = a
    BY <2>2, TreeFacts
  <2>3. CASE m = b /\ r # a
    <3>1. PICK t \in Side : pa[a] \in M \ {a} /\ ch[t][pa[a]] = a
      BY <2>1, <2>3, TreeFacts
    <3>2. ch2[t][pa[a]] = b /\ m # r2
      BY <1>1, <1>2, <2>3, <3>1
    <3>3. QED
      BY <2>3, <3>1, <3>2
  <2>4. CASE m # b /\ m = r
    BY <1>2, <2>4, TreeFacts
  <2>5. CASE m # b /\ m # r
    <3>1. PICK t \in Side : pa[m] \in M /\ ch[t][pa[m]] = m
      BY <2>5, TreeFacts
    <3>2. m \in M \ {a} /\ m # r2
      BY <2>5
    <3>3. CASE pa[m] = a
      <4>1. pa2[m] = b /\ ch2[t][b] = m
        BY <3>1, <3>2, <3>3
      <4>2. QED
        BY <3>2, <4>1
    <3>4. CASE pa[m] # a
      <4>1. pa2[m] = pa[m] /\ ch2[t][pa[m]] = m
        BY <3>1, <3>2, <3>4
      <4>2. QED
        BY <3>1, <3>2, <3>4, <4>1
    <3>5. QED
      BY <3>3, <3>4
  <2>6. QED
    BY <2>2, <2>3, <2>4, <2>5
<1>12. Parents(N, r2, ch2, pa2)
  BY <1>10, <1>11 DEF Parents
<1>13. QED
  BY <1>9, <1>12 DEF Tree

(* Node x has taken the place of k, and c that of x, ...                   *)
Supplanted(M, k, x, c, r, ch, pa, r2, ch2, pa2) ==
  /\ r2 = IF r = k THEN x ELSE r
  /\ \A t \in Side : ch2[t][x] = IF ch[t][k] = x THEN c ELSE ch[t][k]
  /\ \A m \in M \ {k, x}, t \in Side :
       ch2[t][m] = IF ch[t][m] = x THEN c ELSE IF ch[t][m] = k THEN x ELSE ch[t][m]
  /\ pa2[x] = pa[k]
  /\ \A m \in M \ {k, x} :
       pa2[m] = IF m = c THEN IF pa[x] = k THEN x ELSE pa[x]
                ELSE IF pa[m] = k THEN x ELSE pa[m]

(* ... first the latter, leaving ch1 and pa1, and then the former.         *)
InHalves(M, k, x, c, r, ch, pa, ch1, pa1, ch2, pa2) ==
  /\ \A m \in M \ {x}, t \in Side : ch1[t][m] = IF ch[t][m] = x THEN c ELSE ch[t][m]
  /\ \A m \in M \ {x} : pa1[m] = IF m = c THEN pa[x] ELSE pa[m]
  /\ r = IF r = x THEN c ELSE r
  /\ \A t \in Side : ch2[t][x] = ch1[t][k]
  /\ \A m \in (M \ {x}) \ {k}, t \in Side : ch2[t][m] = IF ch1[t][m] = k THEN x ELSE ch1[t][m]
  /\ pa2[x] = pa1[k]
  /\ \A m \in (M \ {x}) \ {k} : pa2[m] = IF pa1[m] = k THEN x ELSE pa1[m]
  /\ x \in M /\ x # r /\ k \in M \ {x} /\ x \in Key /\ c # k

LEMMA Halves ==
  ASSUME NEW M, NEW r, NEW ch, NEW pa, NEW sp, Tree(M, r, ch, pa, sp),
         NEW k \in M, NEW x \in sp[k], x # k, NEW s \in Side, ch[Other(s)][x] = NULL,
         NEW c, c = ch[s][x],
         NEW r2, NEW ch2, NEW pa2,
         Supplanted(M, k, x, c, r, ch, pa, r2, ch2, pa2)
  PROVE  \E ch1, pa1 : InHalves(M, k, x, c, r, ch, pa, ch1, pa1, ch2, pa2)
<1> DEFINE N == M \ {x}
           ch1 == [t \in Side |-> [m \in N |-> IF ch[t][m] = x THEN c ELSE ch[t][m]]]
           pa1 == [m \in N |-> IF m = c THEN pa[x] ELSE pa[m]]
<1>1. Spans(M, r, ch, sp) /\ M \subseteq Key /\ r \in M \cup {NULL} /\ sp[r] = M /\ NULL \notin M
  BY SpanIn, Keys DEF Tree
<1>2. x \in M /\ x # r /\ pa[x] \in M /\ pa[x] # x
  <2>1. x \in M /\ x # r /\ pa[x] \in sp[k]
    BY UpIn
  <2>2. pa[x] \in M /\ \E t \in Side : ch[t][pa[x]] = x
    BY <2>1, TreeFacts
  <2>3. QED
    BY <1>1, <2>1, <2>2, TreeFacts
<1>3. c \in M \cup {NULL} /\ c # x /\ (c # NULL => pa[c] = x) /\ c # k
  <2>1. c \in M \cup {NULL} /\ (c # NULL => pa[c] = x /\ c # x)
    BY <1>1, <1>2, TreeFacts, SpanIn
  <2>2. c # NULL => c \in sp[x]
    BY <1>1, <1>2, SpanIn
  <2>3. c # k
    BY <1>1, <1>2, <2>2, TreeFacts
  <2>4. QED
    BY <1>1, <1>2, <2>1, <2>3
<1>4. /\ \A m \in N, t \in Side : ch1[t][m] = IF ch[t][m] = x THEN c ELSE ch[t][m]
      /\ \A m \in N : pa1[m] = IF m = c THEN pa[x] ELSE pa[m]
  OBVIOUS
<1> HIDE DEF ch1, pa1
<1>5. r = IF r = x THEN c ELSE r
  BY <1>2
<1>6. k \in N /\ x \in Key /\ x \notin N /\ k # x
  BY <1>1, <1>2
<1>7. \A t \in Side : ch2[t][x] = ch1[t][k]
  BY <1>4, <1>6 DEF Supplanted
<1>8. \A m \in N \ {k}, t \in Side : ch2[t][m] = IF ch1[t][m] = k THEN x ELSE ch1[t][m]
  BY <1>3, <1>4, <1>6 DEF Supplanted
<1>9. pa2[x] = pa1[k]
  BY <1>3, <1>4, <1>6 DEF Supplanted
<1>10. \A m \in N \ {k} : pa2[m] = IF pa1[m] = k THEN x ELSE pa1[m]
  BY <1>3, <1>4, <1>6 DEF Supplanted
<1>11. QED
  BY <1>2, <1>3, <1>4, <1>5, <1>6, <1>7, <1>8, <1>9, <1>10 DEF InHalves

(* So x, which is under k and has no child on one side, takes the place   *)
(* of k, no node being between the two.                                   *)
LEMMA Supplant ==
  ASSUME NEW M, NEW r, NEW ch, NEW pa, NEW sp, Tree(M, r, ch, pa, sp),
         NEW k \in M, NEW x \in sp[k], x # k, NEW s \in Side, ch[Other(s)][x] = NULL,
         NEW c, c = ch[s][x],
         \A m \in M \ {k, x}, u \in Side : Beyond(u, k, m) <=> Beyond(u, x, m),
         NEW r2, NEW ch2, NEW pa2,
         Supplanted(M, k, x, c, r, ch, pa, r2, ch2, pa2)
  PROVE  \E sp2 : Tree(M \ {k}, r2, ch2, pa2, sp2)
<1> DEFINE N == M \ {x}
<1>1. PICK ch1, pa1 : InHalves(M, k, x, c, r, ch, pa, ch1, pa1, ch2, pa2)
  BY Halves, Zenon
<1>2. /\ \A m \in N, t \in Side : ch1[t][m] = IF ch[t][m] = x THEN c ELSE ch[t][m]
      /\ \A m \in N : pa1[m] = IF m = c THEN pa[x] ELSE pa[m]
      /\ r = IF r = x THEN c ELSE r
      /\ \A t \in Side : ch2[t][x] = ch1[t][k]
      /\ \A m \in N \ {k}, t \in Side : ch2[t][m] = IF ch1[t][m] = k THEN x ELSE ch1[t][m]
      /\ pa2[x] = pa1[k]
      /\ \A m \in N \ {k} : pa2[m] = IF pa1[m] = k THEN x ELSE pa1[m]
      /\ x \in M /\ x # r /\ k \in N /\ x \in Key /\ c # k
  BY <1>1 DEF InHalves
<1>3. PICK sp1 : Tree(N, r, ch1, pa1, sp1)
  BY <1>2, Cut
<1>4. /\ x \notin N /\ r2 = IF r = k THEN x ELSE r
      /\ \A m \in N \ {k}, u \in Side : Beyond(u, k, m) <=> Beyond(u, x, m)
  BY DEF Supplanted
<1>5. \E sp2 : Tree((N \ {k}) \cup {x}, r2, ch2, pa2, sp2)
  BY <1>2, <1>3, <1>4, Rename
<1>6. (N \ {k}) \cup {x} = M \ {k}
  BY <1>2
<1>7. QED
  BY <1>5, <1>6

(* Nothing else has to be the same.                                        *)
LEMMA TreeSame ==
  ASSUME NEW M, NEW r, NEW ch, NEW pa, NEW sp, Tree(M, r, ch, pa, sp), NEW ch2, NEW pa2,
         \A m \in M, t \in Side : ch2[t][m] = ch[t][m],
         \A m \in M : pa2[m] = pa[m]
  PROVE  Tree(M, r, ch2, pa2, sp)
<1>1. Spans(M, r, ch2, sp)
  BY DEF Tree, Spans
<1>2. ASSUME NEW m \in M, NEW s \in Side, ch2[s][m] # NULL
      PROVE  pa2[ch2[s][m]] = m
  BY <1>2, TreeFacts
<1>3. \A m \in M : IF m = r THEN pa2[m] = NULL
                   ELSE pa2[m] \in M /\ \E s \in Side : ch2[s][pa2[m]] = m
  BY TreeFacts
<1>4. QED
  BY <1>1, <1>2, <1>3 DEF Tree, Parents

-----------------------------------------------------------------------------
(* The way down to key k: q is the last node on it, u the side taken there *)
(* and x the node the way has come to.                                     *)
OnWay(M, r, ch, sp, k, q, u, x) ==
  /\ IF q = NULL THEN x = r ELSE q \in M /\ u \in Side /\ x = ch[u][q] /\ Beyond(u, q, k)
  /\ \A m \in M : q \in sp[m] /\ m # q => \A t \in Side : Beyond(t, m, k) <=> Beyond(t, m, q)
  /\ k \in M => k \in sp[x]

LEMMA WayBegins ==
  ASSUME NEW M, NEW r, NEW ch, NEW pa, NEW sp, Tree(M, r, ch, pa, sp), NEW k, NEW u
  PROVE  OnWay(M, r, ch, sp, k, NULL, u, r)
<1>1. Spans(M, r, ch, sp)
  BY DEF Tree
<1>2. \A m \in M : NULL \notin sp[m]
  BY <1>1, SpanIn, Keys
<1>3. QED
  BY <1>1, <1>2, SpanIn DEF OnWay

LEMMA WayDown ==
  ASSUME NEW M, NEW r, NEW ch, NEW pa, NEW sp, Tree(M, r, ch, pa, sp),
         NEW k \in Key, NEW q, NEW u, NEW x \in M, OnWay(M, r, ch, sp, k, q, u, x),
         NEW t \in Side, Beyond(t, x, k)
  PROVE  OnWay(M, r, ch, sp, k, x, t, ch[t][x])
<1>1. Spans(M, r, ch, sp) /\ M \subseteq Key /\ NULL \notin M /\ x \in sp[x] /\ sp[r] = M
  BY SpanIn, Keys DEF Tree
<1>2. ASSUME NEW m \in M, x \in sp[m], m # x, NEW v \in Side
      PROVE  Beyond(v, m, k) <=> Beyond(v, m, x)
  <2>1. q # NULL
    BY <1>1, <1>2, TreeFacts DEF OnWay
  <2>2. q \in M /\ u \in Side /\ x = ch[u][q] /\ Beyond(u, q, k)
    BY <2>1 DEF OnWay
  <2>3. pa[x] = q /\ Beyond(u, q, x)
    BY <1>1, <2>2, TreeFacts
  <2>4. q \in sp[m]
    BY <1>2, <2>3, UpIn
  <2>5. v = u \/ v = Other(u)
    BY <2>2, Sides
  <2>6. CASE m = q
    BY <1>1, <2>2, <2>3, <2>5, <2>6, Order
  <2>7. CASE m # q
    <3>1. Beyond(v, m, k) <=> Beyond(v, m, q)
      BY <2>4, <2>7 DEF OnWay
    <3>2. PICK w \in Side : Beyond(w, m, q)
      BY <1>1, <2>4, <2>7, SpanIn
    <3>3. q \in sp[ch[w][m]] /\ ch[w][m] \in M
      BY <1>1, <2>4, <3>2, SpanIn
    <3>4. x \in sp[q]
      BY <1>1, <2>2, SpanIn
    <3>5. x \in sp[ch[w][m]]
      BY <1>1, <3>3, <3>4, SpanIn
    <3>6. Beyond(w, m, x)
      BY <1>1, <3>2, <3>5, SpanIn
    <3>7. v = w \/ v = Other(w)
      BY <3>2, Sides
    <3>8. QED
      BY <1>1, <2>2, <3>1, <3>2, <3>6, <3>7, Order
  <2>8. QED
    BY <2>6, <2>7
<1>3. k \in M => k \in sp[ch[t][x]]
  BY <1>1, SpanIn DEF OnWay
<1>4. QED
  BY <1>1, <1>2, <1>3 DEF OnWay

-----------------------------------------------------------------------------
(* What is between two nodes of a span is in it.                           *)
LEMMA Convex ==
  ASSUME NEW M, NEW r, NEW ch, NEW pa, NEW sp, Tree(M, r, ch, pa, sp),
         NEW y \in M, NEW a \in sp[y], NEW b \in sp[y], NEW m \in M, NEW u \in Side,
         Beyond(u, m, a), Beyond(Other(u), m, b)
  PROVE  m \in sp[y]
<1>1. Spans(M, r, ch, sp) /\ M \subseteq Key /\ sp[r] = M /\ r \in M /\ NULL \notin M
  BY SpanIn, Keys DEF Tree
<1> DEFINE C == {sp[z] : z \in {w \in M : m \in sp[w] /\ y \in sp[w]}}
<1>2. C \in SUBSET SUBSET Key /\ C # {}
  <2>1. sp[r] \in C
    BY <1>1
  <2>2. \A z \in M : sp[z] \subseteq Key
    BY <1>1, SpanIn
  <2>3. QED
    BY <2>1, <2>2
<1>3. PICK T \in C : \A U \in C : U \subseteq T => U = T
  BY <1>2, LeastSet, Zenon
<1>4. PICK z \in M : T = sp[z] /\ m \in sp[z] /\ y \in sp[z]
  OBVIOUS
<1>5. SUFFICES ASSUME z # y
               PROVE  FALSE
  BY <1>4
<1>6. PICK t \in Side : Beyond(t, z, y)
  BY <1>1, <1>4, <1>5, SpanIn
<1>7. y \in sp[ch[t][z]] /\ ch[t][z] \in M
  BY <1>1, <1>4, <1>6, SpanIn
<1>8. a \in sp[ch[t][z]] /\ b \in sp[ch[t][z]]
  BY <1>1, <1>7, SpanIn
<1>9. Beyond(t, z, a) /\ Beyond(t, z, b) /\ a \in Key /\ b \in Key
  BY <1>1, <1>6, <1>7, <1>8, SpanIn
<1>10. CASE m = z
  <2>1. t = u \/ t = Other(u)
    BY Sides
  <2>2. QED
    BY <1>1, <1>9, <1>10, <2>1, Order
<1>11. CASE Beyond(t, z, m)
  <2>1. m \in sp[ch[t][z]]
    BY <1>1, <1>4, <1>11, SpanIn
  <2>2. sp[ch[t][z]] \in C
    BY <1>7, <2>1
  <2>3. z \in sp[z] /\ z \notin sp[ch[t][z]] /\ sp[ch[t][z]] \subseteq sp[z]
    BY <1>1, SpanIn
  <2>4. QED
    BY <1>3, <1>4, <2>2, <2>3
<1>12. CASE Beyond(Other(t), z, m)
  <2>1. Other(t) \in Side /\ Other(Other(t)) = t
    BY Sides
  <2>2. Beyond(t, m, z)
    BY <1>1, <1>12, <2>1, Order
  <2>3. Beyond(t, m, a) /\ Beyond(t, m, b)
    BY <1>1, <1>9, <2>2, Order
  <2>4. t = u \/ t = Other(u)
    BY Sides
  <2>5. QED
    BY <1>1, <1>9, <2>3, <2>4, Order
<1>13. QED
  BY <1>1, <1>6, <1>10, <1>11, <1>12, Order

(* The way along the edge of the tree at top: what is not under x is on    *)
(* side f of all that is.                                                  *)
OnEdge(sp, f, top, x) ==
  x \in sp[top] /\ \A w \in sp[top] : w \in sp[x] \/ \A v \in sp[x] : Beyond(f, v, w)

LEMMA EdgeDown ==
  ASSUME NEW M, NEW r, NEW ch, NEW pa, NEW sp, Tree(M, r, ch, pa, sp),
         NEW f \in Side, NEW top \in M, NEW x, OnEdge(sp, f, top, x), ch[Other(f)][x] # NULL
  PROVE  OnEdge(sp, f, top, ch[Other(f)][x])
<1> DEFINE c == ch[Other(f)][x]
<1>1. Spans(M, r, ch, sp) /\ M \subseteq Key /\ x \in M /\ x \in sp[top] /\ sp[x] \subseteq sp[top] /\ x \in sp[x]
  BY SpanIn DEF Tree, OnEdge
<1>2. c \in M /\ sp[c] = {w \in sp[x] : Beyond(Other(f), x, w)} /\ c \in sp[c]
  BY <1>1, Sides, SpanIn
<1>3. ASSUME NEW w \in sp[top], w \notin sp[c], NEW v \in sp[c]
      PROVE  Beyond(f, v, w)
  <2>1. v \in sp[x] /\ v \in Key /\ w \in Key /\ x \in Key
    BY <1>1, <1>2, SpanIn
  <2>2. Beyond(f, v, x)
    BY <1>2, <2>1, Order, Sides
  <2>3. CASE w \in sp[x]
    <3>1. w = x \/ Beyond(f, x, w)
      BY <1>2, <1>3, <2>1, <2>3, Order
    <3>2. QED
      BY <2>1, <2>2, <3>1, Order
  <2>4. CASE w \notin sp[x]
    BY <2>1, <2>4 DEF OnEdge
  <2>5. QED
    BY <2>3, <2>4
<1>4. QED
  BY <1>1, <1>2, <1>3 DEF OnEdge

(* At its end is the neighbour of the node k above top.                    *)
LEMMA EdgeEnd ==
  ASSUME NEW M, NEW r, NEW ch, NEW pa, NEW sp, Tree(M, r, ch, pa, sp),
         NEW k \in M, NEW f \in Side, NEW x, ch[f][k] # NULL,
         OnEdge(sp, f, ch[f][k], x)
  PROVE  /\ x \in M /\ x \in sp[k] /\ x # k /\ ch[f][k] \in M
         /\ x = ch[f][k] => pa[x] = k /\ ch[Other(f)][k] # x
         /\ x # ch[f][k] => /\ pa[x] \in M /\ pa[x] # k /\ pa[x] # x
                            /\ ch[Other(f)][pa[x]] = x /\ ch[f][pa[x]] # x
         /\ ch[Other(f)][x] = NULL =>
              \A m \in M \ {k, x}, u \in Side : Beyond(u, k, m) <=> Beyond(u, x, m)
<1> DEFINE top == ch[f][k]
           o == Other(f)
<1>1. /\ Spans(M, r, ch, sp) /\ M \subseteq Key /\ NULL \notin M
      /\ top \in M /\ x \in sp[top] /\ sp[top] \subseteq sp[k] /\ x \in M /\ k \in sp[k] /\ k \notin sp[top]
      /\ x \in sp[x] /\ o \in Side /\ o # f /\ \A u \in Side : u = f \/ u = o
  <2>1. Spans(M, r, ch, sp) /\ M \subseteq Key /\ NULL \notin M
    BY SpanIn, Keys DEF Tree
  <2>2. top \in M /\ x \in sp[top] /\ sp[top] \subseteq sp[k] /\ k \in sp[k] /\ k \notin sp[top]
    BY <2>1, TreeFacts, SpanIn DEF OnEdge
  <2>3. QED
    BY <2>1, <2>2, Sides, SpanIn
<1>2. Beyond(f, k, x) /\ x # k /\ x \in sp[k]
  BY <1>1, SpanIn
<1>3. ASSUME x = top
      PROVE  pa[x] = k /\ ch[o][k] # x
  BY <1>1, <1>3, TreeFacts
<1>4. ASSUME x # top
      PROVE  pa[x] \in M /\ pa[x] # k /\ pa[x] # x /\ ch[o][pa[x]] = x /\ ch[f][pa[x]] # x
  <2>1. pa[x] \in sp[top] /\ x # r
    BY <1>1, <1>4, UpIn
  <2>2. pa[x] \in M /\ pa[x] # k
    BY <1>1, <2>1, SpanIn
  <2>3. PICK t \in Side : ch[t][pa[x]] = x
    BY <1>1, <2>1, TreeFacts
  <2>4. pa[x] # x /\ Beyond(t, pa[x], x)
    BY <1>1, <2>2, <2>3, TreeFacts
  <2>5. x \in sp[pa[x]]
    BY <1>1, <2>2, <2>3, SpanIn
  <2>6. pa[x] \notin sp[x]
    BY <1>1, <2>2, <2>4, <2>5, TreeFacts
  <2>7. Beyond(f, x, pa[x])
    BY <1>1, <2>1, <2>6 DEF OnEdge
  <2>8. t = o
    BY <1>1, <2>2, <2>4, <2>7, Order
  <2>9. QED
    BY <1>1, <2>2, <2>3, <2>4, <2>8, TreeFacts
<1>5. ASSUME ch[o][x] = NULL, NEW m \in M \ {k, x}
      PROVE  ~(Beyond(f, k, m) /\ Beyond(o, x, m))
  <2>1. SUFFICES ASSUME Beyond(f, k, m), Beyond(o, x, m)
                 PROVE  FALSE
    OBVIOUS
  <2>2. Beyond(o, m, k) /\ Beyond(f, m, x)
    BY <1>1, <2>1, Order, Sides
  <2>3. m \in sp[k]
    BY <1>1, <1>2, <2>2, Convex
  <2>4. m \in sp[top]
    BY <1>1, <2>1, <2>3, SpanIn
  <2>5. CASE m \in sp[x]
    <3>1. m \in sp[ch[o][x]]
      BY <1>1, <2>1, <2>5, SpanIn
    <3>2. QED
      BY <1>1, <1>5, <3>1, SpanIn
  <2>6. CASE m \notin sp[x]
    <3>1. Beyond(f, x, m)
      BY <1>1, <2>4, <2>6 DEF OnEdge
    <3>2. QED
      BY <1>1, <2>1, <3>1, Order
  <2>7. QED
    BY <2>5, <2>6
<1>6. ASSUME ch[o][x] = NULL, NEW m \in M \ {k, x}, NEW u \in Side
      PROVE  Beyond(u, k, m) <=> Beyond(u, x, m)
  <2>1. m \in Key /\ k \in Key /\ x \in Key
    BY <1>1
  <2>2. Beyond(f, x, m) => Beyond(f, k, m)
    BY <1>2, <2>1, Order
  <2>3. Beyond(f, k, m) => Beyond(f, x, m)
    BY <1>5, <1>6, <2>1, Order
  <2>4. Beyond(o, k, m) <=> Beyond(o, x, m)
    BY <2>1, <2>2, <2>3, Order
  <2>5. QED
    BY <1>1, <2>2, <2>3, <2>4
<1>7. QED
  BY <1>1, <1>2, <1>3, <1>4, <1>6

-----------------------------------------------------------------------------
(* The S-Tree.  Its calls.                                                 *)
Calls == {"insert", "remove", "find"}

StPhase ==
  /\ pc \in {"ready", "find", "first", "update", "return", "destroyed"}
  /\ IF pc \in {"ready", "destroyed"} THEN op = NONE /\ key = NONE ELSE op \in Calls /\ key \in Key
  /\ pc \in {"ready", "find", "first", "destroyed"} => ret = NONE
  /\ pc = "update" => ret = TRUE
  /\ pc = "return" => ret \in BOOLEAN
  /\ pc # "find" => p = NULL /\ d = NONE
  /\ pc \in {"ready", "return", "destroyed"} => n = NULL
  /\ del # NULL => pc \in {"first", "update"} /\ op = "remove" /\ del = key /\ del \in alive
  /\ pc = "first" => del # NULL

(* The way along the edge of the subtree that gives up a node.             *)
StEdge(sp) ==
  IF n = NULL THEN \A s \in Side : child[s][del] = NULL
  ELSE /\ child[ST!From][del] # NULL
       /\ OnEdge(sp, ST!From, child[ST!From][del], n)

StInv(sp) ==
  /\ ST!TypeOK
  /\ StPhase
  /\ pc # "destroyed" => Tree(ST!Members, root, child, parent, sp)
  /\ pc = "find" => OnWay(ST!Members, root, child, sp, key, p, d, n)
  /\ pc = "first" => StEdge(sp)

LEMMA StTypes ==
  ST!TypeOK <=>
    /\ root \in ST!Members \cup {NULL}
    /\ child \in Links /\ parent \in Pointers
    /\ hint \in [Key -> Nat] /\ alive \subseteq Key
    /\ pc \in {"ready", "find", "first", "update", "return", "destroyed"}
    /\ op \in Calls \cup {NONE} /\ key \in Key \cup {NONE}
    /\ ret \in BOOLEAN \cup {NONE}
    /\ n \in ST!Members \cup {NULL} /\ p \in ST!Members \cup {NULL}
    /\ d \in Side \cup {NONE} /\ del \in alive \cup {NULL}
BY Zenon DEF ST!TypeOK, ST!Side, Side, Links, Node, Calls, Pointers

LEMMA StTypesNext ==
  ST!TypeOK' <=>
    /\ root' \in ST!Members' \cup {NULL}
    /\ child' \in Links /\ parent' \in Pointers
    /\ hint' \in [Key -> Nat] /\ alive' \subseteq Key
    /\ pc' \in {"ready", "find", "first", "update", "return", "destroyed"}
    /\ op' \in Calls \cup {NONE} /\ key' \in Key \cup {NONE}
    /\ ret' \in BOOLEAN \cup {NONE}
    /\ n' \in ST!Members' \cup {NULL} /\ p' \in ST!Members' \cup {NULL}
    /\ d' \in Side \cup {NONE} /\ del' \in alive' \cup {NULL}
BY Zenon DEF ST!TypeOK, ST!Side, Side, Links, Node, Calls, Pointers

LEMMA StSides == ST!Side = Side /\ \A s : ST!Other(s) = Other(s)
BY DEF ST!Side, Side, ST!Other, Other

(* Between the actions that change the tree it is enough to look at where  *)
(* the call is.                                                            *)
LEMMA StTreeKept ==
  ASSUME NEW sp, StInv(sp), UNCHANGED <<root, child, parent, hint, alive>>,
         pc # "destroyed", pc' # "destroyed",
         ST!Members' = ST!Members, StPhase',
         n' \in ST!Members \cup {NULL}, p' \in ST!Members \cup {NULL}, d' \in Side \cup {NONE},
         pc' = "find" => OnWay(ST!Members, root, child, sp, key', p', d', n'),
         pc' = "first" => StEdge(sp)'
  PROVE  StInv(sp)'
<1>1. ST!TypeOK'
  <2>1. /\ root \in ST!Members \cup {NULL} /\ child \in Links /\ parent \in Pointers
        /\ hint \in [Key -> Nat] /\ alive \subseteq Key
    BY StTypes DEF StInv
  <2>2. /\ pc' \in {"ready", "find", "first", "update", "return", "destroyed"}
        /\ op' \in Calls \cup {NONE} /\ key' \in Key \cup {NONE} /\ ret' \in BOOLEAN \cup {NONE}
        /\ del' \in alive' \cup {NULL}
    BY Zenon DEF StPhase
  <2>3. QED
    BY <2>1, <2>2, StTypesNext
<1>2. (pc # "destroyed" => Tree(ST!Members, root, child, parent, sp))'
  BY DEF StInv
<1>3. (pc = "find" => OnWay(ST!Members, root, child, sp, key, p, d, n))'
  OBVIOUS
<1>4. QED
  BY <1>1, <1>2, <1>3 DEF StInv

LEMMA StCall ==
  ASSUME NEW sp, StInv(sp), NEW o \in Calls, NEW k \in Key, ST!Call(o, k)
  PROVE  StInv(sp)'
<1>1. /\ pc = "ready" /\ pc' = "find" /\ op' = o /\ key' = k /\ n' = root
      /\ UNCHANGED <<root, child, parent, hint, alive, ret, p, d, del>>
  BY DEF ST!Call, ST!treeVars, ST!pathVars
<1>2. StPhase /\ ST!TypeOK /\ Tree(ST!Members, root, child, parent, sp)
  BY <1>1 DEF StInv
<1>3. ST!Members' = ST!Members
  BY <1>1 DEF ST!Members
<1>4. p = NULL /\ d = NONE /\ ret = NONE /\ del = NULL
  BY <1>1, <1>2 DEF StPhase
<1>5. StPhase'
  BY <1>1, <1>4 DEF StPhase
<1>6. OnWay(ST!Members, root, child, sp, k, NULL, d, root)
  BY <1>2, WayBegins
<1>7. root \in ST!Members \cup {NULL}
  BY <1>2, StTypes
<1>8. QED
  BY <1>1, <1>3, <1>4, <1>5, <1>6, <1>7, StTreeKept

LEMMA StFind ==
  ASSUME NEW sp, StInv(sp), ST!find
  PROVE  StInv(sp)'
<1> DEFINE t == IF n > key THEN "LEFT" ELSE "RIGHT"
<1>1. /\ pc = "find" /\ n # NULL /\ n # key /\ p' = n /\ d' = t /\ n' = child[t][n]
      /\ UNCHANGED <<root, child, parent, hint, alive, pc, op, key, ret, del>>
  BY DEF ST!find, ST!treeVars, ST!callVars
<1>2. /\ StPhase /\ ST!TypeOK /\ Tree(ST!Members, root, child, parent, sp)
      /\ OnWay(ST!Members, root, child, sp, key, p, d, n)
  BY <1>1 DEF StInv
<1>3. ST!Members' = ST!Members
  BY <1>1 DEF ST!Members
<1>4. n \in ST!Members /\ key \in Key /\ n \in Key
  BY <1>1, <1>2, StTypes, SpanIn DEF StPhase, Tree
<1>5. t \in Side /\ Beyond(t, n, key)
  BY <1>1, <1>4, Keys DEF Side, Beyond
<1>6. StPhase'
  BY <1>1, <1>2 DEF StPhase
<1>7. OnWay(ST!Members, root, child, sp, key, n, t, child[t][n])
  BY <1>2, <1>4, <1>5, WayDown
<1>8. child[t][n] \in ST!Members \cup {NULL}
  BY <1>2, <1>4, <1>5, SpanIn DEF Tree
<1>9. QED
  BY <1>1, <1>3, <1>4, <1>5, <1>6, <1>7, <1>8, StTreeKept

LEMMA StAnswered ==
  ASSUME NEW sp, StInv(sp), ST!found \/ ST!not_found
  PROVE  StInv(sp)'
<1>1. /\ pc = "find" /\ pc' = "return" /\ ret' \in BOOLEAN
      /\ n' = NULL /\ p' = NULL /\ d' = NONE /\ del' = NULL
      /\ UNCHANGED <<root, child, parent, hint, alive, op, key>>
  BY Zenon DEF ST!found, ST!not_found, ST!Return, ST!treeVars, ST!callVars
<1>2. StPhase /\ del = NULL
  BY <1>1 DEF StInv, StPhase
<1>3. ST!Members' = ST!Members
  BY <1>1 DEF ST!Members
<1>4. StPhase'
  BY <1>1, <1>2 DEF StPhase
<1>5. QED
  BY <1>1, <1>3, <1>4, StTreeKept

LEMMA StRemove ==
  ASSUME NEW sp, StInv(sp), ST!st_remove
  PROVE  StInv(sp)'
<1>1. /\ pc = "find" /\ n = key /\ op = "remove" /\ pc' = "first" /\ del' = key
      /\ n' = (IF child["RIGHT"][key] # NULL THEN child["RIGHT"][key] ELSE child["LEFT"][key])
      /\ p' = NULL /\ d' = NONE
      /\ UNCHANGED <<root, child, parent, hint, alive, op, key, ret>>
  BY DEF ST!st_remove, ST!treeVars, ST!callVars
<1>2. StPhase /\ ST!TypeOK /\ Tree(ST!Members, root, child, parent, sp)
  BY <1>1 DEF StInv
<1>3. ST!Members' = ST!Members /\ ST!Members = alive
  BY <1>1 DEF ST!Members
<1>4. key \in ST!Members /\ key \in Key /\ key # NULL
  <2>1. key \in Key /\ key \in ST!Members \cup {NULL}
    BY <1>1, <1>2, StTypes DEF StPhase
  <2>2. QED
    BY <2>1, Keys
<1>5. StPhase'
  BY <1>1, <1>2, <1>3, <1>4 DEF StPhase
<1> DEFINE f == IF child["RIGHT"][key] # NULL THEN "RIGHT" ELSE "LEFT"
<1>6. f \in Side /\ ST!From' = f /\ n' = child[f][key]
  BY <1>1 DEF ST!From, Side
<1>7. child[f][key] # NULL => OnEdge(sp, f, child[f][key], child[f][key])
  BY <1>2, <1>4, <1>6, SpanIn DEF Tree, OnEdge
<1>8. StEdge(sp)'
  <2>1. n' = NULL => \A s \in Side : child[s][key] = NULL
    BY <1>6, Zenon DEF Side
  <2>2. n' # NULL => child[f][key] # NULL /\ OnEdge(sp, f, child[f][key], n')
    BY <1>6, <1>7
  <2>3. child' = child /\ del' = key
    BY <1>1
  <2>4. QED
    BY <1>6, <2>1, <2>2, <2>3 DEF StEdge
<1>9. n' \in ST!Members \cup {NULL}
  BY <1>2, <1>4, <1>6, SpanIn DEF Tree
<1>10. QED
  BY <1>1, <1>3, <1>5, <1>8, <1>9, StTreeKept

LEMMA StFirst ==
  ASSUME NEW sp, StInv(sp), ST!first
  PROVE  StInv(sp)'
<1>1. /\ pc = "first" /\ n # NULL /\ child[Other(ST!From)][n] # NULL /\ n' = child[Other(ST!From)][n]
      /\ UNCHANGED <<root, child, parent, hint, alive, pc, op, key, ret, p, d, del>>
  BY StSides DEF ST!first, ST!treeVars, ST!callVars, ST!pathVars
<1>2. StPhase /\ ST!TypeOK /\ Tree(ST!Members, root, child, parent, sp) /\ StEdge(sp)
  BY <1>1 DEF StInv
<1>3. ST!Members' = ST!Members /\ ST!Members = alive
  BY <1>1 DEF ST!Members
<1>4. ST!From \in Side /\ ST!From' = ST!From
  BY <1>1 DEF ST!From, Side
<1>5. /\ del \in ST!Members /\ child[ST!From][del] # NULL /\ child[ST!From][del] \in ST!Members
      /\ OnEdge(sp, ST!From, child[ST!From][del], n)
  BY <1>1, <1>2, <1>3, <1>4, TreeFacts DEF StPhase, StEdge
<1>6. OnEdge(sp, ST!From, child[ST!From][del], n')
  BY <1>1, <1>2, <1>4, <1>5, EdgeDown
<1>7. n \in ST!Members /\ n' \in ST!Members /\ n' # NULL
  <2>1. n \in ST!Members
    BY <1>1, <1>2, StTypes
  <2>2. QED
    BY <1>1, <1>2, <1>4, <2>1, Sides, TreeFacts
<1>8. StEdge(sp)'
  BY <1>1, <1>4, <1>5, <1>6, <1>7 DEF StEdge
<1>9. StPhase'
  BY <1>1, <1>2 DEF StPhase
<1>10. p' \in ST!Members \cup {NULL} /\ d' \in Side \cup {NONE}
  BY <1>1, <1>2, StTypes
<1>11. QED
  BY <1>1, <1>3, <1>7, <1>8, <1>9, <1>10, StTreeKept

LEMMA StReturn ==
  ASSUME NEW sp, StInv(sp), ST!return
  PROVE  StInv(sp)'
<1>1. /\ pc = "return" /\ pc' = "ready" /\ op' = NONE /\ key' = NONE /\ ret' = NONE
      /\ UNCHANGED <<root, child, parent, hint, alive, n, p, d, del>>
  BY DEF ST!return, ST!treeVars, ST!pathVars
<1>2. StPhase /\ n = NULL /\ p = NULL /\ d = NONE /\ del = NULL
  BY <1>1 DEF StInv, StPhase
<1>3. ST!Members' = ST!Members
  BY <1>1 DEF ST!Members
<1>4. StPhase'
  BY <1>1, <1>2 DEF StPhase
<1>5. QED
  BY <1>1, <1>2, <1>3, <1>4, StTreeKept

(* What its operators do to the pointers.                                  *)
LEMMA PutIs ==
  ASSUME NEW f \in Pointers, NEW x \in Node, NEW v \in Node
  PROVE  /\ ST!Put(f, x, v) \in Pointers
         /\ \A m \in Key : ST!Put(f, x, v)[m] = IF m = x THEN v ELSE f[m]
<1>1. CASE x = NULL
  BY <1>1, Keys DEF ST!Put
<1>2. CASE x # NULL
  <2>1. x \in Key /\ ST!Put(f, x, v) = [f EXCEPT ![x] = v]
    BY <1>2 DEF ST!Put, Node
  <2>2. QED
    BY <2>1 DEF Pointers
<1>3. QED
  BY <1>1, <1>2

LEMMA LinkIs ==
  ASSUME NEW ch \in Links, NEW s \in Side, NEW m \in Key, NEW v \in Node
  PROVE  /\ [ch EXCEPT ![s][m] = v] \in Links
         /\ \A t \in Side, x \in Key : [ch EXCEPT ![s][m] = v][t][x] = IF t = s /\ x = m THEN v ELSE ch[t][x]
<1>1. ch[s] \in [Key -> Node]
  BY DEF Links
<1>2. [ch[s] EXCEPT ![m] = v] \in [Key -> Node]
  BY <1>1
<1>3. [ch EXCEPT ![s][m] = v] = [ch EXCEPT ![s] = [ch[s] EXCEPT ![m] = v]]
  BY DEF Links
<1>4. [ch EXCEPT ![s][m] = v] \in Links
  BY <1>2, <1>3 DEF Links
<1>5. ASSUME NEW t \in Side, NEW x \in Key
      PROVE  [ch EXCEPT ![s][m] = v][t][x] = IF t = s /\ x = m THEN v ELSE ch[t][x]
  <2>1. [ch EXCEPT ![s][m] = v][t] = IF t = s THEN [ch[s] EXCEPT ![m] = v] ELSE ch[t]
    BY <1>3 DEF Links
  <2>2. QED
    BY <1>1, <2>1
<1>6. QED
  BY <1>4, <1>5

LEMMA RedirectIs ==
  ASSUME NEW ch \in Links, NEW q \in Node, NEW m, NEW v \in Node,
         q # NULL => \E u \in Side : ch[u][q] = m /\ ch[Other(u)][q] # m
  PROVE  /\ ST!Redirect(ch, q, m, v) \in Links
         /\ \A t \in Side, x \in Key :
              ST!Redirect(ch, q, m, v)[t][x] = IF x = q /\ ch[t][x] = m THEN v ELSE ch[t][x]
<1>1. CASE q = NULL
  BY <1>1, Keys DEF ST!Redirect
<1>2. CASE q # NULL
  <2> DEFINE s == IF ch["LEFT"][q] = m THEN "LEFT" ELSE "RIGHT"
  <2>1. q \in Key /\ s \in Side /\ ST!Redirect(ch, q, m, v) = [ch EXCEPT ![s][q] = v]
    BY <1>2 DEF ST!Redirect, Node, Side
  <2>2. \A t \in Side : ch[t][q] = m <=> t = s
    BY <1>2 DEF Side, Other
  <2> HIDE DEF s
  <2>3. /\ [ch EXCEPT ![s][q] = v] \in Links
        /\ \A t \in Side, x \in Key : [ch EXCEPT ![s][q] = v][t][x] = IF t = s /\ x = q THEN v ELSE ch[t][x]
    <3>1. s \in Side /\ q \in Key /\ ch \in Links /\ v \in Node
      BY <2>1
    <3>2. QED
      BY ONLY <3>1, LinkIs
  <2>4. QED
    BY <2>1, <2>2, <2>3
<1>3. QED
  BY <1>1, <1>2

(* The first node.                                                         *)
LEMMA FirstNode ==
  ASSUME NEW k \in Key, NEW ch, NEW pa, \A t \in Side : ch[t][k] = NULL, pa[k] = NULL
  PROVE  \E sp : Tree({k}, k, ch, pa, sp)
<1> DEFINE sp == [m \in Node |-> IF m = k THEN {k} ELSE {}]
<1>1. sp[k] = {k} /\ sp[NULL] = {} /\ k # NULL
  BY Keys DEF Node
<1> HIDE DEF sp
<1>2. \A t \in Side : ~Beyond(t, k, k)
  BY Order
<1>3. Spans({k}, k, ch, sp)
  BY <1>1, <1>2 DEF Spans
<1>4. Parents({k}, k, ch, pa)
  BY DEF Parents
<1>5. QED
  BY <1>3, <1>4 DEF Tree

LEMMA StTreeChanged ==
  ASSUME NEW sp2, Tree(ST!Members', root', child', parent', sp2), StPhase', pc' \in {"update", "return"},
         child' \in Links, parent' \in Pointers, hint' \in [Key -> Nat], alive' \subseteq Key,
         n' \in ST!Members' \cup {NULL}
  PROVE  StInv(sp2)'
<1>1. root' \in ST!Members' \cup {NULL}
  BY SpanIn DEF Tree
<1>2. /\ p' = NULL /\ d' = NONE /\ op' \in Calls /\ key' \in Key /\ ret' \in BOOLEAN
      /\ del' \in alive' \cup {NULL}
  BY Zenon DEF StPhase
<1>3. ST!TypeOK'
  BY <1>1, <1>2, StTypesNext
<1>4. QED
  BY <1>3 DEF StInv

LEMMA StInsert ==
  ASSUME NEW sp, StInv(sp), ST!st_insert
  PROVE  \E sp2 : StInv(sp2)'
<1> DEFINE M == ST!Members
           created == [s \in Side |-> [child[s] EXCEPT ![key] = NULL]]
<1>1. /\ pc = "find" /\ n = NULL /\ op = "insert" /\ alive' = alive \cup {key}
      /\ hint' = [hint EXCEPT ![key] = 0] /\ parent' = [parent EXCEPT ![key] = p]
      /\ IF root = NULL
         THEN /\ root' = key /\ child' = created
              /\ pc' = "return" /\ ret' = TRUE /\ n' = NULL /\ p' = NULL /\ d' = NONE /\ del' = NULL
         ELSE /\ child' = [created EXCEPT ![d] = ST!Put(@, p, key)]
              /\ pc' = "update" /\ n' = key /\ ret' = TRUE /\ p' = NULL /\ d' = NONE
              /\ root' = root /\ del' = del
      /\ op' = op /\ key' = key
  BY StSides DEF ST!st_insert, ST!Return, ST!callVars
<1>2. /\ StPhase /\ ST!TypeOK /\ Tree(M, root, child, parent, sp)
      /\ OnWay(M, root, child, sp, key, p, d, n)
  BY <1>1 DEF StInv
<1>3. M = alive /\ M \subseteq Key /\ sp[root] = M /\ sp[NULL] = {} /\ key \in Key /\ key # NULL /\ del = NULL
  BY <1>1, <1>2, SpanIn, Keys DEF ST!Members, StPhase, Tree
<1>4. key \notin M
  BY <1>1, <1>2, <1>3 DEF OnWay
<1>5. child \in Links /\ parent \in Pointers /\ hint \in [Key -> Nat]
  BY <1>2, StTypes
<1>6. /\ created \in Links
      /\ \A t \in Side, m \in Key : created[t][m] = IF m = key THEN NULL ELSE child[t][m]
  BY <1>3, <1>5 DEF Links, Node
<1> HIDE DEF created
<1>7. p \in Node /\ parent' \in Pointers /\ hint' \in [Key -> Nat] /\ alive' \subseteq Key
      /\ \A m \in Key : parent'[m] = IF m = key THEN p ELSE parent[m]
  <2>1. p \in Node
    BY <1>2, <1>3, StTypes DEF Node
  <2>2. QED
    BY <1>1, <1>3, <1>5, <2>1 DEF Pointers
<1>8. CASE root = NULL
  <2>1. /\ root' = key /\ child' = created /\ pc' = "return" /\ ret' = TRUE
        /\ n' = NULL /\ p' = NULL /\ d' = NONE /\ del' = NULL /\ op' = op /\ key' = key
    BY <1>1, <1>8
  <2>2. p = NULL /\ ST!Members' = {key}
    BY <1>1, <1>2, <1>3, <1>8, <2>1 DEF OnWay, ST!Members
  <2>3. StPhase'
    BY <1>1, <1>2, <2>1 DEF StPhase, Calls
  <2>4. \E sp2 : Tree({key}, key, child', parent', sp2)
    BY <1>3, <1>6, <1>7, <2>1, <2>2, FirstNode, Zenon
  <2>5. QED
    BY <1>6, <1>7, <2>1, <2>2, <2>3, <2>4, StTreeChanged, Zenon
<1>9. CASE root # NULL
  <2>1. /\ root' = root /\ child' = [created EXCEPT ![d] = ST!Put(@, p, key)]
        /\ pc' = "update" /\ n' = key /\ ret' = TRUE /\ p' = NULL /\ d' = NONE /\ del' = NULL
        /\ op' = op /\ key' = key
    BY <1>1, <1>3, <1>9
  <2>2. p \in M /\ d \in Side /\ NULL = child[d][p] /\ Beyond(d, p, key)
        /\ \A m \in M : p \in sp[m] /\ m # p => \A t \in Side : Beyond(t, m, key) <=> Beyond(t, m, p)
    BY <1>1, <1>2, <1>9 DEF OnWay
  <2>3. p \in Key /\ p # NULL /\ key \in Node
    BY <1>3, <2>2, Keys DEF Node
  <2>4. child' = [created EXCEPT ![d][p] = key]
    BY <1>6, <2>1, <2>3 DEF ST!Put, Links
  <2>5. /\ child' \in Links
        /\ \A t \in Side, m \in Key : child'[t][m] = IF t = d /\ m = p THEN key ELSE created[t][m]
    <3>1. /\ [created EXCEPT ![d][p] = key] \in Links
          /\ \A t \in Side, m \in Key :
               [created EXCEPT ![d][p] = key][t][m] = IF t = d /\ m = p THEN key ELSE created[t][m]
      BY <1>6, <2>2, <2>3, LinkIs
    <3>2. QED
      BY <2>4, <3>1
  <2>6. ST!Members' = M \cup {key}
    BY <1>1, <1>3, <2>1, Keys DEF ST!Members
  <2>7. StPhase'
    BY <1>1, <1>2, <2>1 DEF StPhase, Calls
  <2>8. /\ \A m \in M, t \in Side : child'[t][m] = IF m = p /\ t = d THEN key ELSE child[t][m]
        /\ \A t \in Side : child'[t][key] = NULL
    BY <1>3, <1>4, <1>6, <2>2, <2>5
  <2>9. (\A m \in M : parent'[m] = parent[m]) /\ parent'[key] = p
    BY <1>3, <1>4, <1>7
  <2>10. \E sp2 : Tree(M \cup {key}, root, child', parent', sp2)
    BY <1>2, <1>3, <1>4, <2>2, <2>8, <2>9, Attach
  <2>11. QED
    BY <1>7, <2>1, <2>5, <2>6, <2>7, <2>10, StTreeChanged, Zenon
<1>10. QED
  BY <1>8, <1>9

LEMMA StCutOff ==
  ASSUME NEW sp, StInv(sp), ST!cut_off
  PROVE  \E sp2 : StInv(sp2)'
<1> DEFINE M == ST!Members
<1>1. /\ pc = "first" /\ n = NULL
      /\ root' = (IF del = root THEN NULL ELSE root)
      /\ child' = ST!Redirect(child, parent[del], del, NULL)
      /\ n' = parent[del] /\ pc' = "update" /\ ret' = TRUE
      /\ UNCHANGED <<parent, hint, alive, op, key, p, d, del>>
  BY DEF ST!cut_off, ST!callVars, ST!pathVars
<1>2. StPhase /\ ST!TypeOK /\ Tree(M, root, child, parent, sp) /\ StEdge(sp)
  BY <1>1 DEF StInv
<1>3. M = alive /\ M \subseteq Key /\ del \in M /\ NULL \notin M /\ p = NULL /\ d = NONE /\ ST!Members' = M \ {del}
  BY <1>1, <1>2, SpanIn, Keys DEF ST!Members, StPhase, Tree
<1>4. child \in Links /\ parent \in Pointers /\ hint \in [Key -> Nat]
  BY <1>2, StTypes
<1>5. \A s \in Side : child[s][del] = NULL
  BY <1>1, <1>2 DEF StEdge
<1>6. parent[del] # NULL => \E u \in Side : child[u][parent[del]] = del /\ child[Other(u)][parent[del]] # del
  BY <1>2, <1>3, TreeFacts, Sides
<1>7. /\ child' \in Links
      /\ \A t \in Side, x \in Key : child'[t][x] = IF x = parent[del] /\ child[t][x] = del THEN NULL ELSE child[t][x]
  <2>1. parent[del] \in Node /\ NULL \in Node
    BY <1>3, <1>4 DEF Node, Pointers
  <2>2. QED
    BY <1>1, <1>4, <1>6, <2>1, RedirectIs
<1>8. \A m \in M \ {del}, t \in Side : child'[t][m] = IF child[t][m] = del THEN NULL ELSE child[t][m]
  BY <1>2, <1>3, <1>7, TreeFacts
<1>9. \E sp2 : Tree(M \ {del}, root', child', parent, sp2)
  <2>1. PICK s \in Side : child[s][del] = NULL /\ child[Other(s)][del] = NULL
    BY <1>5 DEF Side, Other
  <2>2. root' = (IF root = del THEN child[s][del] ELSE root)
    BY <1>1, <2>1
  <2>3. \A m \in M \ {del} : parent[m] = IF m = child[s][del] THEN parent[del] ELSE parent[m]
    BY <1>3, <2>1
  <2>4. \A m \in M \ {del}, t \in Side : child'[t][m] = IF child[t][m] = del THEN child[s][del] ELSE child[t][m]
    BY <1>8, <2>1
  <2>5. QED
    BY <1>2, <1>3, <2>1, <2>2, <2>3, <2>4, Cut
<1>10. n' \in ST!Members' \cup {NULL}
  BY <1>1, <1>2, <1>3, TreeFacts, <1>5
<1>11. StPhase'
  BY <1>1, <1>2 DEF StPhase
<1>12. QED
  BY <1>1, <1>3, <1>4, <1>7, <1>9, <1>10, <1>11, StTreeChanged

LEMMA StReplace ==
  ASSUME NEW sp, StInv(sp), ST!replace
  PROVE  \E sp2 : StInv(sp2)'
<1> DEFINE M == ST!Members
           s == ST!From
           o == Other(s)
           q == parent[n]
           c == child[s][n]
           lifted == child[o][q] = n
           moved == IF lifted THEN [child EXCEPT ![o][q] = c] ELSE child
           adopted == IF child[s][del] # n THEN [moved EXCEPT ![s][n] = child[s][del]] ELSE moved
           crossed == [adopted EXCEPT ![o][n] = child[o][del]]
           up == IF lifted THEN ST!Put(parent, c, q) ELSE parent
           top == IF child[s][del] # n THEN ST!Put(up, child[s][del], n) ELSE up
           placed == [top EXCEPT ![n] = parent[del]]
<1>1. /\ pc = "first" /\ n # NULL /\ child[o][n] = NULL
      /\ child' = ST!Redirect(crossed, parent[del], del, n)
      /\ parent' = ST!Put(placed, child[o][del], n)
      /\ n' = child'[s][n]
      /\ root' = (IF del = root THEN n ELSE root) /\ pc' = "update" /\ ret' = TRUE
      /\ UNCHANGED <<hint, alive, op, key, p, d, del>>
  BY StSides, Zenon DEF ST!replace, ST!callVars, ST!pathVars
<1>2. StPhase /\ ST!TypeOK /\ Tree(M, root, child, parent, sp) /\ StEdge(sp)
  BY <1>1 DEF StInv
<1>3. /\ M = alive /\ M \subseteq Key /\ del \in M /\ NULL \notin M /\ p = NULL /\ d = NONE
      /\ ST!Members' = M \ {del}
  <2>1. M \subseteq Key /\ NULL \notin M
    BY <1>2, Keys DEF Tree, Spans
  <2>2. M = alive /\ del \in alive /\ p = NULL /\ d = NONE /\ ST!Members' = alive \ {del}
    BY <1>1, <1>2 DEF ST!Members, StPhase
  <2>3. QED
    BY <2>1, <2>2
<1>4. child \in Links /\ parent \in Pointers /\ hint \in [Key -> Nat]
  BY <1>2, StTypes
<1>5. s \in Side /\ o \in Side /\ s # o /\ (\A t \in Side : t = s \/ t = o) /\ Other(o) = s
  <2>1. ST!From \in Side
    BY DEF ST!From, Side
  <2>2. QED
    BY <2>1, Sides
<1> HIDE DEF s
<1>6. child[s][del] # NULL /\ OnEdge(sp, s, child[s][del], n)
  BY <1>1, <1>2 DEF StEdge, s
<1>7. /\ n \in M /\ n \in sp[del] /\ n # del /\ child[s][del] \in M
      /\ n = child[s][del] => q = del /\ child[o][del] # n
      /\ n # child[s][del] => q \in M /\ q # del /\ q # n /\ child[o][q] = n /\ child[s][q] # n
      /\ \A m \in M \ {del, n}, u \in Side : Beyond(u, del, m) <=> Beyond(u, n, m)
  <2>1. /\ Tree(M, root, child, parent, sp) /\ del \in M /\ s \in Side
        /\ child[s][del] # NULL /\ OnEdge(sp, s, child[s][del], n)
    BY <1>2, <1>3, <1>5, <1>6
  <2>2. /\ n \in M /\ n \in sp[del] /\ n # del /\ child[s][del] \in M
        /\ n = child[s][del] => parent[n] = del /\ child[Other(s)][del] # n
        /\ n # child[s][del] => /\ parent[n] \in M /\ parent[n] # del /\ parent[n] # n
                               /\ child[Other(s)][parent[n]] = n /\ child[s][parent[n]] # n
        /\ child[Other(s)][n] = NULL =>
             \A m \in M \ {del, n}, u \in Side : Beyond(u, del, m) <=> Beyond(u, n, m)
    BY ONLY <2>1, EdgeEnd
  <2>3. QED
    BY <1>1, <2>2
<1>8. lifted <=> n # child[s][del]
  BY <1>7
<1>9. /\ c \in Node /\ q \in Node /\ parent[del] \in Node /\ n \in Key /\ n \in Node /\ q \in M /\ del \in Key
      /\ child[s][del] \in Node /\ child[o][del] \in Node /\ parent[del] # n /\ parent[del] # del
  <2>1. parent[del] # n /\ parent[del] # del
    <3>1. CASE del = root
      BY <1>2, <1>3, <1>7, <3>1, TreeFacts
    <3>2. CASE del # root
      <4>1. PICK t \in Side : parent[del] \in M /\ child[t][parent[del]] = del
        BY <1>2, <1>3, <3>2, TreeFacts
      <4>2. del \in sp[parent[del]]
        BY <1>2, <1>3, <4>1, SpanIn DEF Tree
      <4>3. QED
        BY <1>2, <1>3, <1>7, <4>1, <4>2, TreeFacts
    <3>3. QED
      BY <3>1, <3>2
  <2>2. q \in M /\ n \in Key /\ del \in Key
    BY <1>3, <1>7
  <2>3. QED
    BY <1>4, <1>5, <2>1, <2>2 DEF Links, Node, Pointers
<1>31. o = Other(s) /\ q = parent[n] /\ c = child[s][n] /\ child[o][n] = NULL
  BY <1>1
<1> HIDE DEF o, q, c, lifted
<1>10. /\ moved \in Links
       /\ \A t \in Side, x \in Key : moved[t][x] = IF lifted /\ t = o /\ x = q THEN c ELSE child[t][x]
  <2>1. q \in Key
    BY <1>3, <1>9
  <2>2. /\ [child EXCEPT ![o][q] = c] \in Links
        /\ \A t \in Side, x \in Key : [child EXCEPT ![o][q] = c][t][x] = IF t = o /\ x = q THEN c ELSE child[t][x]
    BY <1>4, <1>5, <1>9, <2>1, LinkIs
  <2>3. QED
    BY <1>4, <2>2 DEF moved
<1> HIDE DEF moved
<1>11. /\ adopted \in Links
       /\ \A t \in Side, x \in Key : adopted[t][x] =
            IF child[s][del] # n /\ t = s /\ x = n THEN child[s][del] ELSE moved[t][x]
  <2>1. /\ [moved EXCEPT ![s][n] = child[s][del]] \in Links
        /\ \A t \in Side, x \in Key : [moved EXCEPT ![s][n] = child[s][del]][t][x] =
             IF t = s /\ x = n THEN child[s][del] ELSE moved[t][x]
    BY <1>5, <1>9, <1>10, LinkIs
  <2>2. QED
    BY <1>10, <2>1
<1> HIDE DEF adopted
<1>12. /\ crossed \in Links
       /\ \A t \in Side, x \in Key : crossed[t][x] = IF t = o /\ x = n THEN child[o][del] ELSE adopted[t][x]
  BY <1>5, <1>9, <1>11, LinkIs
<1> HIDE DEF crossed
<1>32. child[o][del] # n
  BY <1>2, <1>3, <1>5, <1>7, <1>9, <1>31, TreeFacts
<1>13. /\ \A t \in Side : crossed[t][n] = IF child[t][del] = n THEN c ELSE child[t][del]
       /\ \A t \in Side, m \in Key \ {del, n} : crossed[t][m] = IF lifted /\ t = o /\ m = q THEN c ELSE child[t][m]
  <2>1. \A t \in Side : crossed[t][n] = IF t = o THEN child[o][del] ELSE IF child[s][del] # n THEN child[s][del] ELSE c
    <3>1. child[s][n] = c /\ n # q
      BY <1>31, <1>7, <1>9, <1>32
    <3>2. QED
      BY <1>5, <1>9, <1>10, <1>11, <1>12, <3>1
  <2>2. \A t \in Side : crossed[t][n] = IF child[t][del] = n THEN c ELSE child[t][del]
    BY <1>5, <1>32, <2>1
  <2>3. ASSUME NEW t \in Side, NEW m \in Key \ {del, n}
        PROVE  crossed[t][m] = IF lifted /\ t = o /\ m = q THEN c ELSE child[t][m]
    BY <1>10, <1>11, <1>12
  <2>4. QED
    BY <2>2, <2>3
<1>14. lifted => q # parent[del]
  <2>1. ASSUME lifted, q = parent[del]
        PROVE  FALSE
    <3>1. q \in sp[del]
      BY <1>2, <1>3, <1>7, <1>31, UpIn
    <3>2. del # root
      BY <1>2, <1>3, <1>9, <2>1, TreeFacts
    <3>3. del \in sp[q]
      BY <1>2, <1>3, <1>9, <2>1, <3>2, TreeFacts, SpanIn DEF Tree
    <3>4. QED
      BY <1>2, <1>3, <1>7, <1>8, <1>9, <2>1, <3>1, <3>3, TreeFacts
  <2>2. QED
    BY <2>1
<1>15. parent[del] # NULL =>
         /\ parent[del] \in M /\ del # root
         /\ \A t \in Side : crossed[t][parent[del]] = child[t][parent[del]]
         /\ \E u \in Side : child[u][parent[del]] = del /\ child[Other(u)][parent[del]] # del
  <2>1. ASSUME parent[del] # NULL
        PROVE  /\ parent[del] \in M /\ del # root
               /\ \E u \in Side : child[u][parent[del]] = del /\ child[Other(u)][parent[del]] # del
    BY <1>2, <1>3, <2>1, TreeFacts, Sides
  <2>2. ASSUME parent[del] # NULL, NEW t \in Side
        PROVE  crossed[t][parent[del]] = child[t][parent[del]]
    <3>1. parent[del] \in Key \ {del, n}
      BY <1>9, <2>2 DEF Node
    <3>2. QED
      BY <1>13, <1>14, <3>1
  <2>3. QED
    BY <2>1, <2>2
<1>16. parent[del] # NULL => \E u \in Side : crossed[u][parent[del]] = del /\ crossed[Other(u)][parent[del]] # del
  BY <1>15, Sides
<1>17. /\ child' \in Links
       /\ \A t \in Side, x \in Key : child'[t][x] = IF x = parent[del] /\ crossed[t][x] = del THEN n ELSE crossed[t][x]
  BY <1>1, <1>9, <1>12, <1>16, RedirectIs
<1>18. \A t \in Side : child'[t][n] = IF child[t][del] = n THEN c ELSE child[t][del]
  BY <1>9, <1>13, <1>17
<1>19. ASSUME NEW m \in M \ {del, n}, NEW t \in Side
       PROVE  child'[t][m] = IF child[t][m] = n THEN c ELSE IF child[t][m] = del THEN n ELSE child[t][m]
  <2>1. child[t][m] = del => m = parent[del]
    BY <1>2, <1>3, TreeFacts
  <2>2. child[t][m] = n <=> lifted /\ t = o /\ m = q
    <3>1. child[t][m] = n => m = q
      BY <1>2, <1>3, <1>7, <1>31, TreeFacts
    <3>2. QED
      BY <1>5, <1>7, <1>8, <3>1
  <2>3. m \in Key /\ m \in Key \ {del, n}
    BY <1>3
  <2>4. crossed[t][m] = IF child[t][m] = n THEN c ELSE child[t][m]
    BY <1>13, <2>2, <2>3
  <2>5. CASE m = parent[del]
    <3>1. crossed[t][m] = child[t][m]
      BY <1>3, <1>15, <2>5
    <3>2. child[t][m] # n
      BY <1>14, <2>2, <2>5
    <3>3. QED
      BY <1>17, <2>3, <2>5, <3>1, <3>2
  <2>6. CASE m # parent[del]
    BY <1>17, <2>1, <2>3, <2>4, <2>6
  <2>7. QED
    BY <2>5, <2>6
<1>20. /\ up \in Pointers
       /\ \A m \in Key : up[m] = IF lifted /\ m = c THEN q ELSE parent[m]
  <2>1. ST!Put(parent, c, q) \in Pointers /\ \A m \in Key : ST!Put(parent, c, q)[m] = IF m = c THEN q ELSE parent[m]
    BY <1>4, <1>9, PutIs
  <2>2. QED
    BY <1>4, <2>1
<1> HIDE DEF up
<1>21. /\ top \in Pointers
       /\ \A m \in Key : top[m] = IF child[s][del] # n /\ m = child[s][del] THEN n ELSE up[m]
  <2>1. /\ ST!Put(up, child[s][del], n) \in Pointers
        /\ \A m \in Key : ST!Put(up, child[s][del], n)[m] = IF m = child[s][del] THEN n ELSE up[m]
    <3>1. up \in Pointers /\ child[s][del] \in Node /\ n \in Node
      BY <1>9, <1>20
    <3>2. QED
      BY <3>1, PutIs
  <2>2. QED
    BY <1>20, <2>1
<1> HIDE DEF top
<1>22. placed \in Pointers /\ \A m \in Key : placed[m] = IF m = n THEN parent[del] ELSE top[m]
  BY <1>9, <1>21 DEF Pointers
<1> HIDE DEF placed
<1>23. parent' \in Pointers /\ \A m \in Key : parent'[m] = IF m = child[o][del] THEN n ELSE placed[m]
  <2>1. /\ ST!Put(placed, child[o][del], n) \in Pointers
        /\ \A m \in Key : ST!Put(placed, child[o][del], n)[m] = IF m = child[o][del] THEN n ELSE placed[m]
    <3>1. placed \in Pointers /\ child[o][del] \in Node /\ n \in Node
      BY <1>9, <1>22
    <3>2. QED
      BY <3>1, PutIs
  <2>2. QED
    BY <1>1, <2>1
<1>24. parent'[n] = parent[del]
  BY <1>9, <1>22, <1>23, <1>32
<1>25. ASSUME NEW m \in M \ {del, n}
       PROVE  parent'[m] = IF m = c THEN IF q = del THEN n ELSE q
                           ELSE IF parent[m] = del THEN n ELSE parent[m]
  <2>1. parent[m] = del <=> m = child[s][del] \/ m = child[o][del]
    <3>1. m = child[s][del] \/ m = child[o][del] => parent[m] = del
      BY <1>2, <1>3, <1>5, TreeFacts
    <3>2. ASSUME parent[m] = del
          PROVE  m = child[s][del] \/ m = child[o][del]
      BY <1>2, <1>3, <1>5, <3>2, TreeFacts
    <3>3. QED
      BY <3>1, <3>2
  <2>2. m = c => parent[m] = n
    BY <1>2, <1>3, <1>5, <1>7, <1>31, TreeFacts
  <2>3. m \in Key /\ m # n /\ m # del
    BY <1>3
  <2>4. q = del <=> ~lifted
    BY <1>7, <1>8
  <2>5. QED
    BY <1>7, <1>8, <1>20, <1>21, <1>22, <1>23, <2>1, <2>2, <2>3, <2>4
<1>26. \E sp2 : Tree(M \ {del}, root', child', parent', sp2)
  <2>1. root' = IF root = del THEN n ELSE root
    BY <1>1
  <2>2. QED
    <3>1. Supplanted(M, del, n, c, root, child, parent, root', child', parent')
      BY <1>7, <1>18, <1>19, <1>24, <1>25, <1>31, <2>1 DEF Supplanted
    <3>2. QED
      BY <1>2, <1>3, <1>5, <1>7, <1>31, <3>1, Supplant, Zenon
<1>27. n' \in ST!Members' \cup {NULL}
  <2>1. PICK sp2 : Tree(M \ {del}, root', child', parent', sp2)
    BY <1>26
  <2>2. n \in M \ {del} /\ s \in Side
    BY <1>5, <1>7
  <2>3. child'[s][n] \in (M \ {del}) \cup {NULL}
    BY <2>1, <2>2, SpanIn DEF Tree
  <2>4. QED
    BY <1>1, <1>3, <2>3
<1>28. StPhase'
  BY <1>1, <1>2 DEF StPhase
<1>29. alive' \subseteq Key /\ hint' \in [Key -> Nat] /\ pc' = "update"
  BY <1>1, <1>3, <1>4
<1>30. QED
  BY <1>3, <1>17, <1>23, <1>26, <1>27, <1>28, <1>29, StTreeChanged, Zenon

LEMMA StRotate ==
  ASSUME NEW M, NEW sp, Tree(M, root, child, parent, sp), child \in Links, parent \in Pointers,
         n \in M, NEW s \in Side, child[s][n] # NULL, ST!rotate(s)
  PROVE  child' \in Links /\ parent' \in Pointers /\ \E sp2 : Tree(M, root', child', parent', sp2)
<1> DEFINE o == Other(s)
           y == child[s][n]
           z == child[o][y]
           q == parent[n]
           lowered == [child EXCEPT ![s][n] = z]
           lifted == [lowered EXCEPT ![o][y] = n]
           up == [parent EXCEPT ![y] = q]
           down == [up EXCEPT ![n] = y]
<1>1. /\ child' = ST!Redirect([child EXCEPT ![s][n] = z, ![o][y] = n], q, n, y)
      /\ parent' = ST!Put([parent EXCEPT ![y] = q, ![n] = y], z, n)
      /\ root' = IF n = root THEN y ELSE root
  BY StSides, Zenon DEF ST!rotate
<1>2. M \subseteq Key /\ NULL \notin M /\ o \in Side /\ o # s /\ \A t \in Side : t = s \/ t = o
  BY SpanIn, Keys, Sides DEF Tree
<1>3. /\ y \in M /\ y # n /\ y # NULL /\ parent[y] = n /\ z \in M \cup {NULL} /\ z # y /\ z # n
      /\ q \in M \cup {NULL} /\ q # n /\ q # y
      /\ q # NULL => \E u \in Side : child[u][q] = n /\ child[Other(u)][q] # n
  <2>1. y \in M /\ y # n /\ y # NULL /\ parent[y] = n /\ y \in sp[n]
    BY TreeFacts, SpanIn DEF Tree
  <2>2. z \in M \cup {NULL} /\ z # y /\ (z # NULL => parent[z] = y)
    BY <1>2, <2>1, TreeFacts, SpanIn DEF Tree
  <2>3. q \in M \cup {NULL} /\ (q # NULL => n # root /\ \E u \in Side : child[u][q] = n /\ child[Other(u)][q] # n)
    BY <1>2, TreeFacts, Sides
  <2>4. q # n
    BY <1>2, <2>3, TreeFacts
  <2>5. q # y
    <3>1. ASSUME q = y
          PROVE  FALSE
      <4>1. n \in sp[y]
        BY <1>2, <2>1, <2>3, <3>1, TreeFacts, SpanIn DEF Tree
      <4>2. QED
        BY <2>1, <4>1, TreeFacts
    <3>2. QED
      BY <3>1
  <2>6. z # n
    BY <1>2, <2>1, <2>2, <2>5
  <2>7. QED
    BY <2>1, <2>2, <2>3, <2>4, <2>5, <2>6
<1>4. n \in Key /\ y \in Key /\ n \in Node /\ y \in Node /\ z \in Node /\ q \in Node
  BY <1>2, <1>3 DEF Node
<1>14. o = Other(s) /\ y = child[s][n] /\ z = child[Other(s)][y] /\ q = parent[n]
  OBVIOUS
<1> HIDE DEF o, y, z, q
<1>5. /\ lowered \in Links
      /\ \A t \in Side, x \in Key : lowered[t][x] = IF t = s /\ x = n THEN z ELSE child[t][x]
  BY <1>4, LinkIs
<1> HIDE DEF lowered
<1>6. /\ lifted \in Links
      /\ \A t \in Side, x \in Key : lifted[t][x] = IF t = o /\ x = y THEN n ELSE lowered[t][x]
  BY <1>2, <1>4, <1>5, LinkIs
<1>7. lifted = [child EXCEPT ![s][n] = z, ![o][y] = n]
  BY DEF lifted, lowered
<1> HIDE DEF lifted
<1>8. q # NULL => \E u \in Side : lifted[u][q] = n /\ lifted[Other(u)][q] # n
  BY <1>2, <1>3, <1>5, <1>6, <1>4, Sides DEF Node
<1>9. /\ child' \in Links
      /\ \A t \in Side, x \in Key : child'[t][x] = IF x = q /\ lifted[t][x] = n THEN y ELSE lifted[t][x]
  <2>1. child' = ST!Redirect(lifted, q, n, y)
    BY <1>1, <1>7
  <2>2. QED
    BY <1>4, <1>6, <1>8, <2>1, RedirectIs
<1>10. \A m \in M, t \in Side : child'[t][m] = IF m = n /\ t = s THEN z
                                               ELSE IF m = y /\ t = o THEN n
                                               ELSE IF child[t][m] = n THEN y ELSE child[t][m]
  <2>1. ASSUME NEW m \in M, NEW t \in Side
        PROVE  child[t][m] = n => m = q
    BY <1>2, <1>14, TreeFacts
  <2>2. QED
    BY <1>2, <1>3, <1>5, <1>6, <1>9, <2>1
<1>11. down \in Pointers /\ \A m \in Key : down[m] = IF m = n THEN y ELSE IF m = y THEN q ELSE parent[m]
  BY <1>3, <1>4 DEF Pointers
<1>12. down = [parent EXCEPT ![y] = q, ![n] = y]
  OBVIOUS
<1> HIDE DEF down
<1>13. parent' \in Pointers /\ \A m \in Key : parent'[m] = IF m = z THEN n ELSE down[m]
  <2>1. down \in Pointers /\ z \in Node /\ n \in Node
    BY <1>4, <1>11
  <2>2. /\ ST!Put(down, z, n) \in Pointers
        /\ \A m \in Key : ST!Put(down, z, n)[m] = IF m = z THEN n ELSE down[m]
    BY <2>1, PutIs
  <2>3. QED
    BY <1>1, <1>12, <2>2, Zenon
<1>15. \A m \in M : parent'[m] = IF m = y THEN q ELSE IF m = n THEN y ELSE IF m = z THEN n ELSE parent[m]
  BY <1>2, <1>3, <1>11, <1>13
<1>16. root' = IF root = n THEN y ELSE root
  BY <1>1
<1>17. \E sp2 : Tree(M, root', child', parent', sp2)
  BY <1>3, <1>10, <1>14, <1>15, <1>16, Turn
<1>18. QED
  BY <1>9, <1>13, <1>17

LEMMA StUpdate ==
  ASSUME NEW sp, StInv(sp), ST!st_update
  PROVE  \E sp2 : StInv(sp2)'
<1> DEFINE M == ST!Members
<1>1. /\ pc = "update" /\ n # NULL
      /\ \/ ST!st_balance(n) < -1 /\ ST!rotate("RIGHT")
         \/ ST!st_balance(n) > 1 /\ ST!rotate("LEFT")
         \/ UNCHANGED <<root, child, parent>>
      /\ hint' = [hint EXCEPT ![n] = ST!st_max_hint(child', n)]
      /\ n' \in {parent[n], NULL}
      /\ UNCHANGED <<alive, pc, op, key, ret, p, d, del>>
  BY DEF ST!st_update, ST!callVars, ST!pathVars
<1>2. StPhase /\ ST!TypeOK /\ Tree(M, root, child, parent, sp)
  BY <1>1 DEF StInv
<1>3. child \in Links /\ parent \in Pointers /\ hint \in [Key -> Nat] /\ n \in M /\ alive \subseteq Key
  BY <1>1, <1>2, StTypes
<1>4. M \subseteq Key /\ ST!Members' = M
  BY <1>1, <1>2, SpanIn DEF ST!Members, Tree
<1>5. ASSUME NEW ch \in Links, NEW s \in Side
      PROVE  ST!Depth(ch, s, n) \in Nat /\ (ST!Depth(ch, s, n) # 0 => ch[s][n] # NULL)
  <2>1. ch[s][n] \in Key \cup {NULL}
    BY <1>3, <1>4 DEF Links, Node
  <2>2. QED
    BY <1>3, <2>1 DEF ST!Depth
<1>6. /\ child' \in Links /\ parent' \in Pointers
      /\ \E sp2 : Tree(M, root', child', parent', sp2)
  <2>1. "LEFT" \in Side /\ "RIGHT" \in Side
    BY DEF Side
  <2>2. CASE ST!st_balance(n) < -1 /\ ST!rotate("RIGHT")
    <3>1. child["RIGHT"][n] # NULL
      BY <1>3, <1>5, <2>1, <2>2 DEF ST!st_balance
    <3>2. QED
      BY <1>2, <1>3, <2>1, <2>2, <3>1, StRotate
  <2>3. CASE ST!st_balance(n) > 1 /\ ST!rotate("LEFT")
    <3>1. child["LEFT"][n] # NULL
      BY <1>3, <1>5, <2>1, <2>3 DEF ST!st_balance
    <3>2. QED
      BY <1>2, <1>3, <2>1, <2>3, <3>1, StRotate
  <2>4. CASE UNCHANGED <<root, child, parent>>
    BY <1>2, <1>3, <2>4
  <2>5. QED
    BY <1>1, <2>2, <2>3, <2>4
<1>7. hint' \in [Key -> Nat]
  <2>1. ST!st_max_hint(child', n) \in Nat
    BY <1>5, <1>6 DEF ST!st_max_hint, Side
  <2>2. QED
    BY <1>1, <1>3, <2>1, Zenon
<1>8. n' \in M \cup {NULL}
  BY <1>1, <1>2, <1>3, TreeFacts
<1>9. StPhase'
  BY <1>1, <1>2 DEF StPhase
<1>10. alive' \subseteq Key /\ pc' = "update"
  BY <1>1, <1>3
<1>11. QED
  BY <1>4, <1>6, <1>7, <1>8, <1>9, <1>10, StTreeChanged

LEMMA StUpdated ==
  ASSUME NEW sp, StInv(sp), ST!updated
  PROVE  StInv(sp)'
<1> DEFINE M == ST!Members
<1>1. /\ pc = "update" /\ n = NULL /\ alive' = alive \ {del}
      /\ child' = [s \in Side |-> ST!Put(child[s], del, NULL)]
      /\ parent' = ST!Put(parent, del, NULL) /\ hint' = ST!Put(hint, del, 0)
      /\ pc' = "return" /\ ret' = ret /\ n' = NULL /\ p' = NULL /\ d' = NONE /\ del' = NULL
      /\ UNCHANGED <<root, op, key>>
  BY StSides DEF ST!updated, ST!Return, ST!callVars
<1>2. StPhase /\ ST!TypeOK /\ Tree(M, root, child, parent, sp)
  BY <1>1 DEF StInv
<1>3. child \in Links /\ parent \in Pointers /\ hint \in [Key -> Nat] /\ alive \subseteq Key /\ del \in Node
  BY <1>2, StTypes DEF Node
<1>4. ST!Members' = M /\ M = alive \ {del} /\ M \subseteq Key
  BY <1>1, <1>3 DEF ST!Members
<1>5. /\ parent' \in Pointers
      /\ \A m \in Key : parent'[m] = IF m = del THEN NULL ELSE parent[m]
  <2>1. NULL \in Node
    BY DEF Node
  <2>2. /\ ST!Put(parent, del, NULL) \in Pointers
        /\ \A m \in Key : ST!Put(parent, del, NULL)[m] = IF m = del THEN NULL ELSE parent[m]
    BY <1>3, <2>1, PutIs
  <2>3. QED
    BY <1>1, <2>2
<1>6. /\ child' \in Links
      /\ \A s \in Side, m \in Key : child'[s][m] = IF m = del THEN NULL ELSE child[s][m]
  <2>1. ASSUME NEW s \in Side
        PROVE  /\ ST!Put(child[s], del, NULL) \in Pointers
               /\ \A m \in Key : ST!Put(child[s], del, NULL)[m] = IF m = del THEN NULL ELSE child[s][m]
    <3>1. child[s] \in Pointers /\ NULL \in Node
      BY <1>3 DEF Links, Pointers, Node
    <3>2. QED
      BY <1>3, <3>1, PutIs
  <2>2. QED
    BY <1>1, <2>1 DEF Links, Pointers
<1>7. hint' \in [Key -> Nat]
  BY <1>1, <1>3, Zenon DEF ST!Put
<1>8. Tree(M, root', child', parent', sp)
  <2>1. \A m \in M, t \in Side : child'[t][m] = child[t][m]
    BY <1>4, <1>6
  <2>2. \A m \in M : parent'[m] = parent[m]
    BY <1>4, <1>5
  <2>3. QED
    BY <1>1, <1>2, <2>1, <2>2, TreeSame
<1>9. StPhase'
  BY <1>1, <1>2 DEF StPhase
<1>10. alive' \subseteq Key /\ n' \in M \cup {NULL} /\ pc' = "return"
  BY <1>1, <1>3
<1>11. QED
  BY <1>4, <1>5, <1>6, <1>7, <1>8, <1>9, <1>10, StTreeChanged, Zenon

LEMMA StDestroy ==
  ASSUME NEW sp, StInv(sp), ST!st_destroy
  PROVE  StInv(sp)'
<1>1. /\ pc = "ready" /\ pc' = "destroyed" /\ alive' \subseteq alive /\ root' = NULL
      /\ UNCHANGED <<child, parent, hint, op, key, ret, n, p, d, del>>
  BY DEF ST!st_destroy, ST!callVars, ST!pathVars
<1>2. StPhase /\ ST!TypeOK
  BY DEF StInv
<1>3. n = NULL /\ p = NULL /\ d = NONE /\ del = NULL
  BY <1>1, <1>2 DEF StPhase
<1>4. ST!TypeOK'
  BY <1>1, <1>2, <1>3, StTypes, StTypesNext
<1>5. StPhase'
  BY <1>1, <1>2, <1>3 DEF StPhase
<1>6. QED
  BY <1>1, <1>4, <1>5 DEF StInv

(* The steps of the S-Tree keep what is said of it.                        *)
LEMMA StStep ==
  ASSUME NEW sp, StInv(sp), ST!Step
  PROVE  \E sp2 : StInv(sp2)'
<1>1. CASE ST!find
  BY <1>1, StFind
<1>2. CASE ST!found \/ ST!not_found
  BY <1>2, StAnswered
<1>3. CASE ST!st_insert
  BY <1>3, StInsert
<1>4. CASE ST!st_remove
  BY <1>4, StRemove
<1>5. CASE ST!first
  BY <1>5, StFirst
<1>6. CASE ST!replace
  BY <1>6, StReplace
<1>7. CASE ST!cut_off
  BY <1>7, StCutOff
<1>8. CASE ST!st_update
  BY <1>8, StUpdate
<1>9. CASE ST!updated
  BY <1>9, StUpdated
<1>10. CASE ST!return
  BY <1>10, StReturn
<1>11. QED
  BY <1>1, <1>2, <1>3, <1>4, <1>5, <1>6, <1>7, <1>8, <1>9, <1>10 DEF ST!Step

LEMMA StInit ==
  ASSUME ST!Init
  PROVE  \E sp : StInv(sp)
<1> DEFINE sp == [m \in {NULL} |-> {}]
<1>1. /\ root = NULL /\ alive = {} /\ pc = "ready" /\ op = NONE /\ key = NONE /\ ret = NONE
      /\ n = NULL /\ p = NULL /\ d = NONE /\ del = NULL
      /\ child \in Links /\ parent \in Pointers /\ hint \in [Key -> Nat]
  BY StSides DEF ST!Init, Links, Pointers, Node
<1>2. ST!Members = {}
  BY <1>1 DEF ST!Members
<1>3. ST!TypeOK
  BY <1>1, <1>2, StTypes
<1>4. StPhase
  BY <1>1 DEF StPhase
<1>5. Tree({}, NULL, child, parent, sp)
  BY DEF Tree, Spans, Parents
<1>6. StInv(sp)
  BY <1>1, <1>2, <1>3, <1>4, <1>5 DEF StInv
<1>7. QED
  BY <1>6

-----------------------------------------------------------------------------
(* The red-black tree.  What its operators do to a tree.                   *)
Hue == {0, 1}
Colors == [Key -> Hue]
Trees == [root : Node, child : Links, parent : Pointers, color : Colors]

LEMMA RbSides == RB!Side = Side /\ \A s : RB!Other(s) = Other(s)
BY DEF RB!Side, Side, RB!Other, Other

LEMMA TreeParts ==
  ASSUME NEW t \in Trees
  PROVE  t.root \in Node /\ t.child \in Links /\ t.parent \in Pointers /\ t.color \in Colors
BY DEF Trees

(* A tree with some of its fields changed.                                 *)
WithChild(t, c) == [t EXCEPT !.child = c]
WithParent(t, c) == [t EXCEPT !.parent = c]
WithColor(t, c) == [t EXCEPT !.color = c]
WithRoot(t, c) == [t EXCEPT !.root = c]
WithLink(t, s, m, v) == [t EXCEPT !.child[s][m] = v]

LEMMA ChildChanged ==
  ASSUME NEW t \in Trees, NEW c \in Links
  PROVE  /\ WithChild(t, c) \in Trees
         /\ WithChild(t, c).root = t.root /\ WithChild(t, c).child = c
         /\ WithChild(t, c).parent = t.parent /\ WithChild(t, c).color = t.color
BY DEF Trees, WithChild

LEMMA ParentChanged ==
  ASSUME NEW t \in Trees, NEW c \in Pointers
  PROVE  /\ WithParent(t, c) \in Trees
         /\ WithParent(t, c).root = t.root /\ WithParent(t, c).child = t.child
         /\ WithParent(t, c).parent = c /\ WithParent(t, c).color = t.color
BY DEF Trees, WithParent

LEMMA ColorChanged ==
  ASSUME NEW t \in Trees, NEW c \in Colors
  PROVE  /\ WithColor(t, c) \in Trees
         /\ WithColor(t, c).root = t.root /\ WithColor(t, c).child = t.child
         /\ WithColor(t, c).parent = t.parent /\ WithColor(t, c).color = c
BY DEF Trees, WithColor

LEMMA RootChanged ==
  ASSUME NEW t \in Trees, NEW c \in Node
  PROVE  /\ WithRoot(t, c) \in Trees
         /\ WithRoot(t, c).root = c /\ WithRoot(t, c).child = t.child
         /\ WithRoot(t, c).parent = t.parent /\ WithRoot(t, c).color = t.color
BY DEF Trees, WithRoot

LEMMA PointerIs ==
  ASSUME NEW f \in Pointers, NEW m \in Key, NEW v \in Node
  PROVE  /\ [f EXCEPT ![m] = v] \in Pointers
         /\ \A x \in Key : [f EXCEPT ![m] = v][x] = IF x = m THEN v ELSE f[x]
BY DEF Pointers

LEMMA ColorIs ==
  ASSUME NEW f \in Colors, NEW m \in Key, NEW c \in Hue
  PROVE  /\ [f EXCEPT ![m] = c] \in Colors
         /\ \A x \in Key : [f EXCEPT ![m] = c][x] = IF x = m THEN c ELSE f[x]
BY DEF Colors

LEMMA LinkChanged ==
  ASSUME NEW t \in Trees, NEW s \in Side, NEW m \in Key, NEW v \in Node
  PROVE  /\ WithLink(t, s, m, v) \in Trees
         /\ WithLink(t, s, m, v).root = t.root
         /\ WithLink(t, s, m, v).parent = t.parent
         /\ WithLink(t, s, m, v).color = t.color
         /\ \A u \in Side, x \in Key :
              WithLink(t, s, m, v).child[u][x] = IF u = s /\ x = m THEN v ELSE t.child[u][x]
<1> DEFINE c == [t.child EXCEPT ![s][m] = v]
<1>1. /\ c \in Links
      /\ \A u \in Side, x \in Key : c[u][x] = IF u = s /\ x = m THEN v ELSE t.child[u][x]
  <2>1. t.child \in Links
    BY TreeParts
  <2>2. QED
    BY <2>1, LinkIs
<1>2. WithLink(t, s, m, v) = WithChild(t, c)
  BY DEF WithLink, WithChild
<1> HIDE DEF c
<1>3. QED
  BY <1>1, <1>2, ChildChanged

LEMMA SetParent ==
  ASSUME NEW t \in Trees, NEW m \in Node, NEW q \in Node
  PROVE  /\ RB!set_parent(t, m, q) \in Trees
         /\ RB!set_parent(t, m, q).root = t.root
         /\ RB!set_parent(t, m, q).child = t.child
         /\ RB!set_parent(t, m, q).color = t.color
         /\ \A x \in Key : RB!set_parent(t, m, q).parent[x] = IF x = m THEN q ELSE t.parent[x]
<1>1. CASE m = NULL
  BY <1>1, Keys DEF RB!set_parent
<1>2. CASE m # NULL
  <2> DEFINE f == [t.parent EXCEPT ![m] = q]
  <2>1. m \in Key
    BY <1>2 DEF Node
  <2>2. f \in Pointers /\ \A x \in Key : f[x] = IF x = m THEN q ELSE t.parent[x]
    BY <2>1, TreeParts, PointerIs
  <2>3. RB!set_parent(t, m, q) = WithParent(t, f)
    BY <1>2 DEF RB!set_parent, WithParent
  <2> HIDE DEF f
  <2>4. QED
    BY <2>2, <2>3, ParentChanged
<1>3. QED
  BY <1>1, <1>2

LEMMA SetParentColor ==
  ASSUME NEW t \in Trees, NEW m \in Node, NEW q \in Node, NEW c \in Hue
  PROVE  /\ RB!set_parent_color(t, m, q, c) \in Trees
         /\ RB!set_parent_color(t, m, q, c).root = t.root
         /\ RB!set_parent_color(t, m, q, c).child = t.child
         /\ \A x \in Key : RB!set_parent_color(t, m, q, c).parent[x] = IF x = m THEN q ELSE t.parent[x]
         /\ \A x \in Key : RB!set_parent_color(t, m, q, c).color[x] = IF x = m THEN c ELSE t.color[x]
<1>1. CASE m = NULL
  BY <1>1, Keys DEF RB!set_parent_color
<1>2. CASE m # NULL
  <2> DEFINE f == [t.parent EXCEPT ![m] = q]
             g == [t.color EXCEPT ![m] = c]
             t1 == WithParent(t, f)
  <2>1. m \in Key
    BY <1>2 DEF Node
  <2>2. f \in Pointers /\ \A x \in Key : f[x] = IF x = m THEN q ELSE t.parent[x]
    BY <2>1, TreeParts, PointerIs
  <2>3. g \in Colors /\ \A x \in Key : g[x] = IF x = m THEN c ELSE t.color[x]
    <3>1. t.color \in Colors
      BY TreeParts
    <3>2. QED
      BY <2>1, <3>1, ColorIs
  <2>4. RB!set_parent_color(t, m, q, c) = WithColor(t1, g)
    BY <1>2 DEF RB!set_parent_color, Trees, WithColor, WithParent
  <2> HIDE DEF f, g
  <2>5. t1 \in Trees /\ t1.root = t.root /\ t1.child = t.child /\ t1.parent = f
    BY <2>2, ParentChanged
  <2> HIDE DEF t1
  <2>6. QED
    BY <2>2, <2>3, <2>4, <2>5, ColorChanged
<1>3. QED
  BY <1>1, <1>2

(* Node m is the child on one side of q, if there is a q.                   *)
Hangs(ch, m, q) == q # NULL => \E u \in Side : ch[u][q] = m /\ ch[Other(u)][q] # m

LEMMA ChangeChild ==
  ASSUME NEW t \in Trees, NEW old, NEW new \in Node, NEW q \in Node,
         Hangs(t.child, old, q)
  PROVE  /\ RB!change_child(t, old, new, q) \in Trees
         /\ RB!change_child(t, old, new, q).root = IF q = NULL THEN new ELSE t.root
         /\ RB!change_child(t, old, new, q).parent = t.parent
         /\ RB!change_child(t, old, new, q).color = t.color
         /\ \A s \in Side, x \in Key : RB!change_child(t, old, new, q).child[s][x] =
              IF x = q /\ t.child[s][x] = old THEN new ELSE t.child[s][x]
<1>1. CASE q = NULL
  <2>1. RB!change_child(t, old, new, q) = WithRoot(t, new)
    BY <1>1 DEF RB!change_child, WithRoot
  <2>2. QED
    BY <1>1, <2>1, Keys, RootChanged
<1>2. CASE q # NULL
  <2> DEFINE u == IF t.child["LEFT"][q] = old THEN "LEFT" ELSE "RIGHT"
  <2>1. q \in Key /\ u \in Side
    BY <1>2 DEF Node, Side
  <2>2. RB!change_child(t, old, new, q) = WithLink(t, u, q, new)
    BY <1>2 DEF RB!change_child, WithLink
  <2>3. \A s \in Side : t.child[s][q] = old <=> s = u
    BY <1>2 DEF Side, Other, Hangs
  <2> HIDE DEF u
  <2>4. QED
    BY <1>2, <2>1, <2>2, <2>3, LinkChanged
<1>3. QED
  BY <1>1, <1>2

LEMMA TurnIs ==
  ASSUME NEW t \in Trees, NEW x \in Key, NEW y \in Key, x # y, NEW s \in Side
  PROVE  /\ RB!turn(t, x, y, s) \in Trees
         /\ RB!turn(t, x, y, s).root = t.root
         /\ RB!turn(t, x, y, s).parent = t.parent
         /\ RB!turn(t, x, y, s).color = t.color
         /\ \A u \in Side, m \in Key : RB!turn(t, x, y, s).child[u][m] =
              IF m = x /\ u = s THEN t.child[Other(s)][y]
              ELSE IF m = y /\ u = Other(s) THEN x ELSE t.child[u][m]
<1> DEFINE z == t.child[Other(s)][y]
           t1 == WithLink(t, s, x, z)
<1>1. Other(s) \in Side /\ z \in Node /\ x \in Node
  BY TreeParts, Sides DEF Links, Node
<1> DEFINE t2 == WithLink(t1, Other(s), y, x)
<1>2. RB!turn(t, x, y, s) = t2
  BY RbSides, Zenon DEF RB!turn, Trees, WithLink
<1> HIDE DEF z
<1>3. /\ t1 \in Trees /\ t1.root = t.root /\ t1.parent = t.parent /\ t1.color = t.color
      /\ \A u \in Side, m \in Key : t1.child[u][m] = IF u = s /\ m = x THEN z ELSE t.child[u][m]
  BY <1>1, LinkChanged
<1> HIDE DEF t1
<1>5. /\ t2 \in Trees /\ t2.root = t1.root /\ t2.parent = t1.parent /\ t2.color = t1.color
      /\ \A u \in Side, m \in Key : t2.child[u][m] = IF u = Other(s) /\ m = y THEN x ELSE t1.child[u][m]
  BY <1>1, <1>3, LinkChanged
<1>6. QED
  BY <1>2, <1>3, <1>5 DEF z

LEMMA RotateSetParents ==
  ASSUME NEW t \in Trees, NEW old \in Key, NEW new \in Key, old # new, NEW c \in Hue,
         Hangs(t.child, old, t.parent[old]),
         NEW t2, t2 = RB!rotate_set_parents(t, old, new, c)
  PROVE  /\ t2 \in Trees
         /\ t2.root = IF t.parent[old] = NULL THEN new ELSE t.root
         /\ \A x \in Key : t2.parent[x] = IF x = new THEN t.parent[old] ELSE IF x = old THEN new ELSE t.parent[x]
         /\ \A x \in Key : t2.color[x] = IF x = new THEN t.color[old] ELSE IF x = old THEN c ELSE t.color[x]
         /\ \A s \in Side, x \in Key : t2.child[s][x] =
              IF x = t.parent[old] /\ t.child[s][x] = old THEN new ELSE t.child[s][x]
<1> DEFINE q == t.parent[old]
           b == t.color[old]
           f1 == [t.parent EXCEPT ![new] = q]
           f == [f1 EXCEPT ![old] = new]
           g1 == [t.color EXCEPT ![new] = b]
           g == [g1 EXCEPT ![old] = c]
           t0 == WithParent(t, f)
           t1 == WithColor(t0, g)
<1>1. q \in Node /\ b \in Hue /\ new \in Node
  BY TreeParts DEF Pointers, Colors, Node
<1>2. t2 = RB!change_child(t1, old, new, q)
  BY DEF RB!rotate_set_parents, Trees, WithParent, WithColor
<1> HIDE DEF q, b
<1>3. f1 \in Pointers /\ \A x \in Key : f1[x] = IF x = new THEN q ELSE t.parent[x]
  BY <1>1, TreeParts, PointerIs
<1> HIDE DEF f1
<1>4. f \in Pointers /\ \A x \in Key : f[x] = IF x = old THEN new ELSE f1[x]
  BY <1>1, <1>3, PointerIs
<1>5. g1 \in Colors /\ \A x \in Key : g1[x] = IF x = new THEN b ELSE t.color[x]
  <2>1. t.color \in Colors
    BY TreeParts
  <2>2. QED
    BY <1>1, <2>1, ColorIs
<1> HIDE DEF g1
<1>6. g \in Colors /\ \A x \in Key : g[x] = IF x = old THEN c ELSE g1[x]
  BY <1>1, <1>5, ColorIs
<1> HIDE DEF f, g
<1>7. t0 \in Trees /\ t0.root = t.root /\ t0.child = t.child /\ t0.parent = f
  BY <1>4, ParentChanged
<1> HIDE DEF t0
<1>8. t1 \in Trees /\ t1.root = t.root /\ t1.child = t.child /\ t1.parent = f /\ t1.color = g
  BY <1>6, <1>7, ColorChanged
<1> HIDE DEF t1
<1>9. Hangs(t1.child, old, q)
  BY <1>8 DEF q
<1>10. /\ t2 \in Trees /\ t2.root = (IF q = NULL THEN new ELSE t1.root)
       /\ t2.parent = t1.parent /\ t2.color = t1.color
       /\ \A s \in Side, x \in Key : t2.child[s][x] = IF x = q /\ t1.child[s][x] = old THEN new ELSE t1.child[s][x]
  BY <1>1, <1>2, <1>8, <1>9, ChangeChild
<1>11. QED
  BY <1>3, <1>4, <1>5, <1>6, <1>8, <1>10 DEF q, b

(* Two turns: a grandchild x on the inner side goes up to the place of g.  *)
TurnedTwice(M, g, s, r, ch, pa, r2, ch2, pa2) ==
  LET q == ch[s][g]
      x == ch[Other(s)][q]
      a == ch[s][x]
      b == ch[Other(s)][x]
  IN  /\ r2 = IF r = g THEN x ELSE r
      /\ \A m \in M, u \in Side : ch2[u][m] = IF m = q /\ u = Other(s) THEN a
                                              ELSE IF m = g /\ u = s THEN b
                                              ELSE IF m = x THEN IF u = s THEN q ELSE g
                                              ELSE IF ch[u][m] = g THEN x ELSE ch[u][m]
      /\ \A m \in M : pa2[m] = IF m = x THEN pa[g] ELSE IF m = q \/ m = g THEN x
                               ELSE IF m = a THEN q ELSE IF m = b THEN g ELSE pa[m]

LEMMA TurnTwice ==
  ASSUME NEW M, NEW r, NEW ch, NEW pa, NEW sp, Tree(M, r, ch, pa, sp),
         NEW g \in M, NEW s \in Side, ch[s][g] # NULL, ch[Other(s)][ch[s][g]] # NULL,
         NEW r2, NEW ch2, NEW pa2, TurnedTwice(M, g, s, r, ch, pa, r2, ch2, pa2)
  PROVE  \E sp2 : Tree(M, r2, ch2, pa2, sp2)
<1> DEFINE q == ch[s][g]
           x == ch[Other(s)][q]
           a == ch[s][x]
           b == ch[Other(s)][x]
<1>21. q = ch[s][g] /\ q # NULL /\ x = ch[Other(s)][q] /\ x # NULL /\ a = ch[s][x] /\ b = ch[Other(s)][x]
  OBVIOUS
<1>22. /\ r2 = IF r = g THEN x ELSE r
       /\ \A m \in M, u \in Side : ch2[u][m] = IF m = q /\ u = Other(s) THEN a
                                               ELSE IF m = g /\ u = s THEN b
                                               ELSE IF m = x THEN IF u = s THEN q ELSE g
                                               ELSE IF ch[u][m] = g THEN x ELSE ch[u][m]
       /\ \A m \in M : pa2[m] = IF m = x THEN pa[g] ELSE IF m = q \/ m = g THEN x
                                ELSE IF m = a THEN q ELSE IF m = b THEN g ELSE pa[m]
  BY DEF TurnedTwice
<1> HIDE DEF q, x, a, b
<1> DEFINE o == Other(s)
           ch1 == [u \in Side |-> [m \in M |-> IF m = q /\ u = o THEN a ELSE IF m = x /\ u = s THEN q
                                               ELSE IF ch[u][m] = q THEN x ELSE ch[u][m]]]
           pa1 == [m \in M |-> IF m = x THEN g ELSE IF m = q THEN x ELSE IF m = a THEN q ELSE pa[m]]
<1>1. o \in Side /\ o # s /\ Other(o) = s /\ \A u \in Side : u = s \/ u = o
  BY Sides
<1>2. NULL \notin M
  BY SpanIn, Keys DEF Tree
<1>3. q \in M /\ q # r /\ q # g /\ pa[q] = g
  BY <1>21, TreeFacts
<1>4. x \in M /\ x # r /\ x # q /\ pa[x] = q /\ x # g
  <2>1. x \in M /\ x # r /\ x # q /\ pa[x] = q
    BY <1>1, <1>3, <1>21, TreeFacts
  <2>2. q \in sp[g] /\ x \in sp[q]
    BY <1>1, <1>2, <1>3, <1>21, <2>1, SpanIn DEF Tree
  <2>3. x # g
    BY <1>3, <2>2, TreeFacts
  <2>4. QED
    BY <2>1, <2>3
<1>20. o = Other(s)
  OBVIOUS
<1> HIDE DEF o
<1>5. /\ a \in M \cup {NULL} /\ b \in M \cup {NULL} /\ (a = b => a = NULL)
      /\ (a # NULL => pa[a] = x /\ a # x) /\ (b # NULL => pa[b] = x /\ b # x)
  <2>1. a = ch[s][x] /\ b = ch[o][x]
    BY <1>20, <1>21
  <2>2. a \in M \cup {NULL} /\ b \in M \cup {NULL}
    BY <1>1, <1>4, <2>1, SpanIn DEF Tree
  <2>3. a # NULL => pa[a] = x /\ a # x
    BY <1>4, <2>1, TreeFacts
  <2>4. b # NULL => pa[b] = x /\ b # x
    BY <1>1, <1>4, <2>1, TreeFacts
  <2>5. ASSUME a = b, a # NULL
        PROVE  FALSE
    <3>1. ch[s][x] # NULL /\ ch[s][x] = ch[o][x]
      BY <2>1, <2>5
    <3>2. QED
      BY <1>1, <1>4, <3>1, TreeFacts
  <2>6. QED
    BY <2>2, <2>3, <2>4, <2>5
<1>6. a # q /\ a # g /\ b # q /\ b # g
  <2>1. \A e \in {a, b} : e # NULL => e \in sp[x]
    <3>1. ASSUME NEW u \in Side, ch[u][x] # NULL
          PROVE  ch[u][x] \in sp[x]
      BY <1>2, <1>4, <3>1, SpanIn DEF Tree
    <3>2. QED
      BY <1>1, <1>20, <1>21, <3>1
  <2>2. q \in sp[g] /\ x \in sp[q] /\ x \in sp[g]
    <3>1. q \in sp[g] /\ x \in sp[q]
      BY <1>1, <1>2, <1>3, <1>4, <1>20, <1>21, SpanIn DEF Tree
    <3>2. QED
      BY <1>3, <3>1, SpanIn DEF Tree
  <2>3. QED
    BY <1>2, <1>3, <1>4, <2>1, <2>2, TreeFacts
<1>7. /\ \A m \in M, u \in Side : ch1[u][m] = IF m = q /\ u = o THEN a ELSE IF m = x /\ u = s THEN q
                                              ELSE IF ch[u][m] = q THEN x ELSE ch[u][m]
      /\ \A m \in M : pa1[m] = IF m = x THEN g ELSE IF m = q THEN x ELSE IF m = a THEN q ELSE pa[m]
  OBVIOUS
<1> HIDE DEF ch1, pa1
<1>8. \E sp1 : Tree(M, r, ch1, pa1, sp1)
  <2>1. r = IF r = q THEN x ELSE r
    BY <1>3
  <2>2. \A m \in M, u \in Side : ch1[u][m] = IF m = q /\ u = o THEN a ELSE IF m = x /\ u = Other(o) THEN q
                                             ELSE IF ch[u][m] = q THEN x ELSE ch[u][m]
    BY <1>1, <1>7
  <2>3. \A m \in M : pa1[m] = IF m = x THEN pa[q] ELSE IF m = q THEN x ELSE IF m = a THEN q ELSE pa[m]
    BY <1>3, <1>7
  <2>4. a = ch[Other(o)][x] /\ x = ch[o][q]
    BY <1>1, <1>20, <1>21
  <2>5. Turned(M, q, o, r, ch, pa, r, ch1, pa1)
    BY <2>1, <2>2, <2>3, <2>4 DEF Turned
  <2>6. QED
    BY <1>1, <1>3, <1>4, <1>21, <2>4, <2>5, TurnedTree
<1>9. PICK sp1 : Tree(M, r, ch1, pa1, sp1)
  BY <1>8
<1>10. ch1[s][g] = x /\ ch1[o][x] = b
  <2>1. ch1[s][g] = x
    BY <1>1, <1>3, <1>4, <1>7, <1>21
  <2>2. ch1[o][x] = b
    <3>1. ch[o][x] = b
      BY <1>20, <1>21
    <3>2. QED
      BY <1>1, <1>4, <1>6, <1>7, <3>1
  <2>3. QED
    BY <2>1, <2>2
<1>11. ASSUME NEW m \in M, NEW u \in Side
       PROVE  ch2[u][m] = IF m = g /\ u = s THEN b ELSE IF m = x /\ u = o THEN g
                          ELSE IF ch1[u][m] = g THEN x ELSE ch1[u][m]
  <2>1. ch[u][m] = q => m = g /\ u = s
    BY <1>2, <1>3, <1>21, TreeFacts
  <2>2. ch2[u][m] = IF m = q /\ u = o THEN a
                    ELSE IF m = g /\ u = s THEN b
                    ELSE IF m = x THEN IF u = s THEN q ELSE g
                    ELSE IF ch[u][m] = g THEN x ELSE ch[u][m]
    BY <1>20, <1>22
  <2>3. CASE m = q /\ u = o
    BY <1>3, <1>4, <1>6, <1>7, <2>2, <2>3
  <2>4. CASE m = g /\ u = s
    BY <1>3, <2>2, <2>4
  <2>5. CASE m = x
    BY <1>1, <1>3, <1>4, <1>7, <2>2, <2>5
  <2>6. CASE ~(m = q /\ u = o) /\ ~(m = g /\ u = s) /\ m # x
    <3>1. ch1[u][m] = ch[u][m]
      BY <1>7, <2>1, <2>6
    <3>2. QED
      BY <2>2, <2>6, <3>1
  <2>7. QED
    BY <2>3, <2>4, <2>5, <2>6
<1>12. \A m \in M : pa2[m] = IF m = x THEN pa1[g] ELSE IF m = g THEN x ELSE IF m = b THEN g ELSE pa1[m]
  <2>1. pa1[g] = pa[g]
    BY <1>3, <1>4, <1>6, <1>7
  <2>2. ASSUME NEW m \in M
        PROVE  pa2[m] = IF m = x THEN pa1[g] ELSE IF m = g THEN x ELSE IF m = b THEN g ELSE pa1[m]
    <3>1. CASE m = b
      BY <1>2, <1>5, <1>3, <1>4, <1>6, <1>7, <1>22, <3>1
    <3>2. CASE m # b
      BY <1>2, <1>3, <1>4, <1>5, <1>6, <1>7, <1>22, <2>1, <3>2
    <3>3. QED
      BY <3>1, <3>2
  <2>3. QED
    BY <2>2
<1>13. Turned(M, g, s, r, ch1, pa1, r2, ch2, pa2)
  <2>1. ch1[s][g] = x /\ ch1[Other(s)][x] = b
    BY <1>10, <1>20
  <2>2. r2 = IF r = g THEN ch1[s][g] ELSE r
    BY <1>22, <2>1
  <2>3. ASSUME NEW m \in M, NEW u \in Side
        PROVE  ch2[u][m] = IF m = g /\ u = s THEN b ELSE IF m = x /\ u = Other(s) THEN g
                           ELSE IF ch1[u][m] = g THEN x ELSE ch1[u][m]
    BY <1>11, <1>20
  <2>4. QED
    BY <2>1, <2>2, <2>3, <1>12 DEF Turned
<1>14. QED
  BY <1>4, <1>2, <1>9, <1>10, <1>13, TurnedTree

-----------------------------------------------------------------------------
(* The rules of the red-black tree: h[m] is the number of black nodes from *)
(* m down to any leaf, counting one more for what is missing on side t of  *)
(* q, and no red node but x is the root or has a red parent.               *)
Lack(q, t, m, s) == IF m = q /\ s = t THEN 1 ELSE 0

Balance(M, ch, co, h, q, t) ==
  /\ h \in [Node -> Nat] /\ h[NULL] = 0
  /\ \A m \in M : co[m] \in Hue
  /\ \A m \in M, s \in Side : h[m] = h[ch[s][m]] + co[m] + Lack(q, t, m, s)

Reds(M, r, pa, co, x) ==
  \A m \in M : co[m] = 0 => m = x \/ (m # r /\ co[pa[m]] = 1)

(* A node, its child and its grandchild.                                   *)
LEMMA Kid ==
  ASSUME NEW M, NEW r, NEW ch, NEW pa, NEW sp, Tree(M, r, ch, pa, sp),
         NEW g \in M, NEW s \in Side, ch[s][g] # NULL
  PROVE  LET y == ch[s][g]
         IN  /\ y \in M /\ y # r /\ y # g /\ pa[y] = g /\ pa[g] # y /\ pa[g] # g /\ y \in sp[g]
             /\ y # NULL /\ y \in Key /\ g \in Key
<1> DEFINE y == ch[s][g]
<1>1. M \subseteq Key /\ NULL \notin M /\ Spans(M, r, ch, sp)
  BY SpanIn, Keys DEF Tree
<1>2. y \in M /\ y # r /\ y # g /\ pa[y] = g
  BY TreeFacts
<1>3. y \in sp[g]
  BY <1>1, <1>2, SpanIn
<1>4. ASSUME NEW v \in M, pa[g] = v
      PROVE  g # v /\ g \in sp[v]
  <2>1. g # r
    BY <1>1, <1>4, TreeFacts
  <2>2. PICK u \in Side : ch[u][v] = g
    BY <1>4, <2>1, TreeFacts
  <2>3. QED
    BY <1>1, <2>2, TreeFacts, SpanIn
<1>5. pa[g] # g /\ pa[g] # y
  BY <1>2, <1>3, <1>4, TreeFacts
<1>6. QED
  BY <1>1, <1>2, <1>3, <1>5

LEMMA Grandkid ==
  ASSUME NEW M, NEW r, NEW ch, NEW pa, NEW sp, Tree(M, r, ch, pa, sp),
         NEW g \in M, NEW s \in Side, ch[s][g] # NULL,
         NEW t \in Side, ch[t][ch[s][g]] # NULL
  PROVE  LET w == ch[t][ch[s][g]]
         IN  /\ w \in M /\ w # r /\ w # g /\ w # ch[s][g] /\ pa[w] = ch[s][g] /\ pa[g] # w
             /\ w # NULL /\ w \in Key
<1> DEFINE y == ch[s][g]
           w == ch[t][y]
<1>1. y \in M /\ y \in sp[g] /\ y # g /\ pa[y] = g
  BY Kid
<1>2. w \in M /\ w # r /\ w # y /\ pa[w] = y /\ w \in sp[y] /\ w # NULL /\ w \in Key
  BY <1>1, Kid
<1>3. w \in sp[g] /\ NULL \notin M
  BY <1>1, <1>2, SpanIn, Keys DEF Tree
<1>4. w # g
  BY <1>1, <1>2, TreeFacts
<1>5. pa[g] # w
  <2>1. ASSUME pa[g] = w
        PROVE  FALSE
    <3>1. g # r
      BY <1>2, <1>3, <2>1, TreeFacts
    <3>2. PICK u \in Side : ch[u][w] = g
      BY <2>1, <3>1, TreeFacts
    <3>3. g \in sp[w]
      BY <1>2, <1>3, <3>2, SpanIn DEF Tree
    <3>4. QED
      BY <1>2, <1>3, <1>4, <3>3, TreeFacts
  <2>2. QED
    BY <2>1
<1>6. QED
  BY <1>2, <1>4, <1>5

(* Who a node's parent is, the node is a child of.                         *)
LEMMA ParentOf ==
  ASSUME NEW M, NEW r, NEW ch, NEW pa, NEW sp, Tree(M, r, ch, pa, sp),
         NEW m \in M, NEW q \in M, pa[m] = q
  PROVE  m # r /\ \E s \in Side : ch[s][q] = m /\ ch[Other(s)][q] # m
<1>1. NULL \notin M
  BY SpanIn, Keys DEF Tree
<1>2. m # r
  BY <1>1, TreeFacts
<1>3. QED
  BY <1>1, <1>2, TreeFacts, Sides

(* A rotation that brings y up over its parent g, both exchanging their    *)
(* colors.  The red node k that may have had a red parent is under y.      *)
LEMMA RotateReds ==
  ASSUME NEW M, NEW r, NEW ch, NEW pa, NEW co, NEW sp, NEW h, NEW q, NEW t, NEW k,
         Tree(M, r, ch, pa, sp), Balance(M, ch, co, h, q, t), Reds(M, r, pa, co, k),
         NEW g \in M, NEW s \in Side, NEW y \in M, y = ch[s][g], co[y] = 0, co[g] = 1,
         k \in {ch[s][y], NULL}, ch[Other(s)][g] = NULL \/ co[ch[Other(s)][g]] = 1,
         q # y, q = g => t = Other(s),
         NEW r2, NEW ch2, NEW pa2, NEW co2, Turned(M, g, s, r, ch, pa, r2, ch2, pa2),
         \A m \in M : co2[m] = IF m = y THEN 1 ELSE IF m = g THEN 0 ELSE co[m]
  PROVE  (\E h2 : Balance(M, ch2, co2, h2, q, t)) /\ Reds(M, r2, pa2, co2, NULL)
<1> DEFINE o == Other(s)
           z == ch[o][y]
           u == ch[o][g]
           h2 == [m \in Node |-> IF m = y THEN h[g] ELSE IF m = g THEN h[y] ELSE h[m]]
<1>1. o \in Side /\ o # s /\ \A v \in Side : v = s \/ v = o
  BY Sides
<1>2. M \subseteq Key /\ NULL \notin M /\ M \subseteq Node /\ NULL \in Node
  BY SpanIn, Keys DEF Tree, Node
<1>3. y # g /\ pa[y] = g /\ y # r /\ ch[s][y] \in M \cup {NULL}
  BY <1>1, <1>2, Kid, SpanIn DEF Tree
<1>4. z \in M \cup {NULL} /\ u \in M \cup {NULL} /\ z # y /\ u # g /\ z # g /\ u # y
      /\ (z # NULL => pa[z] = y) /\ (u # NULL => pa[u] = g)
  <2>1. z \in M \cup {NULL} /\ u \in M \cup {NULL}
    BY <1>1, <1>2, SpanIn DEF Tree
  <2>2. z # NULL => z # y /\ z # g /\ pa[z] = y
    BY <1>1, <1>2, Grandkid
  <2>3. u # NULL => u # g /\ pa[u] = g
    BY <1>1, <1>2, Kid
  <2>4. u # y
    BY <1>1, <1>2, <2>1, TreeFacts
  <2>5. QED
    BY <1>2, <2>1, <2>2, <2>3, <2>4
<1>5. /\ r2 = IF r = g THEN y ELSE r
      /\ \A m \in M, v \in Side : ch2[v][m] = IF m = g /\ v = s THEN z
                                              ELSE IF m = y /\ v = o THEN g
                                              ELSE IF ch[v][m] = g THEN y ELSE ch[v][m]
      /\ \A m \in M : pa2[m] = IF m = y THEN pa[g] ELSE IF m = g THEN y
                               ELSE IF m = z THEN g ELSE pa[m]
  BY DEF Turned
<1>6. /\ h \in [Node -> Nat] /\ h[NULL] = 0
      /\ \A m \in M : co[m] \in Hue
      /\ \A m \in M, v \in Side : h[m] = h[ch[v][m]] + co[m] + Lack(q, t, m, v)
  BY DEF Balance
<1>7. h2 \in [Node -> Nat] /\ h2[NULL] = 0
      /\ \A m \in Node : h2[m] = IF m = y THEN h[g] ELSE IF m = g THEN h[y] ELSE h[m]
  BY <1>2, <1>6
<1>8. y = ch[s][g] /\ z = ch[o][y] /\ u = ch[o][g] /\ o = Other(s)
  OBVIOUS
<1> HIDE DEF h2, z, u, o
<1>9. \A m \in M, v \in Side : ch[v][m] \in M \cup {NULL} /\ (ch[v][m] = y => m = g /\ v = s)
      /\ (ch[v][m] = g => m # g /\ m # y)
  <2>1. \A m \in M, v \in Side : ch[v][m] \in M \cup {NULL}
    BY SpanIn DEF Tree
  <2>2. \A m \in M, v \in Side : ch[v][m] = y => m = g /\ v = s
    BY <1>2, <1>8, TreeFacts
  <2>3. \A m \in M, v \in Side : ch[v][m] = g => m # g
    BY <1>2, TreeFacts
  <2>4. \A v \in Side : ch[v][y] # g
    BY <1>2, <1>8, Grandkid
  <2>5. QED
    BY <2>1, <2>2, <2>3, <2>4
<1>10. \A m \in M : co2[m] \in Hue
  BY <1>6 DEF Hue
<1>11. \A v \in Side : Lack(q, t, y, v) = 0 /\ Lack(q, t, g, s) = 0
  BY <1>1, <1>8 DEF Lack
<1>12. ASSUME NEW m \in M, NEW v \in Side
       PROVE  h2[m] = h2[ch2[v][m]] + co2[m] + Lack(q, t, m, v)
  <2>1. h[m] = h[ch[v][m]] + co[m] + Lack(q, t, m, v) /\ h[m] \in Nat /\ h[ch[v][m]] \in Nat
        /\ Lack(q, t, m, v) \in Nat
    BY <1>2, <1>6, <1>9 DEF Lack
  <2>2. h[g] = h[y] + 1 /\ h[y] = h[z] + 0 /\ h[y] = h[ch[s][y]] + 0 /\ h[y] \in Nat /\ h[g] \in Nat /\ h[z] \in Nat /\ h[ch[s][y]] \in Nat
    BY <1>1, <1>2, <1>3, <1>4, <1>6, <1>8, <1>11
  <2>3. CASE m = g /\ v = s
    BY <1>3, <1>4, <1>5, <1>7, <1>11, <1>2, <2>2, <2>3
  <2>4. CASE m = g /\ v # s
    <3>1. v = o /\ ch2[v][m] = u /\ h2[u] = h[u] /\ h2[m] = h[y] /\ co2[m] = 0
      BY <1>1, <1>2, <1>3, <1>4, <1>5, <1>7, <1>8, <2>4
    <3>2. h[g] = h[u] + 1 + Lack(q, t, m, v) /\ h[u] \in Nat
      BY <1>8, <2>1, <2>4, <3>1
    <3>3. QED
      BY <2>1, <2>2, <3>1, <3>2
  <2>5. CASE m = y /\ v = o
    <3>1. ch2[v][m] = g /\ h2[g] = h[y] /\ h2[m] = h[g] /\ co2[m] = 1
      BY <1>1, <1>2, <1>3, <1>5, <1>7, <2>5
    <3>2. QED
      BY <1>11, <2>2, <2>5, <3>1
  <2>6. CASE m = y /\ v # o
    <3>1. v = s /\ ch[v][m] # g /\ ch[v][m] # y
      BY <1>1, <1>3, <1>9, <2>6
    <3>2. ch2[v][m] = ch[v][m] /\ h2[ch[v][m]] = h[ch[v][m]] /\ h2[m] = h[g] /\ co2[m] = 1
      BY <1>2, <1>3, <1>5, <1>7, <1>9, <2>6, <3>1
    <3>3. QED
      BY <1>11, <2>2, <2>6, <3>1, <3>2
  <2>7. CASE m # g /\ m # y
    <3>1. h2[ch2[v][m]] = h[ch[v][m]] /\ h2[m] = h[m] /\ co2[m] = co[m]
      BY <1>2, <1>3, <1>5, <1>7, <1>9, <2>7
    <3>2. QED
      BY <2>1, <3>1
  <2>8. QED
    BY <2>3, <2>4, <2>5, <2>6, <2>7
<1>13. Balance(M, ch2, co2, h2, q, t)
  BY <1>7, <1>10, <1>12 DEF Balance
<1>14. ASSUME NEW m \in M, co2[m] = 0
       PROVE  m # r2 /\ co2[pa2[m]] = 1
  <2>1. CASE m = g
    BY <1>3, <1>5, <2>1
  <2>2. CASE m # g /\ m = k
    <3>1. pa[m] = y /\ m # y /\ m # r /\ m # z
      <4>1. m = ch[s][y] /\ m # NULL
        BY <1>2, <2>2
      <4>2. pa[m] = y /\ m # y /\ m # r
        BY <4>1, Kid
      <4>3. m # z
        BY <1>1, <1>8, <4>1, TreeFacts
      <4>4. QED
        BY <4>2, <4>3
    <3>2. QED
      BY <1>5, <2>2, <3>1
  <2>3. CASE m # g /\ m # k
    <3>1. m # y /\ co[m] = 0
      BY <1>14, <2>3
    <3>2. m # r /\ co[pa[m]] = 1
      BY <2>3, <3>1 DEF Reds
    <3>3. pa[m] # y /\ m # z
      BY <1>2, <1>4, <3>2
    <3>4. pa[m] # g
      <4>1. ASSUME pa[m] = g
            PROVE  FALSE
        <5>1. PICK v \in Side : ch[v][g] = m
          BY <4>1, ParentOf
        <5>2. v = o
          BY <1>1, <1>8, <3>1, <5>1
        <5>3. QED
          BY <1>2, <1>8, <3>1, <5>1, <5>2
      <4>2. QED
        BY <4>1
    <3>5. pa[m] \in M
      BY <3>2, TreeFacts
    <3>6. QED
      BY <1>5, <2>3, <3>1, <3>2, <3>3, <3>4, <3>5
  <2>4. QED
    BY <2>1, <2>2, <2>3
<1>15. QED
  BY <1>13, <1>14 DEF Reds

(* A rotation that fills what side s's other lacks: the sibling y goes up  *)
(* over g with its color, and its red child w becomes black.               *)
LEMMA RotateFills ==
  ASSUME NEW M, NEW r, NEW ch, NEW pa, NEW co, NEW sp, NEW h, NEW t,
         Tree(M, r, ch, pa, sp), NEW g \in M, NEW s \in Side, t = Other(s),
         Balance(M, ch, co, h, g, t), Reds(M, r, pa, co, NULL),
         NEW y \in M, y = ch[s][g], co[y] = 1,
         NEW w \in M, w = ch[s][y], co[w] = 0,
         NEW r2, NEW ch2, NEW pa2, NEW co2, Turned(M, g, s, r, ch, pa, r2, ch2, pa2),
         \A m \in M : co2[m] = IF m = y THEN co[g] ELSE IF m = g \/ m = w THEN 1 ELSE co[m]
  PROVE  (\E h2 : Balance(M, ch2, co2, h2, NULL, t)) /\ Reds(M, r2, pa2, co2, NULL)
<1> DEFINE z == ch[t][y]
           u == ch[t][g]
           h2 == [m \in Node |-> IF m = y THEN h[g] ELSE IF m = g \/ m = w THEN h[y] ELSE h[m]]
<1>1. t \in Side /\ t # s /\ \A v \in Side : v = s \/ v = t
  BY Sides
<1>2. M \subseteq Key /\ NULL \notin M /\ M \subseteq Node /\ NULL \in Node
  BY SpanIn, Keys DEF Tree, Node
<1>3. /\ y # g /\ pa[y] = g /\ y # r /\ pa[g] # y /\ pa[g] # g
      /\ w # g /\ w # y /\ pa[w] = y /\ w # r /\ pa[g] # w
  <2>1. y # g /\ pa[y] = g /\ y # r /\ pa[g] # y /\ pa[g] # g
    BY <1>2, Kid
  <2>2. w # g /\ w # y /\ pa[w] = y /\ w # r /\ pa[g] # w
    BY <1>2, Grandkid
  <2>3. QED
    BY <2>1, <2>2
<1>4. z \in M \cup {NULL} /\ u \in M \cup {NULL} /\ z # y /\ u # g /\ z # g /\ u # y /\ z # w /\ u # w
      /\ (z # NULL => pa[z] = y) /\ (u # NULL => pa[u] = g)
  <2>1. z \in M \cup {NULL} /\ u \in M \cup {NULL}
    BY <1>1, <1>2, SpanIn DEF Tree
  <2>2. z # NULL => z # y /\ z # g /\ pa[z] = y
    BY <1>1, <1>2, Grandkid
  <2>3. u # NULL => u # g /\ pa[u] = g
    BY <1>1, <1>2, Kid
  <2>4. u # y /\ z # w
    BY <1>1, <1>2, <2>1, TreeFacts
  <2>5. u # w
    BY <1>2, <1>3, <2>3
  <2>6. QED
    BY <1>2, <1>3, <2>1, <2>2, <2>3, <2>4, <2>5
<1>5. /\ r2 = IF r = g THEN y ELSE r
      /\ \A m \in M, v \in Side : ch2[v][m] = IF m = g /\ v = s THEN z
                                              ELSE IF m = y /\ v = t THEN g
                                              ELSE IF ch[v][m] = g THEN y ELSE ch[v][m]
      /\ \A m \in M : pa2[m] = IF m = y THEN pa[g] ELSE IF m = g THEN y
                               ELSE IF m = z THEN g ELSE pa[m]
  BY DEF Turned
<1>6. /\ h \in [Node -> Nat] /\ h[NULL] = 0
      /\ \A m \in M : co[m] \in Hue
      /\ \A m \in M, v \in Side : h[m] = h[ch[v][m]] + co[m] + Lack(g, t, m, v)
  BY DEF Balance
<1>7. h2 \in [Node -> Nat] /\ h2[NULL] = 0
      /\ \A m \in Node : h2[m] = IF m = y THEN h[g] ELSE IF m = g \/ m = w THEN h[y] ELSE h[m]
  BY <1>2, <1>6
<1>8. y = ch[s][g] /\ w = ch[s][y] /\ z = ch[t][y] /\ u = ch[t][g]
  OBVIOUS
<1> HIDE DEF h2, z, u
<1>9. \A m \in M, v \in Side :
        /\ ch[v][m] \in M \cup {NULL} /\ (ch[v][m] = y => m = g /\ v = s) /\ (ch[v][m] = w => m = y /\ v = s)
        /\ (ch[v][m] = g => m # g /\ m # y /\ m # w)
  <2>1. \A m \in M, v \in Side : ch[v][m] \in M \cup {NULL}
    BY SpanIn DEF Tree
  <2>2. \A m \in M, v \in Side : (ch[v][m] = y => m = g /\ v = s) /\ (ch[v][m] = w => m = y /\ v = s)
    BY <1>2, <1>8, TreeFacts
  <2>3. \A m \in M, v \in Side : ch[v][m] = g => pa[g] = m
    BY <1>2, TreeFacts
  <2>4. QED
    BY <1>3, <2>1, <2>2, <2>3
<1>10. \A m \in M : co2[m] \in Hue
  BY <1>6 DEF Hue
<1>11. /\ h[g] = h[y] + co[g] /\ h[g] = h[u] + co[g] + 1 /\ h[y] = h[z] + 1 /\ h[y] = h[w] + 1
       /\ h[g] \in Nat /\ h[y] \in Nat /\ h[u] \in Nat /\ h[z] \in Nat /\ h[w] \in Nat /\ co[g] \in {0, 1}
  <2>1. Lack(g, t, g, s) = 0 /\ Lack(g, t, g, t) = 1 /\ Lack(g, t, y, s) = 0 /\ Lack(g, t, y, t) = 0
    BY <1>1, <1>3 DEF Lack
  <2>2. h[g] \in Nat /\ h[y] \in Nat /\ h[u] \in Nat /\ h[z] \in Nat /\ h[w] \in Nat
    BY <1>2, <1>4, <1>6
  <2>3. co[g] \in {0, 1}
    BY <1>6 DEF Hue
  <2>4. h[g] = h[y] + co[g] + 0 /\ h[g] = h[u] + co[g] + 1 /\ h[y] = h[z] + 1 + 0 /\ h[y] = h[w] + 1 + 0
    BY <1>1, <1>6, <1>8, <2>1
  <2>5. QED
    BY <2>2, <2>3, <2>4
<1>12. ASSUME NEW m \in M, NEW v \in Side
       PROVE  h2[m] = h2[ch2[v][m]] + co2[m] + Lack(NULL, t, m, v)
  <2>1. /\ h[m] = h[ch[v][m]] + co[m] + Lack(g, t, m, v) /\ h[m] \in Nat /\ h[ch[v][m]] \in Nat
        /\ Lack(NULL, t, m, v) = 0
    BY <1>2, <1>6, <1>9 DEF Lack
  <2>2. CASE m = g
    <3>1. ch2[v][m] = (IF v = s THEN z ELSE u) /\ h2[z] = h[z] /\ h2[u] = h[u] /\ h2[m] = h[y] /\ co2[m] = 1
      BY <1>1, <1>2, <1>3, <1>4, <1>5, <1>7, <1>8, <2>2
    <3>2. QED
      BY <1>11, <2>1, <3>1
  <2>3. CASE m = y
    <3>1. ch2[v][m] = (IF v = t THEN g ELSE w) /\ h2[g] = h[y] /\ h2[w] = h[y] /\ h2[m] = h[g] /\ co2[m] = co[g]
      BY <1>1, <1>2, <1>3, <1>5, <1>7, <1>8, <2>3
    <3>2. QED
      BY <1>11, <2>1, <3>1
  <2>4. CASE m = w
    <3>1. ch[v][m] # g /\ ch[v][m] # y /\ ch[v][m] # w
      BY <1>3, <1>9, <2>4
    <3>2. ch2[v][m] = ch[v][m]
      BY <1>3, <1>5, <2>4, <3>1
    <3>3. h2[ch[v][m]] = h[ch[v][m]] /\ h2[m] = h[y] /\ co2[m] = 1
      BY <1>2, <1>3, <1>7, <1>9, <2>4, <3>1
    <3>4. h[w] = h[ch[v][m]]
      BY <1>3, <1>11, <2>1, <2>4, SMTT(30) DEF Lack
    <3>5. QED
      BY <1>11, <2>1, <3>2, <3>3, <3>4
  <2>5. CASE m # g /\ m # y /\ m # w
    <3>1. h2[ch2[v][m]] = h[ch[v][m]] /\ h2[m] = h[m] /\ co2[m] = co[m]
      BY <1>2, <1>3, <1>5, <1>7, <1>9, <2>5
    <3>2. Lack(g, t, m, v) = 0
      BY <2>5 DEF Lack
    <3>3. QED
      BY <2>1, <3>1, <3>2
  <2>6. QED
    BY <2>2, <2>3, <2>4, <2>5
<1>13. Balance(M, ch2, co2, h2, NULL, t)
  BY <1>7, <1>10, <1>12 DEF Balance
<1>14. ASSUME NEW m \in M, co2[m] = 0
       PROVE  m # r2 /\ co2[pa2[m]] = 1
  <2>1. m # g /\ m # w
    BY <1>3, <1>14
  <2>2. CASE m = y
    <3>1. co[g] = 0
      BY <1>14, <2>2
    <3>2. g # r /\ co[pa[g]] = 1
      BY <1>2, <3>1 DEF Reds
    <3>3. pa[g] \in M
      BY <3>2, TreeFacts
    <3>4. QED
      BY <1>3, <1>5, <2>2, <3>2, <3>3
  <2>3. CASE m # y
    <3>1. co[m] = 0
      BY <1>14, <2>1, <2>3
    <3>2. m # r /\ co[pa[m]] = 1
      BY <1>2, <3>1 DEF Reds
    <3>3. pa[m] \in M
      BY <3>2, TreeFacts
    <3>4. m # r2
      BY <1>5, <2>3, <3>2
    <3>5. CASE m = z
      <4>1. pa2[m] = g /\ co2[g] = 1
        BY <1>3, <1>5, <2>1, <2>3, <3>5
      <4>2. QED
        BY <3>4, <4>1
    <3>6. CASE m # z
      <4>1. pa[m] # y
        <5>1. ASSUME pa[m] = y
              PROVE  FALSE
          <6>1. PICK v \in Side : ch[v][y] = m
            BY <5>1, ParentOf
          <6>2. QED
            BY <1>1, <1>8, <2>1, <3>6, <6>1
        <5>2. QED
          BY <5>1
      <4>2. QED
        BY <1>3, <1>5, <2>1, <2>3, <3>2, <3>3, <3>4, <3>6, <4>1
    <3>7. QED
      BY <3>5, <3>6
  <2>4. QED
    BY <2>2, <2>3
<1>15. QED
  BY <1>13, <1>14 DEF Reds

(* Two turns, x coming up between q and g, over g with its color.          *)
LEMMA TwiceBalance ==
  ASSUME NEW M, NEW r, NEW ch, NEW pa, NEW co, NEW sp, NEW h, NEW e, NEW t,
         Tree(M, r, ch, pa, sp), Balance(M, ch, co, h, e, t),
         NEW g \in M, NEW s \in Side, e \in {NULL, g}, t = Other(s),
         NEW q \in M, q = ch[s][g], NEW x \in M, x = ch[Other(s)][q], co[x] = 0,
         h[q] = h[ch[Other(s)][g]] + co[q],
         NEW r2, NEW ch2, NEW pa2, NEW co2, TurnedTwice(M, g, s, r, ch, pa, r2, ch2, pa2),
         \A m \in M : co2[m] = IF m = x THEN co[g] ELSE IF m = g THEN co[q] ELSE co[m]
  PROVE  \E h2 : Balance(M, ch2, co2, h2, NULL, t)
<1> DEFINE a == ch[s][x]
           b == ch[t][x]
           u == ch[t][g]
           h2 == [m \in Node |-> IF m = x THEN h[g] ELSE IF m = g THEN h[q] ELSE h[m]]
<1>1. t \in Side /\ t # s /\ \A v \in Side : v = s \/ v = t
  BY Sides
<1>2. M \subseteq Key /\ NULL \notin M /\ M \subseteq Node /\ NULL \in Node
  BY SpanIn, Keys DEF Tree, Node
<1>3. q # g /\ pa[q] = g /\ x # g /\ x # q /\ pa[x] = q /\ pa[g] # x /\ pa[g] # q /\ pa[g] # g
  <2>1. q # g /\ pa[q] = g /\ pa[g] # q /\ pa[g] # g
    BY <1>2, Kid
  <2>2. x # g /\ x # q /\ pa[x] = q /\ pa[g] # x
    BY <1>1, <1>2, Grandkid
  <2>3. QED
    BY <2>1, <2>2
<1>4. /\ a \in M \cup {NULL} /\ b \in M \cup {NULL} /\ u \in M \cup {NULL}
      /\ a # x /\ b # x /\ a # g /\ b # g /\ u # g /\ u # x
  <2>1. a \in M \cup {NULL} /\ b \in M \cup {NULL} /\ u \in M \cup {NULL}
    BY <1>1, SpanIn DEF Tree
  <2>2. a # NULL => a # x /\ a # g
    BY <1>1, <1>2, <1>3, Kid
  <2>3. b # NULL => b # x /\ b # g
    BY <1>1, <1>2, <1>3, Kid
  <2>4. u # NULL => u # g /\ pa[u] = g
    BY <1>1, <1>2, Kid
  <2>5. QED
    BY <1>2, <1>3, <2>1, <2>2, <2>3, <2>4
<1>5. \A m \in M, v \in Side : ch2[v][m] = IF m = q /\ v = t THEN a
                                           ELSE IF m = g /\ v = s THEN b
                                           ELSE IF m = x THEN IF v = s THEN q ELSE g
                                           ELSE IF ch[v][m] = g THEN x ELSE ch[v][m]
  BY DEF TurnedTwice
<1>6. /\ h \in [Node -> Nat] /\ h[NULL] = 0
      /\ \A m \in M : co[m] \in Hue
      /\ \A m \in M, v \in Side : h[m] = h[ch[v][m]] + co[m] + Lack(e, t, m, v)
  BY DEF Balance
<1>7. h2 \in [Node -> Nat] /\ h2[NULL] = 0
      /\ \A m \in Node : h2[m] = IF m = x THEN h[g] ELSE IF m = g THEN h[q] ELSE h[m]
  BY <1>2, <1>6
<1>8. q = ch[s][g] /\ x = ch[t][q] /\ a = ch[s][x] /\ b = ch[t][x] /\ u = ch[t][g]
  OBVIOUS
<1> HIDE DEF h2, a, b, u
<1>9. \A m \in M, v \in Side :
        /\ ch[v][m] \in M \cup {NULL} /\ (ch[v][m] = x => m = q /\ v = t)
        /\ (ch[v][m] = g => m # g /\ m # q /\ m # x)
  <2>1. \A m \in M, v \in Side : ch[v][m] \in M \cup {NULL}
    BY SpanIn DEF Tree
  <2>2. \A m \in M, v \in Side : ch[v][m] = x => m = q /\ v = t
    BY <1>1, <1>2, <1>8, TreeFacts
  <2>3. \A m \in M, v \in Side : ch[v][m] = g => pa[g] = m
    BY <1>2, TreeFacts
  <2>4. QED
    BY <1>3, <2>1, <2>2, <2>3
<1>10. \A m \in M : co2[m] \in Hue
  BY <1>6 DEF Hue
<1>11. /\ h[g] = h[q] + co[g] /\ h[q] = h[u] + co[q] /\ h[q] = h[x] + co[q] /\ h[x] = h[a] /\ h[x] = h[b]
       /\ h[g] \in Nat /\ h[q] \in Nat /\ h[u] \in Nat /\ h[x] \in Nat /\ h[a] \in Nat /\ h[b] \in Nat
       /\ co[g] \in {0, 1} /\ co[q] \in {0, 1}
  <2>1. Lack(e, t, g, s) = 0 /\ \A v \in Side : Lack(e, t, q, v) = 0 /\ Lack(e, t, x, v) = 0
    BY <1>1, <1>2, <1>3 DEF Lack
  <2>2. h[g] \in Nat /\ h[q] \in Nat /\ h[u] \in Nat /\ h[x] \in Nat /\ h[a] \in Nat /\ h[b] \in Nat
    BY <1>2, <1>4, <1>6
  <2>3. co[g] \in {0, 1} /\ co[q] \in {0, 1}
    BY <1>6 DEF Hue
  <2>4. h[g] = h[q] + co[g] + 0 /\ h[q] = h[x] + co[q] + 0 /\ h[x] = h[a] + 0 + 0 /\ h[x] = h[b] + 0 + 0
    BY <1>1, <1>6, <1>8, <2>1
  <2>5. h[q] = h[u] + co[q]
    BY <1>8
  <2>6. QED
    BY <2>2, <2>3, <2>4, <2>5
<1>12. ASSUME NEW m \in M, NEW v \in Side
       PROVE  h2[m] = h2[ch2[v][m]] + co2[m] + Lack(NULL, t, m, v)
  <2>1. /\ h[m] = h[ch[v][m]] + co[m] + Lack(e, t, m, v) /\ h[m] \in Nat /\ h[ch[v][m]] \in Nat
        /\ Lack(NULL, t, m, v) = 0
    BY <1>2, <1>6, <1>9 DEF Lack
  <2>2. CASE m = g
    <3>1. ch2[v][m] = (IF v = s THEN b ELSE u) /\ h2[b] = h[b] /\ h2[u] = h[u] /\ h2[m] = h[q] /\ co2[m] = co[q]
      <4>1. ch2[v][m] = (IF v = s THEN b ELSE u)
        BY <1>1, <1>3, <1>4, <1>5, <1>8, <2>2
      <4>2. h2[b] = h[b] /\ h2[u] = h[u] /\ h2[m] = h[q]
        BY <1>2, <1>3, <1>4, <1>7, <2>2
      <4>3. co2[m] = co[q]
        BY <1>3, <2>2
      <4>4. QED
        BY <4>1, <4>2, <4>3
    <3>2. QED
      BY <1>11, <2>1, <3>1
  <2>3. CASE m = x
    <3>1. ch2[v][m] = (IF v = s THEN q ELSE g) /\ h2[g] = h[q] /\ h2[q] = h[q] /\ h2[m] = h[g] /\ co2[m] = co[g]
      BY <1>1, <1>2, <1>3, <1>5, <1>7, <1>8, <2>3
    <3>2. QED
      BY <1>11, <2>1, <3>1
  <2>4. CASE m = q
    <3>1. h2[m] = h[q] /\ co2[m] = co[q]
      BY <1>2, <1>3, <1>7, <2>4
    <3>2. Lack(e, t, m, v) = 0
      BY <1>2, <1>3, <2>4 DEF Lack
    <3>3. CASE v = t
      <4>1. ch2[v][m] = a /\ h2[a] = h[a]
        BY <1>2, <1>4, <1>5, <1>7, <2>4, <3>3
      <4>2. QED
        <5>1. h[q] = h[a] + co[q] /\ h2[ch2[v][m]] = h[a]
          BY <1>11, <4>1, Zenon
        <5>2. h[a] \in Nat /\ co[q] \in {0, 1} /\ Lack(NULL, t, m, v) = 0
          BY <1>11, <2>1
        <5>3. QED
          BY <3>1, <5>1, <5>2
    <3>4. CASE v # t
      <4>1. ch[v][m] # g /\ ch[v][m] # x
        BY <1>3, <1>9, <2>4, <3>4
      <4>2. ch2[v][m] = ch[v][m] /\ h2[ch[v][m]] = h[ch[v][m]]
        <5>1. ch2[v][m] = ch[v][m]
          BY <1>3, <1>5, <2>4, <3>4, <4>1
        <5>2. ch[v][m] \in Node
          BY <1>2, <1>9
        <5>3. QED
          BY <1>7, <4>1, <5>1, <5>2
      <4>3. QED
        BY <2>1, <2>4, <3>1, <3>2, <4>2
    <3>5. QED
      BY <3>3, <3>4
  <2>5. CASE m # g /\ m # x /\ m # q
    <3>1. h2[ch2[v][m]] = h[ch[v][m]] /\ h2[m] = h[m] /\ co2[m] = co[m]
      BY <1>2, <1>3, <1>5, <1>7, <1>9, <2>5
    <3>2. Lack(e, t, m, v) = 0
      BY <1>2, <2>5 DEF Lack
    <3>3. QED
      BY <2>1, <3>1, <3>2
  <2>6. QED
    BY <2>2, <2>3, <2>4, <2>5
<1>13. QED
  BY <1>7, <1>10, <1>12 DEF Balance

(* The red q and x of an insertion ...                                     *)
LEMMA TwiceReds ==
  ASSUME NEW M, NEW r, NEW ch, NEW pa, NEW co, NEW sp, NEW k,
         Tree(M, r, ch, pa, sp), Reds(M, r, pa, co, k), \A m \in M : co[m] \in Hue,
         NEW g \in M, NEW s \in Side,
         NEW q \in M, q = ch[s][g], NEW x \in M, x = ch[Other(s)][q], co[x] = 0,
         \/ /\ co[q] = 0 /\ k = x /\ co[g] = 1
            /\ ch[Other(s)][g] = NULL \/ co[ch[Other(s)][g]] = 1
         \/ co[q] = 1 /\ k = NULL,
         NEW r2, NEW ch2, NEW pa2, NEW co2, TurnedTwice(M, g, s, r, ch, pa, r2, ch2, pa2),
         \A m \in M : co2[m] = IF m = x THEN co[g] ELSE IF m = g THEN co[q] ELSE co[m]
  PROVE  Reds(M, r2, pa2, co2, NULL)
<1> DEFINE a == ch[s][x]
           b == ch[Other(s)][x]
<1>1. Other(s) \in Side /\ Other(s) # s /\ \A v \in Side : v = s \/ v = Other(s)
  BY Sides
<1>2. M \subseteq Key /\ NULL \notin M
  BY SpanIn, Keys DEF Tree
<1>3. /\ q # g /\ pa[q] = g /\ q # r /\ x # g /\ x # q /\ pa[x] = q /\ x # r
      /\ pa[g] # x /\ pa[g] # q /\ pa[g] # g
  <2>1. q # g /\ pa[q] = g /\ q # r /\ pa[g] # q /\ pa[g] # g
    BY <1>2, Kid
  <2>2. x # g /\ x # q /\ pa[x] = q /\ x # r /\ pa[g] # x
    BY <1>1, <1>2, Grandkid
  <2>3. QED
    BY <2>1, <2>2
<1>4. (a # NULL => pa[a] = x) /\ (b # NULL => pa[b] = x)
  BY <1>1, TreeFacts
<1>5. /\ r2 = IF r = g THEN x ELSE r
      /\ \A m \in M : pa2[m] = IF m = x THEN pa[g] ELSE IF m = q \/ m = g THEN x
                               ELSE IF m = a THEN q ELSE IF m = b THEN g ELSE pa[m]
  BY DEF TurnedTwice
<1> HIDE DEF a, b
<1>6. ASSUME NEW m \in M, co2[m] = 0
      PROVE  m # r2 /\ co2[pa2[m]] = 1
  <2>1. CASE m = g \/ m = q
    <3>1. co[q] = 0
      BY <1>3, <1>6, <2>1
    <3>2. co2[x] = 1 /\ pa2[m] = x /\ m # r2
      BY <1>3, <1>5, <2>1, <3>1
    <3>3. QED
      BY <3>2
  <2>2. CASE m = x
    <3>1. co[g] = 0
      BY <1>6, <2>2
    <3>2. co[q] = 1 /\ g # r /\ co[pa[g]] = 1
      BY <1>2, <3>1 DEF Reds
    <3>3. pa[g] \in M
      BY <3>2, TreeFacts
    <3>4. co2[pa[g]] = 1
      BY <1>3, <3>2, <3>3
    <3>5. QED
      BY <1>3, <1>5, <2>2, <3>2, <3>4
  <2>3. CASE m # g /\ m # q /\ m # x
    <3>1. co[m] = 0
      BY <1>6, <2>3
    <3>2. m # r /\ co[pa[m]] = 1
      BY <1>2, <2>3, <3>1 DEF Reds
    <3>3. pa[m] \in M /\ pa[m] # x
      BY <3>2, TreeFacts
    <3>4. m # r2 /\ m # a /\ m # b
      BY <1>2, <1>4, <1>5, <2>3, <3>2, <3>3
    <3>5. pa2[m] = pa[m]
      BY <1>5, <2>3, <3>4
    <3>6. pa[m] = g => co[q] = 1
      <4>1. ASSUME pa[m] = g, co[q] # 1
            PROVE  FALSE
        <5>1. PICK v \in Side : ch[v][g] = m
          BY <4>1, ParentOf
        <5>2. m = ch[Other(s)][g]
          BY <1>1, <2>3, <5>1
        <5>3. QED
          BY <1>2, <3>1, <4>1, <5>2
      <4>2. QED
        BY <4>1
    <3>7. co2[pa[m]] = 1
      BY <3>2, <3>3, <3>6
    <3>8. QED
      BY <3>4, <3>5, <3>7
  <2>4. QED
    BY <2>1, <2>2, <2>3
<1>7. QED
  BY <1>6 DEF Reds

(* A flip of the colors after an insertion: g gives its black to both its  *)
(* children.                                                               *)
LEMMA FlipDown ==
  ASSUME NEW M, NEW r, NEW ch, NEW pa, NEW co, NEW sp, NEW h, NEW t, NEW k,
         Tree(M, r, ch, pa, sp), Balance(M, ch, co, h, NULL, t), Reds(M, r, pa, co, k),
         NEW g \in M, NEW s \in Side, NEW q \in M, q = ch[s][g], co[q] = 0, q # k,
         NEW u \in M, u = ch[Other(s)][g], co[u] = 0, pa[k] = q, k # r,
         NEW co2, \A m \in M : co2[m] = IF m = g THEN 0 ELSE IF m = u \/ m = q THEN 1 ELSE co[m]
  PROVE  (\E h2 : Balance(M, ch, co2, h2, NULL, t)) /\ Reds(M, r, pa, co2, g)
<1> DEFINE h2 == [m \in Node |-> IF m = u \/ m = q THEN h[g] ELSE h[m]]
<1>1. Other(s) \in Side /\ Other(s) # s /\ \A v \in Side : v = s \/ v = Other(s)
  BY Sides
<1>2. M \subseteq Key /\ NULL \notin M /\ M \subseteq Node /\ NULL \in Node
  BY SpanIn, Keys DEF Tree, Node
<1>3. q # g /\ pa[q] = g /\ u # g /\ pa[u] = g /\ u # q
  <2>1. q # g /\ pa[q] = g
    BY <1>2, Kid
  <2>2. u # g /\ pa[u] = g
    BY <1>1, <1>2, Kid
  <2>3. u # q
    BY <1>1, <1>2, TreeFacts
  <2>4. QED
    BY <2>1, <2>2, <2>3
<1>4. /\ h \in [Node -> Nat] /\ h[NULL] = 0
      /\ \A m \in M : co[m] \in Hue
      /\ \A m \in M, v \in Side : h[m] = h[ch[v][m]] + co[m] + Lack(NULL, t, m, v)
  BY DEF Balance
<1>5. h2 \in [Node -> Nat] /\ h2[NULL] = 0
      /\ \A m \in Node : h2[m] = IF m = u \/ m = q THEN h[g] ELSE h[m]
  BY <1>2, <1>4
<1> HIDE DEF h2
<1>6. \A m \in M, v \in Side : Lack(NULL, t, m, v) = 0 /\ ch[v][m] \in M \cup {NULL}
  BY <1>2, SpanIn DEF Lack, Tree
<1>7. co[g] = 1
  BY <1>3 DEF Reds
<1>8. h[g] \in Nat /\ h[u] \in Nat /\ h[q] \in Nat /\ h[g] = h[q] + 1 /\ h[g] = h[u] + 1
  <2>1. h[g] \in Nat /\ h[u] \in Nat /\ h[q] \in Nat
    BY <1>2, <1>4
  <2>2. h[g] = h[q] + 1 + 0 /\ h[g] = h[u] + 1 + 0
    BY <1>1, <1>4, <1>6, <1>7
  <2>3. QED
    BY <2>1, <2>2
<1>9. ASSUME NEW m \in M, NEW v \in Side
      PROVE  h2[m] = h2[ch[v][m]] + co2[m] + Lack(NULL, t, m, v)
  <2>1. /\ h[m] = h[ch[v][m]] + co[m] + 0 /\ h[m] \in Nat /\ h[ch[v][m]] \in Nat
        /\ Lack(NULL, t, m, v) = 0 /\ co[m] \in {0, 1}
    <3>1. co[m] \in {0, 1}
      BY <1>4 DEF Hue
    <3>2. QED
      BY <1>2, <1>4, <1>6, <3>1
  <2>2. CASE m = g
    <3>1. ch[v][m] = (IF v = s THEN q ELSE u)
      BY <1>1, <2>2
    <3>2. h2[ch[v][m]] = h[g] /\ h2[m] = h[g] /\ co2[m] = 0
      BY <1>2, <1>3, <1>5, <2>2, <3>1
    <3>3. QED
      BY <1>8, <2>1, <3>2
  <2>3. CASE m = q \/ m = u
    <3>1. ch[v][m] # q /\ ch[v][m] # u
      BY <1>2, <1>3, <2>3, TreeFacts
    <3>2. h2[ch[v][m]] = h[ch[v][m]] /\ h2[m] = h[g] /\ co2[m] = 1 /\ co[m] = 0
      BY <1>2, <1>3, <1>5, <1>6, <2>3, <3>1
    <3>3. h[g] = h[m] + 1
      BY <1>8, <2>3
    <3>4. QED
      BY <2>1, <3>2, <3>3
  <2>4. CASE m # g /\ m # q /\ m # u
    <3>1. ch[v][m] # q /\ ch[v][m] # u
      BY <1>2, <1>3, <2>4, TreeFacts
    <3>2. h2[ch[v][m]] = h[ch[v][m]] /\ h2[m] = h[m] /\ co2[m] = co[m]
      BY <1>2, <1>3, <1>5, <1>6, <2>4, <3>1
    <3>3. QED
      BY <2>1, <3>2
  <2>5. QED
    BY <2>2, <2>3, <2>4
<1>10. Balance(M, ch, co2, h2, NULL, t)
  BY <1>4, <1>5, <1>9 DEF Balance, Hue
<1>11. ASSUME NEW m \in M, co2[m] = 0, m # g
       PROVE  m # r /\ co2[pa[m]] = 1
  <2>1. m # u /\ m # q /\ co[m] = 0
    BY <1>3, <1>11
  <2>2. CASE m = k
    BY <1>3, <2>2
  <2>3. CASE m # k
    <3>1. m # r /\ co[pa[m]] = 1
      BY <2>1, <2>3 DEF Reds
    <3>2. pa[m] \in M
      BY <3>1, TreeFacts
    <3>3. pa[m] # g
      <4>1. ASSUME pa[m] = g
            PROVE  FALSE
        <5>1. PICK v \in Side : ch[v][g] = m
          BY <4>1, ParentOf
        <5>2. QED
          BY <1>1, <2>1, <5>1
      <4>2. QED
        BY <4>1
    <3>4. QED
      BY <3>1, <3>2, <3>3
  <2>4. QED
    BY <2>2, <2>3
<1>12. Reds(M, r, pa, co2, g)
  BY <1>11 DEF Reds
<1>13. QED
  BY <1>10, <1>12

(* A flip of the colors after an erasure: the sibling y gives its black to *)
(* its parent g, that had too little on side t.                            *)
WhatIsLeft(r, ch, pa, co, g, e, f) ==
  IF co[g] = 1 THEN e = pa[g] /\ (g # r => f \in Side /\ ch[f][e] = g) ELSE e = NULL

LEMMA FlipUp ==
  ASSUME NEW M, NEW r, NEW ch, NEW pa, NEW co, NEW sp, NEW h, NEW t \in Side,
         Tree(M, r, ch, pa, sp), NEW g \in M,
         Balance(M, ch, co, h, g, t), Reds(M, r, pa, co, NULL),
         NEW y \in M, y = ch[Other(t)][g], co[y] = 1,
         \A v \in Side : ch[v][y] = NULL \/ co[ch[v][y]] = 1,
         NEW co2, \A m \in M : co2[m] = IF m = y THEN 0 ELSE IF m = g THEN 1 ELSE co[m],
         NEW e, NEW f, WhatIsLeft(r, ch, pa, co, g, e, f)
  PROVE  (\E h2 : Balance(M, ch, co2, h2, e, f)) /\ Reds(M, r, pa, co2, NULL)
<1> DEFINE o == Other(t)
           h2 == [m \in Node |-> IF m = y THEN h[y] - 1 ELSE IF m = g THEN h[y] ELSE h[m]]
<1>1. o \in Side /\ o # t /\ \A v \in Side : v = t \/ v = o
  BY Sides
<1>2. M \subseteq Key /\ NULL \notin M /\ M \subseteq Node /\ NULL \in Node
  BY SpanIn, Keys DEF Tree, Node
<1>3. y # g /\ pa[y] = g /\ y # r /\ pa[g] # g /\ pa[g] # y
  BY <1>1, <1>2, Kid
<1>4. /\ h \in [Node -> Nat] /\ h[NULL] = 0
      /\ \A m \in M : co[m] \in Hue
      /\ \A m \in M, v \in Side : h[m] = h[ch[v][m]] + co[m] + Lack(g, t, m, v)
  BY DEF Balance
<1>5. \A m \in M, v \in Side : ch[v][m] \in M \cup {NULL} /\ (ch[v][m] = y => m = g /\ v = o)
                               /\ (ch[v][m] = g => m # g /\ m # y /\ m = pa[g] /\ g # r)
  <2>1. \A m \in M, v \in Side : ch[v][m] \in M \cup {NULL}
    BY SpanIn DEF Tree
  <2>2. \A m \in M, v \in Side : ch[v][m] = y => m = g /\ v = o
    BY <1>1, <1>2, TreeFacts
  <2>3. \A m \in M, v \in Side : ch[v][m] = g => pa[g] = m /\ g # r
    BY <1>2, TreeFacts
  <2>4. QED
    BY <1>3, <2>1, <2>2, <2>3
<1> DEFINE n1 == ch[t][g]
<1>6. /\ h[g] = h[y] + co[g] /\ h[g] = h[n1] + co[g] + 1 /\ h[y] \in Nat /\ h[n1] \in Nat /\ h[g] \in Nat
      /\ co[g] \in {0, 1} /\ h[y] - 1 = h[n1] /\ n1 \in M \cup {NULL} /\ n1 # g /\ n1 # y
  <2>1. Lack(g, t, g, o) = 0 /\ Lack(g, t, g, t) = 1
    BY <1>1 DEF Lack
  <2>2. n1 \in M \cup {NULL} /\ n1 # g /\ n1 # y
    BY <1>1, <1>5
  <2>3. h[y] \in Nat /\ h[n1] \in Nat /\ h[g] \in Nat
    BY <1>2, <1>4, <2>2
  <2>4. co[g] \in {0, 1}
    BY <1>4 DEF Hue
  <2>5. h[g] = h[y] + co[g] + 0 /\ h[g] = h[n1] + co[g] + 1
    BY <1>1, <1>4, <2>1
  <2>6. QED
    BY <2>2, <2>3, <2>4, <2>5
<1>7. h2 \in [Node -> Nat] /\ h2[NULL] = 0
      /\ \A m \in Node : h2[m] = IF m = y THEN h[y] - 1 ELSE IF m = g THEN h[y] ELSE h[m]
  <2>1. h[y] - 1 \in Nat
    BY <1>6
  <2>2. QED
    BY <1>2, <1>4, <2>1
<1>13. y = ch[o][g] /\ n1 = ch[t][g]
  OBVIOUS
<1> HIDE DEF h2, n1, o
<1>14. IF co[g] = 1 THEN e = pa[g] /\ (g # r => f \in Side /\ ch[f][e] = g) ELSE e = NULL
  BY DEF WhatIsLeft
<1>8. ASSUME NEW m \in M, NEW v \in Side
      PROVE  h2[m] = h2[ch[v][m]] + co2[m] + Lack(e, f, m, v)
  <2>1. /\ h[m] = h[ch[v][m]] + co[m] + Lack(g, t, m, v) /\ h[m] \in Nat /\ h[ch[v][m]] \in Nat
        /\ co[m] \in {0, 1} /\ ch[v][m] \in Node
    <3>1. co[m] \in {0, 1}
      BY <1>4 DEF Hue
    <3>2. QED
      BY <1>2, <1>4, <1>5, <3>1
  <2>2. e # g /\ e # y
    BY <1>2, <1>3, <1>14
  <2>3. CASE m = g
    <3>1. ch[v][m] = (IF v = t THEN n1 ELSE y)
      BY <1>1, <1>13, <2>3
    <3>2. h2[n1] = h[n1] /\ h2[y] = h[n1] /\ h2[m] = h[y] /\ co2[m] = 1
      BY <1>2, <1>3, <1>6, <1>7, <2>3
    <3>3. Lack(e, f, m, v) = 0 /\ h[y] = h[n1] + 1
      BY <1>6, <2>2, <2>3 DEF Lack
    <3>4. QED
      BY <1>6, <3>1, <3>2, <3>3
  <2>4. CASE m = y
    <3>1. ch[v][m] # g /\ ch[v][m] # y
      BY <1>3, <1>5, <2>4
    <3>2. h2[ch[v][m]] = h[ch[v][m]] /\ h2[m] = h[y] - 1 /\ co2[m] = 0 /\ co[m] = 1
      BY <1>2, <1>7, <2>1, <2>4, <3>1
    <3>3. Lack(e, f, m, v) = 0 /\ Lack(g, t, m, v) = 0
      BY <1>3, <2>2, <2>4 DEF Lack
    <3>4. QED
      BY <1>6, <2>1, <2>4, <3>2, <3>3
  <2>5. CASE m # g /\ m # y /\ ch[v][m] = g
    <3>1. h2[ch[v][m]] = h[y] /\ h2[m] = h[m] /\ co2[m] = co[m]
      BY <1>2, <1>3, <1>7, <2>5
    <3>2. Lack(g, t, m, v) = 0 /\ h[m] = h[g] + co[m]
      BY <2>1, <2>5 DEF Lack
    <3>3. Lack(e, f, m, v) = co[g]
      <4>1. CASE co[g] = 1
        <5>1. e = m /\ f \in Side /\ ch[f][m] = g
          BY <1>5, <1>14, <2>5, <4>1
        <5>2. f = v
          BY <1>2, <2>5, <5>1, TreeFacts
        <5>3. QED
          BY <4>1, <5>1, <5>2 DEF Lack
      <4>2. CASE co[g] = 0
        BY <1>2, <1>14, <4>2 DEF Lack
      <4>3. QED
        BY <1>6, <4>1, <4>2
    <3>4. QED
      BY <1>6, <2>1, <3>1, <3>2, <3>3
  <2>6. CASE m # g /\ m # y /\ ch[v][m] # g
    <3>1. h2[ch[v][m]] = h[ch[v][m]] /\ h2[m] = h[m] /\ co2[m] = co[m]
      BY <1>2, <1>5, <1>7, <2>1, <2>6
    <3>2. Lack(g, t, m, v) = 0
      BY <2>6 DEF Lack
    <3>3. Lack(e, f, m, v) = 0
      <4>1. ASSUME m = e, v = f
            PROVE  FALSE
        <5>1. co[g] = 1 /\ m = pa[g]
          BY <1>2, <1>14, <4>1
        <5>2. g # r
          BY <1>2, <5>1, TreeFacts
        <5>3. QED
          BY <1>14, <2>6, <4>1, <5>1, <5>2
      <4>2. QED
        BY <4>1 DEF Lack
    <3>4. QED
      BY <2>1, <3>1, <3>2, <3>3
  <2>7. QED
    BY <2>3, <2>4, <2>5, <2>6
<1>9. Balance(M, ch, co2, h2, e, f)
  BY <1>4, <1>7, <1>8 DEF Balance, Hue
<1>10. ASSUME NEW m \in M, co2[m] = 0
       PROVE  m # r /\ co2[pa[m]] = 1
  <2>1. CASE m = y
    BY <1>3, <2>1
  <2>2. CASE m # y
    <3>1. m # g /\ co[m] = 0
      BY <1>3, <1>10, <2>2
    <3>2. m # r /\ co[pa[m]] = 1
      BY <1>2, <3>1 DEF Reds
    <3>3. pa[m] \in M
      BY <3>2, TreeFacts
    <3>4. pa[m] # y
      <4>1. ASSUME pa[m] = y
            PROVE  FALSE
        <5>1. PICK v \in Side : ch[v][y] = m
          BY <4>1, ParentOf
        <5>2. QED
          BY <1>2, <3>1, <5>1
      <4>2. QED
        BY <4>1
    <3>5. QED
      BY <3>2, <3>3, <3>4
  <2>3. QED
    BY <2>1, <2>2
<1>11. QED
  BY <1>9, <1>10 DEF Reds

(* A node x without a child on side s's other is unlinked, its child c     *)
(* getting its place and color.                                            *)
CutOut(M, x, c, r, ch, pa, co, r2, ch2, pa2, co2, e) ==
  /\ r2 = IF r = x THEN c ELSE r
  /\ \A m \in M \ {x}, v \in Side : ch2[v][m] = IF ch[v][m] = x THEN c ELSE ch[v][m]
  /\ \A m \in M \ {x} : pa2[m] = IF m = c THEN pa[x] ELSE pa[m]
  /\ \A m \in M \ {x} : co2[m] = IF m = c THEN co[x] ELSE co[m]
  /\ e = IF c = NULL /\ co[x] = 1 THEN pa[x] ELSE NULL

LEMMA CutRules ==
  ASSUME NEW M, NEW r, NEW ch, NEW pa, NEW co, NEW sp, NEW h, NEW t,
         Tree(M, r, ch, pa, sp), Balance(M, ch, co, h, NULL, t), Reds(M, r, pa, co, NULL),
         NEW x \in M, NEW s \in Side, ch[Other(s)][x] = NULL, NEW c, c = ch[s][x],
         NEW f \in Side, x # r => ch[f][pa[x]] = x,
         NEW r2, NEW ch2, NEW pa2, NEW co2,
         NEW e, CutOut(M, x, c, r, ch, pa, co, r2, ch2, pa2, co2, e)
  PROVE  /\ \E h2 : Balance(M \ {x}, ch2, co2, h2, e, f)
         /\ Reds(M \ {x}, r2, pa2, co2, NULL)
<1> DEFINE h2 == [m \in Node |-> IF m # NULL /\ m = c THEN h[x] ELSE h[m]]
<1>1. M \subseteq Key /\ NULL \notin M /\ M \subseteq Node /\ NULL \in Node
  BY SpanIn, Keys DEF Tree, Node
<1>2. /\ h \in [Node -> Nat] /\ h[NULL] = 0
      /\ \A m \in M : co[m] \in Hue
      /\ \A m \in M, v \in Side : h[m] = h[ch[v][m]] + co[m] + Lack(NULL, t, m, v)
  BY DEF Balance
<1>3. \A m \in M, v \in Side : Lack(NULL, t, m, v) = 0 /\ ch[v][m] \in M \cup {NULL}
  BY <1>1, SpanIn DEF Lack, Tree
<1>4. \A m \in M : co[m] \in {0, 1} /\ h[m] \in Nat
  BY <1>1, <1>2 DEF Hue
<1>5. h[x] = co[x] /\ h[x] = h[c] + co[x] /\ h[c] \in Nat /\ h[x] \in Nat
  <2>1. h[x] = 0 + co[x] + 0 /\ h[x] = h[c] + co[x] + 0
    BY <1>2, <1>3, Sides
  <2>2. h[c] \in Nat /\ h[x] \in Nat
    BY <1>1, <1>2, <1>3
  <2>3. QED
    BY <1>4, <2>1, <2>2
<1>6. c # NULL => c \in M /\ c # x /\ pa[c] = x /\ c # r /\ co[c] = 0 /\ co[x] = 1 /\ pa[x] # c
                  /\ \A v \in Side : ch[v][c] # x /\ ch[v][c] # c /\ h[ch[v][c]] = 0
  <2>1. SUFFICES ASSUME c # NULL
                 PROVE  c \in M /\ c # x /\ pa[c] = x /\ c # r /\ co[c] = 0 /\ co[x] = 1 /\ pa[x] # c
                        /\ \A v \in Side : ch[v][c] # x /\ ch[v][c] # c /\ h[ch[v][c]] = 0
    OBVIOUS
  <2>2. c \in M /\ c # x /\ pa[c] = x /\ c # r /\ pa[x] # c
    BY <2>1, Kid
  <2>3. ASSUME NEW v \in Side
        PROVE  co[c] = 0 /\ ch[v][c] # x /\ ch[v][c] # c /\ h[ch[v][c]] = 0
    <3>1. h[c] = h[ch[v][c]] + co[c] + 0 /\ h[c] = 0
      <4>1. h[c] = h[ch[v][c]] + co[c] + Lack(NULL, t, c, v) /\ Lack(NULL, t, c, v) = 0
        BY <1>2, <1>3, <2>2
      <4>2. h[c] = 0
        BY <1>4, <1>5
      <4>3. QED
        BY <4>1, <4>2
    <3>2. h[ch[v][c]] \in Nat
      BY <1>1, <1>2, <1>3, <2>2
    <3>3. ch[v][c] # c /\ ch[v][c] # x
      BY <1>1, <2>2, TreeFacts
    <3>4. QED
      BY <1>4, <2>2, <3>1, <3>2, <3>3
  <2>4. co[c] = 0
    BY <2>3
  <2>5. co[x] = 1
    BY <1>1, <2>2, <2>4 DEF Reds
  <2>6. QED
    BY <2>2, <2>3, <2>4, <2>5
<1>7. h2 \in [Node -> Nat] /\ h2[NULL] = 0
      /\ \A m \in Node : h2[m] = IF m # NULL /\ m = c THEN h[x] ELSE h[m]
  BY <1>1, <1>2, <1>5
<1>15. e = IF c = NULL /\ co[x] = 1 THEN pa[x] ELSE NULL
  BY DEF CutOut
<1> HIDE DEF h2
<1>14. /\ r2 = IF r = x THEN c ELSE r
       /\ \A m \in M \ {x}, v \in Side : ch2[v][m] = IF ch[v][m] = x THEN c ELSE ch[v][m]
       /\ \A m \in M \ {x} : pa2[m] = IF m = c THEN pa[x] ELSE pa[m]
       /\ \A m \in M \ {x} : co2[m] = IF m = c THEN co[x] ELSE co[m]
  BY DEF CutOut
<1>8. ASSUME NEW m \in M \ {x}, NEW v \in Side
      PROVE  h2[m] = h2[ch2[v][m]] + co2[m] + Lack(e, f, m, v)
  <2>1. /\ h[m] = h[ch[v][m]] + co[m] + 0 /\ h[m] \in Nat /\ h[ch[v][m]] \in Nat
        /\ co[m] \in {0, 1} /\ ch[v][m] \in Node /\ m \in Node /\ m # NULL
    BY <1>1, <1>2, <1>3, <1>4
  <2>2. CASE m = c
    <3>1. ch2[v][m] = ch[v][m] /\ h2[ch[v][m]] = 0 /\ h2[m] = h[x] /\ co2[m] = co[x]
      BY <1>6, <1>7, <1>14, <2>1, <2>2
    <3>2. Lack(e, f, m, v) = 0
      BY <1>15, <2>1, <2>2 DEF Lack
    <3>3. QED
      <4>1. h[x] = co[x] /\ co[x] \in {0, 1}
        BY <1>4, <1>5, Zenon
      <4>2. QED
        BY <3>1, <3>2, <4>1
  <2>3. CASE m # c /\ ch[v][m] = x
    <3>1. ch2[v][m] = c /\ h2[m] = h[m] /\ co2[m] = co[m] /\ h[m] = h[x] + co[m]
      BY <1>7, <1>14, <2>1, <2>3
    <3>2. m = pa[x] /\ x # r /\ f = v
      <4>1. m = pa[x] /\ x # r
        BY <1>1, <2>3, TreeFacts
      <4>2. ch[f][m] = x
        BY <4>1
      <4>3. QED
        BY <1>1, <2>3, <4>1, <4>2, TreeFacts
    <3>3. CASE c # NULL
      <4>1. h2[c] = h[x] /\ Lack(e, f, m, v) = 0
        BY <1>1, <1>6, <1>7, <1>15, <2>1, <3>3 DEF Lack
      <4>2. QED
        BY <1>4, <1>5, <2>1, <3>1, <4>1
    <3>4. CASE c = NULL
      <4>1. h2[c] = 0 /\ Lack(e, f, m, v) = co[x]
        BY <1>4, <1>7, <1>15, <2>1, <3>2, <3>4 DEF Lack
      <4>2. h[x] = co[x] /\ co[x] \in {0, 1}
        BY <1>4, <1>5, Zenon
      <4>3. QED
        BY <2>1, <3>1, <4>1, <4>2
    <3>5. QED
      BY <3>3, <3>4
  <2>4. CASE m # c /\ ch[v][m] # x
    <3>1. ch[v][m] = c => c = NULL
      BY <1>6, <2>4, TreeFacts
    <3>2. ch2[v][m] = ch[v][m] /\ h2[ch[v][m]] = h[ch[v][m]] /\ h2[m] = h[m] /\ co2[m] = co[m]
      BY <1>7, <1>14, <2>1, <2>4, <3>1
    <3>3. Lack(e, f, m, v) = 0
      <4>1. ASSUME m = e, v = f
            PROVE  FALSE
        <5>1. m = pa[x]
          BY <1>15, <2>1, <4>1
        <5>2. x # r
          BY <1>1, <5>1, TreeFacts
        <5>3. QED
          BY <2>4, <4>1, <5>1, <5>2
      <4>2. QED
        BY <4>1 DEF Lack
    <3>4. QED
      BY <2>1, <3>2, <3>3
  <2>5. QED
    BY <2>2, <2>3, <2>4
<1>9. \A m \in M \ {x} : co2[m] \in Hue
  BY <1>2, <1>14
<1>10. Balance(M \ {x}, ch2, co2, h2, e, f)
  BY <1>7, <1>8, <1>9 DEF Balance
<1>11. ASSUME NEW m \in M \ {x}, co2[m] = 0
       PROVE  m # r2 /\ co2[pa2[m]] = 1
  <2>1. m # c
    BY <1>1, <1>6, <1>11, <1>14
  <2>2. m # r /\ co[pa[m]] = 1
    BY <1>1, <1>11, <1>14, <2>1 DEF Reds
  <2>3. pa[m] \in M
    BY <2>2, TreeFacts
  <2>4. pa[m] # x
    <3>1. ASSUME pa[m] = x
          PROVE  FALSE
      <4>1. PICK v \in Side : ch[v][x] = m
        BY <3>1, ParentOf
      <4>2. v = s \/ v = Other(s)
        BY Sides DEF Side, Other
      <4>3. QED
        BY <1>1, <2>1, <4>1, <4>2
    <3>2. QED
      BY <3>1
  <2>5. pa[m] # c
    BY <1>6, <2>2, <2>3, <1>1
  <2>6. QED
    BY <1>14, <2>1, <2>2, <2>3, <2>4, <2>5
<1>12. Reds(M \ {x}, r2, pa2, co2, NULL)
  BY <1>11 DEF Reds
<1>13. QED
  BY <1>10, <1>12, <1>15

(* A node that has one child only is black, and the child red.             *)
LEMMA OnlyChild ==
  ASSUME NEW M, NEW r, NEW ch, NEW pa, NEW co, NEW sp, NEW h, NEW t,
         Tree(M, r, ch, pa, sp), Balance(M, ch, co, h, NULL, t), Reds(M, r, pa, co, NULL),
         NEW x \in M, NEW s \in Side, ch[Other(s)][x] = NULL, ch[s][x] # NULL
  PROVE  co[ch[s][x]] = 0 /\ co[x] = 1
<1> DEFINE c == ch[s][x]
<1>1. M \subseteq Key /\ NULL \notin M /\ M \subseteq Node
  BY SpanIn, Keys DEF Tree, Node
<1>2. c \in M /\ pa[c] = x /\ c # NULL
  BY Kid
<1>3. \A m \in M, v \in Side :
        h[m] = h[ch[v][m]] + co[m] /\ h[m] \in Nat /\ h[ch[v][m]] \in Nat /\ co[m] \in {0, 1}
  <2>1. ASSUME NEW m \in M, NEW v \in Side
        PROVE  h[m] = h[ch[v][m]] + co[m] /\ h[m] \in Nat /\ h[ch[v][m]] \in Nat /\ co[m] \in {0, 1}
    <3>1. h[m] = h[ch[v][m]] + co[m] + Lack(NULL, t, m, v) /\ co[m] \in {0, 1} /\ h \in [Node -> Nat]
      BY DEF Balance, Hue
    <3>2. Lack(NULL, t, m, v) = 0
      BY <1>1 DEF Lack
    <3>3. ch[v][m] \in Node /\ m \in Node
      BY <1>1, SpanIn DEF Tree, Node
    <3>4. QED
      BY <3>1, <3>2, <3>3
  <2>2. QED
    BY <2>1
<1>4. h[NULL] = 0
  BY DEF Balance
<1>5. h[x] = co[x] /\ h[x] = h[c] + co[x] /\ h[c] \in Nat /\ co[x] \in {0, 1}
  <2>1. Other(s) \in Side
    BY Sides
  <2>2. h[x] = h[NULL] + co[x] /\ h[x] = h[c] + co[x] /\ h[c] \in Nat /\ co[x] \in {0, 1}
    BY <1>3, <2>1
  <2>3. QED
    BY <1>4, <2>2
<1>6. h[c] = 0
  BY <1>5
<1>7. co[c] = 0
  <2>1. h[c] = h[ch[s][c]] + co[c] /\ h[ch[s][c]] \in Nat /\ co[c] \in {0, 1}
    BY <1>2, <1>3
  <2>2. QED
    BY <1>6, <2>1
<1>8. co[x] = 1
  BY <1>1, <1>2, <1>7 DEF Reds
<1>9. QED
  BY <1>7, <1>8

(* A node a gives its place and color to b.                                *)
Renamed(M, a, b, r, ch, pa, co, r2, ch2, pa2, co2) ==
  /\ r2 = IF r = a THEN b ELSE r
  /\ \A v \in Side : ch2[v][b] = ch[v][a]
  /\ \A m \in M \ {a}, v \in Side : ch2[v][m] = IF ch[v][m] = a THEN b ELSE ch[v][m]
  /\ pa2[b] = pa[a]
  /\ \A m \in M \ {a} : pa2[m] = IF pa[m] = a THEN b ELSE pa[m]
  /\ co2[b] = co[a] /\ \A m \in M \ {a} : co2[m] = co[m]

LEMMA RenameRules ==
  ASSUME NEW M, NEW r, NEW ch, NEW pa, NEW co, NEW sp, NEW h, NEW e, NEW f,
         Tree(M, r, ch, pa, sp), Balance(M, ch, co, h, e, f), Reds(M, r, pa, co, NULL),
         NEW a \in M, NEW b \in Key, b \notin M, e \in M \cup {NULL},
         NEW r2, NEW ch2, NEW pa2, NEW co2,
         Renamed(M, a, b, r, ch, pa, co, r2, ch2, pa2, co2),
         NEW e2, e2 = IF e = a THEN b ELSE e
  PROVE  /\ \E h2 : Balance((M \ {a}) \cup {b}, ch2, co2, h2, e2, f)
         /\ Reds((M \ {a}) \cup {b}, r2, pa2, co2, NULL)
<1> DEFINE h2 == [m \in Node |-> IF m = b THEN h[a] ELSE h[m]]
<1>1. M \subseteq Key /\ NULL \notin M /\ M \subseteq Node /\ NULL \in Node /\ b # NULL /\ b # a /\ b \in Node
  BY SpanIn, Keys DEF Tree, Node
<1>2. /\ h \in [Node -> Nat] /\ h[NULL] = 0
      /\ \A m \in M : co[m] \in Hue
      /\ \A m \in M, v \in Side : h[m] = h[ch[v][m]] + co[m] + Lack(e, f, m, v)
  BY DEF Balance
<1>3. \A m \in M, v \in Side : ch[v][m] \in M \cup {NULL} /\ ch[v][m] # m
  <2>1. \A m \in M, v \in Side : ch[v][m] \in M \cup {NULL}
    BY SpanIn DEF Tree
  <2>2. \A m \in M, v \in Side : ch[v][m] # m
    BY <1>1, TreeFacts
  <2>3. QED
    BY <2>1, <2>2
<1>4. h2 \in [Node -> Nat] /\ h2[NULL] = 0 /\ \A m \in Node : h2[m] = IF m = b THEN h[a] ELSE h[m]
  BY <1>1, <1>2
<1>5. e2 = IF e = a THEN b ELSE e
  OBVIOUS
<1> HIDE DEF h2
<1>12. /\ r2 = IF r = a THEN b ELSE r
       /\ \A v \in Side : ch2[v][b] = ch[v][a]
       /\ \A m \in M \ {a}, v \in Side : ch2[v][m] = IF ch[v][m] = a THEN b ELSE ch[v][m]
       /\ pa2[b] = pa[a]
       /\ \A m \in M \ {a} : pa2[m] = IF pa[m] = a THEN b ELSE pa[m]
       /\ co2[b] = co[a] /\ \A m \in M \ {a} : co2[m] = co[m]
  BY DEF Renamed
<1>6. ASSUME NEW m \in (M \ {a}) \cup {b}, NEW v \in Side
      PROVE  h2[m] = h2[ch2[v][m]] + co2[m] + Lack(e2, f, m, v)
  <2>1. CASE m = b
    <3>1. h[a] = h[ch[v][a]] + co[a] + Lack(e, f, a, v)
      BY <1>2
    <3>2. ch2[v][m] = ch[v][a] /\ h2[ch[v][a]] = h[ch[v][a]] /\ h2[m] = h[a] /\ co2[m] = co[a]
      <4>1. ch[v][a] \in M \cup {NULL}
        BY <1>3
      <4>2. h2[ch[v][a]] = h[ch[v][a]]
        BY <1>1, <1>4, <4>1
      <4>3. QED
        BY <1>1, <1>4, <1>12, <2>1, <4>2
    <3>3. Lack(e2, f, m, v) = Lack(e, f, a, v)
      BY <1>1, <1>5, <2>1 DEF Lack
    <3>4. QED
      BY <3>1, <3>2, <3>3
  <2>2. CASE m # b
    <3>1. m \in M /\ m # a
      BY <2>2
    <3>2. h[m] = h[ch[v][m]] + co[m] + Lack(e, f, m, v)
      BY <1>2, <3>1
    <3>3. h2[m] = h[m] /\ co2[m] = co[m]
      BY <1>1, <1>4, <1>12, <2>2, <3>1
    <3>4. h2[ch2[v][m]] = h[ch[v][m]]
      <4>1. ch[v][m] \in M \cup {NULL}
        BY <1>3, <3>1
      <4>2. CASE ch[v][m] = a
        BY <1>1, <1>4, <1>12, <3>1, <4>2
      <4>3. CASE ch[v][m] # a
        <5>1. ch2[v][m] = ch[v][m] /\ ch[v][m] # b /\ ch[v][m] \in Node
          BY <1>1, <1>12, <3>1, <4>1, <4>3
        <5>2. QED
          BY <1>4, <5>1
      <4>4. QED
        BY <4>2, <4>3
    <3>5. Lack(e2, f, m, v) = Lack(e, f, m, v)
      BY <1>1, <1>5, <3>1 DEF Lack
    <3>6. QED
      BY <3>2, <3>3, <3>4, <3>5
  <2>3. QED
    BY <2>1, <2>2
<1>7. \A m \in (M \ {a}) \cup {b} : co2[m] \in Hue
  BY <1>2, <1>12
<1>8. Balance((M \ {a}) \cup {b}, ch2, co2, h2, e2, f)
  BY <1>4, <1>6, <1>7 DEF Balance
<1>9. ASSUME NEW m \in (M \ {a}) \cup {b}, co2[m] = 0
      PROVE  m # r2 /\ co2[pa2[m]] = 1
  <2>1. CASE m = b
    <3>1. a # r /\ co[pa[a]] = 1
      BY <1>1, <1>9, <1>12, <2>1 DEF Reds
    <3>2. pa[a] \in M /\ pa[a] # a
      BY <3>1, <1>3, TreeFacts
    <3>3. r \in M \cup {NULL}
      BY SpanIn DEF Tree
    <3>4. QED
      BY <1>1, <1>12, <2>1, <3>1, <3>2, <3>3
  <2>2. CASE m # b
    <3>1. m \in M /\ m # a /\ co[m] = 0
      BY <1>9, <1>12, <2>2
    <3>2. m # r /\ co[pa[m]] = 1
      BY <1>1, <3>1 DEF Reds
    <3>3. pa[m] \in M
      BY <3>1, <3>2, TreeFacts
    <3>4. QED
      BY <1>12, <2>2, <3>1, <3>2, <3>3
  <2>3. QED
    BY <2>1, <2>2
<1>10. Reds((M \ {a}) \cup {b}, r2, pa2, co2, NULL)
  BY <1>9 DEF Reds
<1>11. QED
  BY <1>5, <1>8, <1>10

(* Node x, with no more than one child, takes the place and the color of k *)
(* above it, and its child its own, where a black node may be missing.     *)
Handed(M, k, x, c, pa, co, co2, e) ==
  /\ \A m \in M \ {k} : co2[m] = IF m = x THEN co[k] ELSE IF m = c THEN 1 ELSE co[m]
  /\ e = IF c = NULL /\ co[x] = 1 THEN IF pa[x] = k THEN x ELSE pa[x] ELSE NULL

Replacing(M, k, x, s, c, f, r, ch, pa, co, sp, h, t) ==
  /\ Tree(M, r, ch, pa, sp) /\ Balance(M, ch, co, h, NULL, t) /\ Reds(M, r, pa, co, NULL)
  /\ k \in M /\ x \in sp[k] /\ x # k /\ s \in Side /\ ch[Other(s)][x] = NULL
  /\ c = ch[s][x] /\ f \in Side /\ ch[f][pa[x]] = x

LEMMA SupplantRules ==
  ASSUME NEW M, NEW r, NEW ch, NEW pa, NEW co, NEW sp, NEW h, NEW t,
         NEW k, NEW x, NEW s, NEW c, NEW f, Replacing(M, k, x, s, c, f, r, ch, pa, co, sp, h, t),
         NEW r2, NEW ch2, NEW pa2, NEW co2,
         Supplanted(M, k, x, c, r, ch, pa, r2, ch2, pa2),
         NEW e, Handed(M, k, x, c, pa, co, co2, e)
  PROVE  /\ \E h2 : Balance(M \ {k}, ch2, co2, h2, e, f)
         /\ Reds(M \ {k}, r2, pa2, co2, NULL)
         /\ e \in (M \ {k}) \cup {NULL}
<1>0. /\ Tree(M, r, ch, pa, sp) /\ Balance(M, ch, co, h, NULL, t) /\ Reds(M, r, pa, co, NULL)
      /\ k \in M /\ x \in sp[k] /\ x # k /\ s \in Side /\ ch[Other(s)][x] = NULL
      /\ c = ch[s][x] /\ f \in Side /\ ch[f][pa[x]] = x
  BY DEF Replacing
<1> USE <1>0
<1> DEFINE N == M \ {x}
           co1 == [m \in N |-> IF m = c THEN co[x] ELSE co[m]]
           e1 == IF c = NULL /\ co[x] = 1 THEN pa[x] ELSE NULL
<1>1. PICK ch1, pa1 : InHalves(M, k, x, c, r, ch, pa, ch1, pa1, ch2, pa2)
  BY Halves, Zenon
<1>2. /\ \A m \in N, v \in Side : ch1[v][m] = IF ch[v][m] = x THEN c ELSE ch[v][m]
      /\ \A m \in N : pa1[m] = IF m = c THEN pa[x] ELSE pa[m]
      /\ r = IF r = x THEN c ELSE r
      /\ \A v \in Side : ch2[v][x] = ch1[v][k]
      /\ \A m \in N \ {k}, v \in Side : ch2[v][m] = IF ch1[v][m] = k THEN x ELSE ch1[v][m]
      /\ pa2[x] = pa1[k]
      /\ \A m \in N \ {k} : pa2[m] = IF pa1[m] = k THEN x ELSE pa1[m]
      /\ x \in M /\ x # r /\ k \in N /\ x \in Key /\ c # k
  BY <1>1 DEF InHalves
<1>3. x \notin N /\ r2 = IF r = k THEN x ELSE r
  BY DEF Supplanted
<1>4. \A m \in N : co1[m] = IF m = c THEN co[x] ELSE co[m]
  OBVIOUS
<1>5. e1 = IF c = NULL /\ co[x] = 1 THEN pa[x] ELSE NULL
  OBVIOUS
<1>6. pa[x] \in N
  <2>1. x # NULL /\ pa[x] \in M
    BY <1>2, TreeFacts, Keys
  <2>2. \A v \in Side : ch[v][x] # x
    BY <1>2, <2>1, TreeFacts
  <2>3. QED
    BY <1>2, <2>1, <2>2, TreeFacts
<1>7. c # NULL => co[x] = 1
  BY <1>2, OnlyChild
<1> HIDE DEF co1, e1
<1>8. PICK sp1 : Tree(N, r, ch1, pa1, sp1)
  BY <1>2, Cut
<1>16. CutOut(M, x, c, r, ch, pa, co, r, ch1, pa1, co1, e1)
  BY <1>2, <1>4, <1>5 DEF CutOut
<1>19. x \in M
  BY <1>2
<1>18. (\E h1 : Balance(N, ch1, co1, h1, e1, f)) /\ Reds(N, r, pa1, co1, NULL)
  BY <1>16, <1>19, CutRules, Zenon
<1>9. PICK h1 : Balance(N, ch1, co1, h1, e1, f)
  BY <1>18
<1>10. Reds(N, r, pa1, co1, NULL)
  BY <1>18
<1>11. e1 \in N \cup {NULL} /\ e = IF e1 = k THEN x ELSE e1
  <2>1. k # NULL
    BY <1>2, SpanIn, Keys DEF Tree
  <2>2. QED
    BY <1>5, <1>6, <2>1 DEF Handed
<1>12. co2[x] = co1[k] /\ \A m \in N \ {k} : co2[m] = co1[m]
  BY <1>2, <1>4, <1>7, SpanIn, Keys DEF Tree, Handed
<1> HIDE DEF N
<1>17. Renamed(N, k, x, r, ch1, pa1, co1, r2, ch2, pa2, co2)
  BY <1>2, <1>3, <1>12 DEF Renamed
<1>13. /\ \E h2 : Balance((N \ {k}) \cup {x}, ch2, co2, h2, e, f)
       /\ Reds((N \ {k}) \cup {x}, r2, pa2, co2, NULL)
  BY <1>2, <1>3, <1>8, <1>9, <1>10, <1>11, <1>17, RenameRules
<1>14. (N \ {k}) \cup {x} = M \ {k}
  BY <1>2 DEF N
<1>15. QED
  BY <1>11, <1>13, <1>14 DEF N

(* A new red leaf k, under q.                                              *)
LEMMA AttachRules ==
  ASSUME NEW M, NEW r, NEW ch, NEW pa, NEW co, NEW sp, NEW h, NEW t,
         Tree(M, r, ch, pa, sp), Balance(M, ch, co, h, NULL, t), Reds(M, r, pa, co, NULL),
         NEW k \in Key, k \notin M, NEW q \in M, NEW s \in Side, ch[s][q] = NULL,
         NEW ch2, NEW pa2, NEW co2,
         \A m \in M, v \in Side : ch2[v][m] = IF m = q /\ v = s THEN k ELSE ch[v][m],
         \A v \in Side : ch2[v][k] = NULL,
         \A m \in M : pa2[m] = pa[m],
         co2[k] = 0, \A m \in M : co2[m] = co[m]
  PROVE  (\E h2 : Balance(M \cup {k}, ch2, co2, h2, NULL, t)) /\ Reds(M \cup {k}, r, pa2, co2, k)
<1> DEFINE h2 == [m \in Node |-> IF m = k THEN 0 ELSE h[m]]
<1>1. M \subseteq Key /\ NULL \notin M /\ M \subseteq Node /\ NULL \in Node /\ k # NULL /\ k \in Node
  BY SpanIn, Keys DEF Tree, Node
<1>2. /\ h \in [Node -> Nat] /\ h[NULL] = 0
      /\ \A m \in M : co[m] \in Hue
      /\ \A m \in M, v \in Side : h[m] = h[ch[v][m]] + co[m] + Lack(NULL, t, m, v)
  BY DEF Balance
<1>3. \A m \in M, v \in Side : ch[v][m] \in M \cup {NULL}
  BY SpanIn DEF Tree
<1>4. h2 \in [Node -> Nat] /\ h2[NULL] = 0 /\ \A m \in Node : h2[m] = IF m = k THEN 0 ELSE h[m]
  BY <1>1, <1>2
<1> HIDE DEF h2
<1>5. ASSUME NEW m \in M \cup {k}, NEW v \in Side
      PROVE  h2[m] = h2[ch2[v][m]] + co2[m] + Lack(NULL, t, m, v)
  <2>1. CASE m = k
    BY <1>1, <1>4, <2>1 DEF Lack
  <2>2. CASE m # k
    <3>1. h[m] = h[ch[v][m]] + co[m] + Lack(NULL, t, m, v) /\ h2[m] = h[m] /\ co2[m] = co[m]
      BY <1>1, <1>2, <1>4, <2>2
    <3>2. h2[ch2[v][m]] = h[ch[v][m]]
      <4>1. CASE m = q /\ v = s
        BY <1>1, <1>2, <1>4, <4>1
      <4>2. CASE ~(m = q /\ v = s)
        <5>1. ch2[v][m] = ch[v][m] /\ ch[v][m] # k /\ ch[v][m] \in Node
          BY <1>1, <1>3, <2>2, <4>2
        <5>2. QED
          BY <1>4, <5>1
      <4>3. QED
        BY <4>1, <4>2
    <3>3. QED
      BY <3>1, <3>2
  <2>3. QED
    BY <2>1, <2>2
<1>6. Balance(M \cup {k}, ch2, co2, h2, NULL, t)
  BY <1>2, <1>4, <1>5 DEF Balance, Hue
<1>7. ASSUME NEW m \in M, co2[m] = 0
      PROVE  m # r /\ co2[pa2[m]] = 1
  <2>1. m # r /\ co[pa[m]] = 1
    BY <1>1, <1>7 DEF Reds
  <2>2. pa[m] \in M
    BY <2>1, TreeFacts
  <2>3. QED
    BY <2>1, <2>2
<1>8. Reds(M \cup {k}, r, pa2, co2, k)
  BY <1>7 DEF Reds
<1>9. QED
  BY <1>6, <1>8

(* The first node.                                                         *)
LEMMA FirstRules ==
  ASSUME NEW k \in Key, NEW ch2, NEW pa2, NEW co2, NEW t, \A v \in Side : ch2[v][k] = NULL,
         pa2[k] = NULL, co2[k] = 0
  PROVE  /\ \E sp2 : Tree({k}, k, ch2, pa2, sp2)
         /\ \E h2 : Balance({k}, ch2, co2, h2, NULL, t)
         /\ Reds({k}, k, pa2, co2, k)
<1> DEFINE sp2 == [m \in {k, NULL} |-> IF m = k THEN {k} ELSE {}]
           h2 == [m \in Node |-> 0]
<1>1. k # NULL /\ \A v \in Side : ~Beyond(v, k, k)
  BY Keys, Order
<1>2. Spans({k}, k, ch2, sp2)
  BY <1>1 DEF Spans
<1>3. Parents({k}, k, ch2, pa2)
  BY DEF Parents
<1>4. Balance({k}, ch2, co2, h2, NULL, t)
  BY <1>1 DEF Balance, Hue, Lack, Node
<1>5. Reds({k}, k, pa2, co2, k)
  BY DEF Reds
<1>6. QED
  BY <1>2, <1>3, <1>4, <1>5 DEF Tree

(* The root becomes black.                                                 *)
LEMMA RootRules ==
  ASSUME NEW M, NEW r, NEW ch, NEW pa, NEW co, NEW sp, NEW h, NEW t,
         Tree(M, r, ch, pa, sp), Balance(M, ch, co, h, NULL, t), r \in M, co[r] = 0, Reds(M, r, pa, co, r),
         NEW co2, \A m \in M : co2[m] = IF m = r THEN 1 ELSE co[m]
  PROVE  (\E h2 : Balance(M, ch, co2, h2, NULL, t)) /\ Reds(M, r, pa, co2, NULL)
<1> DEFINE h2 == [m \in Node |-> IF m = r THEN h[m] + 1 ELSE h[m]]
<1>1. M \subseteq Key /\ NULL \notin M /\ M \subseteq Node /\ NULL \in Node
  BY SpanIn, Keys DEF Tree, Node
<1>2. /\ h \in [Node -> Nat] /\ h[NULL] = 0
      /\ \A m \in M : co[m] \in Hue
      /\ \A m \in M, v \in Side : h[m] = h[ch[v][m]] + co[m] + Lack(NULL, t, m, v)
  BY DEF Balance
<1>3. \A m \in M, v \in Side : ch[v][m] \in M \cup {NULL} /\ ch[v][m] # r
  <2>1. \A m \in M, v \in Side : ch[v][m] \in M \cup {NULL}
    BY SpanIn DEF Tree
  <2>2. QED
    BY <1>1, <2>1, TreeFacts
<1>4. h2 \in [Node -> Nat] /\ h2[NULL] = 0 /\ \A m \in Node : h2[m] = IF m = r THEN h[m] + 1 ELSE h[m]
  BY <1>1, <1>2
<1> HIDE DEF h2
<1>5. ASSUME NEW m \in M, NEW v \in Side
      PROVE  h2[m] = h2[ch[v][m]] + co2[m] + Lack(NULL, t, m, v)
  <2>1. /\ h[m] = h[ch[v][m]] + co[m] + Lack(NULL, t, m, v) /\ h[ch[v][m]] \in Nat
        /\ Lack(NULL, t, m, v) = 0 /\ co[m] \in {0, 1} /\ ch[v][m] \in Node
    <3>1. Lack(NULL, t, m, v) = 0
      BY <1>1 DEF Lack
    <3>2. ch[v][m] \in Node
      BY <1>1, <1>3
    <3>3. QED
      BY <1>2, <3>1, <3>2 DEF Hue
  <2>2. h2[ch[v][m]] = h[ch[v][m]]
    BY <1>3, <1>4, <2>1
  <2>3. CASE m = r
    <3>1. h2[m] = h[m] + 1 /\ co2[m] = 1 /\ co[m] = 0
      BY <1>1, <1>4, <2>3
    <3>2. QED
      BY <2>1, <2>2, <3>1
  <2>4. CASE m # r
    <3>1. h2[m] = h[m] /\ co2[m] = co[m]
      BY <1>1, <1>4, <2>4
    <3>2. QED
      BY <2>1, <2>2, <3>1
  <2>5. QED
    BY <2>3, <2>4
<1>6. Balance(M, ch, co2, h2, NULL, t)
  BY <1>2, <1>4, <1>5 DEF Balance, Hue
<1>7. ASSUME NEW m \in M, co2[m] = 0
      PROVE  m # r /\ co2[pa[m]] = 1
  <2>1. m # r /\ co[pa[m]] = 1
    BY <1>1, <1>7 DEF Reds
  <2>2. pa[m] \in M
    BY <2>1, TreeFacts
  <2>3. QED
    BY <2>1, <2>2
<1>8. Reds(M, r, pa, co2, NULL)
  BY <1>7 DEF Reds
<1>9. QED
  BY <1>6, <1>8

-----------------------------------------------------------------------------
(* The calls of the red-black tree.                                        *)
RbPcs == {"ready", "find", "insert", "successor", "erase", "erased", "return", "destroyed"}

RbPhase ==
  /\ pc \in RbPcs
  /\ IF pc \in {"ready", "destroyed"} THEN op = NONE /\ key = NONE ELSE op \in Calls /\ key \in Key
  /\ pc \in {"ready", "find", "successor", "destroyed"} => ret = NONE
  /\ pc \in {"insert", "erase", "erased"} => ret = TRUE
  /\ pc = "return" => ret \in BOOLEAN
  /\ pc \notin {"find", "successor", "erase"} => p = NULL
  /\ pc # "find" => d = NONE
  /\ pc \in {"ready", "return", "erased", "destroyed"} => n = NULL
  /\ pc \in {"successor", "erase", "erased"} => op = "remove" /\ key \in alive
  /\ pc = "insert" => op = "insert"

(* Where a black node is missing, and what may be a red child of a red.    *)
Missing == IF pc = "erase" THEN p ELSE NULL
Newcomer == IF pc = "insert" THEN n ELSE NULL

RbPlace(sp) ==
  /\ pc = "find" => OnWay(RB!Members, root, child, sp, key, p, d, n)
  /\ pc = "insert" => n \in RB!Members /\ color[n] = 0
  /\ pc = "successor" =>
       /\ child["LEFT"][key] # NULL /\ child["RIGHT"][key] # NULL
       /\ OnEdge(sp, "RIGHT", child["RIGHT"][key], n)
       /\ p = IF n = child["RIGHT"][key] THEN n ELSE parent[n]
  /\ pc = "erase" => p \in RB!Members /\ n = child[RB!NodeSide][p] /\ (n # NULL => color[n] = 1)

RbInv(sp, h) ==
  /\ RB!TypeOK
  /\ RbPhase
  /\ pc # "destroyed" =>
       /\ Tree(RB!Members, root, child, parent, sp)
       /\ Balance(RB!Members, child, color, h, Missing, RB!NodeSide)
       /\ Reds(RB!Members, root, parent, color, Newcomer)
  /\ RbPlace(sp)

LEMMA RbTypes ==
  RB!TypeOK <=>
    /\ root \in RB!Members \cup {NULL}
    /\ child \in Links /\ parent \in Pointers
    /\ color \in Colors /\ alive \subseteq Key
    /\ pc \in RbPcs
    /\ op \in Calls \cup {NONE} /\ key \in Key \cup {NONE}
    /\ ret \in BOOLEAN \cup {NONE}
    /\ n \in RB!Members \cup {NULL} /\ p \in RB!Members \cup {NULL}
    /\ d \in Side \cup {NONE}
BY Zenon DEF RB!TypeOK, RB!Side, Side, Links, Node, Calls, Pointers, Colors, Hue, RB!RB_RED, RB!RB_BLACK, RbPcs

LEMMA RbTypesNext ==
  RB!TypeOK' <=>
    /\ root' \in RB!Members' \cup {NULL}
    /\ child' \in Links /\ parent' \in Pointers
    /\ color' \in Colors /\ alive' \subseteq Key
    /\ pc' \in RbPcs
    /\ op' \in Calls \cup {NONE} /\ key' \in Key \cup {NONE}
    /\ ret' \in BOOLEAN \cup {NONE}
    /\ n' \in RB!Members' \cup {NULL} /\ p' \in RB!Members' \cup {NULL}
    /\ d' \in Side \cup {NONE}
BY Zenon DEF RB!TypeOK, RB!Side, Side, Links, Node, Calls, Pointers, Colors, Hue, RB!RB_RED, RB!RB_BLACK, RbPcs

(* The tree as a record.                                                   *)
LEMMA RbTree ==
  ASSUME RB!TypeOK
  PROVE  /\ RB!tree \in Trees
         /\ RB!tree.root = root /\ RB!tree.child = child
         /\ RB!tree.parent = parent /\ RB!tree.color = color
<1>1. root \in Node /\ child \in Links /\ parent \in Pointers /\ color \in Colors
  BY RbTypes DEF Node, RB!Members
<1>2. QED
  BY <1>1 DEF RB!tree, Trees

(* If nothing is missing it is missing on either side.                     *)
LEMMA NoLack ==
  ASSUME NEW M, M \subseteq Key, NEW ch, NEW co, NEW h, NEW t, Balance(M, ch, co, h, NULL, t), NEW u
  PROVE  Balance(M, ch, co, h, NULL, u)
<1>1. \A m \in M, s \in Side : Lack(NULL, t, m, s) = 0 /\ Lack(NULL, u, m, s) = 0
  BY Keys DEF Lack
<1>2. QED
  BY <1>1, Zenon DEF Balance

(* What is missing on one side is there on the other, and its root is the  *)
(* sibling.                                                                *)
LEMMA LackSide ==
  ASSUME NEW M, NEW r, NEW ch, NEW pa, NEW co, NEW sp, NEW h, NEW q \in M, NEW t \in Side,
         Tree(M, r, ch, pa, sp), Balance(M, ch, co, h, q, t)
  PROVE  ch[Other(t)][q] \in M /\ ch[Other(t)][q] # NULL /\ ch[Other(t)][q] # ch[t][q]
<1>1. M \subseteq Key /\ NULL \notin M /\ Other(t) \in Side /\ Other(t) # t
  BY SpanIn, Keys, Sides DEF Tree
<1>2. ch[Other(t)][q] \in M \cup {NULL} /\ ch[t][q] \in M \cup {NULL}
  BY <1>1, SpanIn DEF Tree
<1>3. /\ h[q] = h[ch[t][q]] + co[q] + 1 /\ h[q] = h[ch[Other(t)][q]] + co[q] + 0
      /\ h[ch[t][q]] \in Nat /\ h[ch[Other(t)][q]] \in Nat /\ co[q] \in {0, 1} /\ h[NULL] = 0
  <2>1. Lack(q, t, q, t) = 1 /\ Lack(q, t, q, Other(t)) = 0
    BY <1>1 DEF Lack
  <2>2. /\ h[q] = h[ch[t][q]] + co[q] + 1 /\ h[q] = h[ch[Other(t)][q]] + co[q] + 0
        /\ h[NULL] = 0 /\ h \in [Node -> Nat] /\ co[q] \in {0, 1}
    BY <1>1, <2>1 DEF Balance, Hue
  <2>3. ch[t][q] \in Node /\ ch[Other(t)][q] \in Node
    BY <1>1, <1>2 DEF Node
  <2>4. QED
    BY <2>2, <2>3
<1>4. h[ch[Other(t)][q]] # 0 /\ h[ch[t][q]] # h[ch[Other(t)][q]]
  <2> DEFINE a == h[ch[t][q]]
             b == h[ch[Other(t)][q]]
  <2>1. a \in Nat /\ b \in Nat /\ co[q] \in {0, 1} /\ a + co[q] + 1 = b + co[q] + 0
    BY <1>3
  <2> HIDE DEF a, b
  <2>2. b # 0 /\ a # b
    BY <2>1
  <2>3. QED
    BY <2>2 DEF a, b
<1>5. QED
  BY <1>2, <1>3, <1>4

(* While the tree stays it is enough to look at where the call is.         *)
LEMMA RbTreeKept ==
  ASSUME NEW sp, NEW h, RbInv(sp, h), UNCHANGED <<root, child, parent, color, alive>>,
         pc \in {"ready", "find", "successor", "return"},
         pc' \in {"ready", "find", "successor", "return"}, RbPhase',
         n' \in alive \cup {NULL}, p' \in alive \cup {NULL}, d' \in Side \cup {NONE},
         pc' = "find" => OnWay(alive, root, child, sp, key', p', d', n'),
         pc' = "successor" => /\ child["LEFT"][key'] # NULL /\ child["RIGHT"][key'] # NULL
                              /\ OnEdge(sp, "RIGHT", child["RIGHT"][key'], n')
                              /\ p' = IF n' = child["RIGHT"][key'] THEN n' ELSE parent[n']
  PROVE  RbInv(sp, h)'
<1>1. RB!Members = alive /\ RB!Members' = alive /\ Missing = NULL /\ Missing' = NULL
      /\ Newcomer = NULL /\ Newcomer' = NULL
  BY DEF RB!Members, Missing, Newcomer
<1>2. /\ root \in alive \cup {NULL} /\ child \in Links /\ parent \in Pointers /\ color \in Colors /\ alive \subseteq Key
      /\ Tree(alive, root, child, parent, sp)
      /\ Balance(alive, child, color, h, NULL, RB!NodeSide)
      /\ Reds(alive, root, parent, color, NULL)
  BY <1>1, RbTypes DEF RbInv
<1>3. RB!TypeOK'
  <2>1. /\ pc' \in RbPcs /\ op' \in Calls \cup {NONE} /\ key' \in Key \cup {NONE} /\ ret' \in BOOLEAN \cup {NONE}
    BY DEF RbPhase
  <2>2. QED
    BY <1>1, <1>2, <2>1, RbTypesNext
<1>4. Balance(alive, child, color, h, NULL, RB!NodeSide')
  BY <1>2, NoLack
<1>5. RbPlace(sp)'
  BY <1>1 DEF RbPlace
<1>6. (pc # "destroyed" =>
        /\ Tree(RB!Members, root, child, parent, sp)
        /\ Balance(RB!Members, child, color, h, Missing, RB!NodeSide)
        /\ Reds(RB!Members, root, parent, color, Newcomer))'
  BY <1>1, <1>2, <1>4
<1>7. QED
  BY <1>3, <1>5, <1>6 DEF RbInv

(* If it changes this is what has to be shown.                             *)
LEMMA RbTreeChanged ==
  ASSUME NEW M, NEW sp2, NEW h2, NEW e, NEW f, NEW x, RB!Members' = M,
         Tree(M, root', child', parent', sp2), Balance(M, child', color', h2, e, f),
         Reds(M, root', parent', color', x),
         e = IF pc' = "erase" THEN p' ELSE NULL, x = IF pc' = "insert" THEN n' ELSE NULL,
         RbPhase', pc' \in {"insert", "erase", "erased", "return"},
         child' \in Links, parent' \in Pointers, color' \in Colors, alive' \subseteq Key,
         pc' = "insert" => n' \in M /\ color'[n'] = 0,
         pc' = "erase" => p' \in M /\ f \in Side /\ n' = child'[f][p'] /\ (n' # NULL => color'[n'] = 1)
  PROVE  RbInv(sp2, h2)'
<1>1. M \subseteq Key /\ NULL \notin M /\ root' \in M \cup {NULL}
  BY SpanIn, Keys DEF Tree
<1>2. Missing' = e /\ Newcomer' = x
  BY DEF Missing, Newcomer
<1>3. pc' = "erase" => RB!NodeSide' = f
  <2>1. ASSUME pc' = "erase"
        PROVE  RB!NodeSide' = f
    <3>1. p' \in M /\ f \in Side /\ n' = child'[f][p'] /\ e = p'
      BY <2>1
    <3>2. child'[Other(f)][p'] # child'[f][p']
      BY <3>1, LackSide
    <3>3. f = "LEFT" => child'["RIGHT"][p'] # n'
      BY <3>1, <3>2 DEF Other
    <3>4. f = "RIGHT" => child'["RIGHT"][p'] = n'
      BY <3>1
    <3>5. QED
      BY <3>1, <3>3, <3>4 DEF RB!NodeSide, Side
  <2>2. QED
    BY <2>1
<1>4. Balance(M, child', color', h2, Missing', RB!NodeSide')
  <2>1. CASE pc' = "erase"
    BY <1>2, <1>3, <2>1
  <2>2. CASE pc' # "erase"
    <3>1. e = NULL
      BY <2>2
    <3>2. Balance(M, child', color', h2, NULL, f)
      BY <3>1
    <3>3. Balance(M, child', color', h2, NULL, RB!NodeSide')
      BY <1>1, <3>2, NoLack
    <3>4. QED
      BY <1>2, <3>1, <3>3
  <2>3. QED
    BY <2>1, <2>2
<1>5. RB!TypeOK'
  <2>1. /\ pc' \in RbPcs /\ op' \in Calls \cup {NONE} /\ key' \in Key \cup {NONE} /\ ret' \in BOOLEAN \cup {NONE}
        /\ d' \in Side \cup {NONE}
    BY Zenon DEF RbPhase
  <2>2. n' \in M \cup {NULL}
    <3>1. CASE pc' = "erase"
      <4>1. p' \in M /\ f \in Side /\ n' = child'[f][p']
        BY <3>1
      <4>2. QED
        BY <4>1, SpanIn DEF Tree
    <3>2. CASE pc' # "erase"
      BY <3>2 DEF RbPhase
    <3>3. QED
      BY <3>1, <3>2
  <2>3. p' \in M \cup {NULL}
    BY DEF RbPhase
  <2>4. QED
    BY <1>1, <2>1, <2>2, <2>3, RbTypesNext
<1>6. RbPlace(sp2)'
  BY <1>3 DEF RbPlace
<1>7. (pc # "destroyed" =>
        /\ Tree(RB!Members, root, child, parent, sp2)
        /\ Balance(RB!Members, child, color, h2, Missing, RB!NodeSide)
        /\ Reds(RB!Members, root, parent, color, Newcomer))'
  BY <1>2, <1>4
<1>8. QED
  BY <1>5, <1>6, <1>7 DEF RbInv

LEMMA RbCall ==
  ASSUME NEW sp, NEW h, RbInv(sp, h), NEW o \in Calls, NEW k \in Key, RB!Call(o, k)
  PROVE  RbInv(sp, h)'
<1>1. /\ pc = "ready" /\ pc' = "find" /\ op' = o /\ key' = k /\ n' = root
      /\ UNCHANGED <<root, child, parent, color, alive, ret, p, d>>
  BY DEF RB!Call, RB!treeVars
<1>2. RbPhase /\ RB!TypeOK /\ RB!Members = alive /\ Tree(alive, root, child, parent, sp)
  BY <1>1 DEF RbInv, RB!Members
<1>3. p = NULL /\ d = NONE /\ ret = NONE
  BY <1>1, <1>2 DEF RbPhase
<1>4. RbPhase'
  BY <1>1, <1>3 DEF RbPhase, RbPcs
<1>5. OnWay(alive, root, child, sp, k, NULL, d, root)
  BY <1>2, WayBegins
<1>6. root \in alive \cup {NULL}
  BY <1>2, RbTypes
<1>7. QED
  BY <1>1, <1>3, <1>4, <1>5, <1>6, RbTreeKept

LEMMA RbFind ==
  ASSUME NEW sp, NEW h, RbInv(sp, h), RB!find
  PROVE  RbInv(sp, h)'
<1> DEFINE t == IF key < n THEN "LEFT" ELSE "RIGHT"
<1>1. /\ pc = "find" /\ n # NULL /\ n # key /\ p' = n /\ d' = t /\ n' = child[t][n]
      /\ UNCHANGED <<root, child, parent, color, alive, pc, op, key, ret>>
  BY DEF RB!find, RB!treeVars, RB!callVars
<1>2. /\ RbPhase /\ RB!TypeOK /\ RB!Members = alive /\ Tree(alive, root, child, parent, sp)
      /\ OnWay(alive, root, child, sp, key, p, d, n)
  BY <1>1 DEF RbInv, RbPlace, RB!Members
<1>3. n \in alive /\ key \in Key /\ n \in Key
  BY <1>1, <1>2, RbTypes, SpanIn DEF RbPhase, Tree
<1>4. t \in Side /\ Beyond(t, n, key)
  BY <1>1, <1>3, Keys DEF Side, Beyond
<1>5. RbPhase'
  BY <1>1, <1>2 DEF RbPhase
<1>6. OnWay(alive, root, child, sp, key, n, t, child[t][n])
  BY <1>2, <1>3, <1>4, WayDown
<1>7. child[t][n] \in alive \cup {NULL}
  BY <1>2, <1>3, <1>4, SpanIn DEF Tree
<1>8. QED
  BY <1>1, <1>3, <1>4, <1>5, <1>6, <1>7, RbTreeKept

LEMMA RbAnswered ==
  ASSUME NEW sp, NEW h, RbInv(sp, h), RB!found \/ RB!not_found
  PROVE  RbInv(sp, h)'
<1>1. /\ pc = "find" /\ pc' = "return" /\ ret' \in BOOLEAN
      /\ n' = NULL /\ p' = NULL /\ d' = NONE
      /\ UNCHANGED <<root, child, parent, color, alive, op, key>>
  BY Zenon DEF RB!found, RB!not_found, RB!Return, RB!treeVars, RB!callVars
<1>2. RbPhase
  BY DEF RbInv
<1>3. RbPhase'
  BY <1>1, <1>2 DEF RbPhase, RbPcs
<1>4. QED
  BY <1>1, <1>3, RbTreeKept

LEMMA RbReturn ==
  ASSUME NEW sp, NEW h, RbInv(sp, h), RB!return
  PROVE  RbInv(sp, h)'
<1>1. /\ pc = "return" /\ pc' = "ready" /\ op' = NONE /\ key' = NONE /\ ret' = NONE
      /\ UNCHANGED <<root, child, parent, color, alive, n, p, d>>
  BY DEF RB!return, RB!treeVars, RB!loopVars
<1>2. n = NULL /\ p = NULL /\ d = NONE
  BY <1>1 DEF RbInv, RbPhase
<1>3. RbPhase'
  BY <1>1, <1>2 DEF RbPhase, RbPcs
<1>4. QED
  BY <1>1, <1>2, <1>3, RbTreeKept

LEMMA RbDown ==
  ASSUME NEW sp, NEW h, RbInv(sp, h), RB!erase_down
  PROVE  RbInv(sp, h)'
<1> DEFINE right == child["RIGHT"][key]
<1>1. /\ pc = "find" /\ n = key /\ op = "remove" /\ pc' = "successor" /\ n' = right /\ p' = right
      /\ d' = NONE /\ child["LEFT"][key] # NULL /\ right # NULL
      /\ UNCHANGED <<root, child, parent, color, alive, op, key, ret>>
  BY DEF RB!erase_down, RB!treeVars, RB!callVars, RB!Side
<1>2. RbPhase /\ RB!TypeOK /\ RB!Members = alive /\ Tree(alive, root, child, parent, sp)
  BY <1>1 DEF RbInv, RB!Members
<1>3. key \in alive /\ "RIGHT" \in Side
  <2>1. key \in Key /\ key \in alive \cup {NULL}
    BY <1>1, <1>2, RbTypes DEF RbPhase
  <2>2. QED
    BY <2>1, Keys DEF Side
<1>4. right \in alive
  BY <1>1, <1>2, <1>3, Kid
<1>5. OnEdge(sp, "RIGHT", right, right)
  BY <1>2, <1>4, SpanIn DEF Tree, OnEdge
<1>6. RbPhase'
  BY <1>1, <1>2, <1>3 DEF RbPhase, RbPcs
<1>7. QED
  BY <1>1, <1>4, <1>5, <1>6, RbTreeKept

LEMMA RbSuccessor ==
  ASSUME NEW sp, NEW h, RbInv(sp, h), RB!erase_successor
  PROVE  RbInv(sp, h)'
<1> DEFINE right == child["RIGHT"][key]
           next == child["LEFT"][n]
<1>1. /\ pc = "successor" /\ next # NULL /\ p' = n /\ n' = next
      /\ UNCHANGED <<root, child, parent, color, alive, pc, op, key, ret, d>>
  BY DEF RB!erase_successor, RB!treeVars, RB!callVars
<1>2. /\ RbPhase /\ RB!TypeOK /\ RB!Members = alive /\ Tree(alive, root, child, parent, sp)
      /\ child["LEFT"][key] # NULL /\ right # NULL /\ OnEdge(sp, "RIGHT", right, n) /\ key \in alive
  BY <1>1 DEF RbInv, RbPlace, RbPhase, RB!Members
<1>3. "RIGHT" \in Side /\ "LEFT" \in Side /\ Other("RIGHT") = "LEFT"
  BY DEF Side, Other
<1>4. right \in alive
  BY <1>2, <1>3, Kid
<1>5. OnEdge(sp, "RIGHT", right, next)
  <2>1. child[Other("RIGHT")][n] # NULL
    BY <1>1, <1>3
  <2>2. OnEdge(sp, "RIGHT", right, child[Other("RIGHT")][n])
    BY <1>2, <1>3, <1>4, <2>1, EdgeDown
  <2>3. QED
    BY <1>3, <2>2
<1>6. n \in alive /\ next \in alive /\ parent[next] = n /\ next # right
  <2>1. n \in alive /\ n # key
    BY <1>2, <1>3, EdgeEnd
  <2>2. next \in alive /\ parent[next] = n
    BY <1>1, <1>2, <1>3, <2>1, Kid
  <2>3. next # right
    <3>1. parent[right] = key
      BY <1>2, <1>3, Kid
    <3>2. QED
      BY <2>1, <2>2, <3>1
  <2>4. QED
    BY <2>1, <2>2, <2>3
<1>7. RbPhase'
  BY <1>1, <1>2 DEF RbPhase, RbPcs
<1>8. d' = NONE
  BY <1>1, <1>2 DEF RbPhase
<1>9. QED
  BY <1>1, <1>2, <1>5, <1>6, <1>7, <1>8, RbTreeKept

LEMMA RbDestroy ==
  ASSUME NEW sp, NEW h, RbInv(sp, h), RB!treeint_rb_destroy
  PROVE  RbInv(sp, h)'
<1>1. /\ pc = "ready" /\ pc' = "destroyed" /\ alive' \subseteq alive /\ root' = NULL
      /\ UNCHANGED <<child, parent, color, op, key, ret, n, p, d>>
  BY DEF RB!treeint_rb_destroy, RB!callVars, RB!loopVars
<1>2. RbPhase /\ RB!TypeOK
  BY DEF RbInv
<1>3. n = NULL /\ p = NULL /\ d = NONE
  BY <1>1, <1>2 DEF RbPhase
<1>4. RB!TypeOK'
  BY <1>1, <1>2, <1>3, RbTypes, RbTypesNext DEF RbPcs
<1>5. RbPhase'
  BY <1>1, <1>2, <1>3 DEF RbPhase, RbPcs
<1>6. RbPlace(sp)'
  BY <1>1 DEF RbPlace
<1>7. QED
  BY <1>1, <1>4, <1>5, <1>6 DEF RbInv

(* What is so in the middle of an insertion ...                            *)
LEMMA InsertFacts ==
  ASSUME NEW sp, NEW h, RbInv(sp, h), pc = "insert"
  PROVE  /\ Tree(alive, root, child, parent, sp) /\ Balance(alive, child, color, h, NULL, RB!NodeSide)
         /\ Reds(alive, root, parent, color, n) /\ RbPhase
         /\ n \in alive /\ n \in Key /\ n # NULL /\ color[n] = 0 /\ alive \subseteq Key /\ NULL \notin alive
         /\ child \in Links /\ parent \in Pointers /\ color \in Colors
         /\ RB!tree \in Trees
         /\ RB!tree.root = root /\ RB!tree.child = child
         /\ RB!tree.parent = parent /\ RB!tree.color = color
<1>1. RB!Members = alive /\ Missing = NULL /\ Newcomer = n
  BY DEF RB!Members, Missing, Newcomer
<1>2. RB!TypeOK /\ RbPhase /\ n \in alive /\ color[n] = 0
  BY <1>1 DEF RbInv, RbPlace
<1>3. child \in Links /\ parent \in Pointers /\ color \in Colors /\ alive \subseteq Key
  BY <1>2, RbTypes
<1>4. QED
  BY <1>1, <1>2, <1>3, RbTree, Keys, Zenon DEF RbInv

(* ... and at its end.                                                     *)
LEMMA InsertEnds ==
  ASSUME pc = "insert", RbPhase, RB!Return(ret), UNCHANGED <<alive, op, key>>,
         alive \subseteq Key, child' \in Links, parent' \in Pointers, color' \in Colors,
         NEW sp2, Tree(alive, root', child', parent', sp2),
         NEW t, \E h2 : Balance(alive, child', color', h2, NULL, t), Reds(alive, root', parent', color', NULL)
  PROVE  \E sp3, h3 : RbInv(sp3, h3)'
<1>1. pc' = "return" /\ ret' = ret /\ n' = NULL /\ p' = NULL /\ d' = NONE
  BY DEF RB!Return
<1>2. RbPhase'
  BY <1>1 DEF RbPhase, RbPcs
<1>3. RB!Members' = alive
  BY <1>1 DEF RB!Members
<1>4. PICK h2 : Balance(alive, child', color', h2, NULL, t)
  OBVIOUS
<1>5. RbInv(sp2, h2)'
  BY <1>1, <1>2, <1>3, <1>4, RbTreeChanged
<1>6. QED
  BY <1>5

LEMMA RbInsertRoot ==
  ASSUME NEW sp, NEW h, RbInv(sp, h), RB!insert_root
  PROVE  \E sp3, h3 : RbInv(sp3, h3)'
<1>1. /\ pc = "insert" /\ parent[n] = NULL /\ color' = [color EXCEPT ![n] = 1] /\ RB!Return(ret)
      /\ UNCHANGED <<root, child, parent, alive, op, key>>
  BY DEF RB!insert_root, RB!callVars, RB!RB_BLACK
<1>2. /\ Tree(alive, root, child, parent, sp) /\ Balance(alive, child, color, h, NULL, RB!NodeSide)
      /\ Reds(alive, root, parent, color, n) /\ RbPhase
      /\ n \in alive /\ n \in Key /\ color[n] = 0 /\ alive \subseteq Key /\ NULL \notin alive
      /\ child \in Links /\ parent \in Pointers /\ color \in Colors
  BY <1>1, InsertFacts
<1>3. n = root
  BY <1>1, <1>2, TreeFacts
<1>4. color' \in Colors /\ \A m \in Key : color'[m] = IF m = n THEN 1 ELSE color[m]
  <2>1. 1 \in Hue /\ color \in Colors
    BY <1>2 DEF Hue
  <2>2. /\ [color EXCEPT ![n] = 1] \in Colors
        /\ \A m \in Key : [color EXCEPT ![n] = 1][m] = IF m = n THEN 1 ELSE color[m]
    BY <1>2, <2>1, ColorIs
  <2>3. QED
    BY <1>1, <2>2
<1>5. \A m \in alive : color'[m] = IF m = root THEN 1 ELSE color[m]
  BY <1>2, <1>3, <1>4
<1>6. (\E h2 : Balance(alive, child, color', h2, NULL, RB!NodeSide)) /\ Reds(alive, root, parent, color', NULL)
  BY <1>2, <1>3, <1>5, RootRules
<1>7. QED
  BY <1>1, <1>2, <1>4, <1>6, InsertEnds, Zenon

LEMMA RbInsertBlackParent ==
  ASSUME NEW sp, NEW h, RbInv(sp, h), RB!insert_black_parent
  PROVE  \E sp3, h3 : RbInv(sp3, h3)'
<1>1. /\ pc = "insert" /\ parent[n] # NULL /\ color[parent[n]] = 1 /\ RB!Return(ret)
      /\ UNCHANGED <<root, child, parent, color, alive, op, key>>
  BY DEF RB!insert_black_parent, RB!callVars, RB!treeVars, RB!RB_BLACK
<1>2. /\ Tree(alive, root, child, parent, sp) /\ Balance(alive, child, color, h, NULL, RB!NodeSide)
      /\ Reds(alive, root, parent, color, n) /\ RbPhase
      /\ n \in alive /\ n \in Key /\ alive \subseteq Key /\ NULL \notin alive
      /\ child \in Links /\ parent \in Pointers /\ color \in Colors
  BY <1>1, InsertFacts
<1>3. n # root
  BY <1>1, <1>2, TreeFacts
<1>4. Reds(alive, root, parent, color, NULL)
  BY <1>1, <1>2, <1>3 DEF Reds
<1>5. QED
  BY <1>1, <1>2, <1>4, InsertEnds

(* A new node is red and the only one that may be under a red one.         *)
LEMMA RbLink ==
  ASSUME NEW sp, NEW h, RbInv(sp, h), RB!rb_link_node
  PROVE  \E sp3, h3 : RbInv(sp3, h3)'
<1> DEFINE created == [s \in Side |-> [child[s] EXCEPT ![key] = NULL]]
           t0 == RB!set_parent_color(RB!tree, key, p, 0)
           t1 == WithChild(t0, created)
           t2 == IF p = NULL THEN WithRoot(t1, key) ELSE WithLink(t1, d, p, key)
<1>1. /\ pc = "find" /\ n = NULL /\ op = "insert" /\ alive' = alive \cup {key}
      /\ pc' = "insert" /\ ret' = TRUE /\ n' = key /\ p' = NULL /\ d' = NONE
      /\ UNCHANGED <<op, key>>
  BY DEF RB!rb_link_node, RB!callVars
<1>2. /\ RbPhase /\ RB!TypeOK /\ RB!Members = alive /\ Tree(alive, root, child, parent, sp)
      /\ OnWay(alive, root, child, sp, key, p, d, n)
      /\ Balance(alive, child, color, h, NULL, RB!NodeSide) /\ Reds(alive, root, parent, color, NULL)
  BY <1>1 DEF RbInv, RbPlace, RB!Members, Missing, Newcomer
<1>3. /\ alive \subseteq Key /\ sp[root] = alive /\ sp[NULL] = {} /\ key \in Key /\ key # NULL /\ key \in Node
      /\ root \in alive \cup {NULL}
  BY <1>1, <1>2, SpanIn, Keys DEF RbPhase, Tree, Node
<1>4. key \notin alive
  BY <1>1, <1>2, <1>3 DEF OnWay
<1>5. child \in Links /\ p \in Node /\ p \in alive \cup {NULL}
  <2>1. p \in alive \cup {NULL}
    BY <1>2, RbTypes
  <2>2. QED
    BY <1>2, <1>3, <2>1, RbTypes DEF Node
<1>6. /\ created \in Links
      /\ \A t \in Side, m \in Key : created[t][m] = IF m = key THEN NULL ELSE child[t][m]
  BY <1>3, <1>5 DEF Links, Node
<1>7. /\ RB!tree \in Trees /\ RB!tree.root = root /\ RB!tree.child = child
      /\ RB!tree.parent = parent /\ RB!tree.color = color
  BY <1>2, RbTree
<1>8. /\ t0 \in Trees /\ t0.root = root /\ t0.child = child
      /\ \A m \in Key : t0.parent[m] = IF m = key THEN p ELSE parent[m]
      /\ \A m \in Key : t0.color[m] = IF m = key THEN 0 ELSE color[m]
  <2>1. 0 \in Hue /\ p \in Node /\ key \in Node
    BY <1>3, <1>5 DEF Hue
  <2>2. QED
    BY <1>7, <2>1, SetParentColor
<1>9. RB!Become(t2)
  <2>1. RB!Side = Side
    BY RbSides
  <2>2. [t0 EXCEPT !.child = [s \in Side |-> [@[s] EXCEPT ![key] = NULL]]] = t1
    BY <1>8 DEF WithChild
  <2> HIDE DEF t0, t1
  <2>3. RB!Become(IF p = NULL THEN [t1 EXCEPT !.root = key] ELSE [t1 EXCEPT !.child[d][p] = key])
    BY <2>1, <2>2, Zenon DEF RB!rb_link_node, RB!RB_RED, t0
  <2>4. QED
    BY <2>3 DEF WithRoot, WithLink
<1> HIDE DEF t0, created
<1>10. /\ t1 \in Trees /\ t1.root = root /\ t1.child = created /\ t1.parent = t0.parent /\ t1.color = t0.color
  BY <1>6, <1>8, ChildChanged
<1> HIDE DEF t1
<1>11. CASE p = NULL
  <2>1. t2 = WithRoot(t1, key) /\ root = NULL
    BY <1>1, <1>2, <1>11 DEF OnWay
  <2>2. t2 \in Trees /\ t2.root = key /\ t2.child = created /\ t2.parent = t0.parent /\ t2.color = t0.color
    BY <1>3, <1>10, <2>1, RootChanged
  <2>3. root' = key /\ child' = created /\ parent' = t0.parent /\ color' = t0.color
    BY <1>9, <2>2 DEF RB!Become
  <2>4. child' \in Links /\ parent' \in Pointers /\ color' \in Colors
    BY <1>6, <1>8, <2>3, TreeParts
  <2>5. alive = {} /\ alive' = {key} /\ RB!Members' = {key}
    BY <1>1, <1>3, <2>1 DEF RB!Members
  <2>6. parent'[key] = NULL /\ color'[key] = 0 /\ \A v \in Side : child'[v][key] = NULL
    BY <1>3, <1>6, <1>8, <1>11, <2>3
  <2>7. /\ \E sp2 : Tree({key}, key, child', parent', sp2)
        /\ \E h2 : Balance({key}, child', color', h2, NULL, "LEFT")
        /\ Reds({key}, key, parent', color', key)
    BY <1>3, <2>6, FirstRules, Zenon
  <2>8. PICK sp2 : Tree({key}, key, child', parent', sp2)
    BY <2>7
  <2>9. PICK h2 : Balance({key}, child', color', h2, NULL, "LEFT")
    BY <2>7
  <2>10. RbPhase'
    BY <1>1, <1>2, <1>3 DEF RbPhase, RbPcs
  <2>11. RbInv(sp2, h2)'
    <3>1. Reds({key}, key, parent', color', key) /\ {key} \subseteq Key
      BY <1>3, <2>7
    <3>2. QED
      BY <1>1, <2>3, <2>4, <2>5, <2>6, <2>8, <2>9, <2>10, <3>1, RbTreeChanged
  <2>12. QED
    BY <2>11
<1>12. CASE p # NULL
  <2>1. t2 = WithLink(t1, d, p, key) /\ p \in alive /\ p \in Key /\ d \in Side /\ child[d][p] = NULL
        /\ Beyond(d, p, key)
        /\ \A m \in alive : p \in sp[m] /\ m # p => \A u \in Side : Beyond(u, m, key) <=> Beyond(u, m, p)
    BY <1>1, <1>2, <1>3, <1>5, <1>12 DEF OnWay
  <2>2. /\ t2 \in Trees /\ t2.root = root /\ t2.parent = t0.parent /\ t2.color = t0.color
        /\ \A u \in Side, m \in Key : t2.child[u][m] = IF u = d /\ m = p THEN key ELSE created[u][m]
    BY <1>3, <1>10, <2>1, LinkChanged
  <2>3. root' = root /\ child' = t2.child /\ parent' = t0.parent /\ color' = t0.color
    BY <1>9, <2>2 DEF RB!Become
  <2>4. child' \in Links /\ parent' \in Pointers /\ color' \in Colors
    BY <1>8, <2>2, <2>3, TreeParts
  <2>5. alive' = alive \cup {key} /\ RB!Members' = alive \cup {key} /\ alive' \subseteq Key
    BY <1>1, <1>3 DEF RB!Members
  <2>6. /\ \A m \in alive, u \in Side : child'[u][m] = IF m = p /\ u = d THEN key ELSE child[u][m]
        /\ \A u \in Side : child'[u][key] = NULL
        /\ \A m \in alive : parent'[m] = parent[m]
        /\ parent'[key] = p
        /\ color'[key] = 0
        /\ \A m \in alive : color'[m] = color[m]
    BY <1>3, <1>4, <1>6, <1>8, <2>1, <2>2, <2>3
  <2>7. \E sp2 : Tree(alive \cup {key}, root, child', parent', sp2)
    BY <1>2, <1>3, <1>4, <2>1, <2>6, Attach
  <2>8. /\ \E h2 : Balance(alive \cup {key}, child', color', h2, NULL, RB!NodeSide)
        /\ Reds(alive \cup {key}, root, parent', color', key)
    BY <1>2, <1>3, <1>4, <2>1, <2>6, AttachRules
  <2>9. PICK sp2 : Tree(alive \cup {key}, root, child', parent', sp2)
    BY <2>7
  <2>10. PICK h2 : Balance(alive \cup {key}, child', color', h2, NULL, RB!NodeSide)
    BY <2>8
  <2>11. RbPhase'
    BY <1>1, <1>2, <1>3 DEF RbPhase, RbPcs
  <2>12. RbInv(sp2, h2)'
    <3>1. Reds(alive \cup {key}, root, parent', color', key) /\ key \in alive \cup {key}
      BY <2>8
    <3>2. QED
      BY <1>1, <2>3, <2>4, <2>5, <2>6, <2>9, <2>10, <2>11, <3>1, RbTreeChanged
  <2>13. QED
    BY <2>12
<1>13. QED
  BY <1>11, <1>12

(* The node, its parent and its grandparent, who is black.                 *)
LEMMA RedParentFacts ==
  ASSUME NEW sp, NEW h, RbInv(sp, h), RB!RedParent,
         NEW q, q = parent[n], NEW g, g = RB!gparent, NEW s, s = RB!ParentSide
  PROVE  /\ q \in alive /\ q # NULL /\ color[q] = 0 /\ q # n /\ q # root /\ n # root
         /\ g \in alive /\ g # NULL /\ color[g] = 1 /\ parent[q] = g
         /\ s \in Side /\ child[s][g] = q /\ RB!uncle = child[Other(s)][g] /\ child[Other(s)][g] # q
         /\ \E u \in Side : child[u][q] = n /\ child[Other(u)][q] # n
<1>1. pc = "insert" /\ q # NULL /\ color[q] = 0
  BY DEF RB!RedParent, RB!Is, RB!RB_RED
<1>2. /\ Tree(alive, root, child, parent, sp) /\ Reds(alive, root, parent, color, n)
      /\ n \in alive /\ alive \subseteq Key /\ NULL \notin alive
  BY <1>1, InsertFacts
<1>3. n # root /\ q \in alive
  BY <1>1, <1>2, TreeFacts
<1>4. (\E u \in Side : child[u][q] = n /\ child[Other(u)][q] # n) /\ n # q
  <2>1. \E u \in Side : child[u][q] = n /\ child[Other(u)][q] # n
    BY <1>2, <1>3, ParentOf
  <2>2. PICK u \in Side : child[u][q] = n
    BY <2>1
  <2>3. child[u][q] # q
    BY <1>2, <1>3, <2>2, Kid
  <2>4. QED
    BY <2>1, <2>2, <2>3
<1>5. q # root /\ color[parent[q]] = 1
  BY <1>1, <1>2, <1>3, <1>4 DEF Reds
<1>6. g = parent[q]
  BY DEF RB!gparent
<1>7. g \in alive
  BY <1>2, <1>3, <1>5, <1>6, TreeFacts
<1>8. \E u \in Side : child[u][g] = q /\ child[Other(u)][g] # q
  BY <1>2, <1>3, <1>6, <1>7, ParentOf
<1>9. s \in Side /\ child[s][g] = q /\ child[Other(s)][g] # q
  <2>1. s = IF q # child["RIGHT"][g] THEN "LEFT" ELSE "RIGHT"
    BY DEF RB!ParentSide
  <2>2. QED
    BY <1>8, <2>1 DEF Side, Other
<1>10. RB!uncle = child[Other(s)][g]
  BY RbSides DEF RB!uncle
<1>11. QED
  BY <1>1, <1>2, <1>3, <1>4, <1>5, <1>6, <1>7, <1>9, <1>10

LEMMA RbInsertFlip ==
  ASSUME NEW sp, NEW h, RbInv(sp, h), RB!insert_flip
  PROVE  \E sp3, h3 : RbInv(sp3, h3)'
<1> DEFINE q == parent[n]
           g == RB!gparent
           s == RB!ParentSide
           w == child[Other(s)][g]
           c1 == [color EXCEPT ![w] = 1]
           c2 == [c1 EXCEPT ![q] = 1]
           c3 == [c2 EXCEPT ![g] = 0]
<1>1. /\ RB!RedParent /\ pc = "insert" /\ RB!Is(0, RB!uncle)
      /\ color' = [color EXCEPT ![RB!uncle] = 1, ![parent[n]] = 1, ![RB!gparent] = 0]
      /\ n' = RB!gparent
      /\ UNCHANGED <<root, child, parent, alive, pc, op, key, ret, p, d>>
  BY DEF RB!insert_flip, RB!callVars, RB!RB_BLACK, RB!RB_RED, RB!RedParent
<1>2. /\ q \in alive /\ q # NULL /\ color[q] = 0 /\ q # n /\ q # root /\ n # root
      /\ g \in alive /\ g # NULL /\ color[g] = 1 /\ parent[q] = g
      /\ s \in Side /\ child[s][g] = q /\ RB!uncle = w /\ w # q
  BY <1>1, RedParentFacts
<1>3. /\ Tree(alive, root, child, parent, sp) /\ Balance(alive, child, color, h, NULL, RB!NodeSide)
      /\ Reds(alive, root, parent, color, n) /\ RbPhase
      /\ n \in alive /\ alive \subseteq Key /\ NULL \notin alive
      /\ child \in Links /\ parent \in Pointers /\ color \in Colors
  BY <1>1, InsertFacts
<1>4. w # NULL /\ color[w] = 0
  BY <1>1, <1>2 DEF RB!Is
<1>5. w \in alive
  <2>1. w \in alive \cup {NULL}
    BY <1>2, <1>3, Sides, SpanIn DEF Tree
  <2>2. QED
    BY <1>4, <2>1
<1>6. color' = c3
  BY <1>1, <1>2
<1> HIDE DEF w, s, g
<1>7. w \in Key /\ q \in Key /\ g \in Key /\ 0 \in Hue /\ 1 \in Hue
  BY <1>2, <1>3, <1>5 DEF Hue
<1> HIDE DEF q
<1>8. c1 \in Colors /\ \A m \in Key : c1[m] = IF m = w THEN 1 ELSE color[m]
  BY <1>3, <1>7, ColorIs
<1> HIDE DEF c1
<1>9. c2 \in Colors /\ \A m \in Key : c2[m] = IF m = q THEN 1 ELSE c1[m]
  BY <1>7, <1>8, ColorIs
<1> HIDE DEF c2
<1>10. c3 \in Colors /\ \A m \in Key : c3[m] = IF m = g THEN 0 ELSE c2[m]
  BY <1>7, <1>9, ColorIs
<1> HIDE DEF c3
<1>11. color' \in Colors /\ \A m \in alive : color'[m] = IF m = g THEN 0 ELSE IF m = w \/ m = q THEN 1 ELSE color[m]
  BY <1>3, <1>6, <1>8, <1>9, <1>10
<1>12. (\E h2 : Balance(alive, child, color', h2, NULL, RB!NodeSide)) /\ Reds(alive, root, parent, color', g)
  <2>1. /\ q = child[s][g] /\ w = child[Other(s)][g] /\ parent[n] = q
    BY <1>2 DEF w, q
  <2>2. QED
    BY <1>2, <1>3, <1>4, <1>5, <1>11, <2>1, FlipDown
<1>13. PICK h2 : Balance(alive, child, color', h2, NULL, RB!NodeSide)
  BY <1>12
<1>14. /\ n' = g /\ g \in alive /\ color'[g] = 0 /\ RB!Members' = alive
  BY <1>1, <1>2, <1>11, Zenon DEF g, RB!Members
<1>15. RbPhase'
  BY <1>1, <1>3 DEF RbPhase
<1>16. RbInv(sp, h2)'
  <2>1. Reds(alive, root, parent, color', g)
    BY <1>12
  <2>2. QED
    BY <1>1, <1>3, <1>11, <1>13, <1>14, <1>15, <2>1, RbTreeChanged, Zenon
<1>17. QED
  BY <1>16

(* A rotation that brings y, the child of g on side s, up: first the links *)
(* of the two, and then the one above them.                                *)
LEMMA RotateLinks ==
  ASSUME NEW t \in Trees, NEW g \in Key, NEW y \in Key, g # y, NEW s \in Side,
         Hangs(t.child, g, t.parent[g]), t.parent[g] \notin {g, y},
         NEW z, z = t.child[Other(s)][y],
         NEW u \in Trees, u.root = t.root, u.parent[g] = t.parent[g], u.color[g] = t.color[g],
         \A v \in Side, m \in Key : u.child[v][m] =
           IF m = g /\ v = s THEN z ELSE IF m = y /\ v = Other(s) THEN g ELSE t.child[v][m],
         NEW c \in Hue, NEW t2, t2 = RB!rotate_set_parents(u, g, y, c)
  PROVE  /\ t2 \in Trees
         /\ t2.root = IF t.parent[g] = NULL THEN y ELSE t.root
         /\ \A v \in Side, m \in Key : t2.child[v][m] =
              IF m = g /\ v = s THEN z ELSE IF m = y /\ v = Other(s) THEN g
              ELSE IF m = t.parent[g] /\ t.child[v][m] = g THEN y ELSE t.child[v][m]
         /\ \A m \in Key : t2.parent[m] =
              IF m = y THEN t.parent[g] ELSE IF m = g THEN y ELSE u.parent[m]
         /\ \A m \in Key : t2.color[m] =
              IF m = y THEN t.color[g] ELSE IF m = g THEN c ELSE u.color[m]
<1>1. Hangs(u.child, g, u.parent[g])
  <2>1. t.parent[g] \in Node
    BY TreeParts DEF Pointers
  <2>2. ASSUME t.parent[g] # NULL
        PROVE  \E v \in Side : u.child[v][t.parent[g]] = g /\ u.child[Other(v)][t.parent[g]] # g
    <3>1. PICK v \in Side : t.child[v][t.parent[g]] = g /\ t.child[Other(v)][t.parent[g]] # g
      BY <2>2 DEF Hangs
    <3>2. t.parent[g] \in Key
      BY <2>1, <2>2 DEF Node
    <3>3. u.child[v][t.parent[g]] = g /\ u.child[Other(v)][t.parent[g]] # g
      BY <3>1, <3>2, Sides
    <3>4. QED
      BY <3>3
  <2>3. QED
    BY <2>2 DEF Hangs
<1>2. /\ t2 \in Trees
      /\ t2.root = IF u.parent[g] = NULL THEN y ELSE u.root
      /\ \A x \in Key : t2.parent[x] = IF x = y THEN u.parent[g] ELSE IF x = g THEN y ELSE u.parent[x]
      /\ \A x \in Key : t2.color[x] = IF x = y THEN u.color[g] ELSE IF x = g THEN c ELSE u.color[x]
      /\ \A v \in Side, x \in Key : t2.child[v][x] =
           IF x = u.parent[g] /\ u.child[v][x] = g THEN y ELSE u.child[v][x]
  BY <1>1, RotateSetParents
<1>3. ASSUME NEW v \in Side, NEW m \in Key
      PROVE  t2.child[v][m] =
              IF m = g /\ v = s THEN z ELSE IF m = y /\ v = Other(s) THEN g
              ELSE IF m = t.parent[g] /\ t.child[v][m] = g THEN y ELSE t.child[v][m]
  <2>1. t2.child[v][m] = IF m = t.parent[g] /\ u.child[v][m] = g THEN y ELSE u.child[v][m]
    BY <1>2
  <2>2. u.child[v][m] =
           IF m = g /\ v = s THEN z ELSE IF m = y /\ v = Other(s) THEN g ELSE t.child[v][m]
    OBVIOUS
  <2>3. QED
    BY <2>1, <2>2
<1>4. QED
  BY <1>2, <1>3

(* Its colors as an insertion, and an erasure with a red sibling, have it. *)
LEMMA RotateIs ==
  ASSUME NEW t \in Trees, NEW g \in Key, NEW y \in Key, g # y, NEW s \in Side,
         Hangs(t.child, g, t.parent[g]), t.parent[g] \notin {g, y},
         NEW z, z = t.child[Other(s)][y], z # g,
         NEW c \in Hue, NEW t2,
         t2 = RB!rotate_set_parents(RB!set_parent_color(RB!turn(t, g, y, s), z, g, 1), g, y, c)
  PROVE  /\ t2 \in Trees
         /\ t2.root = IF t.parent[g] = NULL THEN y ELSE t.root
         /\ \A v \in Side, m \in Key : t2.child[v][m] =
              IF m = g /\ v = s THEN z ELSE IF m = y /\ v = Other(s) THEN g
              ELSE IF m = t.parent[g] /\ t.child[v][m] = g THEN y ELSE t.child[v][m]
         /\ \A m \in Key : t2.parent[m] =
              IF m = y THEN t.parent[g] ELSE IF m = g THEN y ELSE IF m = z THEN g ELSE t.parent[m]
         /\ \A m \in Key : t2.color[m] =
              IF m = y THEN t.color[g] ELSE IF m = g THEN c ELSE IF m = z THEN 1 ELSE t.color[m]
<1> DEFINE t1 == RB!turn(t, g, y, s)
           u == RB!set_parent_color(t1, z, g, 1)
<1>1. /\ t1 \in Trees /\ t1.root = t.root /\ t1.parent = t.parent /\ t1.color = t.color
      /\ \A v \in Side, m \in Key : t1.child[v][m] =
              IF m = g /\ v = s THEN t.child[Other(s)][y]
              ELSE IF m = y /\ v = Other(s) THEN g ELSE t.child[v][m]
  BY TurnIs
<1>2. z \in Node /\ g \in Node /\ 1 \in Hue
  BY TreeParts, Sides DEF Links, Node, Hue
<1> HIDE DEF t1
<1>3. /\ u \in Trees /\ u.root = t1.root /\ u.child = t1.child
      /\ \A x \in Key : u.parent[x] = IF x = z THEN g ELSE t1.parent[x]
      /\ \A x \in Key : u.color[x] = IF x = z THEN 1 ELSE t1.color[x]
  <2>1. t1 \in Trees /\ z \in Node /\ g \in Node /\ 1 \in Hue
    BY <1>1, <1>2
  <2>2. QED
    BY ONLY <2>1, SetParentColor
<1>4. t2 = RB!rotate_set_parents(u, g, y, c)
  BY DEF t1
<1> HIDE DEF u
<1>5. /\ u.root = t.root /\ u.parent[g] = t.parent[g] /\ u.color[g] = t.color[g]
      /\ \A v \in Side, m \in Key : u.child[v][m] =
           IF m = g /\ v = s THEN z ELSE IF m = y /\ v = Other(s) THEN g ELSE t.child[v][m]
      /\ \A x \in Key : u.parent[x] = IF x = z THEN g ELSE t.parent[x]
      /\ \A x \in Key : u.color[x] = IF x = z THEN 1 ELSE t.color[x]
  BY <1>1, <1>3
<1>6. /\ t2 \in Trees
      /\ t2.root = IF t.parent[g] = NULL THEN y ELSE t.root
      /\ \A v \in Side, m \in Key : t2.child[v][m] =
              IF m = g /\ v = s THEN z ELSE IF m = y /\ v = Other(s) THEN g
              ELSE IF m = t.parent[g] /\ t.child[v][m] = g THEN y ELSE t.child[v][m]
      /\ \A m \in Key : t2.parent[m] =
              IF m = y THEN t.parent[g] ELSE IF m = g THEN y ELSE u.parent[m]
      /\ \A m \in Key : t2.color[m] =
              IF m = y THEN t.color[g] ELSE IF m = g THEN c ELSE u.color[m]
  BY <1>3, <1>4, <1>5, RotateLinks, SMTT(30)
<1>7. QED
  BY <1>5, <1>6, SMTT(30)

(* Its colors as the end of an erasure has it: w is the outer child of y.  *)
LEMMA LastRotateIs ==
  ASSUME NEW t \in Trees, NEW g \in Key, NEW y \in Key, g # y, NEW s \in Side,
         Hangs(t.child, g, t.parent[g]), t.parent[g] \notin {g, y},
         NEW z, z = t.child[Other(s)][y], z # g,
         NEW w \in Key, w # g, w # y, w # z,
         NEW t2,
         t2 = RB!rotate_set_parents(
                RB!set_parent(RB!set_parent_color(RB!turn(t, g, y, s), w, y, 1), z, g), g, y, 1)
  PROVE  /\ t2 \in Trees
         /\ t2.root = IF t.parent[g] = NULL THEN y ELSE t.root
         /\ \A v \in Side, m \in Key : t2.child[v][m] =
              IF m = g /\ v = s THEN z ELSE IF m = y /\ v = Other(s) THEN g
              ELSE IF m = t.parent[g] /\ t.child[v][m] = g THEN y ELSE t.child[v][m]
         /\ \A m \in Key : t2.parent[m] =
              IF m = y THEN t.parent[g] ELSE IF m = g \/ m = w THEN y ELSE IF m = z THEN g ELSE t.parent[m]
         /\ \A m \in Key : t2.color[m] =
              IF m = y THEN t.color[g] ELSE IF m = g \/ m = w THEN 1 ELSE t.color[m]
<1> DEFINE t1 == RB!turn(t, g, y, s)
           u1 == RB!set_parent_color(t1, w, y, 1)
           u == RB!set_parent(u1, z, g)
<1>1. /\ t1 \in Trees /\ t1.root = t.root /\ t1.parent = t.parent /\ t1.color = t.color
      /\ \A v \in Side, m \in Key : t1.child[v][m] =
              IF m = g /\ v = s THEN t.child[Other(s)][y]
              ELSE IF m = y /\ v = Other(s) THEN g ELSE t.child[v][m]
  BY TurnIs, SMTT(30)
<1>2. z \in Node /\ g \in Node /\ w \in Node /\ y \in Node /\ 1 \in Hue
  BY TreeParts, Sides DEF Links, Node, Hue
<1>3. t2 = RB!rotate_set_parents(u, g, y, 1)
  OBVIOUS
<1> HIDE DEF t1
<1>4. /\ u1 \in Trees /\ u1.root = t1.root /\ u1.child = t1.child
      /\ \A x \in Key : u1.parent[x] = IF x = w THEN y ELSE t1.parent[x]
      /\ \A x \in Key : u1.color[x] = IF x = w THEN 1 ELSE t1.color[x]
  <2>1. t1 \in Trees /\ w \in Node /\ y \in Node /\ 1 \in Hue
    BY <1>1, <1>2
  <2>2. QED
    BY ONLY <2>1, SetParentColor
<1> HIDE DEF u1
<1>5. /\ u \in Trees /\ u.root = u1.root /\ u.child = u1.child /\ u.color = u1.color
      /\ \A x \in Key : u.parent[x] = IF x = z THEN g ELSE u1.parent[x]
  <2>1. u1 \in Trees /\ z \in Node /\ g \in Node
    BY <1>2, <1>4
  <2>2. QED
    BY ONLY <2>1, SetParent
<1> HIDE DEF u
<1>6. /\ u.root = t.root /\ u.parent[g] = t.parent[g] /\ u.color[g] = t.color[g]
      /\ \A v \in Side, m \in Key : u.child[v][m] =
           IF m = g /\ v = s THEN z ELSE IF m = y /\ v = Other(s) THEN g ELSE t.child[v][m]
      /\ \A x \in Key : u.parent[x] = IF x = z THEN g ELSE IF x = w THEN y ELSE t.parent[x]
      /\ \A x \in Key : u.color[x] = IF x = w THEN 1 ELSE t.color[x]
  BY <1>1, <1>4, <1>5
<1>7. /\ t2 \in Trees
      /\ t2.root = IF t.parent[g] = NULL THEN y ELSE t.root
      /\ \A v \in Side, m \in Key : t2.child[v][m] =
              IF m = g /\ v = s THEN z ELSE IF m = y /\ v = Other(s) THEN g
              ELSE IF m = t.parent[g] /\ t.child[v][m] = g THEN y ELSE t.child[v][m]
      /\ \A m \in Key : t2.parent[m] =
              IF m = y THEN t.parent[g] ELSE IF m = g THEN y ELSE u.parent[m]
      /\ \A m \in Key : t2.color[m] =
              IF m = y THEN t.color[g] ELSE IF m = g THEN 1 ELSE u.color[m]
  <2>1. 1 \in Hue /\ u \in Trees
    BY <1>2, <1>5
  <2>2. QED
    BY <1>3, <1>6, <2>1, RotateLinks
<1>8. QED
  BY <1>6, <1>7, SMTT(30)

(* In a tree the links are as a rotation needs them.                       *)
LEMMA HangsThere ==
  ASSUME NEW M, NEW r, NEW ch, NEW pa, NEW sp, Tree(M, r, ch, pa, sp),
         NEW g \in M, NEW s \in Side, NEW y, y = ch[s][g], y # NULL
  PROVE  /\ Hangs(ch, g, pa[g]) /\ pa[g] \notin {g, y} /\ ch[Other(s)][y] # g
         /\ g \in Key /\ y \in Key /\ y \in M /\ g # y /\ (pa[g] = NULL <=> g = r)
<1>1. M \subseteq Key /\ NULL \notin M /\ Other(s) \in Side
  BY SpanIn, Keys, Sides DEF Tree
<1>2. y \in M /\ y # g /\ pa[y] = g /\ pa[g] # y /\ pa[g] # g /\ y \in Key
  BY Kid
<1>3. pa[g] = NULL <=> g = r
  BY <1>1, TreeFacts
<1>4. Hangs(ch, g, pa[g])
  <2>1. CASE pa[g] = NULL
    BY <2>1 DEF Hangs
  <2>2. CASE pa[g] # NULL
    <3>1. pa[g] \in M
      BY <1>3, <2>2, TreeFacts
    <3>2. \E v \in Side : ch[v][pa[g]] = g /\ ch[Other(v)][pa[g]] # g
      BY <3>1, ParentOf
    <3>3. QED
      BY <3>2 DEF Hangs
  <2>3. QED
    BY <2>1, <2>2
<1>5. ch[Other(s)][y] # g
  <2>1. ASSUME ch[Other(s)][y] = g
        PROVE  FALSE
    <3>1. ch[Other(s)][y] # NULL
      BY <1>1, <2>1
    <3>2. pa[g] = y
      BY <1>1, <1>2, <2>1, <3>1, Kid
    <3>3. QED
      BY <1>2, <3>2
  <2>2. QED
    BY <2>1
<1>6. QED
  BY <1>1, <1>2, <1>3, <1>4, <1>5

(* Rotated links are what Turned says.                                     *)
LEMMA TurnedIs ==
  ASSUME NEW M, NEW r, NEW ch, NEW pa, NEW sp, Tree(M, r, ch, pa, sp),
         NEW g \in M, NEW s \in Side, NEW y, y = ch[s][g], y # NULL, NEW z, z = ch[Other(s)][y],
         NEW r2, NEW ch2, NEW pa2,
         r2 = IF pa[g] = NULL THEN y ELSE r,
         \A v \in Side, m \in Key : ch2[v][m] =
              IF m = g /\ v = s THEN z ELSE IF m = y /\ v = Other(s) THEN g
              ELSE IF m = pa[g] /\ ch[v][m] = g THEN y ELSE ch[v][m],
         \A m \in M : pa2[m] =
              IF m = y THEN pa[g] ELSE IF m = g THEN y ELSE IF m = z THEN g ELSE pa[m]
  PROVE  Turned(M, g, s, r, ch, pa, r2, ch2, pa2)
<1>1. M \subseteq Key /\ NULL \notin M
  BY SpanIn, Keys DEF Tree
<1>2. r2 = IF r = g THEN y ELSE r
  BY HangsThere
<1>3. ASSUME NEW m \in M, NEW v \in Side
      PROVE  ch2[v][m] = IF m = g /\ v = s THEN z
                         ELSE IF m = y /\ v = Other(s) THEN g
                         ELSE IF ch[v][m] = g THEN y ELSE ch[v][m]
  <2>1. ch[v][m] = g => m = pa[g]
    BY <1>1, TreeFacts
  <2>2. ch2[v][m] =
              IF m = g /\ v = s THEN z ELSE IF m = y /\ v = Other(s) THEN g
              ELSE IF m = pa[g] /\ ch[v][m] = g THEN y ELSE ch[v][m]
    BY <1>1
  <2>3. QED
    BY <2>1, <2>2
<1>4. QED
  BY <1>2, <1>3 DEF Turned

(* A red parent on the outer side, or a red sibling: the two swap colors.  *)
RedTurn(t, M, sp, h, q, u, k, g, s, y, z, t2) ==
  /\ t \in Trees /\ Tree(M, t.root, t.child, t.parent, sp)
  /\ Balance(M, t.child, t.color, h, q, u) /\ Reds(M, t.root, t.parent, t.color, k)
  /\ g \in M /\ s \in Side
  /\ y = t.child[s][g] /\ y # NULL /\ z = t.child[Other(s)][y]
  /\ t.color[y] = 0 /\ t.color[g] = 1 /\ k \in {t.child[s][y], NULL}
  /\ t.child[Other(s)][g] = NULL \/ t.color[t.child[Other(s)][g]] = 1
  /\ q # y
  /\ q = g => u = Other(s)
  /\ t2 = RB!rotate_set_parents(RB!set_parent_color(RB!turn(t, g, y, s), z, g, 1), g, y, 0)

LEMMA RotateRedTree ==
  ASSUME NEW t, NEW M, NEW sp, NEW h, NEW q, NEW u, NEW k, NEW g, NEW s, NEW y, NEW z, NEW t2,
         RedTurn(t, M, sp, h, q, u, k, g, s, y, z, t2)
  PROVE  /\ t2 \in Trees
         /\ Turned(M, g, s, t.root, t.child, t.parent, t2.root, t2.child, t2.parent)
         /\ \A m \in M : t2.color[m] = IF m = y THEN 1 ELSE IF m = g THEN 0 ELSE t.color[m]
         /\ \E sp2 : Tree(M, t2.root, t2.child, t2.parent, sp2)
         /\ \E h2 : Balance(M, t2.child, t2.color, h2, q, u)
         /\ Reds(M, t2.root, t2.parent, t2.color, NULL)
<1>0. /\ t \in Trees /\ Tree(M, t.root, t.child, t.parent, sp)
      /\ Balance(M, t.child, t.color, h, q, u) /\ Reds(M, t.root, t.parent, t.color, k)
      /\ g \in M /\ s \in Side
      /\ y = t.child[s][g] /\ y # NULL /\ z = t.child[Other(s)][y]
      /\ t.color[y] = 0 /\ t.color[g] = 1 /\ k \in {t.child[s][y], NULL}
      /\ t.child[Other(s)][g] = NULL \/ t.color[t.child[Other(s)][g]] = 1
      /\ q # y
      /\ q = g => u = Other(s)
      /\ t2 = RB!rotate_set_parents(RB!set_parent_color(RB!turn(t, g, y, s), z, g, 1), g, y, 0)
  BY DEF RedTurn
<1>1. y \in M /\ g # y /\ NULL \notin M
  <2>1. Tree(M, t.root, t.child, t.parent, sp) /\ g \in M /\ s \in Side /\ y = t.child[s][g] /\ y # NULL
    BY <1>0
  <2>2. y \in M /\ g # y
    BY ONLY <2>1, HangsThere
  <2>3. NULL \notin M
    BY ONLY <2>1, Keys DEF Tree, Spans
  <2>4. QED
    BY <2>2, <2>3
<1>2. /\ t2 \in Trees
      /\ Turned(M, g, s, t.root, t.child, t.parent, t2.root, t2.child, t2.parent)
      /\ \A m \in M : t2.color[m] =
              IF m = y THEN t.color[g] ELSE IF m = g THEN 0 ELSE IF m = z THEN 1 ELSE t.color[m]
  <2> DEFINE c == 0
  <2>1. M \subseteq Key /\ c \in Hue
    BY <1>0 DEF Tree, Spans, Hue
  <2>2. /\ Hangs(t.child, g, t.parent[g]) /\ t.parent[g] \notin {g, y} /\ z # g
        /\ g \in Key /\ y \in Key
    <3>1. Tree(M, t.root, t.child, t.parent, sp) /\ g \in M /\ s \in Side /\ y = t.child[s][g] /\ y # NULL
      BY <1>0
    <3>2. /\ Hangs(t.child, g, t.parent[g]) /\ t.parent[g] \notin {g, y} /\ t.child[Other(s)][y] # g
          /\ g \in Key /\ y \in Key
      BY ONLY <3>1, HangsThere
    <3>3. QED
      BY <1>0, <3>2
  <2>3. /\ t \in Trees /\ g \in Key /\ y \in Key /\ g # y /\ s \in Side
        /\ Hangs(t.child, g, t.parent[g]) /\ t.parent[g] \notin {g, y}
        /\ z = t.child[Other(s)][y] /\ z # g /\ c \in Hue
        /\ t2 = RB!rotate_set_parents(RB!set_parent_color(RB!turn(t, g, y, s), z, g, 1), g, y, c)
    BY <1>0, <1>1, <2>1, <2>2
  <2>4. c = 0
    OBVIOUS
  <2> HIDE DEF c
  <2>5. /\ t2 \in Trees
        /\ t2.root = IF t.parent[g] = NULL THEN y ELSE t.root
        /\ \A v \in Side, m \in Key : t2.child[v][m] =
             IF m = g /\ v = s THEN z ELSE IF m = y /\ v = Other(s) THEN g
             ELSE IF m = t.parent[g] /\ t.child[v][m] = g THEN y ELSE t.child[v][m]
        /\ \A m \in Key : t2.parent[m] =
             IF m = y THEN t.parent[g] ELSE IF m = g THEN y ELSE IF m = z THEN g ELSE t.parent[m]
        /\ \A m \in Key : t2.color[m] =
             IF m = y THEN t.color[g] ELSE IF m = g THEN c ELSE IF m = z THEN 1 ELSE t.color[m]
    BY ONLY <2>3, RotateIs
  <2>6. \A m \in M : t2.parent[m] =
          IF m = y THEN t.parent[g] ELSE IF m = g THEN y ELSE IF m = z THEN g ELSE t.parent[m]
    BY <2>1, <2>5
  <2>7. Turned(M, g, s, t.root, t.child, t.parent, t2.root, t2.child, t2.parent)
    <3>1. /\ t2.root = IF t.parent[g] = NULL THEN y ELSE t.root
          /\ \A v \in Side, m \in Key : t2.child[v][m] =
               IF m = g /\ v = s THEN z ELSE IF m = y /\ v = Other(s) THEN g
               ELSE IF m = t.parent[g] /\ t.child[v][m] = g THEN y ELSE t.child[v][m]
      BY <2>5
    <3>2. /\ Tree(M, t.root, t.child, t.parent, sp) /\ g \in M /\ s \in Side
          /\ y = t.child[s][g] /\ y # NULL /\ z = t.child[Other(s)][y]
      BY <1>0
    <3>3. QED
      BY ONLY <2>6, <3>1, <3>2, TurnedIs, SMTT(30)
  <2>8. \A m \in M : t2.color[m] =
              IF m = y THEN t.color[g] ELSE IF m = g THEN 0 ELSE IF m = z THEN 1 ELSE t.color[m]
    BY <2>1, <2>4, <2>5
  <2>9. QED
    BY <2>5, <2>7, <2>8
<1>3. ASSUME z # NULL
      PROVE  t.color[z] = 1
  <2>0. Other(s) \in Side /\ Other(s) # s /\ t.child[Other(s)][y] # NULL
    BY <1>0, <1>3, Sides
  <2>1. z \in M /\ z # t.root /\ t.parent[z] = y
    <3>1. /\ t.child[Other(s)][y] \in M /\ t.child[Other(s)][y] # t.root
          /\ t.parent[t.child[Other(s)][y]] = y
      <4>1. /\ Tree(M, t.root, t.child, t.parent, sp)
            /\ y \in M /\ Other(s) \in Side /\ t.child[Other(s)][y] # NULL
        BY <1>0, <1>1, <2>0
      <4>2. QED
        BY ONLY <4>1, Kid
    <3>2. QED
      BY <1>0, <3>1
  <2>2. z # t.child[s][y]
    <3>1. t.child[Other(s)][y] # t.child[s][y]
      <4>1. /\ Tree(M, t.root, t.child, t.parent, sp)
            /\ y \in M /\ s \in Side /\ Other(s) \in Side /\ Other(s) # s /\ t.child[Other(s)][y] # NULL
        BY <1>0, <1>1, <2>0
      <4>2. QED
        BY ONLY <4>1, TreeFacts
    <3>2. QED
      BY <1>0, <3>1
  <2>3. z # k
    BY <1>0, <1>3, <2>2
  <2>4. t.color[z] \in {0, 1}
    BY <1>0, <2>1, Zenon DEF Balance, Hue
  <2>5. QED
    BY <1>0, <2>1, <2>3, <2>4, Zenon DEF Reds
<1>4. \A m \in M : t2.color[m] = IF m = y THEN 1 ELSE IF m = g THEN 0 ELSE t.color[m]
  BY <1>0, <1>1, <1>2, <1>3, ZenonT(40)
<1>5. \E sp2 : Tree(M, t2.root, t2.child, t2.parent, sp2)
  <2>1. /\ Tree(M, t.root, t.child, t.parent, sp) /\ g \in M /\ s \in Side /\ t.child[s][g] # NULL
        /\ Turned(M, g, s, t.root, t.child, t.parent, t2.root, t2.child, t2.parent)
    BY <1>0, <1>2, Zenon
  <2>2. QED
    BY ONLY <2>1, TurnedTree
<1>6. (\E h2 : Balance(M, t2.child, t2.color, h2, q, u)) /\ Reds(M, t2.root, t2.parent, t2.color, NULL)
  <2> DEFINE r == t.root
             ch == t.child
             pa == t.parent
             co == t.color
             r2 == t2.root
             ch2 == t2.child
             pa2 == t2.parent
             co2 == t2.color
  <2>1. Turned(M, g, s, r, ch, pa, r2, ch2, pa2) /\ Tree(M, r, ch, pa, sp)
    BY <1>0, <1>2, Zenon
  <2>2. /\ Balance(M, ch, co, h, q, u) /\ Reds(M, r, pa, co, k)
        /\ g \in M /\ s \in Side /\ y \in M /\ y = ch[s][g]
        /\ co[y] = 0 /\ co[g] = 1 /\ k \in {ch[s][y], NULL}
    BY <1>0, <1>1
  <2>3. ch[Other(s)][g] = NULL \/ co[ch[Other(s)][g]] = 1
    BY <1>0
  <2>4. q # y /\ (q = g => u = Other(s))
    BY <1>0
  <2>5. \A m \in M : co2[m] = IF m = y THEN 1 ELSE IF m = g THEN 0 ELSE co[m]
    BY <1>4
  <2> HIDE DEF r, ch, pa, co, r2, ch2, pa2, co2
  <2>6. (\E h2 : Balance(M, ch2, co2, h2, q, u)) /\ Reds(M, r2, pa2, co2, NULL)
    BY ONLY <2>1, <2>2, <2>3, <2>4, <2>5, RotateReds
  <2>7. QED
    BY <2>6 DEF r2, ch2, pa2, co2
<1>7. QED
  BY <1>2, <1>4, <1>5, <1>6

(* The nodes of a double rotation: x, the inner child of q, goes up to g's *)
(* place, and its children a and b go to q and g.                          *)
LEMMA TwiceNodes ==
  ASSUME NEW M, NEW r, NEW ch, NEW pa, NEW sp, Tree(M, r, ch, pa, sp),
         NEW g \in M, NEW s \in Side, NEW q, q = ch[s][g], q # NULL,
         NEW x, x = ch[Other(s)][q], x # NULL,
         NEW a, a = ch[s][x], NEW b, b = ch[Other(s)][x]
  PROVE  /\ g \in Key /\ q \in Key /\ x \in Key /\ q \in M /\ x \in M
         /\ g # q /\ g # x /\ q # x
         /\ a \in M \cup {NULL} /\ b \in M \cup {NULL}
         /\ a \notin {g, q, x} /\ b \notin {g, q, x} /\ (a = b => a = NULL)
         /\ a # NULL => pa[a] = x /\ a # r
         /\ b # NULL => pa[b] = x /\ b # r
         /\ pa[q] = g /\ pa[x] = q /\ q # r /\ x # r
         /\ pa[g] \notin {g, q, x} /\ (pa[g] = NULL <=> g = r)
         /\ Hangs(ch, g, pa[g])
         /\ \A v \in Side, m \in M : ch[v][m] = g => m = pa[g]
<1>1. M \subseteq Key /\ NULL \notin M /\ Other(s) \in Side /\ Other(s) # s
  BY SpanIn, Keys, Sides DEF Tree
<1>2. q \in M /\ q # g /\ q # r /\ pa[q] = g /\ pa[g] # q /\ pa[g] # g /\ q \in Key /\ g \in Key
  BY Kid
<1>3. x \in M /\ x # r /\ x # g /\ x # q /\ pa[x] = q /\ pa[g] # x /\ x \in Key
  BY <1>1, Grandkid
<1>4. Hangs(ch, g, pa[g]) /\ (pa[g] = NULL <=> g = r)
  BY HangsThere
<1>5. \A v \in Side, m \in M : ch[v][m] = g => m = pa[g]
  BY <1>1, TreeFacts
<1>6. ASSUME NEW v \in Side, NEW w, w = ch[v][x], w # NULL
      PROVE  w \in M /\ w # g /\ w # q /\ w # x /\ pa[w] = x /\ w # r
  <2>1. w \in M /\ w # x /\ w # r /\ pa[w] = x
    <3>1. Tree(M, r, ch, pa, sp) /\ x \in M /\ v \in Side /\ ch[v][x] # NULL
      BY <1>3, <1>6
    <3>2. ch[v][x] \in M /\ ch[v][x] # x /\ ch[v][x] # r /\ pa[ch[v][x]] = x
      BY ONLY <3>1, Kid
    <3>3. QED
      BY <1>6, <3>2, Zenon
  <2>2. QED
    BY <1>2, <1>3, <2>1
<1>7. a \in M \cup {NULL} /\ a \notin {g, q, x} /\ (a # NULL => pa[a] = x /\ a # r)
  <2>1. g # NULL /\ q # NULL /\ x # NULL
    BY <1>1, <1>2, <1>3
  <2>2. CASE a = NULL
    BY <2>1, <2>2
  <2>3. CASE a # NULL
    BY <1>6, <2>3
  <2>4. QED
    BY <2>2, <2>3
<1>8. b \in M \cup {NULL} /\ b \notin {g, q, x} /\ (b # NULL => pa[b] = x /\ b # r)
  <2>1. g # NULL /\ q # NULL /\ x # NULL
    BY <1>1, <1>2, <1>3
  <2>2. CASE b = NULL
    BY <2>1, <2>2
  <2>3. CASE b # NULL
    BY <1>1, <1>6, <2>3
  <2>4. QED
    BY <2>2, <2>3
<1>9. a = b => a = NULL
  <2>1. ch[s][x] # NULL /\ ch[s][x] = ch[Other(s)][x] => s = Other(s)
    BY <1>1, <1>3, TreeFacts
  <2>2. QED
    BY <1>1, <2>1
<1>10. QED
  BY <1>1, <1>2, <1>3, <1>4, <1>5, <1>7, <1>8, <1>9

(* The links of both rotations are what TurnedTwice says.                  *)
TwiceLinks(M, r, ch, pa, sp, g, s, q, x, a, b, c1, r2, ch2, pa2) ==
  /\ Tree(M, r, ch, pa, sp) /\ g \in M /\ s \in Side
  /\ q = ch[s][g] /\ q # NULL /\ x = ch[Other(s)][q] /\ x # NULL
  /\ a = ch[s][x] /\ b = ch[Other(s)][x]
  /\ \A v \in Side, m \in Key : m # g \/ v # s => c1[v][m] =
       IF m = q /\ v = Other(s) THEN a ELSE IF m = x /\ v = s THEN q ELSE ch[v][m]
  /\ r2 = IF pa[g] = NULL THEN x ELSE r
  /\ \A v \in Side, m \in Key : ch2[v][m] =
       IF m = g /\ v = s THEN b ELSE IF m = x /\ v = Other(s) THEN g
       ELSE IF m = pa[g] /\ c1[v][m] = g THEN x ELSE c1[v][m]
  /\ \A m \in M : pa2[m] =
       IF m = x THEN pa[g] ELSE IF m = q \/ m = g THEN x
       ELSE IF m = a THEN q ELSE IF m = b THEN g ELSE pa[m]

LEMMA TwiceIs ==
  ASSUME NEW M, NEW r, NEW ch, NEW pa, NEW sp, NEW g, NEW s, NEW q, NEW x, NEW a, NEW b,
         NEW c1, NEW r2, NEW ch2, NEW pa2,
         TwiceLinks(M, r, ch, pa, sp, g, s, q, x, a, b, c1, r2, ch2, pa2)
  PROVE  TurnedTwice(M, g, s, r, ch, pa, r2, ch2, pa2)
<1>0. /\ Tree(M, r, ch, pa, sp) /\ g \in M /\ s \in Side
      /\ q = ch[s][g] /\ q # NULL /\ x = ch[Other(s)][q] /\ x # NULL
      /\ a = ch[s][x] /\ b = ch[Other(s)][x]
      /\ \A v \in Side, m \in Key : m # g \/ v # s => c1[v][m] =
           IF m = q /\ v = Other(s) THEN a ELSE IF m = x /\ v = s THEN q ELSE ch[v][m]
      /\ r2 = IF pa[g] = NULL THEN x ELSE r
      /\ \A v \in Side, m \in Key : ch2[v][m] =
           IF m = g /\ v = s THEN b ELSE IF m = x /\ v = Other(s) THEN g
           ELSE IF m = pa[g] /\ c1[v][m] = g THEN x ELSE c1[v][m]
      /\ \A m \in M : pa2[m] =
           IF m = x THEN pa[g] ELSE IF m = q \/ m = g THEN x
           ELSE IF m = a THEN q ELSE IF m = b THEN g ELSE pa[m]
  BY DEF TwiceLinks
<1>1. M \subseteq Key /\ NULL \notin M /\ Other(s) \in Side /\ Other(s) # s /\ \A v \in Side : v = s \/ v = Other(s)
  BY <1>0, SpanIn, Keys, Sides DEF Tree
<1>2. /\ g # q /\ g # x /\ q # x /\ a # g
      /\ pa[g] \notin {g, q, x} /\ (pa[g] = NULL <=> g = r)
      /\ \A v \in Side, m \in M : ch[v][m] = g => m = pa[g]
  <2>1. /\ Tree(M, r, ch, pa, sp) /\ g \in M /\ s \in Side
        /\ q = ch[s][g] /\ q # NULL /\ x = ch[Other(s)][q] /\ x # NULL
        /\ a = ch[s][x] /\ b = ch[Other(s)][x]
    BY <1>0
  <2>2. QED
    BY ONLY <2>1, TwiceNodes
<1>3. ASSUME NEW m \in M, NEW u \in Side
      PROVE  ch2[u][m] = IF m = q /\ u = Other(s) THEN a
                         ELSE IF m = g /\ u = s THEN b
                         ELSE IF m = x THEN IF u = s THEN q ELSE g
                         ELSE IF ch[u][m] = g THEN x ELSE ch[u][m]
  <2>1. m # g \/ u # s => c1[u][m] =
           IF m = q /\ u = Other(s) THEN a ELSE IF m = x /\ u = s THEN q ELSE ch[u][m]
    BY <1>0, <1>1
  <2>2. ch2[u][m] =
           IF m = g /\ u = s THEN b ELSE IF m = x /\ u = Other(s) THEN g
           ELSE IF m = pa[g] /\ c1[u][m] = g THEN x ELSE c1[u][m]
    BY <1>0, <1>1
  <2>3. (ch[u][m] = g => m = pa[g]) /\ (u = s \/ u = Other(s))
    BY <1>1, <1>2
  <2>4. QED
    BY <1>1, <1>2, <2>1, <2>2, <2>3
<1>4. r2 = IF r = g THEN x ELSE r
  BY <1>0, <1>2, Zenon
<1>5. QED
  <2>1. q = ch[s][g] /\ x = ch[Other(s)][q] /\ a = ch[s][x] /\ b = ch[Other(s)][x]
    BY <1>0, Zenon
  <2>2. \A m \in M : pa2[m] =
          IF m = x THEN pa[g] ELSE IF m = q \/ m = g THEN x
          ELSE IF m = a THEN q ELSE IF m = b THEN g ELSE pa[m]
    BY <1>0
  <2>3. \A m \in M, u \in Side : ch2[u][m] =
          IF m = q /\ u = Other(s) THEN a ELSE IF m = g /\ u = s THEN b
          ELSE IF m = x THEN IF u = s THEN q ELSE g
          ELSE IF ch[u][m] = g THEN x ELSE ch[u][m]
    BY <1>3
  <2>4. QED
    BY ONLY <1>4, <2>1, <2>2, <2>3 DEF TurnedTwice

(* What rotates an insertion's tree: cases 2 and 3 of its loop.            *)
LEMMA InsertOuter ==
  ASSUME NEW sp, NEW h, RbInv(sp, h), RB!insert_rotate,
         child[Other(RB!ParentSide)][parent[n]] # n
  PROVE  /\ child' \in Links /\ parent' \in Pointers /\ color' \in Colors
         /\ \E sp2 : Tree(alive, root', child', parent', sp2)
         /\ \E h2 : Balance(alive, child', color', h2, NULL, RB!NodeSide)
         /\ Reds(alive, root', parent', color', NULL)
<1> DEFINE q == parent[n]
           g == RB!gparent
           s == RB!ParentSide
           z == child[Other(s)][q]
           t2 == RB!rotate_set_parents(RB!set_parent_color(RB!turn(RB!tree, g, q, s), z, g, 1), g, q, 0)
<1>1. RB!RedParent /\ pc = "insert" /\ ~ RB!Is(0, RB!uncle)
  BY DEF RB!insert_rotate, RB!RB_RED, RB!RedParent
<1>2. /\ q \in alive /\ q # NULL /\ color[q] = 0
      /\ g \in alive /\ g # NULL /\ color[g] = 1
      /\ s \in Side /\ child[s][g] = q /\ RB!uncle = child[Other(s)][g]
      /\ \E u \in Side : child[u][q] = n /\ child[Other(u)][q] # n
  BY <1>1, RedParentFacts
<1>3. /\ Tree(alive, root, child, parent, sp) /\ Balance(alive, child, color, h, NULL, RB!NodeSide)
      /\ Reds(alive, root, parent, color, n)
      /\ alive \subseteq Key /\ NULL \notin alive
      /\ RB!tree \in Trees /\ RB!tree.root = root /\ RB!tree.child = child
      /\ RB!tree.parent = parent /\ RB!tree.color = color
  BY <1>1, InsertFacts
<1>4. n = child[s][q]
  BY <1>2, Sides
<1>5. RB!Become(t2)
  <2>1. \A v : RB!Other(v) = Other(v)
    BY RbSides
  <2>2. child[Other(s)][q] # n
    OBVIOUS
  <2>3. RB!Become(RB!rotate_set_parents(
          RB!set_parent_color(RB!turn(RB!tree, g, q, s), RB!tree.child[Other(s)][q], g, 1), g, q, 0))
    BY <2>1, <2>2 DEF RB!insert_rotate, RB!RB_RED, RB!RB_BLACK
  <2>4. QED
    BY <1>3, <2>3
<1>6. child[Other(s)][g] = NULL \/ color[child[Other(s)][g]] = 1
  <2>1. child[Other(s)][g] \in alive \cup {NULL}
    BY <1>2, <1>3, Sides, SpanIn DEF Tree
  <2>2. child[Other(s)][g] # NULL => color[child[Other(s)][g]] \in {0, 1}
    BY <1>3, <2>1 DEF Balance, Hue
  <2>3. QED
    BY <1>1, <1>2, <2>2 DEF RB!Is
<1> DEFINE f == RB!NodeSide
           k == n
<1>7. RedTurn(RB!tree, alive, sp, h, NULL, f, k, g, s, q, z, t2)
  <2>1. NULL # q /\ (NULL = g => f = Other(s))
    BY <1>2
  <2>2. /\ g \in alive /\ s \in Side
        /\ q = RB!tree.child[s][g] /\ q # NULL /\ z = RB!tree.child[Other(s)][q]
        /\ RB!tree.color[q] = 0 /\ RB!tree.color[g] = 1 /\ k \in {RB!tree.child[s][q], NULL}
        /\ RB!tree.child[Other(s)][g] = NULL \/ RB!tree.color[RB!tree.child[Other(s)][g]] = 1
    BY <1>2, <1>3, <1>4, <1>6
  <2>3. /\ RB!tree \in Trees /\ Tree(alive, RB!tree.root, RB!tree.child, RB!tree.parent, sp)
        /\ Balance(alive, RB!tree.child, RB!tree.color, h, NULL, f)
        /\ Reds(alive, RB!tree.root, RB!tree.parent, RB!tree.color, k)
    BY <1>3
  <2>4. QED
    BY <2>1, <2>2, <2>3, Zenon DEF RedTurn
<1> HIDE DEF t2, z, q, g, s, f, k
<1>10. /\ t2 \in Trees
       /\ \E sp2 : Tree(alive, t2.root, t2.child, t2.parent, sp2)
       /\ \E h2 : Balance(alive, t2.child, t2.color, h2, NULL, f)
       /\ Reds(alive, t2.root, t2.parent, t2.color, NULL)
  BY ONLY <1>7, RotateRedTree
<1>11. t2.child \in Links /\ t2.parent \in Pointers /\ t2.color \in Colors
  BY <1>10, TreeParts
<1>12. QED
  BY <1>5, <1>10, <1>11 DEF RB!Become, f

LEMMA InsertInner ==
  ASSUME NEW sp, NEW h, RbInv(sp, h), RB!insert_rotate,
         child[Other(RB!ParentSide)][parent[n]] = n
  PROVE  /\ child' \in Links /\ parent' \in Pointers /\ color' \in Colors
         /\ \E sp2 : Tree(alive, root', child', parent', sp2)
         /\ \E h2 : Balance(alive, child', color', h2, NULL, RB!NodeSide)
         /\ Reds(alive, root', parent', color', NULL)
<1> DEFINE q == parent[n]
           g == RB!gparent
           s == RB!ParentSide
           a == child[s][n]
           b == child[Other(s)][n]
           t1 == RB!turn(RB!tree, q, n, Other(s))
           u1 == RB!set_parent_color(t1, a, q, 1)
           u2 == RB!set_parent_color(u1, q, n, 0)
           z == u2.child[Other(s)][n]
           t2 == RB!rotate_set_parents(RB!set_parent_color(RB!turn(u2, g, n, s), z, g, 1), g, n, 0)
<1>1. RB!RedParent /\ pc = "insert" /\ ~ RB!Is(0, RB!uncle)
  BY DEF RB!insert_rotate, RB!RB_RED, RB!RedParent
<1>2. /\ q \in alive /\ q # NULL /\ color[q] = 0 /\ q # n
      /\ g \in alive /\ g # NULL /\ color[g] = 1
      /\ s \in Side /\ child[s][g] = q /\ RB!uncle = child[Other(s)][g]
  BY <1>1, RedParentFacts
<1>3. /\ Tree(alive, root, child, parent, sp) /\ Balance(alive, child, color, h, NULL, RB!NodeSide)
      /\ Reds(alive, root, parent, color, n)
      /\ n \in alive /\ n \in Key /\ n # NULL /\ color[n] = 0
      /\ alive \subseteq Key /\ NULL \notin alive
      /\ RB!tree \in Trees /\ RB!tree.root = root /\ RB!tree.child = child
      /\ RB!tree.parent = parent /\ RB!tree.color = color
      /\ child \in Links
  BY <1>1, InsertFacts
<1>4. child[Other(s)][q] = n /\ Other(s) \in Side /\ Other(Other(s)) = s /\ Other(s) # s
  BY <1>2, Sides
<1>5. RB!Become(t2)
  <2>1. \A v : RB!Other(v) = Other(v)
    BY RbSides
  <2>2. RB!Become(t2)
    BY <1>4, <2>1 DEF RB!insert_rotate, RB!RB_RED, RB!RB_BLACK
  <2>3. QED
    BY <2>2
<1>6. /\ g \in Key /\ q \in Key /\ n \in Key
      /\ g # q /\ g # n /\ q # n
      /\ a \in alive \cup {NULL} /\ b \in alive \cup {NULL}
      /\ a \notin {g, q, n} /\ b \notin {g, q, n} /\ (a = b => a = NULL)
      /\ (a # NULL => parent[a] = n /\ a # root)
      /\ (b # NULL => parent[b] = n /\ b # root)
      /\ parent[g] \notin {g, q, n}
      /\ Hangs(child, g, parent[g])
  <2> DEFINE x == n
  <2>1. /\ Tree(alive, root, child, parent, sp) /\ g \in alive /\ s \in Side /\ q = child[s][g] /\ q # NULL
        /\ x = child[Other(s)][q] /\ x # NULL
        /\ a = child[s][x] /\ b = child[Other(s)][x]
    BY <1>2, <1>3, <1>4
  <2> HIDE DEF q, g, s, a, b, x
  <2>2. /\ g \in Key /\ q \in Key /\ x \in Key
        /\ g # q /\ g # x /\ q # x
        /\ a \in alive \cup {NULL} /\ b \in alive \cup {NULL}
        /\ a \notin {g, q, x} /\ b \notin {g, q, x} /\ (a = b => a = NULL)
        /\ (a # NULL => parent[a] = x /\ a # root)
        /\ (b # NULL => parent[b] = x /\ b # root)
        /\ parent[g] \notin {g, q, x}
        /\ Hangs(child, g, parent[g])
    BY ONLY <2>1, TwiceNodes
  <2>3. QED
    BY <2>2 DEF x
<1>7. /\ t1 \in Trees /\ t1.root = root /\ t1.parent = parent /\ t1.color = color
      /\ \A v \in Side, m \in Key : t1.child[v][m] =
           IF m = q /\ v = Other(s) THEN a ELSE IF m = n /\ v = s THEN q ELSE child[v][m]
  <2>1. RB!tree \in Trees /\ q \in Key /\ n \in Key /\ q # n /\ Other(s) \in Side
    BY <1>3, <1>4, <1>6
  <2> HIDE DEF q, s, t1
  <2>2. /\ t1 \in Trees /\ t1.root = RB!tree.root /\ t1.parent = RB!tree.parent
        /\ t1.color = RB!tree.color
        /\ \A v \in Side, m \in Key : t1.child[v][m] =
              IF m = q /\ v = Other(s) THEN RB!tree.child[Other(Other(s))][n]
              ELSE IF m = n /\ v = Other(Other(s)) THEN q ELSE RB!tree.child[v][m]
    BY ONLY <2>1, TurnIs DEF t1
  <2>3. QED
    BY <1>3, <1>4, <2>2
<1>8. a \in Node /\ q \in Node /\ n \in Node /\ b \in Node /\ 0 \in Hue /\ 1 \in Hue
  BY <1>3, <1>6 DEF Node, Hue
<1> HIDE DEF t1
<1>9. /\ u1 \in Trees /\ u1.root = t1.root /\ u1.child = t1.child
      /\ \A m \in Key : u1.parent[m] = IF m = a THEN q ELSE t1.parent[m]
      /\ \A m \in Key : u1.color[m] = IF m = a THEN 1 ELSE t1.color[m]
  <2>1. t1 \in Trees /\ a \in Node /\ q \in Node /\ 1 \in Hue
    BY <1>7, <1>8
  <2>2. QED
    BY ONLY <2>1, SetParentColor
<1> HIDE DEF u1
<1>10. /\ u2 \in Trees /\ u2.root = u1.root /\ u2.child = u1.child
       /\ \A m \in Key : u2.parent[m] = IF m = q THEN n ELSE u1.parent[m]
       /\ \A m \in Key : u2.color[m] = IF m = q THEN 0 ELSE u1.color[m]
  <2>1. u1 \in Trees /\ n \in Node /\ q \in Node /\ 0 \in Hue
    BY <1>8, <1>9
  <2>2. QED
    BY ONLY <2>1, SetParentColor
<1>11. z = b /\ t2 = RB!rotate_set_parents(RB!set_parent_color(RB!turn(u2, g, n, s), z, g, 1), g, n, 0)
  BY <1>4, <1>6, <1>7, <1>9, <1>10
<1> HIDE DEF u2, z, t2, a, b
<1>12. /\ u2.root = root /\ u2.parent[g] = parent[g] /\ u2.color[g] = 1
       /\ \A v \in Side, m \in Key : u2.child[v][m] =
           IF m = q /\ v = Other(s) THEN a ELSE IF m = n /\ v = s THEN q ELSE child[v][m]
       /\ \A m \in Key : u2.parent[m] = IF m = q THEN n ELSE IF m = a THEN q ELSE parent[m]
       /\ \A m \in Key : u2.color[m] = IF m = q THEN 0 ELSE IF m = a THEN 1 ELSE color[m]
  BY <1>2, <1>6, <1>7, <1>9, <1>10
<1>13. Hangs(u2.child, g, u2.parent[g]) /\ u2.parent[g] \notin {g, n}
  <2>1. ASSUME parent[g] # NULL
        PROVE  \E v \in Side : u2.child[v][parent[g]] = g /\ u2.child[Other(v)][parent[g]] # g
    <3>1. PICK v \in Side : child[v][parent[g]] = g /\ child[Other(v)][parent[g]] # g
      BY <1>6, <2>1 DEF Hangs
    <3>2. parent[g] \in Key /\ Other(v) \in Side
      <4>1. parent[g] \in Node
        BY <1>3, <1>6, TreeParts DEF Pointers
      <4>2. QED
        BY <2>1, <4>1, Sides DEF Node
    <3>3. u2.child[v][parent[g]] = g /\ u2.child[Other(v)][parent[g]] # g
      BY <1>6, <1>12, <3>1, <3>2
    <3>4. QED
      BY <3>3
  <2>2. QED
    BY <1>6, <1>12, <2>1 DEF Hangs
<1>14. /\ t2 \in Trees
       /\ t2.root = IF u2.parent[g] = NULL THEN n ELSE u2.root
       /\ \A v \in Side, m \in Key : t2.child[v][m] =
            IF m = g /\ v = s THEN z ELSE IF m = n /\ v = Other(s) THEN g
            ELSE IF m = u2.parent[g] /\ u2.child[v][m] = g THEN n ELSE u2.child[v][m]
       /\ \A m \in Key : t2.parent[m] =
            IF m = n THEN u2.parent[g] ELSE IF m = g THEN n ELSE IF m = z THEN g ELSE u2.parent[m]
       /\ \A m \in Key : t2.color[m] =
            IF m = n THEN u2.color[g] ELSE IF m = g THEN 0 ELSE IF m = z THEN 1 ELSE u2.color[m]
  <2> DEFINE y == n
             c == 0
  <2>1. /\ u2 \in Trees /\ g \in Key /\ y \in Key /\ g # y /\ s \in Side
        /\ Hangs(u2.child, g, u2.parent[g]) /\ u2.parent[g] \notin {g, y}
        /\ z = u2.child[Other(s)][y] /\ z # g /\ c \in Hue
        /\ t2 = RB!rotate_set_parents(RB!set_parent_color(RB!turn(u2, g, y, s), z, g, 1), g, y, c)
    BY <1>2, <1>6, <1>8, <1>10, <1>11, <1>13 DEF z
  <2>2. y = n /\ c = 0
    OBVIOUS
  <2> HIDE DEF y, c, g, s
  <2>3. /\ t2 \in Trees
        /\ t2.root = IF u2.parent[g] = NULL THEN y ELSE u2.root
        /\ \A v \in Side, m \in Key : t2.child[v][m] =
             IF m = g /\ v = s THEN z ELSE IF m = y /\ v = Other(s) THEN g
             ELSE IF m = u2.parent[g] /\ u2.child[v][m] = g THEN y ELSE u2.child[v][m]
        /\ \A m \in Key : t2.parent[m] =
             IF m = y THEN u2.parent[g] ELSE IF m = g THEN y ELSE IF m = z THEN g ELSE u2.parent[m]
        /\ \A m \in Key : t2.color[m] =
             IF m = y THEN u2.color[g] ELSE IF m = g THEN c ELSE IF m = z THEN 1 ELSE u2.color[m]
    BY ONLY <2>1, RotateIs
  <2>4. QED
    BY <2>2, <2>3
<1>15. /\ root' = t2.root /\ child' = t2.child /\ parent' = t2.parent /\ color' = t2.color
       /\ child' \in Links /\ parent' \in Pointers /\ color' \in Colors
  <2>1. t2.child \in Links /\ t2.parent \in Pointers /\ t2.color \in Colors
    BY <1>14, TreeParts
  <2>2. QED
    BY <1>5, <2>1 DEF RB!Become
<1>16. TurnedTwice(alive, g, s, root, child, parent, root', child', parent')
  <2> DEFINE x == n
             c1 == u2.child
             r2 == root'
             ch2 == child'
             pa2 == parent'
  <2>1. /\ Tree(alive, root, child, parent, sp) /\ g \in alive /\ s \in Side /\ q = child[s][g] /\ q # NULL
        /\ x = child[Other(s)][q] /\ x # NULL
        /\ a = child[s][x] /\ b = child[Other(s)][x]
    BY <1>2, <1>3, <1>4 DEF a, b
  <2>2. \A v \in Side, m \in Key : m # g \/ v # s => c1[v][m] =
           IF m = q /\ v = Other(s) THEN a ELSE IF m = x /\ v = s THEN q ELSE child[v][m]
    BY <1>12
  <2>3. r2 = IF parent[g] = NULL THEN x ELSE root
    BY <1>12, <1>14, <1>15
  <2>4. \A v \in Side, m \in Key : ch2[v][m] =
           IF m = g /\ v = s THEN b ELSE IF m = x /\ v = Other(s) THEN g
           ELSE IF m = parent[g] /\ c1[v][m] = g THEN x ELSE c1[v][m]
    BY <1>11, <1>12, <1>14, <1>15
  <2>5. \A m \in alive : pa2[m] =
           IF m = x THEN parent[g] ELSE IF m = q \/ m = g THEN x
           ELSE IF m = a THEN q ELSE IF m = b THEN g ELSE parent[m]
    BY <1>3, <1>6, <1>11, <1>12, <1>14, <1>15
  <2> HIDE DEF x, c1, r2, ch2, pa2, g, s, q
  <2>6. TwiceLinks(alive, root, child, parent, sp, g, s, q, x, a, b, c1, r2, ch2, pa2)
    BY ONLY <2>1, <2>2, <2>3, <2>4, <2>5, Zenon DEF TwiceLinks
  <2>7. TurnedTwice(alive, g, s, root, child, parent, r2, ch2, pa2)
    BY ONLY <2>6, TwiceIs
  <2>8. QED
    BY <2>7 DEF r2, ch2, pa2
<1>17. \A m \in alive : color'[m] = IF m = n THEN color[g] ELSE IF m = g THEN color[q] ELSE color[m]
  <2>1. a # NULL => color[a] = 1
    BY <1>3, <1>6 DEF Reds, Balance, Hue
  <2>2. b # NULL => color[b] = 1
    BY <1>3, <1>6 DEF Reds, Balance, Hue
  <2>3. QED
    BY <1>2, <1>3, <1>6, <1>11, <1>12, <1>14, <1>15, <2>1, <2>2
<1> DEFINE e == NULL
           t == Other(s)
           x == n
           r2 == root'
           ch2 == child'
           pa2 == parent'
           co2 == color'
<1>18. Balance(alive, child, color, h, e, t)
  BY <1>3, NoLack
<1>19. h[q] = h[child[Other(s)][g]] + color[q]
  <2>1. Lack(NULL, RB!NodeSide, g, s) = 0 /\ Lack(NULL, RB!NodeSide, g, Other(s)) = 0
    BY <1>2 DEF Lack
  <2>2. h[g] = h[child[s][g]] + color[g] + 0 /\ h[g] = h[child[Other(s)][g]] + color[g] + 0
    BY <1>2, <1>3, <1>4, <2>1 DEF Balance
  <2>3. h[q] \in Nat /\ h[child[Other(s)][g]] \in Nat
    <3>1. q \in Node /\ child[Other(s)][g] \in Node /\ h \in [Node -> Nat]
      BY <1>2, <1>3, <1>4, <1>6, <1>8 DEF Links, Balance
    <3>2. QED
      BY <3>1
  <2>4. h[g] = h[q] + 1 + 0 /\ h[g] = h[child[Other(s)][g]] + 1 + 0 /\ color[q] = 0
    BY <1>2, <2>2
  <2> HIDE DEF q, g, s
  <2>5. QED
    BY ONLY <2>3, <2>4
<1>20. child[Other(s)][g] = NULL \/ color[child[Other(s)][g]] = 1
  <2>1. child[Other(s)][g] \in alive \cup {NULL}
    BY <1>2, <1>3, Sides, SpanIn DEF Tree
  <2>2. child[Other(s)][g] # NULL => color[child[Other(s)][g]] \in {0, 1}
    BY <1>3, <2>1 DEF Balance, Hue
  <2>3. QED
    BY <1>1, <1>2, <2>2 DEF RB!Is
<1>21. /\ Tree(alive, root, child, parent, sp) /\ g \in alive /\ s \in Side /\ e \in {NULL, g}
       /\ t = Other(s) /\ q \in alive /\ q = child[s][g] /\ x \in alive /\ x = child[Other(s)][q]
       /\ color[x] = 0
       /\ TurnedTwice(alive, g, s, root, child, parent, r2, ch2, pa2)
       /\ child[s][g] # NULL /\ child[Other(s)][child[s][g]] # NULL
       /\ Reds(alive, root, parent, color, x) /\ \A m \in alive : color[m] \in Hue
  BY <1>2, <1>3, <1>4, <1>16 DEF Balance
<1>22. \A m \in alive : co2[m] = IF m = x THEN color[g] ELSE IF m = g THEN color[q] ELSE color[m]
  BY <1>17
<1>23. color[q] = 0 /\ color[g] = 1 /\ x = x
  BY <1>2
<1> HIDE DEF e, t, x, r2, ch2, pa2, co2, q, g, s
<1>24. \E sp2 : Tree(alive, r2, ch2, pa2, sp2)
  BY ONLY <1>21, TurnTwice
<1>25. \E h2 : Balance(alive, ch2, co2, h2, NULL, t)
  BY ONLY <1>18, <1>19, <1>21, <1>22, TwiceBalance
<1>26. Reds(alive, r2, pa2, co2, NULL)
  <2> DEFINE k == x
  <2>1. k = x /\ Reds(alive, root, parent, color, k)
    BY <1>21
  <2>2. \/ /\ color[q] = 0 /\ k = x /\ color[g] = 1
           /\ child[Other(s)][g] = NULL \/ color[child[Other(s)][g]] = 1
        \/ color[q] = 1 /\ k = NULL
    BY <1>20, <1>23
  <2> HIDE DEF k
  <2>3. QED
    BY ONLY <1>21, <1>22, <2>1, <2>2, TwiceReds
<1>27. \E h2 : Balance(alive, child', color', h2, NULL, RB!NodeSide)
  <2>1. PICK h2 : Balance(alive, ch2, co2, h2, NULL, t)
    BY <1>25
  <2>2. Balance(alive, ch2, co2, h2, NULL, RB!NodeSide)
    BY <1>3, <2>1, NoLack
  <2>3. QED
    BY <2>2 DEF ch2, co2
<1>28. QED
  BY <1>15, <1>24, <1>26, <1>27 DEF r2, ch2, pa2, co2

LEMMA RbInsertRotate ==
  ASSUME NEW sp, NEW h, RbInv(sp, h), RB!insert_rotate
  PROVE  \E sp3, h3 : RbInv(sp3, h3)'
<1>1. pc = "insert" /\ RB!Return(ret) /\ UNCHANGED <<alive, op, key>>
  BY DEF RB!insert_rotate, RB!RedParent, RB!callVars
<1>2. RbPhase /\ alive \subseteq Key
  BY <1>1, InsertFacts
<1>3. /\ child' \in Links /\ parent' \in Pointers /\ color' \in Colors
      /\ \E sp2 : Tree(alive, root', child', parent', sp2)
      /\ \E h2 : Balance(alive, child', color', h2, NULL, RB!NodeSide)
      /\ Reds(alive, root', parent', color', NULL)
  <2>1. CASE child[Other(RB!ParentSide)][parent[n]] = n
    BY <2>1, InsertInner
  <2>2. CASE child[Other(RB!ParentSide)][parent[n]] # n
    BY <2>2, InsertOuter
  <2>3. QED
    BY <2>1, <2>2
<1>4. PICK sp2 : Tree(alive, root', child', parent', sp2)
  BY <1>3
<1>5. QED
  BY <1>1, <1>2, <1>3, <1>4, InsertEnds

(* The removal of a node, once it is unlinked: nothing is wrong, or a      *)
(* black node is missing under e.                                          *)
LEMMA Rebalanced ==
  ASSUME pc \in {"find", "successor"}, RbPhase, op = "remove", key \in alive, alive \subseteq Key,
         NEW e, e \in (alive \ {key}) \cup {NULL}, RB!Rebalance(e), d' = NONE,
         UNCHANGED <<alive, op, key>>,
         child' \in Links, parent' \in Pointers, color' \in Colors,
         NEW sp2, Tree(alive \ {key}, root', child', parent', sp2),
         NEW f \in Side, \E h2 : Balance(alive \ {key}, child', color', h2, e, f),
         Reds(alive \ {key}, root', parent', color', NULL),
         e # NULL => child'[f][e] = NULL
  PROVE  \E sp3, h3 : RbInv(sp3, h3)'
<1>1. /\ pc' = IF e # NULL THEN "erase" ELSE "erased"
      /\ ret' = TRUE /\ n' = NULL /\ p' = e
  BY DEF RB!Rebalance
<1>2. RbPhase'
  BY <1>1 DEF RbPhase, RbPcs, Calls
<1>3. RB!Members' = alive \ {key}
  BY <1>1 DEF RB!Members
<1>4. PICK h2 : Balance(alive \ {key}, child', color', h2, e, f)
  OBVIOUS
<1> DEFINE M == alive \ {key}
           x == NULL
<1>5. /\ RB!Members' = M /\ Tree(M, root', child', parent', sp2) /\ Balance(M, child', color', h2, e, f)
      /\ Reds(M, root', parent', color', x)
      /\ e = (IF pc' = "erase" THEN p' ELSE NULL) /\ x = (IF pc' = "insert" THEN n' ELSE NULL)
      /\ pc' \in {"insert", "erase", "erased", "return"} /\ alive' \subseteq Key
  BY <1>1, <1>3, <1>4
<1>6. pc' # "insert"
  BY <1>1
<1>7. pc' = "erase" => p' \in M /\ f \in Side /\ n' = child'[f][p'] /\ (n' # NULL => color'[n'] = 1)
  BY <1>1
<1> HIDE DEF M, x
<1>8. RbInv(sp2, h2)'
  BY <1>2, <1>5, <1>6, <1>7, RbTreeChanged
<1>9. QED
  BY <1>8

(* What is above a node.                                                   *)
LEMMA HangsUp ==
  ASSUME NEW M, NEW r, NEW ch, NEW pa, NEW sp, Tree(M, r, ch, pa, sp), NEW g \in M
  PROVE  /\ Hangs(ch, g, pa[g]) /\ (pa[g] = NULL <=> g = r) /\ pa[g] \in M \cup {NULL} /\ pa[g] # g
         /\ \A v \in Side, m \in M : ch[v][m] = g => m = pa[g]
         /\ \E f \in Side : g # r => ch[f][pa[g]] = g
<1>1. M \subseteq Key /\ NULL \notin M /\ g # NULL
  BY SpanIn, Keys DEF Tree
<1>2. (pa[g] = NULL <=> g = r) /\ pa[g] \in M \cup {NULL}
  BY <1>1, TreeFacts
<1>3. \A v \in Side, m \in M : ch[v][m] = g => m = pa[g]
  BY <1>1, TreeFacts
<1>4. CASE pa[g] = NULL
  <2>1. "LEFT" \in Side /\ g = r
    BY <1>2, <1>4 DEF Side
  <2>2. \E f \in Side : g # r => ch[f][pa[g]] = g
    BY <2>1
  <2>3. QED
    BY <1>1, <1>2, <1>3, <1>4, <2>2 DEF Hangs
<1>5. CASE pa[g] # NULL
  <2>1. pa[g] \in M
    BY <1>2, <1>5
  <2>2. PICK f \in Side : ch[f][pa[g]] = g /\ ch[Other(f)][pa[g]] # g
    BY <2>1, ParentOf
  <2>3. Hangs(ch, g, pa[g])
    BY <2>2 DEF Hangs
  <2>4. pa[g] # g
    BY <1>1, <2>1, <2>2, TreeFacts
  <2>5. QED
    BY <1>2, <1>3, <2>2, <2>3, <2>4
<1>6. QED
  BY <1>4, <1>5

LEMMA RbEraseEasy ==
  ASSUME NEW sp, NEW h, RbInv(sp, h), RB!erase_easy
  PROVE  \E sp3, h3 : RbInv(sp3, h3)'
<1> DEFINE c == IF child["LEFT"][key] = NULL THEN child["RIGHT"][key] ELSE child["LEFT"][key]
           s == IF child["LEFT"][key] = NULL THEN "RIGHT" ELSE "LEFT"
           e == IF c = NULL /\ color[key] = 1 THEN parent[key] ELSE NULL
           u == RB!set_parent_color(RB!tree, c, parent[key], color[key])
           t2 == RB!change_child(u, key, c, parent[key])
           M == alive \ {key}
<1>1. /\ pc = "find" /\ n = key /\ op = "remove" /\ \E t \in Side : child[t][key] = NULL
      /\ RB!Become(t2) /\ RB!Rebalance(e) /\ d' = NONE /\ UNCHANGED <<alive, op, key>>
  BY RbSides DEF RB!erase_easy, RB!callVars, RB!RB_BLACK
<1>2. /\ RbPhase /\ RB!TypeOK /\ RB!Members = alive /\ Tree(alive, root, child, parent, sp)
      /\ Balance(alive, child, color, h, NULL, RB!NodeSide) /\ Reds(alive, root, parent, color, NULL)
  BY <1>1 DEF RbInv, RB!Members, Missing, Newcomer
<1>3. /\ key \in alive /\ key \in Key /\ alive \subseteq Key /\ NULL \notin alive
      /\ child \in Links /\ parent \in Pointers /\ color \in Colors
  <2>1. key \in Key /\ key \in alive \cup {NULL}
    BY <1>1, <1>2, RbTypes DEF RbPhase
  <2>2. QED
    BY <1>2, <2>1, Keys, RbTypes, Zenon
<1>4. s \in Side /\ Other(s) \in Side /\ c = child[s][key] /\ child[Other(s)][key] = NULL
  BY <1>1 DEF Side, Other
<1>5. c \in alive \cup {NULL} /\ c # key
  <2>1. c \in alive \cup {NULL}
    BY <1>2, <1>3, <1>4, SpanIn DEF Tree
  <2>2. child[s][key] # NULL => child[s][key] # key
    BY <1>2, <1>3, <1>4, TreeFacts
  <2>3. QED
    BY <1>3, <1>4, <2>1, <2>2
<1>6. /\ Hangs(child, key, parent[key]) /\ (parent[key] = NULL <=> key = root)
      /\ parent[key] \in alive \cup {NULL} /\ parent[key] # key
      /\ \A v \in Side, m \in alive : child[v][m] = key => m = parent[key]
      /\ \E f \in Side : key # root => child[f][parent[key]] = key
  BY <1>2, <1>3, HangsUp
<1>7. PICK f \in Side : key # root => child[f][parent[key]] = key
  BY <1>6
<1>8. /\ RB!tree \in Trees /\ RB!tree.root = root /\ RB!tree.child = child
      /\ RB!tree.parent = parent /\ RB!tree.color = color
  BY <1>2, RbTree
<1>9. c \in Node /\ parent[key] \in Node /\ color[key] \in Hue
  BY <1>3, <1>5, <1>6 DEF Node, Colors
<1> HIDE DEF c, s
<1>10. /\ u \in Trees /\ u.root = root /\ u.child = child
       /\ \A m \in Key : u.parent[m] = IF m = c THEN parent[key] ELSE parent[m]
       /\ \A m \in Key : u.color[m] = IF m = c THEN color[key] ELSE color[m]
  <2> DEFINE q == parent[key]
             b == color[key]
  <2>1. RB!tree \in Trees /\ c \in Node /\ q \in Node /\ b \in Hue
    BY <1>8, <1>9
  <2> HIDE DEF q, b
  <2>2. /\ RB!set_parent_color(RB!tree, c, q, b) \in Trees
        /\ RB!set_parent_color(RB!tree, c, q, b).root = RB!tree.root
        /\ RB!set_parent_color(RB!tree, c, q, b).child = RB!tree.child
        /\ \A x \in Key : RB!set_parent_color(RB!tree, c, q, b).parent[x] = IF x = c THEN q ELSE RB!tree.parent[x]
        /\ \A x \in Key : RB!set_parent_color(RB!tree, c, q, b).color[x] = IF x = c THEN b ELSE RB!tree.color[x]
    BY ONLY <2>1, SetParentColor
  <2>3. QED
    BY <1>8, <2>2 DEF q, b
<1> HIDE DEF u
<1>11. /\ t2 \in Trees
       /\ t2.root = (IF parent[key] = NULL THEN c ELSE root)
       /\ t2.parent = u.parent /\ t2.color = u.color
       /\ \A v \in Side, m \in Key : t2.child[v][m] =
            IF m = parent[key] /\ child[v][m] = key THEN c ELSE child[v][m]
  <2> DEFINE q == parent[key]
             k == key
  <2>1. u \in Trees /\ c \in Node /\ q \in Node /\ Hangs(u.child, k, q)
    BY <1>6, <1>9, <1>10
  <2>2. t2 = RB!change_child(u, k, c, q)
    OBVIOUS
  <2> HIDE DEF q, t2, k
  <2>3. /\ RB!change_child(u, k, c, q) \in Trees
        /\ RB!change_child(u, k, c, q).root = (IF q = NULL THEN c ELSE u.root)
        /\ RB!change_child(u, k, c, q).parent = u.parent
        /\ RB!change_child(u, k, c, q).color = u.color
        /\ \A v \in Side, x \in Key : RB!change_child(u, k, c, q).child[v][x] =
              IF x = q /\ u.child[v][x] = k THEN c ELSE u.child[v][x]
    BY ONLY <2>1, ChangeChild
  <2>4. QED
    BY <1>10, <2>2, <2>3 DEF q, k
<1>12. /\ root' = t2.root /\ child' = t2.child /\ parent' = t2.parent /\ color' = t2.color
       /\ child' \in Links /\ parent' \in Pointers /\ color' \in Colors
  <2>1. t2.child \in Links /\ t2.parent \in Pointers /\ t2.color \in Colors
    BY <1>11, TreeParts
  <2>2. QED
    BY <1>1, <2>1 DEF RB!Become
<1> HIDE DEF t2
<1> DEFINE r2 == root'
           ch2 == child'
           pa2 == parent'
           co2 == color'
           t == RB!NodeSide
           x == key
<1>13. CutOut(alive, x, c, root, child, parent, color, r2, ch2, pa2, co2, e)
  <2>1. r2 = IF root = x THEN c ELSE root
    BY <1>6, <1>11, <1>12
  <2>2. \A m \in alive \ {x}, v \in Side : ch2[v][m] = IF child[v][m] = x THEN c ELSE child[v][m]
    BY <1>3, <1>6, <1>11, <1>12
  <2>3. \A m \in alive \ {x} : pa2[m] = IF m = c THEN parent[x] ELSE parent[m]
    BY <1>3, <1>10, <1>11, <1>12
  <2>4. \A m \in alive \ {x} : co2[m] = IF m = c THEN color[x] ELSE color[m]
    BY <1>3, <1>10, <1>11, <1>12
  <2>5. e = IF c = NULL /\ color[x] = 1 THEN parent[x] ELSE NULL
    OBVIOUS
  <2> HIDE DEF r2, ch2, pa2, co2, e, x
  <2>6. QED
    BY ONLY <2>1, <2>2, <2>3, <2>4, <2>5 DEF CutOut
<1>14. e \in M \cup {NULL} /\ (e # NULL => child'[f][e] = NULL)
  <2>1. CASE e = NULL
    BY <2>1
  <2>2. CASE e # NULL
    <3>1. c = NULL /\ e = parent[key] /\ parent[key] \in alive /\ parent[key] # key /\ key # root
      BY <1>6, <2>2
    <3>2. child[f][parent[key]] = key /\ parent[key] \in Key
      BY <1>3, <1>7, <3>1
    <3>3. child'[f][parent[key]] = c
      BY <1>11, <1>12, <3>2
    <3>4. QED
      BY <3>1, <3>3
  <2>3. QED
    BY <2>1, <2>2
<1>15. /\ Tree(alive, root, child, parent, sp) /\ Balance(alive, child, color, h, NULL, t)
       /\ Reds(alive, root, parent, color, NULL)
       /\ x \in alive /\ s \in Side /\ child[Other(s)][x] = NULL /\ c = child[s][x]
       /\ f \in Side
       /\ x # root => child[f][parent[x]] = x
  BY <1>2, <1>3, <1>4, <1>7
<1> HIDE DEF r2, ch2, pa2, co2, e, x, t
<1>16. /\ \E h2 : Balance(alive \ {x}, ch2, co2, h2, e, f)
       /\ Reds(alive \ {x}, r2, pa2, co2, NULL)
  BY ONLY <1>13, <1>15, CutRules, Zenon
<1>17. \E sp2 : Tree(alive \ {x}, r2, ch2, pa2, sp2)
  <2>1. /\ r2 = IF root = x THEN c ELSE root
        /\ \A m \in alive \ {x}, v \in Side : ch2[v][m] = IF child[v][m] = x THEN c ELSE child[v][m]
        /\ \A m \in alive \ {x} : pa2[m] = IF m = c THEN parent[x] ELSE parent[m]
    BY <1>13 DEF CutOut
  <2>2. QED
    BY ONLY <1>15, <2>1, Cut
<1>18. PICK sp2 : Tree(alive \ {key}, root', child', parent', sp2)
  BY <1>17 DEF r2, ch2, pa2, x
<1>19. /\ \E h2 : Balance(alive \ {key}, child', color', h2, e, f)
       /\ Reds(alive \ {key}, root', parent', color', NULL)
  BY <1>16 DEF r2, ch2, pa2, co2, x
<1>20. QED
  BY <1>1, <1>2, <1>3, <1>12, <1>14, <1>18, <1>19, Rebalanced

(* A node with two children, key, and its successor n.                     *)
LEMMA ReplaceFacts ==
  ASSUME NEW sp, NEW h, RbInv(sp, h), pc = "successor", child["LEFT"][n] = NULL,
         NEW c, c = child["RIGHT"][n],
         NEW right, right = child["RIGHT"][key], NEW left, left = child["LEFT"][key]
  PROVE  /\ n \in alive /\ n \in sp[key] /\ n # key /\ right \in alive /\ left \in alive
         /\ left # n /\ left # key /\ right # key /\ left # right
         /\ c \in alive \cup {NULL} /\ c # n /\ c # left /\ c # right /\ c # key
         /\ p \in alive /\ p # key
         /\ p = IF parent[n] = key THEN n ELSE parent[n]
         /\ (p = n <=> n = right) /\ (parent[n] = key <=> n = right)
         /\ n # right => child["LEFT"][p] = n /\ child["RIGHT"][p] # n
         /\ \A v \in Side, m \in alive : child[v][m] = n => m = parent[n]
         /\ \A m \in alive : parent[m] = key <=> m \in {left, right}
         /\ parent[left] = key /\ parent[right] = key
         /\ Hangs(child, key, parent[key]) /\ (parent[key] = NULL <=> key = root)
         /\ parent[key] \in alive \cup {NULL} /\ parent[key] \notin {key, n, p}
         /\ \A v \in Side, m \in alive : child[v][m] = key => m = parent[key]
         /\ \A m \in alive \ {key, n}, u \in Side : Beyond(u, key, m) <=> Beyond(u, n, m)
<1>1. /\ RbPhase /\ Tree(alive, root, child, parent, sp) /\ key \in alive
      /\ left # NULL /\ right # NULL /\ OnEdge(sp, "RIGHT", right, n)
      /\ p = IF n = right THEN n ELSE parent[n]
  BY DEF RbInv, RbPlace, RbPhase, RB!Members
<1>2. "RIGHT" \in Side /\ "LEFT" \in Side /\ Other("RIGHT") = "LEFT" /\ alive \subseteq Key /\ NULL \notin alive
  BY <1>1, SpanIn, Keys DEF Side, Other, Tree
<1>3. /\ n \in alive /\ n \in sp[key] /\ n # key /\ right \in alive
      /\ n = right => parent[n] = key /\ left # n
      /\ n # right => /\ parent[n] \in alive /\ parent[n] # key /\ parent[n] # n
                      /\ child["LEFT"][parent[n]] = n /\ child["RIGHT"][parent[n]] # n
      /\ \A m \in alive \ {key, n}, u \in Side : Beyond(u, key, m) <=> Beyond(u, n, m)
  <2> DEFINE f == "RIGHT"
             x == n
  <2>1. /\ Tree(alive, root, child, parent, sp) /\ key \in alive /\ f \in Side /\ child[f][key] # NULL
        /\ OnEdge(sp, f, child[f][key], x)
    BY <1>1, <1>2
  <2>2. f = "RIGHT" /\ x = n /\ Other(f) = "LEFT"
    BY <1>2
  <2> HIDE DEF f, x
  <2>3. /\ x \in alive /\ x \in sp[key] /\ x # key /\ child[f][key] \in alive
        /\ x = child[f][key] => parent[x] = key /\ child[Other(f)][key] # x
        /\ x # child[f][key] => /\ parent[x] \in alive /\ parent[x] # key /\ parent[x] # x
                                /\ child[Other(f)][parent[x]] = x /\ child[f][parent[x]] # x
        /\ child[Other(f)][x] = NULL =>
             \A m \in alive \ {key, x}, u \in Side : Beyond(u, key, m) <=> Beyond(u, x, m)
    BY ONLY <2>1, EdgeEnd
  <2>4. QED
    BY <2>2, <2>3
<1>4. left \in alive /\ parent[left] = key /\ left # key /\ parent[right] = key /\ right # key
  <2>1. child["LEFT"][key] # NULL /\ child["RIGHT"][key] # NULL
    BY <1>1
  <2>2. /\ child["LEFT"][key] \in alive /\ parent[child["LEFT"][key]] = key /\ child["LEFT"][key] # key
        /\ parent[child["RIGHT"][key]] = key /\ child["RIGHT"][key] # key
    BY <1>1, <1>2, <2>1, TreeFacts
  <2>3. QED
    BY <2>2
<1>5. left # right
  <2>1. child["LEFT"][key] # child["RIGHT"][key]
    BY <1>1, <1>2, TreeFacts
  <2>2. QED
    BY <2>1
<1>6. left # n
  BY <1>3, <1>4
<1>7. c \in alive \cup {NULL} /\ (c # NULL => parent[c] = n /\ c # n)
  <2>1. child["RIGHT"][n] \in alive \cup {NULL}
    BY <1>1, <1>2, <1>3, SpanIn DEF Tree
  <2>2. child["RIGHT"][n] # NULL => parent[child["RIGHT"][n]] = n /\ child["RIGHT"][n] # n
    BY <1>1, <1>2, <1>3, TreeFacts
  <2>3. QED
    BY <2>1, <2>2
<1>8. /\ Hangs(child, key, parent[key]) /\ (parent[key] = NULL <=> key = root)
      /\ parent[key] \in alive \cup {NULL} /\ parent[key] # key
      /\ \A v \in Side, m \in alive : child[v][m] = key => m = parent[key]
      /\ \E f \in Side : key # root => child[f][parent[key]] = key
  BY <1>1, HangsUp
<1>9. \A w \in sp[key] : parent[key] # w
  <2>1. ASSUME NEW w \in sp[key], parent[key] = w
        PROVE  FALSE
    <3>1. w \in alive
      BY <1>1, SpanIn DEF Tree
    <3>2. key # root
      BY <1>2, <1>8, <2>1, <3>1
    <3>3. PICK f \in Side : child[f][w] = key
      BY <1>8, <2>1, <3>2
    <3>4. key \in sp[w]
      <4>1. key \in sp[key] /\ sp[child[f][w]] \subseteq sp[w]
        BY <1>1, <3>1, SpanIn DEF Tree
      <4>2. QED
        BY <3>3, <4>1
    <3>5. w = key
      BY <1>1, <3>1, <3>4, TreeFacts
    <3>6. QED
      BY <1>8, <2>1, <3>5
  <2>2. QED
    BY <2>1
<1>10. p \in sp[key] /\ p \in alive /\ p # key
  <2>1. parent[n] \in sp[key]
    BY <1>1, <1>3, UpIn
  <2>2. QED
    BY <1>1, <1>3, <2>1
<1>11. c # left /\ c # right /\ c # key
  <2>1. c # NULL => c # left /\ c # right
    BY <1>3, <1>4, <1>7
  <2>2. c = key => parent[key] = n
    BY <1>1, <1>2, <1>7
  <2>3. QED
    BY <1>1, <1>2, <1>3, <1>9, <2>1, <2>2
<1>12. \A v \in Side, m \in alive : child[v][m] = n => m = parent[n]
  BY <1>1, <1>2, <1>3, TreeFacts
<1>13. ASSUME NEW m \in alive
       PROVE  parent[m] = key <=> m \in {left, right}
  <2>1. ASSUME parent[m] = key
        PROVE  m \in {left, right}
    <3>1. PICK v \in Side : child[v][key] = m
      BY <1>1, <2>1, ParentOf
    <3>2. QED
      BY <3>1 DEF Side
  <2>2. QED
    BY <1>4, <2>1
<1>14. p = IF parent[n] = key THEN n ELSE parent[n]
  BY <1>1, <1>3
<1>15. (p = n <=> n = right) /\ (parent[n] = key <=> n = right)
  BY <1>1, <1>3
<1>16. n # right => child["LEFT"][p] = n /\ child["RIGHT"][p] # n
  BY <1>1, <1>3
<1>17. c # n /\ parent[key] \notin {key, n, p}
  BY <1>2, <1>3, <1>7, <1>8, <1>9, <1>10
<1>18. QED
  BY <1>3, <1>4, <1>5, <1>6, <1>7, <1>8, <1>10, <1>11, <1>12, <1>13, <1>14, <1>15, <1>16, <1>17

(* The successor is taken out of its place, if that is not under key, ...  *)
Lifted(t, q, x, c, right, l) ==
  /\ t \in Trees /\ q \in Key /\ x \in Key /\ c \in Node /\ right \in Node
  /\ l = IF q = x THEN t
         ELSE RB!set_parent([t EXCEPT !.child["LEFT"][q] = c, !.child["RIGHT"][x] = right], right, x)

LEMMA LiftedIs ==
  ASSUME NEW t, NEW q, NEW x, NEW c, NEW right, NEW l, Lifted(t, q, x, c, right, l)
  PROVE  /\ l \in Trees /\ l.root = t.root /\ l.color = t.color
         /\ \A v \in Side, m \in Key : l.child[v][m] =
              IF q # x /\ v = "LEFT" /\ m = q THEN c
              ELSE IF q # x /\ v = "RIGHT" /\ m = x THEN right ELSE t.child[v][m]
         /\ \A m \in Key : l.parent[m] = IF q # x /\ m = right THEN x ELSE t.parent[m]
<1>0. /\ t \in Trees /\ q \in Key /\ x \in Key /\ c \in Node /\ right \in Node
      /\ l = IF q = x THEN t
             ELSE RB!set_parent([t EXCEPT !.child["LEFT"][q] = c, !.child["RIGHT"][x] = right], right, x)
  BY DEF Lifted
<1>1. CASE q = x
  BY <1>0, <1>1
<1>2. CASE q # x
  <2> DEFINE a == "LEFT"
             b == "RIGHT"
             t1 == WithLink(t, a, q, c)
             t3 == WithLink(t1, b, x, right)
  <2>1. a \in Side /\ b \in Side /\ x \in Node /\ a # b
    BY <1>0 DEF Side, Node
  <2>2. l = RB!set_parent(t3, right, x)
    BY <1>0, <1>2 DEF Trees, WithLink
  <2>3. a = "LEFT" /\ b = "RIGHT"
    OBVIOUS
  <2> HIDE DEF a, b
  <2>4. /\ t1 \in Trees /\ t1.root = t.root /\ t1.parent = t.parent /\ t1.color = t.color
        /\ \A u \in Side, m \in Key : t1.child[u][m] = IF u = a /\ m = q THEN c ELSE t.child[u][m]
    BY <1>0, <2>1, LinkChanged
  <2> HIDE DEF t1
  <2>5. /\ t3 \in Trees /\ t3.root = t1.root /\ t3.parent = t1.parent /\ t3.color = t1.color
        /\ \A u \in Side, m \in Key : t3.child[u][m] = IF u = b /\ m = x THEN right ELSE t1.child[u][m]
    BY <1>0, <2>1, <2>4, LinkChanged
  <2> HIDE DEF t3
  <2>6. /\ l \in Trees /\ l.root = t3.root /\ l.child = t3.child /\ l.color = t3.color
        /\ \A m \in Key : l.parent[m] = IF m = right THEN x ELSE t3.parent[m]
    <3>1. t3 \in Trees /\ right \in Node /\ x \in Node
      BY <1>0, <2>1, <2>5
    <3>2. /\ RB!set_parent(t3, right, x) \in Trees
          /\ RB!set_parent(t3, right, x).root = t3.root
          /\ RB!set_parent(t3, right, x).child = t3.child
          /\ RB!set_parent(t3, right, x).color = t3.color
          /\ \A m \in Key : RB!set_parent(t3, right, x).parent[m] = IF m = right THEN x ELSE t3.parent[m]
      BY ONLY <3>1, SetParent
    <3>3. QED
      BY <2>2, <3>2
  <2>7. QED
    BY <1>0, <1>2, <2>1, <2>3, <2>4, <2>5, <2>6
<1>3. QED
  BY <1>1, <1>2

(* ... and put into key's, with its other child and its parent, ...        *)
LEMMA PlacedIs ==
  ASSUME NEW l \in Trees, NEW x \in Key, NEW left \in Node, NEW k, NEW q \in Node,
         q # x, Hangs(l.child, k, q), NEW t,
         t = RB!change_child(RB!set_parent([l EXCEPT !.child["LEFT"][x] = left], left, x), k, x, q)
  PROVE  /\ t \in Trees /\ t.root = (IF q = NULL THEN x ELSE l.root) /\ t.color = l.color
         /\ \A v \in Side, m \in Key : t.child[v][m] =
              IF v = "LEFT" /\ m = x THEN left
              ELSE IF m = q /\ l.child[v][m] = k THEN x ELSE l.child[v][m]
         /\ \A m \in Key : t.parent[m] = IF m = left THEN x ELSE l.parent[m]
<1> DEFINE a == "LEFT"
           u1 == WithLink(l, a, x, left)
           u2 == RB!set_parent(u1, left, x)
<1>1. a \in Side /\ x \in Node
  BY DEF Side, Node
<1>2. t = RB!change_child(u2, k, x, q)
  BY DEF WithLink
<1>3. a = "LEFT"
  OBVIOUS
<1> HIDE DEF a
<1>4. /\ u1 \in Trees /\ u1.root = l.root /\ u1.parent = l.parent /\ u1.color = l.color
      /\ \A v \in Side, m \in Key : u1.child[v][m] = IF v = a /\ m = x THEN left ELSE l.child[v][m]
  <2>1. l \in Trees /\ a \in Side /\ x \in Key /\ left \in Node
    BY <1>1
  <2>2. QED
    BY ONLY <2>1, LinkChanged
<1> HIDE DEF u1
<1>5. /\ u2 \in Trees /\ u2.root = u1.root /\ u2.child = u1.child /\ u2.color = u1.color
      /\ \A m \in Key : u2.parent[m] = IF m = left THEN x ELSE u1.parent[m]
  <2>1. u1 \in Trees /\ left \in Node /\ x \in Node
    BY <1>1, <1>4
  <2>2. QED
    BY ONLY <2>1, SetParent
<1> HIDE DEF u2
<1>6. Hangs(u2.child, k, q)
  <2>1. ASSUME q # NULL
        PROVE  \E v \in Side : u2.child[v][q] = k /\ u2.child[Other(v)][q] # k
    <3>1. PICK v \in Side : l.child[v][q] = k /\ l.child[Other(v)][q] # k
      BY <2>1 DEF Hangs
    <3>2. q \in Key /\ Other(v) \in Side
      BY <2>1, Sides DEF Node
    <3>3. QED
      BY <1>4, <1>5, <3>1, <3>2
  <2>2. QED
    BY <2>1 DEF Hangs
<1>7. /\ t \in Trees /\ t.root = (IF q = NULL THEN x ELSE u2.root)
      /\ t.parent = u2.parent /\ t.color = u2.color
      /\ \A v \in Side, m \in Key : t.child[v][m] = IF m = q /\ u2.child[v][m] = k THEN x ELSE u2.child[v][m]
  <2>1. u2 \in Trees /\ x \in Node /\ q \in Node /\ Hangs(u2.child, k, q)
    BY <1>1, <1>5, <1>6
  <2>2. /\ RB!change_child(u2, k, x, q) \in Trees
        /\ RB!change_child(u2, k, x, q).root = (IF q = NULL THEN x ELSE u2.root)
        /\ RB!change_child(u2, k, x, q).parent = u2.parent
        /\ RB!change_child(u2, k, x, q).color = u2.color
        /\ \A v \in Side, m \in Key : RB!change_child(u2, k, x, q).child[v][m] =
             IF m = q /\ u2.child[v][m] = k THEN x ELSE u2.child[v][m]
    BY ONLY <2>1, ChangeChild
  <2>3. QED
    BY <1>2, <2>2, Zenon
<1>8. ASSUME NEW v \in Side, NEW m \in Key
      PROVE  t.child[v][m] = IF v = "LEFT" /\ m = x THEN left
                             ELSE IF m = q /\ l.child[v][m] = k THEN x ELSE l.child[v][m]
  <2>1. t.child[v][m] = IF m = q /\ u2.child[v][m] = k THEN x ELSE u2.child[v][m]
    BY <1>7
  <2>2. u2.child[v][m] = IF v = "LEFT" /\ m = x THEN left ELSE l.child[v][m]
    BY <1>3, <1>4, <1>5
  <2>3. QED
    BY <2>1, <2>2
<1>9. QED
  BY <1>4, <1>5, <1>7, <1>8

(* ... and its own child goes to where it was.                             *)
Settled(t, x, c, q, a, b, t2) ==
  /\ t \in Trees /\ x \in Key /\ c \in Node /\ q \in Node /\ a \in Node /\ b \in Hue
  /\ t2 = [RB!set_parent_color(t, c, q, 1) EXCEPT !.parent[x] = a, !.color[x] = b]

LEMMA SettledIs ==
  ASSUME NEW t, NEW x, NEW c, NEW q, NEW a, NEW b, NEW t2, Settled(t, x, c, q, a, b, t2)
  PROVE  /\ t2 \in Trees /\ t2.root = t.root /\ t2.child = t.child
         /\ \A m \in Key : t2.parent[m] = IF m = x THEN a ELSE IF m = c THEN q ELSE t.parent[m]
         /\ \A m \in Key : t2.color[m] = IF m = x THEN b ELSE IF m = c THEN 1 ELSE t.color[m]
<1> DEFINE u == RB!set_parent_color(t, c, q, 1)
           f == [u.parent EXCEPT ![x] = a]
           g == [u.color EXCEPT ![x] = b]
           u1 == WithParent(u, f)
<1>0. /\ t \in Trees /\ x \in Key /\ c \in Node /\ q \in Node /\ a \in Node /\ b \in Hue
      /\ t2 = [RB!set_parent_color(t, c, q, 1) EXCEPT !.parent[x] = a, !.color[x] = b]
  BY DEF Settled
<1>1. /\ u \in Trees /\ u.root = t.root /\ u.child = t.child
      /\ \A m \in Key : u.parent[m] = IF m = c THEN q ELSE t.parent[m]
      /\ \A m \in Key : u.color[m] = IF m = c THEN 1 ELSE t.color[m]
  <2> DEFINE one == 1
  <2>1. t \in Trees /\ c \in Node /\ q \in Node /\ one \in Hue
    BY <1>0 DEF Hue
  <2>2. u = RB!set_parent_color(t, c, q, one) /\ one = 1
    OBVIOUS
  <2> HIDE DEF u, one
  <2>3. \A m \in Key : RB!set_parent_color(t, c, q, one).parent[m] = IF m = c THEN q ELSE t.parent[m]
    BY ONLY <2>1, SetParentColor
  <2>4. \A m \in Key : RB!set_parent_color(t, c, q, one).color[m] = IF m = c THEN one ELSE t.color[m]
    BY ONLY <2>1, SetParentColor
  <2>5. /\ RB!set_parent_color(t, c, q, one) \in Trees
        /\ RB!set_parent_color(t, c, q, one).root = t.root
        /\ RB!set_parent_color(t, c, q, one).child = t.child
    BY ONLY <2>1, SetParentColor
  <2>6. QED
    BY <2>2, <2>3, <2>4, <2>5
<1> HIDE DEF u
<1>2. t2 = WithColor(u1, g)
  BY <1>0, <1>1 DEF Trees, WithColor, WithParent, u
<1>3. f \in Pointers /\ \A m \in Key : f[m] = IF m = x THEN a ELSE u.parent[m]
  BY <1>0, <1>1, TreeParts, PointerIs
<1>4. g \in Colors /\ \A m \in Key : g[m] = IF m = x THEN b ELSE u.color[m]
  <2>1. u.color \in Colors
    BY <1>1, TreeParts
  <2>2. QED
    BY <1>0, <2>1, ColorIs
<1> HIDE DEF f, g
<1>5. u1 \in Trees /\ u1.root = u.root /\ u1.child = u.child /\ u1.parent = f
  BY <1>1, <1>3, ParentChanged
<1> HIDE DEF u1
<1>6. t2 \in Trees /\ t2.root = u1.root /\ t2.child = u1.child /\ t2.parent = u1.parent /\ t2.color = g
  <2>1. u1 \in Trees /\ g \in Colors
    BY <1>4, <1>5
  <2>2. /\ WithColor(u1, g) \in Trees /\ WithColor(u1, g).root = u1.root
        /\ WithColor(u1, g).child = u1.child /\ WithColor(u1, g).parent = u1.parent
        /\ WithColor(u1, g).color = g
    BY ONLY <2>1, ColorChanged
  <2>3. QED
    BY <1>2, <2>2
<1>7. QED
  BY <1>0, <1>1, <1>3, <1>4, <1>5, <1>6, Zenon

(* In all it is what Supplanted says.                                      *)
LEMMA Replaced ==
  ASSUME NEW sp, NEW h, RbInv(sp, h), RB!erase_replace,
         NEW x, x = n, NEW k, k = key,
         NEW e, e = IF child["RIGHT"][n] = NULL /\ color[n] = 1 THEN p ELSE NULL
  PROVE  /\ child' \in Links /\ parent' \in Pointers /\ color' \in Colors
         /\ Supplanted(alive, k, x, child["RIGHT"][n], root, child, parent, root', child', parent')
         /\ Handed(alive, k, x, child["RIGHT"][n], parent, color, color', e)
         /\ \A v \in Side, m \in alive \ {k, x} : child[v][m] = x => child'[v][m] = child["RIGHT"][n]
         /\ n = child["RIGHT"][key] => child'["RIGHT"][x] = child["RIGHT"][n]
<1> DEFINE c == child["RIGHT"][n]
           right == child["RIGHT"][key]
           left == child["LEFT"][key]
           q == parent[key]
           l == IF p = n THEN RB!tree
                ELSE RB!set_parent([RB!tree EXCEPT !.child["LEFT"][p] = c, !.child["RIGHT"][n] = right], right, n)
           t == RB!change_child(RB!set_parent([l EXCEPT !.child["LEFT"][n] = left], left, n), key, n, q)
           a == t.parent[key]
           b == color[key]
           t2 == [RB!set_parent_color(t, c, p, 1) EXCEPT !.parent[n] = a, !.color[n] = b]
<1>1. pc = "successor" /\ child["LEFT"][n] = NULL /\ RB!Become(t2)
  BY Zenon DEF RB!erase_replace, RB!RB_BLACK
<1>2. /\ n \in alive /\ n # key /\ right \in alive /\ left \in alive
      /\ left # n /\ left # key /\ right # key /\ left # right
      /\ c \in alive \cup {NULL} /\ c # n /\ c # left /\ c # right /\ c # key
      /\ p \in alive /\ p # key
      /\ p = IF parent[n] = key THEN n ELSE parent[n]
      /\ (p = n <=> n = right) /\ (parent[n] = key <=> n = right)
      /\ n # right => child["LEFT"][p] = n /\ child["RIGHT"][p] # n
      /\ \A v \in Side, m \in alive : child[v][m] = n => m = parent[n]
      /\ \A m \in alive : parent[m] = key <=> m \in {left, right}
      /\ Hangs(child, key, q) /\ (q = NULL <=> key = root)
      /\ q \in alive \cup {NULL} /\ q \notin {key, n, p}
      /\ \A v \in Side, m \in alive : child[v][m] = key => m = q
  BY <1>1, ReplaceFacts, ZenonT(40)
<1>3. /\ RB!tree \in Trees /\ RB!tree.root = root /\ RB!tree.child = child
      /\ RB!tree.parent = parent /\ RB!tree.color = color
      /\ alive \subseteq Key /\ color \in Colors /\ key \in alive
  <2>1. RB!TypeOK /\ RbPhase
    BY DEF RbInv
  <2>2. QED
    BY <1>1, <2>1, RbTree, RbTypes, Zenon DEF RbPhase
<1>4. /\ p \in Key /\ n \in Key /\ c \in Node /\ right \in Node /\ left \in Node /\ q \in Node /\ p \in Node
      /\ key \in Key
  BY <1>2, <1>3 DEF Node
<1> HIDE DEF right, left, q, c
<1>5. /\ l \in Trees /\ l.root = root /\ l.color = color
      /\ \A v \in Side, m \in Key : l.child[v][m] =
           IF p # n /\ v = "LEFT" /\ m = p THEN c
           ELSE IF p # n /\ v = "RIGHT" /\ m = n THEN right ELSE child[v][m]
      /\ \A m \in Key : l.parent[m] = IF p # n /\ m = right THEN n ELSE parent[m]
  <2> DEFINE u == p
             w == n
             tt == RB!tree
  <2>1. Lifted(tt, u, w, c, right, l)
    BY <1>3, <1>4 DEF Lifted
  <2>2. u = p /\ w = n /\ tt = RB!tree
    OBVIOUS
  <2> HIDE DEF u, w, tt, l
  <2>3. /\ l \in Trees /\ l.root = tt.root /\ l.color = tt.color
        /\ \A v \in Side, m \in Key : l.child[v][m] =
             IF u # w /\ v = "LEFT" /\ m = u THEN c
             ELSE IF u # w /\ v = "RIGHT" /\ m = w THEN right ELSE tt.child[v][m]
        /\ \A m \in Key : l.parent[m] = IF u # w /\ m = right THEN w ELSE tt.parent[m]
    BY ONLY <2>1, LiftedIs
  <2>4. QED
    BY <1>3, <2>2, <2>3
<1> HIDE DEF l
<1>6. Hangs(l.child, key, q) /\ q # n
  <2>1. ASSUME q # NULL
        PROVE  \E v \in Side : l.child[v][q] = key /\ l.child[Other(v)][q] # key
    <3>1. PICK v \in Side : child[v][q] = key /\ child[Other(v)][q] # key
      BY <1>2, <2>1 DEF Hangs
    <3>2. q \in Key /\ Other(v) \in Side /\ q # p /\ q # n
      BY <1>2, <1>4, <2>1, Sides DEF Node
    <3>3. l.child[v][q] = child[v][q] /\ l.child[Other(v)][q] = child[Other(v)][q]
      BY <1>5, <3>2
    <3>4. QED
      BY <3>1, <3>3
  <2>2. QED
    BY <1>2, <2>1 DEF Hangs
<1>7. /\ t \in Trees /\ t.root = (IF q = NULL THEN n ELSE root) /\ t.color = color
      /\ \A v \in Side, m \in Key : t.child[v][m] =
           IF v = "LEFT" /\ m = n THEN left
           ELSE IF m = q /\ l.child[v][m] = key THEN n ELSE l.child[v][m]
      /\ \A m \in Key : t.parent[m] = IF m = left THEN n ELSE l.parent[m]
  <2> DEFINE w == n
             y == key
  <2>1. /\ l \in Trees /\ w \in Key /\ left \in Node /\ q \in Node /\ q # w /\ Hangs(l.child, y, q)
        /\ t = RB!change_child(RB!set_parent([l EXCEPT !.child["LEFT"][w] = left], left, w), y, w, q)
    BY <1>4, <1>5, <1>6
  <2>2. w = n /\ y = key
    OBVIOUS
  <2> HIDE DEF w, y, t
  <2>3. /\ t \in Trees /\ t.root = (IF q = NULL THEN w ELSE l.root) /\ t.color = l.color
        /\ \A v \in Side, m \in Key : t.child[v][m] =
             IF v = "LEFT" /\ m = w THEN left
             ELSE IF m = q /\ l.child[v][m] = y THEN w ELSE l.child[v][m]
        /\ \A m \in Key : t.parent[m] = IF m = left THEN w ELSE l.parent[m]
    BY ONLY <2>1, PlacedIs
  <2>4. QED
    BY <1>5, <2>2, <2>3
<1> HIDE DEF t
<1>8. a = q /\ b \in Hue
  <2>1. t.parent[key] = l.parent[key] /\ l.parent[key] = parent[key]
    BY <1>2, <1>4, <1>5, <1>7
  <2>2. QED
    BY <1>3, <1>4, <2>1 DEF Colors, q
<1> HIDE DEF a, b
<1>9. /\ t2 \in Trees /\ t2.root = t.root /\ t2.child = t.child
      /\ \A m \in Key : t2.parent[m] = IF m = n THEN a ELSE IF m = c THEN p ELSE t.parent[m]
      /\ \A m \in Key : t2.color[m] = IF m = n THEN b ELSE IF m = c THEN 1 ELSE t.color[m]
  <2> DEFINE w == n
             y == p
  <2>1. Settled(t, w, c, y, a, b, t2)
    BY <1>4, <1>7, <1>8 DEF Settled
  <2>2. w = n /\ y = p
    OBVIOUS
  <2> HIDE DEF w, y, t2
  <2>3. /\ t2 \in Trees /\ t2.root = t.root /\ t2.child = t.child
        /\ \A m \in Key : t2.parent[m] = IF m = w THEN a ELSE IF m = c THEN y ELSE t.parent[m]
        /\ \A m \in Key : t2.color[m] = IF m = w THEN b ELSE IF m = c THEN 1 ELSE t.color[m]
    BY ONLY <2>1, SettledIs
  <2>4. QED
    BY <2>2, <2>3
<1>10. /\ root' = t2.root /\ child' = t2.child /\ parent' = t2.parent /\ color' = t2.color
       /\ child' \in Links /\ parent' \in Pointers /\ color' \in Colors
  <2>1. t2.child \in Links /\ t2.parent \in Pointers /\ t2.color \in Colors
    BY <1>9, TreeParts, Zenon
  <2>2. QED
    BY <1>1, <2>1 DEF RB!Become
<1> HIDE DEF t2
<1>11. /\ root' = (IF q = NULL THEN n ELSE root)
       /\ \A m \in Key : parent'[m] = IF m = n THEN q ELSE IF m = c THEN p ELSE IF m = left THEN n
                                      ELSE IF p # n /\ m = right THEN n ELSE parent[m]
       /\ \A m \in Key : color'[m] = IF m = n THEN b ELSE IF m = c THEN 1 ELSE color[m]
  BY <1>5, <1>7, <1>8, <1>9, <1>10
<1>12. ASSUME NEW v \in Side, NEW m \in Key
       PROVE  child'[v][m] =
                IF v = "LEFT" /\ m = n THEN left
                ELSE IF m = q /\ child[v][m] = key THEN n
                ELSE IF p # n /\ v = "LEFT" /\ m = p THEN c
                ELSE IF p # n /\ v = "RIGHT" /\ m = n THEN right ELSE child[v][m]
  <2>1. child'[v][m] = IF v = "LEFT" /\ m = n THEN left
           ELSE IF m = q /\ l.child[v][m] = key THEN n ELSE l.child[v][m]
    BY <1>7, <1>9, <1>10
  <2>2. l.child[v][m] = IF p # n /\ v = "LEFT" /\ m = p THEN c
                        ELSE IF p # n /\ v = "RIGHT" /\ m = n THEN right ELSE child[v][m]
    BY <1>5
  <2>3. q # p /\ q # n
    BY <1>2
  <2>4. QED
    BY <1>2, <2>1, <2>2, <2>3
<1>13. root' = IF root = k THEN x ELSE root
  BY <1>2, <1>11
<1>14. \A v \in Side : child'[v][x] = IF child[v][k] = x THEN c ELSE child[v][k]
  <2>1. child'["LEFT"][n] = left /\ child["LEFT"][key] = left /\ left # n
    BY <1>2, <1>4, <1>12 DEF left, Side
  <2>2. child'["RIGHT"][n] = IF p # n THEN right ELSE c
    <3>1. "RIGHT" \in Side /\ q # n /\ child["RIGHT"][n] = c
      BY <1>2 DEF Side, c
    <3>2. child'["RIGHT"][n] =
                IF n = q /\ child["RIGHT"][n] = key THEN n
                ELSE IF p # n THEN right ELSE child["RIGHT"][n]
      BY <1>4, <1>12, <3>1
    <3>3. QED
      BY <3>1, <3>2
  <2>3. child["RIGHT"][key] = right /\ (p = n <=> n = right)
    BY <1>2 DEF right
  <2>4. QED
    BY <2>1, <2>2, <2>3 DEF Side
<1>15. ASSUME NEW m \in alive \ {k, x}, NEW v \in Side
       PROVE  child'[v][m] = IF child[v][m] = x THEN c ELSE IF child[v][m] = k THEN x ELSE child[v][m]
  <2>1. m \in Key /\ m # n /\ m # key /\ m \in alive /\ n # key
    BY <1>2, <1>3
  <2>2. child'[v][m] = IF m = q /\ child[v][m] = key THEN n
                       ELSE IF p # n /\ v = "LEFT" /\ m = p THEN c ELSE child[v][m]
    BY <1>12, <2>1
  <2>3. child[v][m] = n => m = parent[n]
    BY <1>2, <2>1
  <2>4. child[v][m] = key => m = q
    BY <1>2, <2>1
  <2>5. child[v][m] = n <=> p # n /\ v = "LEFT" /\ m = p
    <3>1. ASSUME child[v][m] = n
          PROVE  p # n /\ v = "LEFT" /\ m = p
      <4>1. m = parent[n] /\ parent[n] # key /\ n # right /\ p = parent[n]
        BY <1>2, <2>1, <2>3, <3>1
      <4>2. child["RIGHT"][p] # n
        BY <1>2, <4>1
      <4>3. QED
        BY <2>1, <3>1, <4>1, <4>2 DEF Side
    <3>2. ASSUME p # n, v = "LEFT", m = p
          PROVE  child[v][m] = n
      BY <1>2, <3>2
    <3>3. QED
      BY <3>1, <3>2
  <2>6. QED
    BY <2>1, <2>2, <2>4, <2>5
<1>16. parent'[x] = parent[k]
  BY <1>4, <1>11 DEF q
<1>17. ASSUME NEW m \in alive \ {k, x}
       PROVE  parent'[m] = IF m = c THEN IF parent[x] = k THEN x ELSE parent[x]
                           ELSE IF parent[m] = k THEN x ELSE parent[m]
  <2>1. m \in Key /\ m # n /\ m # key /\ m \in alive
    BY <1>3
  <2>2. parent'[m] = IF m = c THEN p ELSE IF m = left THEN n
                     ELSE IF p # n /\ m = right THEN n ELSE parent[m]
    BY <1>11, <2>1
  <2>3. parent[m] = key <=> m \in {left, right}
    BY <1>2, <2>1
  <2>4. p = n => m # right
    BY <1>2, <2>1
  <2>5. QED
    BY <1>2, <2>2, <2>3, <2>4
<1>18. Supplanted(alive, k, x, c, root, child, parent, root', child', parent')
  BY <1>13, <1>14, <1>15, <1>16, <1>17, Zenon DEF Supplanted
<1>19. Handed(alive, k, x, c, parent, color, color', e)
  <2>1. \A m \in alive \ {k} : color'[m] = IF m = x THEN color[k] ELSE IF m = c THEN 1 ELSE color[m]
    BY <1>3, <1>11 DEF b
  <2>2. e = IF c = NULL /\ color[x] = 1 THEN IF parent[x] = k THEN x ELSE parent[x] ELSE NULL
    BY <1>2 DEF c
  <2>3. QED
    BY <2>1, <2>2, Zenon DEF Handed
<1>20. \A v \in Side, m \in alive \ {k, x} : child[v][m] = x => child'[v][m] = c
  BY <1>15
<1>21. n = child["RIGHT"][key] => child'["RIGHT"][x] = c
  BY <1>14 DEF Side
<1>22. QED
  BY <1>10, <1>18, <1>19, <1>20, <1>21 DEF c

LEMMA RbEraseReplace ==
  ASSUME NEW sp, NEW h, RbInv(sp, h), RB!erase_replace
  PROVE  \E sp3, h3 : RbInv(sp3, h3)'
<1> DEFINE c == child["RIGHT"][n]
           right == child["RIGHT"][key]
           left == child["LEFT"][key]
           x == n
           k == key
           e == IF c = NULL /\ color[n] = 1 THEN p ELSE NULL
           f == IF n = right THEN "RIGHT" ELSE "LEFT"
           s == "RIGHT"
           t == RB!NodeSide
           r2 == root'
           ch2 == child'
           pa2 == parent'
           co2 == color'
<1>1. /\ pc = "successor" /\ child["LEFT"][n] = NULL /\ RB!Rebalance(e)
      /\ UNCHANGED <<alive, op, key, d>>
  BY Zenon DEF RB!erase_replace, RB!RB_BLACK, RB!callVars
<1>2. /\ RbPhase /\ RB!TypeOK /\ Tree(alive, root, child, parent, sp)
      /\ Balance(alive, child, color, h, NULL, t) /\ Reds(alive, root, parent, color, NULL)
  BY <1>1 DEF RbInv, RB!Members, Missing, Newcomer
<1>3. /\ n \in alive /\ n \in sp[key] /\ n # key /\ right # key
      /\ p \in alive /\ p # key /\ p = (IF parent[n] = key THEN n ELSE parent[n])
      /\ (p = n <=> n = right) /\ (parent[n] = key <=> n = right)
      /\ n # right => child["LEFT"][p] = n /\ child["RIGHT"][p] # n
      /\ \A m \in alive \ {key, n}, u \in Side : Beyond(u, key, m) <=> Beyond(u, n, m)
  BY <1>1, ReplaceFacts
<1>4. key \in alive /\ op = "remove" /\ d = NONE /\ alive \subseteq Key
  BY <1>1, <1>2, RbTypes DEF RbPhase
<1>5. /\ child' \in Links /\ parent' \in Pointers /\ color' \in Colors
      /\ Supplanted(alive, k, x, c, root, child, parent, r2, ch2, pa2)
      /\ Handed(alive, k, x, c, parent, color, co2, e)
      /\ \A v \in Side, m \in alive \ {k, x} : child[v][m] = x => ch2[v][m] = c
      /\ n = child["RIGHT"][key] => ch2["RIGHT"][x] = c
  BY Replaced
<1>6. f \in Side /\ child[f][parent[x]] = x
  BY <1>3 DEF Side
<1>7. e # NULL => ch2[f][e] = NULL
  <2>1. ASSUME e # NULL
        PROVE  ch2[f][e] = NULL
    <3>1. e = p /\ c = NULL
      BY <2>1
    <3>2. CASE n = right
      BY <1>3, <1>5, <3>1, <3>2
    <3>3. CASE n # right
      <4>1. p \in alive \ {k, x} /\ child["LEFT"][p] = x /\ f = "LEFT" /\ f \in Side
        BY <1>3, <1>6, <3>3
      <4>2. ch2["LEFT"][p] = c
        BY <1>5, <4>1
      <4>3. QED
        BY <3>1, <4>1, <4>2
    <3>4. QED
      BY <3>2, <3>3
  <2>2. QED
    BY <2>1
<1>8. /\ Tree(alive, root, child, parent, sp) /\ Balance(alive, child, color, h, NULL, t)
      /\ Reds(alive, root, parent, color, NULL)
      /\ k \in alive /\ x \in sp[k] /\ x # k /\ s \in Side /\ child[Other(s)][x] = NULL /\ c = child[s][x]
      /\ f \in Side /\ child[f][parent[x]] = x
  BY <1>1, <1>2, <1>3, <1>4, <1>6 DEF Side, Other
<1>9. \A m \in alive \ {k, x}, u \in Side : Beyond(u, k, m) <=> Beyond(u, x, m)
  BY <1>3
<1>10. /\ Supplanted(alive, k, x, c, root, child, parent, r2, ch2, pa2)
       /\ Handed(alive, k, x, c, parent, color, co2, e)
  BY <1>5
<1> HIDE DEF c, x, k, e, f, s, t, r2, ch2, pa2, co2
<1>11. \E sp2 : Tree(alive \ {k}, r2, ch2, pa2, sp2)
  BY ONLY <1>8, <1>9, <1>10, Supplant, Zenon
<1>12. /\ \E h2 : Balance(alive \ {k}, ch2, co2, h2, e, f)
       /\ Reds(alive \ {k}, r2, pa2, co2, NULL)
       /\ e \in (alive \ {k}) \cup {NULL}
  <2>1. Replacing(alive, k, x, s, c, f, root, child, parent, color, sp, h, t)
    BY ONLY <1>8, Zenon DEF Replacing
  <2>2. QED
    BY ONLY <1>10, <2>1, SupplantRules, Zenon
<1>13. PICK sp2 : Tree(alive \ {key}, root', child', parent', sp2)
  BY <1>11 DEF k, r2, ch2, pa2
<1>14. /\ \E h2 : Balance(alive \ {key}, child', color', h2, e, f)
       /\ Reds(alive \ {key}, root', parent', color', NULL)
       /\ e \in (alive \ {key}) \cup {NULL}
       /\ e # NULL => child'[f][e] = NULL
  BY <1>7, <1>12 DEF k, r2, ch2, pa2, co2
<1>15. d' = NONE /\ pc \in {"find", "successor"} /\ f \in Side
  BY <1>1, <1>4, <1>8
<1>16. QED
  BY <1>1, <1>2, <1>4, <1>5, <1>13, <1>14, <1>15, Rebalanced

(* What is so in the middle of a removal: under p, on the loop's side, a   *)
(* black node is missing, and on the other there is a sibling.             *)
LEMMA EraseFacts ==
  ASSUME NEW sp, NEW h, RbInv(sp, h), pc = "erase",
         NEW M, M = alive \ {key}, NEW t, t = RB!NodeSide
  PROVE  /\ Tree(M, root, child, parent, sp) /\ Balance(M, child, color, h, p, t)
         /\ Reds(M, root, parent, color, NULL) /\ RbPhase
         /\ M \subseteq Key /\ NULL \notin M /\ alive \subseteq Key
         /\ p \in M /\ p \in Key /\ t \in Side /\ Other(t) \in Side /\ Other(Other(t)) = t
         /\ n = child[t][p] /\ (n # NULL => color[n] = 1)
         /\ RB!sibling = child[Other(t)][p] /\ RB!sibling \in M /\ RB!sibling # NULL
         /\ RB!Outer = child[Other(t)][RB!sibling] /\ RB!Inner = child[t][RB!sibling]
         /\ \A m \in M : color[m] \in {0, 1}
         /\ child \in Links /\ parent \in Pointers /\ color \in Colors
         /\ RB!tree \in Trees
         /\ RB!tree.root = root /\ RB!tree.child = child
         /\ RB!tree.parent = parent /\ RB!tree.color = color
<1>1. RB!Members = M /\ Missing = p /\ Newcomer = NULL
  BY DEF RB!Members, Missing, Newcomer
<1>2. /\ RB!TypeOK /\ RbPhase /\ p \in M /\ n = child[t][p] /\ (n # NULL => color[n] = 1)
      /\ Tree(M, root, child, parent, sp) /\ Balance(M, child, color, h, p, t)
      /\ Reds(M, root, parent, color, NULL)
  BY <1>1 DEF RbInv, RbPlace
<1>3. child \in Links /\ parent \in Pointers /\ color \in Colors /\ alive \subseteq Key
  BY <1>2, RbTypes
<1>4. t \in Side /\ Other(t) \in Side /\ Other(Other(t)) = t
  <2>1. t \in Side
    BY DEF RB!NodeSide, Side
  <2>2. QED
    BY <2>1, Sides
<1>5. /\ RB!sibling = child[Other(t)][p]
      /\ RB!Outer = child[Other(t)][RB!sibling] /\ RB!Inner = child[t][RB!sibling]
  BY RbSides DEF RB!sibling, RB!Outer, RB!Inner
<1>6. RB!sibling \in M /\ RB!sibling # NULL
  <2>1. child[Other(t)][p] \in M /\ child[Other(t)][p] # NULL
    BY <1>2, <1>4, LackSide
  <2>2. QED
    BY <1>5, <2>1
<1>7. \A m \in M : color[m] \in {0, 1}
  BY <1>2 DEF Balance, Hue
<1>8. M \subseteq Key /\ NULL \notin M
  BY <1>3, Keys, Zenon
<1>9. QED
  BY <1>2, <1>3, <1>4, <1>5, <1>6, <1>7, <1>8, RbTree

(* The rest of a removal ends, ...                                         *)
LEMMA EraseEnds ==
  ASSUME pc = "erase", RbPhase, pc' = "erased", n' = NULL, p' = NULL,
         UNCHANGED <<alive, op, key, ret, d>>, alive \subseteq Key,
         child' \in Links, parent' \in Pointers, color' \in Colors,
         NEW M, M = alive \ {key}, NEW sp2, Tree(M, root', child', parent', sp2),
         NEW t, \E h2 : Balance(M, child', color', h2, NULL, t),
         Reds(M, root', parent', color', NULL)
  PROVE  \E sp3, h3 : RbInv(sp3, h3)'
<1>1. RbPhase'
  BY DEF RbPhase, RbPcs
<1>2. RB!Members' = M
  BY DEF RB!Members
<1>3. PICK h2 : Balance(M, child', color', h2, NULL, t)
  OBVIOUS
<1>4. RbInv(sp2, h2)'
  BY <1>1, <1>2, <1>3, RbTreeChanged
<1>5. QED
  BY <1>4

(* ... or goes on where a black node is missing now.                       *)
LEMMA EraseGoesOn ==
  ASSUME pc = "erase", RbPhase, pc' = "erase",
         UNCHANGED <<alive, op, key, ret, d>>, alive \subseteq Key,
         child' \in Links, parent' \in Pointers, color' \in Colors,
         NEW M, M = alive \ {key}, NEW sp2, Tree(M, root', child', parent', sp2),
         NEW f \in Side, NEW e, e = p', p' \in M, n' = child'[f][p'], n' # NULL => color'[n'] = 1,
         \E h2 : Balance(M, child', color', h2, e, f),
         Reds(M, root', parent', color', NULL)
  PROVE  \E sp3, h3 : RbInv(sp3, h3)'
<1>1. RbPhase'
  BY DEF RbPhase, RbPcs
<1>2. RB!Members' = M
  BY DEF RB!Members
<1>3. PICK h2 : Balance(M, child', color', h2, e, f)
  OBVIOUS
<1>4. RbInv(sp2, h2)'
  BY <1>1, <1>2, <1>3, RbTreeChanged
<1>5. QED
  BY <1>4

LEMMA RbRedSibling ==
  ASSUME NEW sp, NEW h, RbInv(sp, h), RB!erase_red_sibling
  PROVE  \E sp3, h3 : RbInv(sp3, h3)'
<1> DEFINE M == alive \ {key}
           t == RB!NodeSide
           y == RB!sibling
           z == RB!Inner
           g == p
           s == Other(t)
           q == p
           k == NULL
           tr == RB!tree
           t2 == RB!rotate_set_parents(RB!set_parent_color(RB!turn(tr, g, y, s), z, g, 1), g, y, 0)
<1>1. /\ pc = "erase" /\ color[y] = 0 /\ RB!Become(t2)
      /\ UNCHANGED <<alive, pc, op, key, ret, n, p, d>>
  BY RbSides DEF RB!erase_red_sibling, RB!RB_RED, RB!RB_BLACK, RB!callVars, RB!loopVars
<1>2. /\ Tree(M, root, child, parent, sp) /\ Balance(M, child, color, h, p, t)
      /\ Reds(M, root, parent, color, NULL) /\ RbPhase
      /\ M \subseteq Key /\ NULL \notin M /\ alive \subseteq Key
      /\ p \in M /\ p \in Key /\ t \in Side /\ Other(t) \in Side /\ Other(Other(t)) = t
      /\ n = child[t][p] /\ (n # NULL => color[n] = 1)
      /\ y = child[Other(t)][p] /\ y \in M /\ y # NULL
      /\ z = child[t][y]
      /\ tr \in Trees /\ tr.root = root /\ tr.child = child /\ tr.parent = parent /\ tr.color = color
  BY <1>1, EraseFacts
<1> HIDE DEF M, t, y, z, tr, t2
<1>3. y # p /\ parent[y] = p /\ y # root /\ y # n
  <2>1. child[s][p] # NULL
    BY <1>2
  <2>2. parent[child[s][p]] = p /\ child[s][p] # p /\ child[s][p] # root
    BY <1>2, <2>1, TreeFacts
  <2>3. child[Other(t)][p] # child[t][p]
    BY <1>2, LackSide
  <2>4. QED
    BY <1>2, <2>2, <2>3
<1>4. color[p] = 1
  BY <1>1, <1>2, <1>3 DEF Reds
<1>5. RedTurn(tr, M, sp, h, q, t, k, g, s, y, z, t2)
  <2>1. /\ tr \in Trees /\ Tree(M, tr.root, tr.child, tr.parent, sp)
        /\ Balance(M, tr.child, tr.color, h, q, t) /\ Reds(M, tr.root, tr.parent, tr.color, k)
    BY <1>2
  <2>2. /\ g \in M /\ s \in Side
        /\ y = tr.child[s][g] /\ y # NULL /\ z = tr.child[Other(s)][y]
        /\ tr.color[y] = 0 /\ tr.color[g] = 1 /\ k \in {tr.child[s][y], NULL}
    BY <1>1, <1>2, <1>4
  <2>3. tr.child[Other(s)][g] = NULL \/ tr.color[tr.child[Other(s)][g]] = 1
    BY <1>2
  <2>4. q # y /\ (q = g => t = Other(s))
    BY <1>2, <1>3
  <2>5. t2 = RB!rotate_set_parents(RB!set_parent_color(RB!turn(tr, g, y, s), z, g, 1), g, y, 0)
    BY DEF t2
  <2> HIDE DEF s, g, q, k
  <2>6. QED
    BY ONLY <2>1, <2>2, <2>3, <2>4, <2>5, Zenon DEF RedTurn
<1> HIDE DEF s, g, q, k
<1>6. /\ t2 \in Trees
      /\ Turned(M, g, s, tr.root, tr.child, tr.parent, t2.root, t2.child, t2.parent)
      /\ \A m \in M : t2.color[m] = IF m = y THEN 1 ELSE IF m = g THEN 0 ELSE tr.color[m]
      /\ \E sp2 : Tree(M, t2.root, t2.child, t2.parent, sp2)
      /\ \E h2 : Balance(M, t2.child, t2.color, h2, q, t)
      /\ Reds(M, t2.root, t2.parent, t2.color, NULL)
  BY ONLY <1>5, RotateRedTree
<1>7. /\ root' = t2.root /\ child' = t2.child /\ parent' = t2.parent /\ color' = t2.color
      /\ child' \in Links /\ parent' \in Pointers /\ color' \in Colors
  <2>1. t2.child \in Links /\ t2.parent \in Pointers /\ t2.color \in Colors
    BY <1>6, TreeParts
  <2>2. QED
    BY <1>1, <2>1 DEF RB!Become
<1>8. n = child'[t][p]
  <2>1. child[t][p] # p
    BY <1>2, TreeFacts
  <2>2. t2.child[t][p] = tr.child[t][p]
    <3>1. \A m \in M, v \in Side : t2.child[v][m] =
            IF m = g /\ v = s THEN tr.child[Other(s)][tr.child[s][g]]
            ELSE IF m = tr.child[s][g] /\ v = Other(s) THEN g
            ELSE IF tr.child[v][m] = g THEN tr.child[s][g] ELSE tr.child[v][m]
      BY <1>6, Zenon DEF Turned
    <3>2. t # s /\ tr.child[s][g] = y /\ g = p
      BY <1>2, Sides DEF s, g
    <3>3. QED
      BY <1>2, <1>3, <2>1, <3>1, <3>2
  <2>3. QED
    BY <1>2, <1>7, <2>2
<1>9. n # NULL => color'[n] = 1
  <2>1. ASSUME n # NULL
        PROVE  color'[n] = 1
    <3>1. n \in M /\ n # p
      BY <1>2, <2>1, TreeFacts
    <3>2. QED
      BY <1>2, <1>3, <1>6, <1>7, <2>1, <3>1 DEF g
  <2>2. QED
    BY <2>1
<1>10. PICK sp2 : Tree(M, root', child', parent', sp2)
  BY <1>6, <1>7
<1>11. (\E h2 : Balance(M, child', color', h2, q, t)) /\ Reds(M, root', parent', color', NULL)
  BY <1>6, <1>7
<1>12. q = p' /\ p' \in M /\ n' = child'[t][p'] /\ (n' # NULL => color'[n'] = 1) /\ M = alive \ {key} /\ pc' = "erase"
  BY <1>1, <1>2, <1>8, <1>9 DEF M, q
<1>13. QED
  BY <1>1, <1>2, <1>7, <1>10, <1>11, <1>12, EraseGoesOn

(* The sibling becomes red.                                                *)
LEMMA RbEraseFlip ==
  ASSUME NEW sp, NEW h, RbInv(sp, h), RB!erase_flip
  PROVE  \E sp3, h3 : RbInv(sp3, h3)'
<1> DEFINE M == alive \ {key}
           t == RB!NodeSide
           y == RB!sibling
           c1 == [color EXCEPT ![y] = 0]
           c2 == [c1 EXCEPT ![p] = 1]
           e == IF color[p] = 1 THEN parent[p] ELSE NULL
<1>1. /\ pc = "erase" /\ color[y] = 1 /\ ~ RB!Is(0, RB!Outer) /\ ~ RB!Is(0, RB!Inner)
      /\ color' = c2
      /\ UNCHANGED <<root, child, parent, alive, op, key, ret, d>>
  BY DEF RB!erase_flip, RB!BlackSibling, RB!RB_RED, RB!RB_BLACK, RB!callVars
<1>2. /\ e # NULL => n' = p /\ p' = e /\ pc' = "erase"
      /\ e = NULL => n' = NULL /\ p' = NULL /\ pc' = "erased"
  BY DEF RB!erase_flip, RB!BlackSibling, RB!RB_RED, RB!RB_BLACK
<1>3. /\ Tree(M, root, child, parent, sp) /\ Balance(M, child, color, h, p, t)
      /\ Reds(M, root, parent, color, NULL) /\ RbPhase
      /\ M \subseteq Key /\ NULL \notin M /\ alive \subseteq Key
      /\ p \in M /\ p \in Key /\ t \in Side /\ Other(t) \in Side /\ Other(Other(t)) = t
      /\ y = child[Other(t)][p] /\ y \in M /\ y # NULL
      /\ RB!Outer = child[Other(t)][y] /\ RB!Inner = child[t][y]
      /\ \A m \in M : color[m] \in {0, 1}
      /\ child \in Links /\ parent \in Pointers /\ color \in Colors
  BY <1>1, EraseFacts
<1> HIDE DEF M, t, y, c1, c2, e
<1>4. y \in Key /\ 0 \in Hue /\ 1 \in Hue
  BY <1>3 DEF Hue
<1>5. c1 \in Colors /\ \A m \in Key : c1[m] = IF m = y THEN 0 ELSE color[m]
  <2>1. c1 = [color EXCEPT ![y] = 0]
    BY DEF c1
  <2>2. /\ [color EXCEPT ![y] = 0] \in Colors
        /\ \A m \in Key : [color EXCEPT ![y] = 0][m] = IF m = y THEN 0 ELSE color[m]
    BY <1>3, <1>4, ColorIs
  <2>3. QED
    BY <2>1, <2>2
<1>6. c2 \in Colors /\ \A m \in Key : c2[m] = IF m = p THEN 1 ELSE c1[m]
  <2>1. c2 = [c1 EXCEPT ![p] = 1]
    BY DEF c2
  <2>2. /\ [c1 EXCEPT ![p] = 1] \in Colors
        /\ \A m \in Key : [c1 EXCEPT ![p] = 1][m] = IF m = p THEN 1 ELSE c1[m]
    BY <1>3, <1>4, <1>5, ColorIs
  <2>3. QED
    BY <2>1, <2>2
<1>7. y # p
  <2>1. child[Other(t)][p] # NULL
    BY <1>3
  <2>2. child[Other(t)][p] # p
    BY <1>3, <2>1, TreeFacts
  <2>3. QED
    BY <1>3, <2>2
<1>8. color' \in Colors /\ \A m \in M : color'[m] = IF m = y THEN 0 ELSE IF m = p THEN 1 ELSE color[m]
  BY <1>1, <1>3, <1>5, <1>6, <1>7
<1>9. \A v \in Side : child[v][y] = NULL \/ color[child[v][y]] = 1
  <2>1. ASSUME NEW v \in Side, child[v][y] # NULL
        PROVE  color[child[v][y]] = 1
    <3>1. child[v][y] \in M
      BY <1>3, <2>1, SpanIn DEF Tree
    <3>2. v = t \/ v = Other(t)
      BY <1>3, Sides
    <3>3. ~ RB!Is(0, child[v][y])
      BY <1>1, <1>3, <3>2
    <3>4. QED
      BY <1>3, <2>1, <3>1, <3>3 DEF RB!Is
  <2>2. QED
    BY <2>1
<1>10. /\ (parent[p] = NULL <=> p = root) /\ parent[p] \in M \cup {NULL}
       /\ \E f \in Side : p # root => child[f][parent[p]] = p
  BY <1>3, HangsUp
<1>11. PICK f \in Side : p # root => child[f][parent[p]] = p
  BY <1>10
<1>12. WhatIsLeft(root, child, parent, color, p, e, f)
  BY <1>11 DEF WhatIsLeft, e
<1>13. (\E h2 : Balance(M, child, color', h2, e, f)) /\ Reds(M, root, parent, color', NULL)
  <2> DEFINE co2 == color'
             g == p
  <2>1. /\ Tree(M, root, child, parent, sp) /\ g \in M /\ t \in Side
        /\ Balance(M, child, color, h, g, t) /\ Reds(M, root, parent, color, NULL)
        /\ y \in M /\ y = child[Other(t)][g] /\ color[y] = 1
        /\ \A v \in Side : child[v][y] = NULL \/ color[child[v][y]] = 1
        /\ \A m \in M : co2[m] = IF m = y THEN 0 ELSE IF m = g THEN 1 ELSE color[m]
        /\ WhatIsLeft(root, child, parent, color, g, e, f)
    BY <1>1, <1>3, <1>8, <1>9, <1>12
  <2> HIDE DEF co2, g
  <2>2. (\E h2 : Balance(M, child, co2, h2, e, f)) /\ Reds(M, root, parent, co2, NULL)
    BY ONLY <2>1, FlipUp
  <2>3. QED
    BY <2>2 DEF co2
<1>14. M = alive \ {key} /\ Tree(M, root', child', parent', sp)
       /\ child' \in Links /\ parent' \in Pointers
       /\ (\E h2 : Balance(M, child', color', h2, e, f)) /\ Reds(M, root', parent', color', NULL)
  BY <1>1, <1>3, <1>13 DEF M
<1>15. CASE e = NULL
  <2>1. \E h2 : Balance(M, child', color', h2, NULL, f)
    BY <1>14, <1>15
  <2>2. QED
    BY <1>1, <1>2, <1>3, <1>8, <1>14, <1>15, <2>1, EraseEnds
<1>16. CASE e # NULL
  <2>1. e = parent[p] /\ p # root /\ e \in M
    BY <1>10, <1>16 DEF e
  <2>2. n' = child'[f][p'] /\ p' \in M /\ e = p' /\ (n' # NULL => color'[n'] = 1)
    BY <1>1, <1>2, <1>3, <1>7, <1>8, <1>11, <1>16, <2>1
  <2>3. QED
    BY <1>1, <1>2, <1>3, <1>8, <1>14, <1>16, <2>2, EraseGoesOn
<1>17. QED
  BY <1>15, <1>16

(* The sibling's outer child is red: the sibling goes up.                  *)
LEMMA EraseOuter ==
  ASSUME NEW sp, NEW h, RbInv(sp, h), RB!erase_rotate, RB!Is(0, RB!Outer),
         NEW M, M = alive \ {key}
  PROVE  /\ child' \in Links /\ parent' \in Pointers /\ color' \in Colors
         /\ \E sp2 : Tree(M, root', child', parent', sp2)
         /\ \E h2 : Balance(M, child', color', h2, NULL, RB!NodeSide)
         /\ Reds(M, root', parent', color', NULL)
<1> DEFINE t == RB!NodeSide
           s == Other(t)
           g == p
           y == RB!sibling
           w == RB!Outer
           tr == RB!tree
           z == tr.child[t][y]
           t2 == RB!rotate_set_parents(
                   RB!set_parent(RB!set_parent_color(RB!turn(tr, g, y, s), w, y, 1), z, g), g, y, 1)
<1>1. pc = "erase" /\ color[y] = 1 /\ w # NULL /\ color[w] = 0
  BY DEF RB!erase_rotate, RB!BlackSibling, RB!RB_BLACK, RB!Is
<1>2. RB!Become(t2)
  <2>1. \A v : RB!Other(v) = Other(v)
    BY RbSides
  <2>2. QED
    BY <2>1 DEF RB!erase_rotate, RB!RB_RED, RB!RB_BLACK
<1>3. /\ Tree(M, root, child, parent, sp) /\ Balance(M, child, color, h, g, t)
      /\ Reds(M, root, parent, color, NULL)
      /\ M \subseteq Key /\ NULL \notin M
      /\ g \in M /\ g \in Key /\ t \in Side /\ Other(t) \in Side /\ Other(Other(t)) = t
      /\ y = child[Other(t)][g] /\ y \in M /\ y # NULL
      /\ w = child[Other(t)][y]
      /\ tr \in Trees /\ tr.root = root /\ tr.child = child /\ tr.parent = parent /\ tr.color = color
  BY <1>1, EraseFacts
<1> HIDE DEF t, y, w, tr, g
<1>4. s \in Side /\ Other(s) = t /\ s # t
  BY <1>3, Sides
<1>5. /\ y = child[s][g] /\ w = child[s][y] /\ z = child[Other(s)][y]
  BY <1>3, <1>4
<1> HIDE DEF s, z, t2
<1>6. /\ Hangs(child, g, parent[g]) /\ parent[g] \notin {g, y} /\ z # g
      /\ y \in Key /\ g # y
  <2>1. /\ Tree(M, root, child, parent, sp) /\ g \in M /\ s \in Side /\ y = child[s][g] /\ y # NULL
    BY <1>3, <1>4, <1>5
  <2>2. /\ Hangs(child, g, parent[g]) /\ parent[g] \notin {g, y} /\ child[Other(s)][y] # g
        /\ g \in Key /\ y \in Key /\ y \in M /\ g # y
    BY ONLY <2>1, HangsThere
  <2>3. QED
    BY <1>5, <2>2
<1>7. w \in M /\ w \in Key /\ w # g /\ w # y /\ w # z /\ parent[w] = y
  <2>1. child[s][g] # NULL /\ child[s][child[s][g]] # NULL
    BY <1>1, <1>3, <1>5
  <2>2. LET x == child[s][child[s][g]]
        IN  /\ x \in M /\ x # root /\ x # g /\ x # child[s][g] /\ parent[x] = child[s][g] /\ parent[g] # x
            /\ x # NULL /\ x \in Key
    BY <1>3, <1>4, <2>1, Grandkid
  <2>3. child[s][y] # child[Other(s)][y]
    BY <1>1, <1>3, <1>4, <1>5, TreeFacts
  <2>4. QED
    BY <1>5, <2>2, <2>3
<1>8. /\ t2 \in Trees
      /\ t2.root = IF tr.parent[g] = NULL THEN y ELSE tr.root
      /\ \A v \in Side, m \in Key : t2.child[v][m] =
           IF m = g /\ v = s THEN z ELSE IF m = y /\ v = Other(s) THEN g
           ELSE IF m = tr.parent[g] /\ tr.child[v][m] = g THEN y ELSE tr.child[v][m]
      /\ \A m \in Key : t2.parent[m] =
           IF m = y THEN tr.parent[g] ELSE IF m = g \/ m = w THEN y ELSE IF m = z THEN g ELSE tr.parent[m]
      /\ \A m \in Key : t2.color[m] =
           IF m = y THEN tr.color[g] ELSE IF m = g \/ m = w THEN 1 ELSE tr.color[m]
  <2>1. /\ tr \in Trees /\ g \in Key /\ y \in Key /\ g # y /\ s \in Side
        /\ Hangs(tr.child, g, tr.parent[g]) /\ tr.parent[g] \notin {g, y}
        /\ z = tr.child[Other(s)][y] /\ z # g
        /\ w \in Key /\ w # g /\ w # y /\ w # z
    BY <1>3, <1>4, <1>5, <1>6, <1>7
  <2>2. t2 = RB!rotate_set_parents(
               RB!set_parent(RB!set_parent_color(RB!turn(tr, g, y, s), w, y, 1), z, g), g, y, 1)
    BY DEF t2
  <2>3. QED
    BY ONLY <2>1, <2>2, LastRotateIs
<1>9. /\ root' = t2.root /\ child' = t2.child /\ parent' = t2.parent /\ color' = t2.color
      /\ child' \in Links /\ parent' \in Pointers /\ color' \in Colors
  <2>1. t2.child \in Links /\ t2.parent \in Pointers /\ t2.color \in Colors
    BY <1>8, TreeParts
  <2>2. QED
    BY <1>2, <2>1 DEF RB!Become
<1> DEFINE r2 == root'
           ch2 == child'
           pa2 == parent'
           co2 == color'
<1>10. /\ r2 = IF parent[g] = NULL THEN y ELSE root
       /\ \A v \in Side, m \in Key : ch2[v][m] =
            IF m = g /\ v = s THEN z ELSE IF m = y /\ v = Other(s) THEN g
            ELSE IF m = parent[g] /\ child[v][m] = g THEN y ELSE child[v][m]
       /\ \A m \in M : pa2[m] =
            IF m = y THEN parent[g] ELSE IF m = g THEN y ELSE IF m = z THEN g ELSE parent[m]
  <2>1. \A m \in M : pa2[m] =
          IF m = y THEN parent[g] ELSE IF m = g THEN y ELSE IF m = z THEN g ELSE parent[m]
    BY <1>3, <1>7, <1>8, <1>9
  <2>2. QED
    BY <1>3, <1>8, <1>9, <2>1
<1>11. \A m \in M : co2[m] = IF m = y THEN color[g] ELSE IF m = g \/ m = w THEN 1 ELSE color[m]
  BY <1>3, <1>8, <1>9
<1>12. /\ Tree(M, root, child, parent, sp) /\ g \in M /\ s \in Side /\ y = child[s][g] /\ y # NULL
       /\ z = child[Other(s)][y] /\ t = Other(s)
       /\ Balance(M, child, color, h, g, t) /\ Reds(M, root, parent, color, NULL)
       /\ y \in M /\ color[y] = 1 /\ w \in M /\ w = child[s][y] /\ color[w] = 0
  BY <1>1, <1>3, <1>4, <1>5, <1>7
<1> HIDE DEF r2, ch2, pa2, co2
<1>13. Turned(M, g, s, root, child, parent, r2, ch2, pa2)
  BY ONLY <1>10, <1>12, TurnedIs
<1>14. \E sp2 : Tree(M, r2, ch2, pa2, sp2)
  <2>1. child[s][g] # NULL
    BY <1>12
  <2>2. QED
    BY ONLY <1>12, <1>13, <2>1, TurnedTree
<1>15. (\E h2 : Balance(M, ch2, co2, h2, NULL, t)) /\ Reds(M, r2, pa2, co2, NULL)
  BY ONLY <1>11, <1>12, <1>13, RotateFills
<1>16. QED
  BY <1>9, <1>14, <1>15 DEF r2, ch2, pa2, co2, t

(* Only its inner child is red: that goes up, first to the sibling's place *)
(* and then to the parent's.                                               *)
LEMMA EraseInner ==
  ASSUME NEW sp, NEW h, RbInv(sp, h), RB!erase_rotate, ~ RB!Is(0, RB!Outer),
         NEW M, M = alive \ {key}
  PROVE  /\ child' \in Links /\ parent' \in Pointers /\ color' \in Colors
         /\ \E sp2 : Tree(M, root', child', parent', sp2)
         /\ \E h2 : Balance(M, child', color', h2, NULL, RB!NodeSide)
         /\ Reds(M, root', parent', color', NULL)
<1> DEFINE t == RB!NodeSide
           s == Other(t)
           g == p
           q == RB!sibling
           x == RB!Inner
           tr == RB!tree
           a == child[s][x]
           b == child[t][x]
           t1 == RB!turn(tr, q, x, t)
           u1 == WithLink(t1, s, g, x)
           u2 == RB!set_parent_color(u1, a, q, 1)
           z == u2.child[t][x]
           t2 == RB!rotate_set_parents(
                   RB!set_parent(RB!set_parent_color(RB!turn(u2, g, x, s), q, x, 1), z, g), g, x, 1)
<1>1. pc = "erase" /\ color[q] = 1 /\ x # NULL /\ color[x] = 0
  BY DEF RB!erase_rotate, RB!BlackSibling, RB!RB_BLACK, RB!RB_RED, RB!Is
<1>2. RB!Become(t2)
  <2>1. \A v : RB!Other(v) = Other(v)
    BY RbSides
  <2>2. QED
    BY <2>1 DEF RB!erase_rotate, RB!RB_RED, RB!RB_BLACK, WithLink
<1>3. /\ Tree(M, root, child, parent, sp) /\ Balance(M, child, color, h, g, t)
      /\ Reds(M, root, parent, color, NULL)
      /\ M \subseteq Key /\ NULL \notin M
      /\ g \in M /\ g \in Key /\ t \in Side /\ Other(t) \in Side /\ Other(Other(t)) = t
      /\ q = child[Other(t)][g] /\ q \in M /\ q # NULL
      /\ x = child[t][q]
      /\ child \in Links /\ parent \in Pointers
      /\ tr \in Trees /\ tr.root = root /\ tr.child = child /\ tr.parent = parent /\ tr.color = color
  BY <1>1, EraseFacts
<1> HIDE DEF t, q, x, tr, g
<1>4. s \in Side /\ Other(s) = t /\ s # t /\ t = Other(s) /\ t \in Side /\ \A v \in Side : v = s \/ v = t
  BY <1>3, Sides
<1>5. q = child[s][g] /\ x = child[Other(s)][q] /\ a = child[s][x] /\ b = child[Other(s)][x]
  BY <1>3, <1>4
<1> HIDE DEF s, a, b
<1>6. /\ g \in Key /\ q \in Key /\ x \in Key /\ q \in M /\ x \in M
      /\ g # q /\ g # x /\ q # x
      /\ a \in M \cup {NULL} /\ b \in M \cup {NULL}
      /\ a \notin {g, q, x} /\ b \notin {g, q, x} /\ (a = b => a = NULL)
      /\ (a # NULL => parent[a] = x /\ a # root)
      /\ (b # NULL => parent[b] = x /\ b # root)
      /\ parent[g] \notin {g, q, x}
      /\ Hangs(child, g, parent[g])
  <2>1. /\ Tree(M, root, child, parent, sp) /\ g \in M /\ s \in Side /\ q = child[s][g] /\ q # NULL
        /\ x = child[Other(s)][q] /\ x # NULL
        /\ a = child[s][x] /\ b = child[Other(s)][x]
    BY <1>1, <1>3, <1>4, <1>5
  <2>2. QED
    BY ONLY <2>1, TwiceNodes
<1>7. /\ t1 \in Trees /\ t1.root = root /\ t1.parent = parent /\ t1.color = color
      /\ \A v \in Side, m \in Key : t1.child[v][m] =
           IF m = q /\ v = t THEN a ELSE IF m = x /\ v = s THEN q ELSE child[v][m]
  <2>1. tr \in Trees /\ q \in Key /\ x \in Key /\ q # x /\ t \in Side
    BY <1>3, <1>6
  <2> HIDE DEF t1
  <2>2. /\ t1 \in Trees /\ t1.root = tr.root /\ t1.parent = tr.parent
        /\ t1.color = tr.color
        /\ \A v \in Side, m \in Key : t1.child[v][m] =
              IF m = q /\ v = t THEN tr.child[Other(t)][x]
              ELSE IF m = x /\ v = Other(t) THEN q ELSE tr.child[v][m]
    BY ONLY <2>1, TurnIs DEF t1
  <2>3. Other(t) = s
    BY DEF s
  <2>4. QED
    BY <1>3, <1>4, <1>5, <2>2, <2>3
<1> HIDE DEF t1
<1>8. a \in Node /\ q \in Node /\ x \in Node /\ b \in Node /\ g \in Node /\ 1 \in Hue
  BY <1>3, <1>6 DEF Node, Hue
<1>9. /\ u1 \in Trees /\ u1.root = t1.root /\ u1.parent = t1.parent /\ u1.color = t1.color
      /\ \A v \in Side, m \in Key : u1.child[v][m] = IF v = s /\ m = g THEN x ELSE t1.child[v][m]
  <2>1. t1 \in Trees /\ s \in Side /\ g \in Key /\ x \in Node
    BY <1>4, <1>6, <1>7, <1>8
  <2>2. QED
    BY ONLY <2>1, LinkChanged
<1> HIDE DEF u1
<1>10. /\ u2 \in Trees /\ u2.root = u1.root /\ u2.child = u1.child
       /\ \A m \in Key : u2.parent[m] = IF m = a THEN q ELSE u1.parent[m]
       /\ \A m \in Key : u2.color[m] = IF m = a THEN 1 ELSE u1.color[m]
  <2>1. u1 \in Trees /\ a \in Node /\ q \in Node /\ 1 \in Hue
    BY <1>8, <1>9
  <2>2. QED
    BY ONLY <2>1, SetParentColor
<1>11. z = b /\ z = u2.child[t][x]
  <2> HIDE DEF u2
  <2>1. u1.child[t][x] = t1.child[t][x] /\ t1.child[t][x] = child[t][x]
    BY <1>4, <1>6, <1>7, <1>9
  <2>2. u2.child[t][x] = child[t][x]
    BY <1>10, <2>1
  <2>3. QED
    BY <1>4, <1>5, <2>2
<1> HIDE DEF u2, z, t2
<1>12. /\ u2.root = root /\ u2.parent[g] = parent[g] /\ u2.color[g] = color[g]
       /\ \A v \in Side, m \in Key : u2.child[v][m] =
            IF v = s /\ m = g THEN x
            ELSE IF m = q /\ v = t THEN a ELSE IF m = x /\ v = s THEN q ELSE child[v][m]
       /\ \A m \in Key : u2.parent[m] = IF m = a THEN q ELSE parent[m]
       /\ \A m \in Key : u2.color[m] = IF m = a THEN 1 ELSE color[m]
  BY <1>6, <1>7, <1>9, <1>10
<1>13. Hangs(u2.child, g, u2.parent[g]) /\ u2.parent[g] \notin {g, x}
  <2>1. ASSUME parent[g] # NULL
        PROVE  \E v \in Side : u2.child[v][parent[g]] = g /\ u2.child[Other(v)][parent[g]] # g
    <3>1. PICK v \in Side : child[v][parent[g]] = g /\ child[Other(v)][parent[g]] # g
      BY <1>6, <2>1 DEF Hangs
    <3>2. parent[g] \in Key /\ Other(v) \in Side
      <4>1. parent[g] \in Node
        BY <1>3, <1>6 DEF Pointers
      <4>2. QED
        BY <2>1, <4>1, Sides DEF Node
    <3>3. u2.child[v][parent[g]] = g /\ u2.child[Other(v)][parent[g]] # g
      BY <1>6, <1>12, <3>1, <3>2
    <3>4. QED
      BY <3>3
  <2>2. QED
    BY <1>6, <1>12, <2>1 DEF Hangs
<1>14. /\ t2 \in Trees
       /\ t2.root = IF u2.parent[g] = NULL THEN x ELSE u2.root
       /\ \A v \in Side, m \in Key : t2.child[v][m] =
            IF m = g /\ v = s THEN z ELSE IF m = x /\ v = Other(s) THEN g
            ELSE IF m = u2.parent[g] /\ u2.child[v][m] = g THEN x ELSE u2.child[v][m]
       /\ \A m \in Key : t2.parent[m] =
            IF m = x THEN u2.parent[g] ELSE IF m = g \/ m = q THEN x ELSE IF m = z THEN g ELSE u2.parent[m]
       /\ \A m \in Key : t2.color[m] =
            IF m = x THEN u2.color[g] ELSE IF m = g \/ m = q THEN 1 ELSE u2.color[m]
  <2>1. /\ u2 \in Trees /\ g \in Key /\ x \in Key /\ g # x /\ s \in Side
        /\ Hangs(u2.child, g, u2.parent[g]) /\ u2.parent[g] \notin {g, x}
        /\ z = u2.child[Other(s)][x] /\ z # g
        /\ q \in Key /\ q # g /\ q # x /\ q # z
    BY <1>3, <1>4, <1>6, <1>10, <1>11, <1>13, Zenon
  <2>2. t2 = RB!rotate_set_parents(
               RB!set_parent(RB!set_parent_color(RB!turn(u2, g, x, s), q, x, 1), z, g), g, x, 1)
    BY DEF t2
  <2>3. QED
    BY ONLY <2>1, <2>2, LastRotateIs
<1>15. /\ root' = t2.root /\ child' = t2.child /\ parent' = t2.parent /\ color' = t2.color
       /\ child' \in Links /\ parent' \in Pointers /\ color' \in Colors
  <2>1. t2.child \in Links /\ t2.parent \in Pointers /\ t2.color \in Colors
    BY <1>14, TreeParts
  <2>2. QED
    BY <1>2, <2>1 DEF RB!Become
<1> DEFINE r2 == root'
           ch2 == child'
           pa2 == parent'
           co2 == color'
           c1 == u2.child
<1>16. /\ Tree(M, root, child, parent, sp) /\ g \in M /\ s \in Side /\ q = child[s][g] /\ q # NULL
       /\ x = child[Other(s)][q] /\ x # NULL
       /\ a = child[s][x] /\ b = child[Other(s)][x]
       /\ \A v \in Side, m \in Key : m # g \/ v # s => c1[v][m] =
            IF m = q /\ v = Other(s) THEN a ELSE IF m = x /\ v = s THEN q ELSE child[v][m]
  BY <1>1, <1>3, <1>4, <1>5, <1>12
<1>17. r2 = IF parent[g] = NULL THEN x ELSE root
  BY <1>12, <1>14, <1>15
<1>18. \A v \in Side, m \in Key : ch2[v][m] =
         IF m = g /\ v = s THEN b ELSE IF m = x /\ v = Other(s) THEN g
         ELSE IF m = parent[g] /\ c1[v][m] = g THEN x ELSE c1[v][m]
  BY <1>11, <1>12, <1>14, <1>15
<1>19. \A m \in M : pa2[m] =
         IF m = x THEN parent[g] ELSE IF m = q \/ m = g THEN x
         ELSE IF m = a THEN q ELSE IF m = b THEN g ELSE parent[m]
  <2>1. ASSUME NEW m \in M
        PROVE  pa2[m] = IF m = x THEN parent[g] ELSE IF m = q \/ m = g THEN x
                        ELSE IF m = a THEN q ELSE IF m = b THEN g ELSE parent[m]
    <3>1. m \in Key /\ m # NULL
      BY <1>3
    <3>2. u2.parent[m] = (IF m = a THEN q ELSE parent[m]) /\ u2.parent[g] = parent[g]
      BY <1>12, <3>1
    <3>3. pa2[m] = IF m = x THEN u2.parent[g] ELSE IF m = g \/ m = q THEN x ELSE IF m = b THEN g ELSE u2.parent[m]
      BY <1>11, <1>14, <1>15, <3>1
    <3>4. m = a => m # b
      BY <1>6, <3>1
    <3> HIDE DEF pa2
    <3>5. QED
      BY <3>2, <3>3, <3>4
  <2>2. QED
    BY <2>1
<1>20. \A m \in M : co2[m] = IF m = x THEN color[g] ELSE IF m = g THEN color[q] ELSE color[m]
  <2>1. a # NULL => color[a] = 1
    <3>1. color[x] # 1
      BY <1>1
    <3>2. QED
      BY <1>3, <1>6, <3>1 DEF Reds, Balance, Hue
  <2>2. QED
    BY <1>1, <1>3, <1>6, <1>12, <1>14, <1>15, <2>1
<1>21. h[q] = h[child[Other(s)][g]] + color[q]
  <2>1. Lack(g, t, g, s) = 0 /\ Lack(g, t, g, t) = 1
    BY <1>4 DEF Lack
  <2>2. h[g] = h[child[s][g]] + color[g] + 0 /\ h[g] = h[child[t][g]] + color[g] + 1
    BY <1>3, <1>4, <2>1 DEF Balance
  <2>3. h[q] \in Nat /\ h[child[t][g]] \in Nat /\ color[g] \in {0, 1}
    <3>1. child[t][g] \in Node /\ h \in [Node -> Nat] /\ color[g] \in {0, 1}
      BY <1>3, <1>4, <1>6 DEF Links, Balance, Hue
    <3>2. QED
      BY <1>8, <3>1
  <2>4. h[g] = h[q] + color[g] + 0 /\ h[g] = h[child[t][g]] + color[g] + 1 /\ color[q] = 1 /\ t = Other(s)
    BY <1>1, <1>4, <1>5, <2>2
  <2>5. QED
    BY ONLY <2>3, <2>4
<1> HIDE DEF r2, ch2, pa2, co2, c1
<1>22. TurnedTwice(M, g, s, root, child, parent, r2, ch2, pa2)
  <2>1. TwiceLinks(M, root, child, parent, sp, g, s, q, x, a, b, c1, r2, ch2, pa2)
    BY ONLY <1>16, <1>17, <1>18, <1>19, Zenon DEF TwiceLinks
  <2>2. QED
    BY ONLY <2>1, TwiceIs
<1> DEFINE e == g
           k == NULL
<1>23. /\ Tree(M, root, child, parent, sp) /\ g \in M /\ s \in Side /\ e \in {NULL, g}
       /\ t = Other(s) /\ q \in M /\ q = child[s][g] /\ x \in M /\ x = child[Other(s)][q]
       /\ color[x] = 0 /\ Balance(M, child, color, h, e, t)
       /\ child[s][g] # NULL /\ child[Other(s)][child[s][g]] # NULL
       /\ Reds(M, root, parent, color, k) /\ \A m \in M : color[m] \in Hue
  BY <1>1, <1>3, <1>4, <1>5, <1>6 DEF Balance
<1>24. color[q] = 1 /\ k = NULL
  BY <1>1
<1> HIDE DEF e, k
<1>25. \E sp2 : Tree(M, r2, ch2, pa2, sp2)
  BY ONLY <1>22, <1>23, TurnTwice
<1>26. \E h2 : Balance(M, ch2, co2, h2, NULL, t)
  BY ONLY <1>20, <1>21, <1>22, <1>23, TwiceBalance
<1>27. Reds(M, r2, pa2, co2, NULL)
  <2>1. \/ /\ color[q] = 0 /\ k = x /\ color[g] = 1
           /\ child[Other(s)][g] = NULL \/ color[child[Other(s)][g]] = 1
        \/ color[q] = 1 /\ k = NULL
    BY <1>24
  <2>2. QED
    BY ONLY <1>20, <1>22, <1>23, <2>1, TwiceReds
<1>28. QED
  BY <1>15, <1>25, <1>26, <1>27 DEF r2, ch2, pa2, co2, t

LEMMA RbEraseRotate ==
  ASSUME NEW sp, NEW h, RbInv(sp, h), RB!erase_rotate
  PROVE  \E sp3, h3 : RbInv(sp3, h3)'
<1> DEFINE M == alive \ {key}
           t == RB!NodeSide
<1>1. pc = "erase" /\ pc' = "erased" /\ n' = NULL /\ p' = NULL /\ UNCHANGED <<alive, op, key, ret, d>>
  BY DEF RB!erase_rotate, RB!BlackSibling, RB!callVars
<1>2. M = alive \ {key} /\ RbPhase /\ alive \subseteq Key
  <2>1. alive \subseteq Key /\ RbPhase
    BY <1>1, EraseFacts, Zenon
  <2>2. QED
    BY <2>1
<1> HIDE DEF M
<1>3. /\ child' \in Links /\ parent' \in Pointers /\ color' \in Colors
      /\ \E sp2 : Tree(M, root', child', parent', sp2)
      /\ \E h2 : Balance(M, child', color', h2, NULL, t)
      /\ Reds(M, root', parent', color', NULL)
  <2>1. CASE RB!Is(0, RB!Outer)
    BY <1>2, <2>1, EraseOuter
  <2>2. CASE ~ RB!Is(0, RB!Outer)
    BY <1>2, <2>2, EraseInner
  <2>3. QED
    BY <2>1, <2>2
<1> HIDE DEF t
<1>4. PICK sp2 : Tree(M, root', child', parent', sp2)
  BY <1>3
<1>5. QED
  BY <1>1, <1>2, <1>3, <1>4, EraseEnds

(* The erased node's own fields are nobody's.                              *)
LEMMA RbErased ==
  ASSUME NEW sp, NEW h, RbInv(sp, h), RB!erased
  PROVE  \E sp3, h3 : RbInv(sp3, h3)'
<1> DEFINE M == alive \ {key}
           t == RB!NodeSide
           x == NULL
<1>1. /\ pc = "erased" /\ alive' = M
      /\ child' = [s \in Side |-> [child[s] EXCEPT ![key] = NULL]]
      /\ parent' = [parent EXCEPT ![key] = NULL] /\ color' = [color EXCEPT ![key] = 0]
      /\ pc' = "return" /\ ret' = ret /\ n' = NULL /\ p' = NULL /\ d' = NONE
      /\ UNCHANGED <<root, op, key>>
  BY RbSides DEF RB!erased, RB!Return, RB!RB_RED, RB!callVars
<1>2. /\ RB!TypeOK /\ RbPhase
      /\ Tree(M, root, child, parent, sp) /\ Balance(M, child, color, h, NULL, t)
      /\ Reds(M, root, parent, color, NULL)
  BY <1>1 DEF RbInv, RB!Members, Missing, Newcomer
<1>3. child \in Links /\ parent \in Pointers /\ color \in Colors /\ alive \subseteq Key /\ key \in alive
  BY <1>1, <1>2, RbTypes DEF RbPhase
<1>4. M \subseteq Key /\ key \in Key /\ key \notin M /\ NULL \in Node /\ 0 \in Hue /\ RB!Members' = M
  BY <1>1, <1>3 DEF Node, Hue, RB!Members
<1>5. child' \in Links /\ \A m \in M, s \in Side : child'[s][m] = child[s][m]
  BY <1>1, <1>3, <1>4 DEF Links
<1>6. parent' \in Pointers /\ \A m \in M : parent'[m] = parent[m]
  BY <1>1, <1>3, <1>4 DEF Pointers
<1>7. color' \in Colors /\ \A m \in M : color'[m] = color[m]
  BY <1>1, <1>3, <1>4 DEF Colors
<1> HIDE DEF M, t
<1>8. Tree(M, root', child', parent', sp)
  <2> DEFINE ch2 == child'
             pa2 == parent'
  <2>1. /\ Tree(M, root, child, parent, sp)
        /\ \A m \in M, s \in Side : ch2[s][m] = child[s][m]
        /\ \A m \in M : pa2[m] = parent[m]
    BY <1>2, <1>5, <1>6
  <2> HIDE DEF ch2, pa2
  <2>2. Tree(M, root, ch2, pa2, sp)
    BY ONLY <2>1, TreeSame
  <2>3. QED
    BY <1>1, <2>2 DEF ch2, pa2
<1>9. Balance(M, child', color', h, NULL, t)
  <2>1. /\ h \in [Node -> Nat] /\ h[NULL] = 0
        /\ \A m \in M : color[m] \in Hue
        /\ \A m \in M, s \in Side : h[m] = h[child[s][m]] + color[m] + Lack(NULL, t, m, s)
    BY <1>2 DEF Balance
  <2>2. \A m \in M : color'[m] \in Hue
    BY <1>7, <2>1
  <2>3. \A m \in M, s \in Side : h[m] = h[child'[s][m]] + color'[m] + Lack(NULL, t, m, s)
    BY <1>5, <1>7, <2>1
  <2>4. QED
    BY <2>1, <2>2, <2>3 DEF Balance
<1>10. Reds(M, root', parent', color', x)
  <2>1. ASSUME NEW m \in M, color'[m] = 0
        PROVE  m # root' /\ color'[parent'[m]] = 1
    <3>1. m # NULL
      BY <1>4, Keys
    <3>2. m # root /\ color[parent[m]] = 1
      BY <1>2, <1>7, <2>1, <3>1 DEF Reds
    <3>3. parent[m] \in M
      BY <1>2, <3>2, TreeFacts
    <3>4. QED
      BY <1>1, <1>6, <1>7, <3>2, <3>3
  <2>2. QED
    BY <2>1 DEF Reds
<1>11. RbPhase'
  BY <1>1, <1>2 DEF RbPhase, RbPcs
<1> DEFINE e == NULL
<1>12. /\ e = (IF pc' = "erase" THEN p' ELSE NULL) /\ x = (IF pc' = "insert" THEN n' ELSE NULL)
       /\ Balance(M, child', color', h, e, t)
       /\ pc' \in {"insert", "erase", "erased", "return"} /\ alive' \subseteq Key
       /\ pc' # "insert" /\ pc' # "erase"
  BY <1>1, <1>4, <1>9 DEF M
<1> HIDE DEF e, x
<1>13. RbInv(sp, h)'
  BY <1>4, <1>5, <1>6, <1>7, <1>8, <1>10, <1>11, <1>12, RbTreeChanged
<1>14. QED
  BY <1>13

(* Every step of a call of the red-black tree.                             *)
LEMMA RbStep ==
  ASSUME NEW sp, NEW h, RbInv(sp, h), RB!Step
  PROVE  \E sp3, h3 : RbInv(sp3, h3)'
<1>1. CASE RB!find
  BY <1>1, RbFind
<1>2. CASE RB!found \/ RB!not_found
  BY <1>2, RbAnswered
<1>3. CASE RB!rb_link_node
  BY <1>3, RbLink
<1>4. CASE RB!insert_root
  BY <1>4, RbInsertRoot
<1>5. CASE RB!insert_black_parent
  BY <1>5, RbInsertBlackParent
<1>6. CASE RB!insert_flip
  BY <1>6, RbInsertFlip
<1>7. CASE RB!insert_rotate
  BY <1>7, RbInsertRotate
<1>8. CASE RB!erase_easy
  BY <1>8, RbEraseEasy
<1>9. CASE RB!erase_down
  BY <1>9, RbDown
<1>10. CASE RB!erase_successor
  BY <1>10, RbSuccessor
<1>11. CASE RB!erase_replace
  BY <1>11, RbEraseReplace
<1>12. CASE RB!erase_red_sibling
  BY <1>12, RbRedSibling
<1>13. CASE RB!erase_flip
  BY <1>13, RbEraseFlip
<1>14. CASE RB!erase_rotate
  BY <1>14, RbEraseRotate
<1>15. CASE RB!erased
  BY <1>15, RbErased
<1>16. CASE RB!return
  BY <1>16, RbReturn
<1>17. QED
  BY <1>1, <1>2, <1>3, <1>4, <1>5, <1>6, <1>7, <1>8, <1>9, <1>10, <1>11, <1>12, <1>13, <1>14,
     <1>15, <1>16 DEF RB!Step

LEMMA RbInit ==
  ASSUME RB!Init
  PROVE  \E sp, h : RbInv(sp, h)
<1> DEFINE sp == [m \in {NULL} |-> {}]
           h == [m \in Node |-> 0]
<1>1. RB!Members = {} /\ Missing = NULL /\ Newcomer = NULL
  BY DEF RB!Init, RB!Members, Missing, Newcomer
<1>2. RB!TypeOK
  <2>1. child \in Links /\ parent \in Pointers /\ color \in Colors
    BY RbSides DEF RB!Init, Links, Pointers, Node, Colors, Hue, RB!RB_RED
  <2>2. QED
    BY <1>1, <2>1, RbTypes DEF RB!Init, RbPcs
<1>3. RbPhase
  BY DEF RbPhase, RB!Init, RbPcs
<1>4. Tree(RB!Members, root, child, parent, sp)
  BY <1>1 DEF Tree, Spans, Parents, RB!Init
<1>5. Balance(RB!Members, child, color, h, Missing, RB!NodeSide)
  BY <1>1 DEF Balance, Node
<1>6. Reds(RB!Members, root, parent, color, Newcomer)
  BY <1>1 DEF Reds
<1>7. RbPlace(sp)
  BY DEF RbPlace, RB!Init
<1> HIDE DEF sp, h
<1>8. RbInv(sp, h)
  BY <1>2, <1>3, <1>4, <1>5, <1>6, <1>7 DEF RbInv
<1>9. QED
  BY <1>8

-----------------------------------------------------------------------------
(* What the invariants say of the trees.  A subtree is a span, so that a   *)
(* tree of spans is what TreeOK calls one.                                 *)
LEMMA SubtreeIs ==
  ASSUME child \in Links, NEW M, NEW sp, Tree(M, root, child, parent, sp)
  PROVE  \A m \in M \cup {NULL} : ST!Subtree(m) = sp[m] /\ RB!Subtree(m) = sp[m]
<1>1. Spans(M, root, child, sp) /\ M \subseteq Key
  BY SpanIn DEF Tree
<1>2. ASSUME NEW m \in M \cup {NULL}
      PROVE  ST!Subtree(m) = sp[m] /\ RB!Subtree(m) = sp[m]
  <2>1. m \in Node
    BY <1>1 DEF Node
  <2>2. Closure(child, {m} \ {NULL}) = sp[m]
    BY <1>1, SpanClosure
  <2>3. QED
    BY <2>1, <2>2, SubtreeClosure
<1>3. QED
  BY <1>2

LEMMA TreeIsOK ==
  ASSUME child \in Links, NEW M, NEW sp, Tree(M, root, child, parent, sp)
  PROVE  /\ ST!Subtree(root) = M /\ RB!Subtree(root) = M
         /\ \A m \in M :
              /\ \A s \in Side : child[s][m] # NULL => parent[child[s][m]] = m
              /\ parent[m] = NULL <=> m = root
              /\ \A x \in ST!Subtree(child["LEFT"][m]) : x < m
              /\ \A x \in ST!Subtree(child["RIGHT"][m]) : x > m
              /\ \A x \in RB!Subtree(child["LEFT"][m]) : x < m
              /\ \A x \in RB!Subtree(child["RIGHT"][m]) : x > m
<1>1. /\ M \subseteq Key /\ NULL \notin M /\ root \in M \cup {NULL} /\ sp[root] = M
      /\ \A m \in M, s \in Side : child[s][m] \in M \cup {NULL} /\ sp[child[s][m]] = {x \in sp[m] : Beyond(s, m, x)}
  BY SpanIn, Keys DEF Tree
<1>2. \A m \in M \cup {NULL} : ST!Subtree(m) = sp[m] /\ RB!Subtree(m) = sp[m]
  BY SubtreeIs
<1>3. ASSUME NEW m \in M
      PROVE  /\ \A s \in Side : child[s][m] # NULL => parent[child[s][m]] = m
             /\ parent[m] = NULL <=> m = root
  BY <1>1, TreeFacts
<1>4. ASSUME NEW m \in M, NEW s \in Side
      PROVE  ST!Subtree(child[s][m]) = {x \in sp[m] : Beyond(s, m, x)}
             /\ RB!Subtree(child[s][m]) = {x \in sp[m] : Beyond(s, m, x)}
  BY <1>1, <1>2
<1>5. ASSUME NEW m \in M
      PROVE  /\ \A x \in ST!Subtree(child["LEFT"][m]) : x < m
             /\ \A x \in ST!Subtree(child["RIGHT"][m]) : x > m
             /\ \A x \in RB!Subtree(child["LEFT"][m]) : x < m
             /\ \A x \in RB!Subtree(child["RIGHT"][m]) : x > m
  <2>1. "LEFT" \in Side /\ "RIGHT" \in Side
    BY DEF Side
  <2>2. \A x : (Beyond("LEFT", m, x) <=> x < m) /\ (Beyond("RIGHT", m, x) <=> x > m)
    BY DEF Beyond
  <2>3. QED
    BY <1>4, <2>1, <2>2
<1>6. QED
  BY <1>1, <1>2, <1>3, <1>5

(* The S-Tree is one.                                                      *)
LEMMA StOK ==
  ASSUME NEW sp, StInv(sp)
  PROVE  ST!TypeOK /\ ST!TreeOK
<1>1. ST!TypeOK /\ child \in Links /\ ST!Side = Side
  BY StTypes, StSides DEF StInv
<1>2. CASE pc # "destroyed"
  <2>1. Tree(ST!Members, root, child, parent, sp)
    BY <1>2 DEF StInv
  <2>2. /\ ST!Subtree(root) = ST!Members
        /\ \A m \in ST!Members :
             /\ \A s \in Side : child[s][m] # NULL => parent[child[s][m]] = m
             /\ parent[m] = NULL <=> m = root
             /\ \A x \in ST!Subtree(child["LEFT"][m]) : x < m
             /\ \A x \in ST!Subtree(child["RIGHT"][m]) : x > m
    BY <1>1, <2>1, TreeIsOK
  <2>3. QED
    BY <1>1, <2>2, Zenon DEF ST!TreeOK
<1>3. CASE pc = "destroyed"
  BY <1>1, <1>3 DEF ST!TreeOK
<1>4. QED
  BY <1>2, <1>3

(* The red-black tree is one.                                              *)
LEMMA RbOK ==
  ASSUME NEW sp, NEW h, RbInv(sp, h)
  PROVE  RB!TypeOK /\ RB!TreeOK
<1>1. RB!TypeOK /\ child \in Links /\ RB!Side = Side
  BY RbTypes, RbSides DEF RbInv
<1>2. CASE pc # "destroyed"
  <2>1. Tree(RB!Members, root, child, parent, sp)
    BY <1>2 DEF RbInv
  <2>2. /\ RB!Subtree(root) = RB!Members
        /\ \A m \in RB!Members :
             /\ \A s \in Side : child[s][m] # NULL => parent[child[s][m]] = m
             /\ parent[m] = NULL <=> m = root
             /\ \A x \in RB!Subtree(child["LEFT"][m]) : x < m
             /\ \A x \in RB!Subtree(child["RIGHT"][m]) : x > m
    BY <1>1, <2>1, TreeIsOK
  <2>3. QED
    BY <1>1, <2>2, Zenon DEF RB!TreeOK
<1>3. CASE pc = "destroyed"
  BY <1>1, <1>3 DEF RB!TreeOK
<1>4. QED
  BY <1>2, <1>3

(* The black nodes from x down to a, below which there is nothing on side  *)
(* v, and whether a black node is missing on that path.                    *)
OnPath(M, sp, co, x, a) == {m \in M : a \in sp[m] /\ m \in sp[x] /\ co[m] = 1}
Passes(ch, sp, q, t, a, v) == IF ch[t][q] # NULL THEN a \in sp[ch[t][q]] ELSE a = q /\ v = t
Short(ch, sp, q, t, x, a, v) == IF q \in sp[x] /\ Passes(ch, sp, q, t, a, v) THEN 1 ELSE 0

Counted(M, ch, co, sp, h, q, t, x) ==
  \A a \in sp[x], v \in Side :
    ch[v][a] = NULL => Cardinality(OnPath(M, sp, co, x, a)) + Short(ch, sp, q, t, x, a, v) = h[x]

(* A path that ends at once.                                               *)
LEMMA PathEnds ==
  ASSUME NEW M, NEW r, NEW ch, NEW pa, NEW co, NEW sp, NEW h, NEW q, NEW t \in Side,
         Tree(M, r, ch, pa, sp), Balance(M, ch, co, h, q, t), q \in M \cup {NULL},
         NEW x \in M, NEW v \in Side, ch[v][x] = NULL
  PROVE  Cardinality(OnPath(M, sp, co, x, x)) + Short(ch, sp, q, t, x, x, v) = h[x]
<1>1. M \subseteq Key /\ NULL \notin M /\ Spans(M, r, ch, sp)
  BY SpanIn, Keys DEF Tree
<1>2. OnPath(M, sp, co, x, x) = IF co[x] = 1 THEN {x} ELSE {}
  <2>1. \A m \in M : x \in sp[m] /\ m \in sp[x] <=> m = x
    BY <1>1, TreeFacts, SpanIn
  <2>2. QED
    BY <2>1 DEF OnPath
<1>3. co[x] \in {0, 1} /\ h[x] = h[ch[v][x]] + co[x] + Lack(q, t, x, v) /\ h[NULL] = 0
  BY DEF Balance, Hue
<1>4. Cardinality(OnPath(M, sp, co, x, x)) = co[x]
  BY <1>2, <1>3, FS_EmptySet, FS_Singleton, Zenon
<1>5. Short(ch, sp, q, t, x, x, v) = Lack(q, t, x, v)
  <2>1. CASE x = q /\ v = t
    <3>1. Passes(ch, sp, q, t, x, v) /\ q \in sp[x]
      BY <1>1, <2>1, SpanIn DEF Passes
    <3>2. QED
      BY <2>1, <3>1 DEF Short, Lack
  <2>2. CASE ~(x = q /\ v = t)
    <3>1. ~(q \in sp[x] /\ Passes(ch, sp, q, t, x, v))
      <4>1. ASSUME q \in sp[x], Passes(ch, sp, q, t, x, v)
            PROVE  FALSE
        <5>1. q \in M
          BY <1>1, <4>1, SpanIn
        <5>2. ch[t][q] # NULL /\ x \in sp[ch[t][q]]
          BY <2>2, <4>1 DEF Passes
        <5>3. x \in sp[q] /\ q \notin sp[ch[t][q]]
          BY <1>1, <5>1, <5>2, SpanIn
        <5>4. x = q
          BY <4>1, <5>1, <5>3, TreeFacts
        <5>5. QED
          BY <5>2, <5>3, <5>4
      <4>2. QED
        BY <4>1
    <3>2. QED
      BY <2>2, <3>1 DEF Short, Lack
  <2>3. QED
    BY <2>1, <2>2
<1>6. QED
  <2>1. Lack(q, t, x, v) \in {0, 1}
    BY DEF Lack
  <2>2. h[x] = 0 + co[x] + Lack(q, t, x, v)
    BY <1>3
  <2>3. QED
    BY <1>3, <1>4, <1>5, <2>1, <2>2

(* A path that goes on below the child on side s.                          *)
LEMMA PathGoesOn ==
  ASSUME NEW M, NEW r, NEW ch, NEW pa, NEW co, NEW sp, NEW h, NEW q, NEW t \in Side,
         Tree(M, r, ch, pa, sp), Balance(M, ch, co, h, q, t), q \in M \cup {NULL},
         NEW x \in M, NEW s \in Side, NEW a \in sp[ch[s][x]], NEW v \in Side, ch[v][a] = NULL,
         Counted(M, ch, co, sp, h, q, t, ch[s][x])
  PROVE  Cardinality(OnPath(M, sp, co, x, a)) + Short(ch, sp, q, t, x, a, v) = h[x]
<1> DEFINE c == ch[s][x]
           old == OnPath(M, sp, co, c, a)
           new == OnPath(M, sp, co, x, a)
<1>1. M \subseteq Key /\ NULL \notin M /\ Spans(M, r, ch, sp)
  BY SpanIn, Keys DEF Tree
<1>2. /\ c \in M /\ a \in M /\ a \in sp[x] /\ x \notin sp[c] /\ sp[c] \subseteq sp[x] /\ Beyond(s, x, a) /\ x # a
      /\ sp[c] = {m \in sp[x] : Beyond(s, x, m)}
  BY <1>1, SpanIn
<1>3. \A m \in M : a \in sp[m] /\ m \in sp[x] <=> m = x \/ (a \in sp[m] /\ m \in sp[c])
  <2>1. ASSUME NEW m \in M, a \in sp[m], m \in sp[x], m # x
        PROVE  m \in sp[c]
    <3>1. PICK u \in Side : Beyond(u, x, m)
      BY <1>1, <2>1, SpanIn
    <3>2. m \in sp[ch[u][x]] /\ ch[u][x] \in M
      BY <1>1, <2>1, <3>1, SpanIn
    <3>3. a \in sp[ch[u][x]]
      BY <1>1, <2>1, <3>2, SpanIn
    <3>4. Beyond(u, x, a)
      BY <1>1, <3>3, SpanIn
    <3>5. u = s
      BY <1>1, <1>2, <3>4, Sides, Order
    <3>6. QED
      BY <3>2, <3>5
  <2>2. x \in sp[x]
    BY <1>1, SpanIn
  <2>3. QED
    BY <1>2, <2>1, <2>2
<1>4. /\ co[x] \in {0, 1} /\ h[x] = h[c] + co[x] + Lack(q, t, x, s) /\ h[c] \in Nat
      /\ Cardinality(old) + Short(ch, sp, q, t, c, a, v) = h[c]
  <2>1. co[x] \in {0, 1} /\ h[x] = h[c] + co[x] + Lack(q, t, x, s)
    BY DEF Balance, Hue
  <2>2. h[c] \in Nat
    <3>1. c \in Node /\ h \in [Node -> Nat]
      BY <1>1, <1>2 DEF Node, Balance
    <3>2. QED
      BY <3>1
  <2>3. QED
    BY <2>1, <2>2 DEF Counted
<1>5. IsFiniteSet(old) /\ Cardinality(old) \in Nat
  <2>1. old \subseteq Key
    BY <1>1 DEF OnPath
  <2>2. IsFiniteSet(old)
    BY <2>1, Keys, FS_Subset
  <2>3. QED
    BY <2>2, FS_CardinalityType
<1>6. Cardinality(new) = Cardinality(old) + co[x]
  <2>1. x \notin old
    BY <1>2 DEF OnPath
  <2>2. CASE co[x] = 1
    <3>1. new = old \cup {x}
      BY <1>3, <2>2 DEF OnPath
    <3>2. QED
      BY <1>5, <2>1, <2>2, <3>1, FS_AddElement, Zenon
  <2>3. CASE co[x] = 0
    <3>1. new = old
      BY <1>3, <2>3 DEF OnPath
    <3>2. QED
      BY <1>5, <2>3, <3>1
  <2>4. QED
    BY <1>4, <2>2, <2>3
<1>7. Short(ch, sp, q, t, x, a, v) = Short(ch, sp, q, t, c, a, v) + Lack(q, t, x, s)
  <2>1. CASE q = x
    <3>1. q \in sp[x] /\ q \notin sp[c]
      BY <1>1, <1>2, <2>1, SpanIn
    <3>2. Passes(ch, sp, q, t, a, v) <=> s = t
      <4>1. CASE s = t
        BY <1>1, <1>2, <2>1, <4>1 DEF Passes
      <4>2. CASE s # t
        <5>1. ASSUME Passes(ch, sp, q, t, a, v)
              PROVE  FALSE
          <6>1. a \in sp[ch[t][x]]
            BY <1>2, <2>1, <5>1 DEF Passes
          <6>2. Beyond(t, x, a)
            BY <1>1, <6>1, SpanIn
          <6>3. QED
            BY <1>1, <1>2, <4>2, <6>2, Sides, Order
        <5>2. QED
          BY <4>2, <5>1
      <4>3. QED
        BY <4>1, <4>2
    <3>3. QED
      BY <2>1, <3>1, <3>2 DEF Short, Lack
  <2>2. CASE q # x
    <3>1. Lack(q, t, x, s) = 0
      BY <2>2 DEF Lack
    <3>2. q \in sp[x] /\ Passes(ch, sp, q, t, a, v) => q \in sp[c]
      <4>1. ASSUME q \in sp[x], Passes(ch, sp, q, t, a, v)
            PROVE  q \in sp[c]
        <5>1. q \in M
          BY <1>1, <4>1, SpanIn
        <5>2. a \in sp[q]
          BY <1>1, <4>1, <5>1, SpanIn DEF Passes
        <5>3. QED
          BY <1>3, <2>2, <4>1, <5>1, <5>2
      <4>2. QED
        BY <4>1
    <3>3. q \in sp[c] => q \in sp[x]
      BY <1>2
    <3>4. Short(ch, sp, q, t, x, a, v) = Short(ch, sp, q, t, c, a, v)
      BY <3>2, <3>3 DEF Short
    <3>5. QED
      BY <3>1, <3>4 DEF Short
  <2>3. QED
    BY <2>1, <2>2
<1>8. QED
  <2>1. Lack(q, t, x, s) \in {0, 1} /\ Short(ch, sp, q, t, c, a, v) \in {0, 1}
    BY DEF Lack, Short
  <2> HIDE DEF c, old
  <2>2. Cardinality(new) + Short(ch, sp, q, t, x, a, v) = h[x]
    BY <1>4, <1>5, <1>6, <1>7, <2>1
  <2>3. QED
    BY <2>2

(* As many black nodes on every path, and one less where one is missing.   *)
LEMMA PathCount ==
  ASSUME NEW M, NEW r, NEW ch, NEW pa, NEW co, NEW sp, NEW h, NEW q, NEW t \in Side,
         Tree(M, r, ch, pa, sp), Balance(M, ch, co, h, q, t), q \in M \cup {NULL},
         NEW x \in M
  PROVE  Counted(M, ch, co, sp, h, q, t, x)
<1>1. SUFFICES ASSUME ~ Counted(M, ch, co, sp, h, q, t, x)
               PROVE  FALSE
  OBVIOUS
<1>2. M \subseteq Key /\ NULL \notin M /\ Spans(M, r, ch, sp)
  BY SpanIn, Keys DEF Tree
<1> DEFINE C == {sp[y] : y \in {z \in M : ~ Counted(M, ch, co, sp, h, q, t, z)}}
<1>3. C \in SUBSET SUBSET Key /\ C # {}
  <2>1. sp[x] \in C
    BY <1>1
  <2>2. \A y \in M : sp[y] \subseteq Key
    BY <1>2, SpanIn
  <2>3. QED
    BY <2>1, <2>2
<1>4. PICK T \in C : \A U \in C : U \subseteq T => U = T
  <2> HIDE DEF C
  <2>1. QED
    BY <1>3, LeastSet
<1>5. PICK y \in M : T = sp[y] /\ ~ Counted(M, ch, co, sp, h, q, t, y)
  OBVIOUS
<1>6. PICK a \in sp[y], v \in Side : ch[v][a] = NULL
        /\ ~ (Cardinality(OnPath(M, sp, co, y, a)) + Short(ch, sp, q, t, y, a, v) = h[y])
  BY <1>5 DEF Counted
<1>7. a # y
  BY <1>6, PathEnds
<1>8. PICK s \in Side : Beyond(s, y, a)
  BY <1>2, <1>6, <1>7, SpanIn
<1>9. /\ a \in sp[ch[s][y]] /\ ch[s][y] \in M /\ sp[ch[s][y]] \subseteq sp[y]
      /\ y \in sp[y] /\ y \notin sp[ch[s][y]]
  BY <1>2, <1>6, <1>8, SpanIn
<1>10. Counted(M, ch, co, sp, h, q, t, ch[s][y])
  <2>1. ASSUME ~ Counted(M, ch, co, sp, h, q, t, ch[s][y])
        PROVE  FALSE
    <3>1. sp[ch[s][y]] \in C
      BY <1>9, <2>1
    <3>2. sp[ch[s][y]] = sp[y]
      BY <1>4, <1>5, <1>9, <3>1
    <3>3. QED
      BY <1>9, <3>2
  <2>2. QED
    BY <2>1
<1>11. QED
  BY <1>6, <1>9, <1>10, PathGoesOn

(* The red-black tree's rules hold, as they are stated.                    *)
LEMMA RbRules ==
  ASSUME NEW sp, NEW h, RbInv(sp, h), pc # "destroyed"
  PROVE  /\ pc = "insert" => color[n] = 0
         /\ pc = "erase" => p # NULL /\ ~ RB!Is(0, n) /\ n # root
         /\ RB!Is(0, root) => pc = "insert" /\ n = root
         /\ \A m \in RB!Members : RB!Is(0, m) /\ RB!Is(0, parent[m]) => pc = "insert" /\ m = n
<1> DEFINE M == RB!Members
<1>1. /\ Tree(M, root, child, parent, sp) /\ Reds(M, root, parent, color, Newcomer)
      /\ M \subseteq Key /\ NULL \notin M /\ root \in M \cup {NULL}
      /\ RB!TypeOK /\ RbPlace(sp)
  BY SpanIn, Keys DEF RbInv, Tree
<1>2. pc = "insert" => color[n] = 0
  BY <1>1 DEF RbPlace
<1>3. ASSUME pc = "erase"
      PROVE  p # NULL /\ ~ RB!Is(0, n) /\ n # root
  <2>1. p \in M /\ n = child[RB!NodeSide][p] /\ (n # NULL => color[n] = 1) /\ RB!NodeSide \in Side
    BY <1>1, <1>3 DEF RbPlace, RB!NodeSide, Side
  <2>2. n # root
    <3>1. CASE n = NULL
      <4>1. root # NULL
        BY <1>1, <2>1, SpanIn DEF Tree
      <4>2. QED
        BY <3>1, <4>1
    <3>2. CASE n # NULL
      <4>1. child[RB!NodeSide][p] # NULL
        BY <2>1, <3>2
      <4>2. child[RB!NodeSide][p] # root
        BY <1>1, <2>1, <4>1, TreeFacts
      <4>3. QED
        BY <2>1, <4>2
    <3>3. QED
      BY <3>1, <3>2
  <2>3. QED
    BY <1>1, <2>1, <2>2 DEF RB!Is
<1>4. ASSUME RB!Is(0, root)
      PROVE  pc = "insert" /\ n = root
  <2>1. root # NULL /\ color[root] = 0 /\ root \in M
    BY <1>1, <1>4 DEF RB!Is
  <2>2. root = Newcomer
    BY <1>1, <2>1 DEF Reds
  <2>3. QED
    BY <2>1, <2>2 DEF Newcomer
<1>5. ASSUME NEW m \in M, RB!Is(0, m), RB!Is(0, parent[m])
      PROVE  pc = "insert" /\ m = n
  <2>1. color[m] = 0 /\ color[parent[m]] # 1 /\ m # NULL
    BY <1>5 DEF RB!Is
  <2>2. m = Newcomer
    BY <1>1, <2>1 DEF Reds
  <2>3. QED
    BY <2>1, <2>2 DEF Newcomer
<1>6. QED
  BY <1>2, <1>3, <1>4, <1>5

LEMMA RbCardinality == \A D : RB!Cardinality(D) = Cardinality(D)
BY DEF RB!Cardinality, Cardinality

(* The number of black nodes on a path is that of its root, but for the    *)
(* one that is missing.                                                    *)
LEMMA RbPath ==
  ASSUME NEW sp, NEW h, RbInv(sp, h), pc # "destroyed", NEW l \in RB!Leaf
  PROVE  RB!Blacks(l) + (IF pc = "erase" /\ RB!Through(l) THEN 1 ELSE 0) = h[root]
<1> DEFINE M == RB!Members
           t == RB!NodeSide
           q == Missing
           a == l[1]
           v == l[2]
<1>1. /\ Tree(M, root, child, parent, sp) /\ Balance(M, child, color, h, q, t)
      /\ M \subseteq Key /\ NULL \notin M /\ root \in M \cup {NULL} /\ sp[root] = M /\ sp[NULL] = {}
      /\ RB!TypeOK /\ RbPlace(sp) /\ child \in Links /\ t \in Side
  BY SpanIn, Keys, RbTypes DEF RbInv, Tree, RB!NodeSide, Side
<1>2. a \in M /\ v \in Side /\ child[v][a] = NULL /\ l = <<a, v>>
  BY RbSides DEF RB!Leaf
<1>3. root \in M /\ a \in sp[root]
  BY <1>1, <1>2
<1>4. q \in M \cup {NULL}
  BY <1>1 DEF Missing, RbPlace
<1>5. \A m \in M \cup {NULL} : RB!Subtree(m) = sp[m]
  BY <1>1, SubtreeIs
<1>6. RB!Blacks(l) = Cardinality(OnPath(M, sp, color, root, a))
  <2>1. {m \in M : a \in RB!Subtree(m) /\ color[m] = RB!RB_BLACK} = OnPath(M, sp, color, root, a)
    BY <1>1, <1>5 DEF OnPath, RB!RB_BLACK
  <2>2. QED
    BY <2>1, RbCardinality, Zenon DEF RB!Blacks
<1>7. (IF pc = "erase" /\ RB!Through(l) THEN 1 ELSE 0) = Short(child, sp, q, t, root, a, v)
  <2>1. CASE pc = "erase"
    <3>1. q = p /\ p \in M /\ n = child[t][p] /\ q \in sp[root] /\ p # NULL
      BY <1>1, <2>1 DEF Missing, RbPlace
    <3>2. n \in M \cup {NULL}
      BY <1>1, <3>1, SpanIn DEF Tree
    <3>3. RB!Through(l) <=> Passes(child, sp, q, t, a, v)
      <4>1. CASE n # NULL
        <5>1. RB!Through(l) <=> a \in sp[n]
          BY <1>5, <3>2, <4>1 DEF RB!Through
        <5>2. Passes(child, sp, q, t, a, v) <=> a \in sp[n]
          BY <3>1, <4>1 DEF Passes
        <5>3. QED
          BY <5>1, <5>2
      <4>2. CASE n = NULL
        <5>1. RB!Through(l) <=> l = <<p, t>>
          BY <4>2 DEF RB!Through
        <5>2. Passes(child, sp, q, t, a, v) <=> a = p /\ v = t
          BY <3>1, <4>2 DEF Passes
        <5>3. QED
          BY <1>2, <5>1, <5>2
      <4>3. QED
        BY <4>1, <4>2
    <3>4. QED
      BY <2>1, <3>1, <3>3 DEF Short
  <2>2. CASE pc # "erase"
    <3>1. q = NULL /\ q \notin sp[root]
      BY <1>1, <2>2 DEF Missing
    <3>2. QED
      BY <2>2, <3>1 DEF Short
  <2>3. QED
    BY <2>1, <2>2
<1>8. Cardinality(OnPath(M, sp, color, root, a)) + Short(child, sp, q, t, root, a, v) = h[root]
  <2> DEFINE x == root
  <2>1. /\ Tree(M, x, child, parent, sp) /\ Balance(M, child, color, h, q, t)
        /\ t \in Side /\ q \in M \cup {NULL} /\ x \in M
    BY <1>1, <1>3, <1>4
  <2>2. Counted(M, child, color, sp, h, q, t, x)
    <3> HIDE DEF x, M, q, t
    <3>1. QED
      BY ONLY <2>1, PathCount
  <2>3. QED
    BY <1>2, <1>3, <2>2 DEF Counted
<1>9. QED
  BY <1>6, <1>7, <1>8

LEMMA RbRedBlack ==
  ASSUME NEW sp, NEW h, RbInv(sp, h)
  PROVE  RB!RedBlack
<1>1. CASE pc # "destroyed"
  <2> DEFINE D == {RB!Blacks(l) + IF pc = "erase" /\ RB!Through(l) THEN 1 ELSE 0 : l \in RB!Leaf}
  <2>1. Cardinality(D) <= 1
    <3>1. D \subseteq {h[root]}
      BY <1>1, RbPath
    <3> HIDE DEF D
    <3>2. D = {} \/ D = {h[root]}
      BY <3>1
    <3>3. Cardinality(D) = 0 \/ Cardinality(D) = 1
      BY <3>2, FS_EmptySet, FS_Singleton, Zenon
    <3>4. QED
      BY <3>3
  <2>2. /\ pc = "insert" => color[n] = 0
        /\ pc = "erase" => p # NULL /\ ~ RB!Is(0, n) /\ n # root
        /\ RB!Is(0, root) => pc = "insert" /\ n = root
        /\ \A m \in RB!Members : RB!Is(0, m) /\ RB!Is(0, parent[m]) => pc = "insert" /\ m = n
    BY <1>1, RbRules
  <2>3. RB!RB_RED = 0
    BY DEF RB!RB_RED
  <2>4. QED
    BY <1>1, <2>1, <2>2, <2>3, RbCardinality, Zenon DEF RB!RedBlack
<1>2. CASE pc = "destroyed"
  BY <1>2 DEF RB!RedBlack
<1>3. QED
  BY <1>1, <1>2

-----------------------------------------------------------------------------
(* The benchmark: the tree that is asked for keeps its invariant.          *)
OneTree == IF ops = "s-tree" THEN \E sp : StInv(sp) ELSE \E sp, h : RbInv(sp, h)

TreeIntInv == ops \in Ops /\ seed \in {0, 1} /\ i \in Nat /\ OneTree

LEMMA TreeIntInit == Init => TreeIntInv
<1> SUFFICES ASSUME Init
             PROVE  TreeIntInv
  OBVIOUS
<1>1. (\E sp : StInv(sp)) /\ (\E sp, h : RbInv(sp, h))
  BY StInit, RbInit DEF Init
<1>2. QED
  BY <1>1 DEF Init, TreeIntInv, OneTree

(* Nothing is the same but the invariant, when nothing changes.            *)
LEMMA StStutter ==
  ASSUME NEW sp, StInv(sp), UNCHANGED vars
  PROVE  StInv(sp)'
<1>1. ST!Members' = ST!Members
  BY DEF vars, bothVars, ST!Members
<1>2. ST!TypeOK'
  BY <1>1, StTypes, StTypesNext DEF StInv, vars, bothVars
<1>3. StPhase'
  BY DEF StInv, StPhase, vars, bothVars
<1>4. StEdge(sp) => StEdge(sp)'
  BY DEF StEdge, ST!From, vars, bothVars
<1>5. QED
  BY <1>1, <1>2, <1>3, <1>4 DEF StInv, vars, bothVars

LEMMA RbStutter ==
  ASSUME NEW sp, NEW h, RbInv(sp, h), UNCHANGED vars
  PROVE  RbInv(sp, h)'
<1>1. RB!Members' = RB!Members /\ RB!NodeSide' = RB!NodeSide /\ Missing' = Missing /\ Newcomer' = Newcomer
  BY DEF vars, bothVars, RB!Members, RB!NodeSide, Missing, Newcomer
<1>2. RB!TypeOK'
  BY <1>1, RbTypes, RbTypesNext DEF RbInv, vars, bothVars
<1>3. RbPhase'
  BY DEF RbInv, RbPhase, vars, bothVars
<1>4. RbPlace(sp)'
  BY <1>1 DEF RbInv, RbPlace, vars, bothVars
<1>5. QED
  BY <1>1, <1>2, <1>3, <1>4 DEF RbInv, vars, bothVars

(* What the benchmark does with the tree.                                  *)
Calling == \E o \in Calls, k \in Key : Call(o, k)
Stepping == Use(ST!Step, RB!Step)
Destroying == Use(ST!st_destroy, RB!treeint_rb_destroy)

LEMMA Clients ==
  ASSUME TreeIntInv, [Next]_vars
  PROVE  /\ ops' = ops /\ seed' = seed /\ i' \in Nat
         /\ Calling \/ Stepping \/ Destroying \/ UNCHANGED vars
<1>1. tree_size \in Nat /\ Key = 0 .. tree_size - 1
  BY TreeIntAssumption, FS_CardinalityType DEF tree_size
<1>2. i \in Nat
  BY DEF TreeIntInv
<1>3. CASE Linear
  <2>1. ops' = ops /\ seed' = seed /\ i' \in Nat
    BY <1>2, <1>3 DEF Linear
  <2>2. CASE i < tree_size /\ Call("insert", i)
    <3>1. i \in Key
      BY <1>1, <1>2, <2>2
    <3>2. QED
      BY <2>1, <2>2, <3>1 DEF Calling, Calls
  <2>3. CASE i \in tree_size .. 2 * tree_size - 1 /\ Call("find", i - tree_size)
    <3>1. i - tree_size \in Key
      BY <1>1, <1>2, <2>3
    <3>2. QED
      BY <2>1, <2>3, <3>1 DEF Calling, Calls
  <2>4. CASE \E v \in Key : Call("remove", v)
    BY <2>1, <2>4 DEF Calling, Calls
  <2>5. QED
    BY <1>3, <2>2, <2>3, <2>4, Zenon DEF Linear
<1>4. CASE RandomKey
  <2>1. UNCHANGED clientVars /\ \E o \in {"insert", "find", "remove"}, v \in Random[ops] : Call(o, v)
    BY <1>4 DEF RandomKey
  <2>2. Random[ops] \subseteq Key
    BY TreeIntAssumption DEF TreeIntInv
  <2>3. QED
    BY <1>2, <2>1, <2>2 DEF clientVars, Calling, Calls
<1>5. CASE Step
  BY <1>2, <1>5 DEF Step, clientVars, Stepping
<1>6. CASE Destroy
  BY <1>2, <1>6 DEF Destroy, clientVars, Destroying
<1>7. CASE UNCHANGED vars
  BY <1>2, <1>7 DEF vars, clientVars
<1>8. QED
  BY <1>3, <1>4, <1>5, <1>6, <1>7 DEF Next, Terminating

LEMMA TreeIntStep == TreeIntInv /\ [Next]_vars => TreeIntInv'
<1> SUFFICES ASSUME TreeIntInv, [Next]_vars
             PROVE  TreeIntInv'
  OBVIOUS
<1>1. /\ ops' = ops /\ seed' = seed /\ i' \in Nat
      /\ Calling \/ Stepping \/ Destroying \/ UNCHANGED vars
  BY Clients
<1>2. CASE ops = "s-tree"
  <2>1. PICK sp : StInv(sp)
    BY <1>2 DEF TreeIntInv, OneTree
  <2>2. CASE Calling
    <3>1. PICK o \in Calls, k \in Key : ST!Call(o, k)
      BY <1>2, <2>2 DEF Calling, Call, Use
    <3>2. StInv(sp)'
      BY <2>1, <3>1, StCall
    <3>3. QED
      BY <1>1, <1>2, <3>2 DEF TreeIntInv, OneTree
  <2>3. CASE Stepping
    <3>1. ST!Step
      BY <1>2, <2>3 DEF Stepping, Use
    <3>2. \E sp2 : StInv(sp2)'
      BY <2>1, <3>1, StStep
    <3>3. QED
      BY <1>1, <1>2, <3>2 DEF TreeIntInv, OneTree
  <2>4. CASE Destroying
    <3>1. ST!st_destroy
      BY <1>2, <2>4 DEF Destroying, Use
    <3>2. StInv(sp)'
      BY <2>1, <3>1, StDestroy
    <3>3. QED
      BY <1>1, <1>2, <3>2 DEF TreeIntInv, OneTree
  <2>5. CASE UNCHANGED vars
    <3>1. StInv(sp)'
      BY <2>1, <2>5, StStutter
    <3>2. QED
      BY <1>1, <1>2, <3>1 DEF TreeIntInv, OneTree
  <2>6. QED
    BY <1>1, <2>2, <2>3, <2>4, <2>5
<1>3. CASE ops # "s-tree"
  <2>1. PICK sp, h : RbInv(sp, h)
    BY <1>3 DEF TreeIntInv, OneTree
  <2>2. CASE Calling
    <3>1. PICK o \in Calls, k \in Key : RB!Call(o, k)
      BY <1>3, <2>2 DEF Calling, Call, Use
    <3>2. RbInv(sp, h)'
      BY <2>1, <3>1, RbCall
    <3>3. QED
      BY <1>1, <1>3, <3>2 DEF TreeIntInv, OneTree
  <2>3. CASE Stepping
    <3>1. RB!Step
      BY <1>3, <2>3 DEF Stepping, Use
    <3>2. \E sp3, h3 : RbInv(sp3, h3)'
      BY <2>1, <3>1, RbStep
    <3>3. QED
      BY <1>1, <1>3, <3>2 DEF TreeIntInv, OneTree
  <2>4. CASE Destroying
    <3>1. RB!treeint_rb_destroy
      BY <1>3, <2>4 DEF Destroying, Use
    <3>2. RbInv(sp, h)'
      BY <2>1, <3>1, RbDestroy
    <3>3. QED
      BY <1>1, <1>3, <3>2 DEF TreeIntInv, OneTree
  <2>5. CASE UNCHANGED vars
    <3>1. RbInv(sp, h)'
      BY <2>1, <2>5, RbStutter
    <3>2. QED
      BY <1>1, <1>3, <3>1 DEF TreeIntInv, OneTree
  <2>6. QED
    BY <1>1, <2>2, <2>3, <2>4, <2>5
<1>4. QED
  BY <1>2, <1>3

LEMMA TreeIntAlways == Spec => []TreeIntInv
BY TreeIntInit, TreeIntStep, PTL DEF Spec

(* At every step of every call either tree's pointers stay inside it, it   *)
(* has every node once and in order, and a node's parent is the one whose  *)
(* child it is: what every loop of s_tree.c and rbtree.c trusts.           *)
THEOREM TreesHold == Spec => []TreeOK
<1>1. TreeIntInv => TreeOK
  <2> SUFFICES ASSUME TreeIntInv
               PROVE  TreeOK
    OBVIOUS
  <2>1. CASE ops = "s-tree"
    BY <2>1, StOK DEF TreeIntInv, OneTree, TreeOK
  <2>2. CASE ops # "s-tree"
    BY <2>2, RbOK DEF TreeIntInv, OneTree, TreeOK
  <2>3. QED
    BY <2>1, <2>2
<1>2. QED
  BY <1>1, TreeIntAlways, PTL

(* A red-black tree's root is black, no red node has a red child and every *)
(* path has as many black nodes, but for what the comments in the loops of *)
(* __rb_insert and ____rb_erase_color say is still wrong in each round.    *)
THEOREM RedBlackHolds == Spec => []RedBlack
<1>1. TreeIntInv => RedBlack
  <2> SUFFICES ASSUME TreeIntInv, ops = "rbtree"
               PROVE  RB!RedBlack
    BY DEF RedBlack
  <2>1. PICK sp, h : RbInv(sp, h)
    BY DEF TreeIntInv, OneTree
  <2>2. QED
    BY <2>1, RbRedBlack
<1>2. QED
  BY <1>1, TreeIntAlways, PTL
-----------------------------------------------------------------------------
(* What a call means for the set of the keys in the tree.                  *)
Answers(M, M2) ==
  /\ op # NONE /\ ret = NONE
  /\ ret' = (IF op = "insert" THEN key \notin M ELSE key \in M)
  /\ M2 = CASE op = "insert" -> M \cup {key}
            [] op = "remove" -> M \ {key}
            [] op = "find"   -> M
  /\ UNCHANGED <<op, key>>
Returns(M, M2) ==
  /\ ret # NONE
  /\ op' = NONE /\ key' = NONE /\ ret' = NONE
  /\ M2 = M
Serves(M, M2) ==
  /\ pc # "destroyed" /\ pc' # "destroyed"
  /\ Answers(M, M2) \/ Returns(M, M2) \/ (M2 = M /\ UNCHANGED <<op, key, ret>>)

(* At the end of the way down there is no key, and at the node it is.      *)
LEMMA WayEnds ==
  ASSUME NEW M, NEW r, NEW ch, NEW pa, NEW sp, Tree(M, r, ch, pa, sp), NEW k, NEW q, NEW u,
         OnWay(M, r, ch, sp, k, q, u, NULL)
  PROVE  k \notin M
BY DEF Tree, Spans, OnWay

LEMMA StSet ==
  ASSUME NEW sp, StInv(sp), ST!Step
  PROVE  Serves(ST!Members, ST!Members')
<1>1. ST!TypeOK /\ StPhase /\ alive \subseteq Key /\ n \in ST!Members \cup {NULL}
  BY StTypes DEF StInv
<1>2. NONE \notin Calls /\ NONE \notin BOOLEAN /\ NULL \notin Key
  BY TreeIntAssumption DEF Calls
<1>3. ASSUME pc = "find", n = NULL
      PROVE  key \notin ST!Members
  BY <1>3, WayEnds DEF StInv
<1>4. CASE ST!find
  BY <1>4, Zenon DEF ST!find, ST!Members, Serves, ST!callVars
<1>5. CASE ST!found
  <2>1. pc = "find" /\ pc' = "return" /\ op # "remove" /\ ret' = (op = "find") /\ key \in ST!Members
    BY <1>1, <1>2, <1>5 DEF ST!found, ST!Return, StPhase
  <2>2. op \in Calls /\ ret = NONE
    BY <1>1, <2>1 DEF StPhase
  <2>3. ST!Members' = ST!Members /\ UNCHANGED <<op, key>> /\ ST!Members = alive
    BY <2>1, <1>5 DEF ST!found, ST!Members, ST!callVars
  <2>4. CASE op = "find"
    <3>1. ret' = TRUE
      BY <2>1, <2>4, Zenon
    <3>2. Answers(ST!Members, ST!Members')
      BY <1>2, <2>1, <2>2, <2>3, <2>4, <3>1 DEF Answers, Calls
    <3>3. QED
      BY <2>1, <3>2 DEF Serves
  <2>5. CASE op = "insert"
    <3>1. ret' = FALSE /\ ST!Members' = ST!Members \cup {key}
      BY <2>1, <2>3, <2>5, Zenon
    <3>2. Answers(ST!Members, ST!Members')
      BY <1>2, <2>1, <2>2, <2>3, <2>5, <3>1 DEF Answers, Calls
    <3>3. QED
      BY <2>1, <3>2 DEF Serves
  <2>6. QED
    BY <2>1, <2>2, <2>4, <2>5 DEF Calls
<1>6. CASE ST!not_found
  <2>1. pc = "find" /\ pc' = "return" /\ op # "insert" /\ ret' = FALSE /\ key \notin ST!Members
    BY <1>3, <1>6 DEF ST!not_found, ST!Return
  <2>2. op \in Calls /\ ret = NONE
    BY <1>1, <2>1 DEF StPhase
  <2>3. ST!Members' = ST!Members /\ UNCHANGED <<op, key>>
    BY <2>1, <1>6 DEF ST!not_found, ST!Members, ST!callVars
  <2>4. (IF op = "insert" THEN key \notin ST!Members ELSE key \in ST!Members) = FALSE
    <3>1. (key \in ST!Members) = FALSE
      BY <2>1
    <3>2. op # "insert"
      BY <2>1
    <3>3. QED
      BY <3>1, <3>2, Zenon
  <2>5. ST!Members' = CASE op = "insert" -> ST!Members \cup {key}
                        [] op = "remove" -> ST!Members \ {key}
                        [] op = "find"   -> ST!Members
    BY <2>1, <2>2, <2>3 DEF Calls
  <2>6. Answers(ST!Members, ST!Members')
    BY <1>2, <2>1, <2>2, <2>3, <2>4, <2>5, Zenon DEF Answers
  <2>7. QED
    BY <2>1, <2>6 DEF Serves
<1>7. CASE ST!st_insert
  <2>1. pc = "find" /\ pc' \in {"return", "update"} /\ op = "insert" /\ ret' = TRUE /\ key \notin ST!Members
    BY <1>3, <1>7 DEF ST!st_insert, ST!Return
  <2>2. op \in Calls /\ ret = NONE /\ del = NULL /\ key \in Key
    BY <1>1, <2>1 DEF StPhase
  <2>3. alive' = alive \cup {key} /\ UNCHANGED <<op, key>> /\ del' = NULL
    BY <2>2, <1>7 DEF ST!st_insert, ST!Return, ST!callVars
  <2>4. ST!Members' = ST!Members \cup {key}
    BY <1>1, <1>2, <2>1, <2>2, <2>3 DEF ST!Members
  <2>5. Answers(ST!Members, ST!Members')
    BY <1>2, <2>1, <2>2, <2>3, <2>4, Zenon DEF Answers
  <2>6. QED
    BY <2>1, <2>5 DEF Serves
<1>8. CASE ST!st_remove
  BY <1>8 DEF ST!st_remove, ST!Members, Serves, ST!callVars
<1>9. CASE ST!first
  BY <1>9, Zenon DEF ST!first, ST!Members, Serves, ST!callVars
<1>10. CASE ST!replace \/ ST!cut_off
  <2>1. pc = "first" /\ pc' = "update" /\ ret' = TRUE /\ UNCHANGED <<alive, op, key, del>>
    BY <1>10 DEF ST!replace, ST!cut_off, ST!callVars
  <2>2. op = "remove" /\ ret = NONE /\ del = key /\ key \in alive
    BY <1>1, <2>1 DEF StPhase
  <2>3. ST!Members = alive /\ ST!Members' = alive \ {key}
    BY <2>1, <2>2 DEF ST!Members
  <2>4. Answers(ST!Members, ST!Members')
    BY <1>2, <2>1, <2>2, <2>3, Zenon DEF Answers, Calls
  <2>5. QED
    BY <2>1, <2>4 DEF Serves
<1>11. CASE ST!st_update
  BY <1>11, Zenon DEF ST!st_update, ST!Members, Serves, ST!callVars
<1>12. CASE ST!updated
  BY <1>12 DEF ST!updated, ST!Return, ST!Members, Serves, ST!callVars
<1>13. CASE ST!return
  <2>1. pc = "return" /\ pc' = "ready" /\ op' = NONE /\ key' = NONE /\ ret' = NONE /\ UNCHANGED alive
    BY <1>13 DEF ST!return
  <2>2. ret # NONE
    BY <1>1, <1>2, <2>1 DEF StPhase
  <2>3. QED
    BY <2>1, <2>2 DEF Serves, Returns, ST!Members
<1>14. QED
  BY <1>4, <1>5, <1>6, <1>7, <1>8, <1>9, <1>10, <1>11, <1>12, <1>13 DEF ST!Step

LEMMA RbSet ==
  ASSUME NEW sp, NEW h, RbInv(sp, h), RB!Step
  PROVE  Serves(RB!Members, RB!Members')
<1>1. RB!TypeOK /\ RbPhase /\ alive \subseteq Key /\ n \in RB!Members \cup {NULL}
  BY RbTypes DEF RbInv
<1>2. NONE \notin Calls /\ NONE \notin BOOLEAN /\ NULL \notin Key
  BY TreeIntAssumption DEF Calls
<1>3. ASSUME pc = "find", n = NULL
      PROVE  key \notin RB!Members
  BY <1>3, WayEnds DEF RbInv, RbPlace
<1>4. CASE RB!find
  BY <1>4, Zenon DEF RB!find, RB!Members, Serves, RB!callVars
<1>5. CASE RB!found
  <2>1. pc = "find" /\ pc' = "return" /\ op # "remove" /\ ret' = (op = "find") /\ key \in RB!Members
    BY <1>1, <1>2, <1>5 DEF RB!found, RB!Return, RbPhase
  <2>2. op \in Calls /\ ret = NONE
    BY <1>1, <2>1 DEF RbPhase
  <2>3. RB!Members' = RB!Members /\ UNCHANGED <<op, key>>
    BY <2>1, <1>5 DEF RB!found, RB!Members, RB!callVars
  <2>4. CASE op = "find"
    <3>1. ret' = TRUE
      BY <2>1, <2>4, Zenon
    <3>2. Answers(RB!Members, RB!Members')
      BY <1>2, <2>1, <2>2, <2>3, <2>4, <3>1 DEF Answers, Calls
    <3>3. QED
      BY <2>1, <3>2 DEF Serves
  <2>5. CASE op = "insert"
    <3>1. ret' = FALSE /\ RB!Members' = RB!Members \cup {key}
      BY <2>1, <2>3, <2>5, Zenon
    <3>2. Answers(RB!Members, RB!Members')
      BY <1>2, <2>1, <2>2, <2>3, <2>5, <3>1 DEF Answers, Calls
    <3>3. QED
      BY <2>1, <3>2 DEF Serves
  <2>6. QED
    BY <2>1, <2>2, <2>4, <2>5 DEF Calls
<1>6. CASE RB!not_found
  <2>1. pc = "find" /\ pc' = "return" /\ op # "insert" /\ ret' = FALSE /\ key \notin RB!Members
    BY <1>3, <1>6 DEF RB!not_found, RB!Return
  <2>2. op \in Calls /\ ret = NONE
    BY <1>1, <2>1 DEF RbPhase
  <2>3. RB!Members' = RB!Members /\ UNCHANGED <<op, key>>
    BY <2>1, <1>6 DEF RB!not_found, RB!Members, RB!callVars
  <2>4. (IF op = "insert" THEN key \notin RB!Members ELSE key \in RB!Members) = FALSE
    <3>1. (key \in RB!Members) = FALSE
      BY <2>1
    <3>2. op # "insert"
      BY <2>1
    <3>3. QED
      BY <3>1, <3>2, Zenon
  <2>5. RB!Members' = CASE op = "insert" -> RB!Members \cup {key}
                        [] op = "remove" -> RB!Members \ {key}
                        [] op = "find"   -> RB!Members
    BY <2>1, <2>2, <2>3 DEF Calls
  <2>6. Answers(RB!Members, RB!Members')
    BY <1>2, <2>1, <2>2, <2>3, <2>4, <2>5, Zenon DEF Answers
  <2>7. QED
    BY <2>1, <2>6 DEF Serves
<1>7. CASE RB!rb_link_node
  <2>1. pc = "find" /\ pc' = "insert" /\ op = "insert" /\ ret' = TRUE /\ key \notin RB!Members
    BY <1>3, <1>7 DEF RB!rb_link_node
  <2>2. op \in Calls /\ ret = NONE
    BY <1>1, <2>1 DEF RbPhase
  <2>3. alive' = alive \cup {key} /\ UNCHANGED <<op, key>>
    BY <1>7 DEF RB!rb_link_node, RB!callVars
  <2>4. RB!Members' = RB!Members \cup {key}
    BY <2>1, <2>3 DEF RB!Members
  <2>5. Answers(RB!Members, RB!Members')
    BY <1>2, <2>1, <2>2, <2>3, <2>4, Zenon DEF Answers
  <2>6. QED
    BY <2>1, <2>5 DEF Serves
<1>8. CASE RB!insert_root \/ RB!insert_black_parent \/ RB!insert_rotate
  <2>1. pc = "insert" /\ pc' = "return" /\ ret' = ret /\ UNCHANGED <<alive, op, key>>
    BY <1>8 DEF RB!insert_root, RB!insert_black_parent, RB!insert_rotate, RB!RedParent, RB!Return, RB!callVars
  <2>2. QED
    BY <2>1 DEF Serves, RB!Members
<1>9. CASE RB!insert_flip
  BY <1>9 DEF RB!insert_flip, RB!RedParent, RB!Members, Serves, RB!callVars
<1>10. CASE RB!erase_easy \/ RB!erase_replace
  <2>1. pc \in {"find", "successor"} /\ pc' \in {"erase", "erased"} /\ ret' = TRUE /\ UNCHANGED <<alive, op, key>>
    BY <1>10, Zenon DEF RB!erase_easy, RB!erase_replace, RB!Rebalance, RB!callVars
  <2>2. ret = NONE
    BY <1>1, <2>1 DEF RbPhase
  <2>3. RB!Members = alive /\ RB!Members' = alive \ {key}
    BY <2>1 DEF RB!Members
  <2>4. op = "remove" /\ key \in alive
    <3>1. CASE RB!erase_easy
      BY <1>1, <1>2, <2>1, <2>3, <3>1 DEF RB!erase_easy, RbPhase
    <3>2. CASE RB!erase_replace
      BY <1>1, <3>2, Zenon DEF RB!erase_replace, RbPhase
    <3>3. QED
      BY <1>10, <3>1, <3>2
  <2>5. Answers(RB!Members, RB!Members')
    BY <1>2, <2>1, <2>2, <2>3, <2>4, Zenon DEF Answers, Calls
  <2>6. QED
    BY <2>1, <2>5 DEF Serves
<1>11. CASE RB!erase_down
  BY <1>11 DEF RB!erase_down, RB!Members, Serves, RB!callVars
<1>12. CASE RB!erase_successor
  BY <1>12 DEF RB!erase_successor, RB!Members, Serves, RB!callVars
<1>13. CASE RB!erase_red_sibling
  BY <1>13, Zenon DEF RB!erase_red_sibling, RB!Members, Serves, RB!callVars
<1>14. CASE RB!erase_flip \/ RB!erase_rotate
  <2>1. pc = "erase" /\ pc' \in {"erase", "erased"} /\ UNCHANGED <<alive, op, key, ret>>
    BY <1>14 DEF RB!erase_flip, RB!erase_rotate, RB!BlackSibling, RB!callVars
  <2>2. QED
    BY <2>1 DEF Serves, RB!Members
<1>15. CASE RB!erased
  BY <1>15 DEF RB!erased, RB!Return, RB!Members, Serves, RB!callVars
<1>16. CASE RB!return
  <2>1. pc = "return" /\ pc' = "ready" /\ op' = NONE /\ key' = NONE /\ ret' = NONE /\ UNCHANGED alive
    BY <1>16 DEF RB!return
  <2>2. ret # NONE
    BY <1>1, <1>2, <2>1 DEF RbPhase
  <2>3. QED
    BY <2>1, <2>2 DEF Serves, Returns, RB!Members
<1>17. QED
  BY <1>4, <1>5, <1>6, <1>7, <1>8, <1>9, <1>10, <1>11, <1>12, <1>13, <1>14, <1>15, <1>16 DEF RB!Step

LEMMA KeySetInit == Init => S!Init
<1> SUFFICES ASSUME Init
             PROVE  S!Init
  OBVIOUS
<1>1. pc = "ready" /\ alive = {} /\ op = NONE /\ key = NONE /\ ret = NONE
  BY DEF Init, ST!Init
<1>2. ST!Members = {} /\ RB!Members = {}
  BY <1>1 DEF ST!Members, RB!Members
<1>3. QED
  BY <1>1, <1>2 DEF S!Init

(* What either tree serves is a step on the set, or none.                  *)
LEMMA Served ==
  ASSUME NEW M, NEW M2, Serves(M, M2),
         M = IF ops = "s-tree" THEN ST!Members ELSE RB!Members,
         M2 = (IF ops = "s-tree" THEN ST!Members ELSE RB!Members)'
  PROVE  [S!Next]_(S!keySetVars)
<1>1. /\ (IF pc = "destroyed" THEN {} ELSE IF ops = "s-tree" THEN ST!Members ELSE RB!Members) = M
      /\ (IF pc = "destroyed" THEN {} ELSE IF ops = "s-tree" THEN ST!Members ELSE RB!Members)' = M2
  BY DEF Serves
<1>2. CASE Answers(M, M2)
  BY <1>1, <1>2, Zenon DEF Answers, S!Answer, S!Next
<1>3. CASE Returns(M, M2)
  BY <1>1, <1>3 DEF Returns, S!Return, S!Next
<1>4. CASE M2 = M /\ UNCHANGED <<op, key, ret>>
  BY <1>1, <1>4 DEF S!keySetVars
<1>5. QED
  BY <1>2, <1>3, <1>4 DEF Serves

LEMMA KeySetStep == TreeIntInv /\ [Next]_vars => [S!Next]_(S!keySetVars)
<1> SUFFICES ASSUME TreeIntInv, [Next]_vars
             PROVE  [S!Next]_(S!keySetVars)
  OBVIOUS
<1>1. ops' = ops /\ (Calling \/ Stepping \/ Destroying \/ UNCHANGED vars)
  BY Clients
<1>2. pc \in {"ready", "destroyed"} => op = NONE
  <2>1. (\E sp : StInv(sp)) => (pc \in {"ready", "destroyed"} => op = NONE)
    BY DEF StInv, StPhase
  <2>2. (\E sp, h : RbInv(sp, h)) => (pc \in {"ready", "destroyed"} => op = NONE)
    BY DEF RbInv, RbPhase
  <2>3. QED
    BY <2>1, <2>2 DEF TreeIntInv, OneTree
<1>3. CASE Calling
  <2>1. PICK o \in Calls, k \in Key : ST!Call(o, k) \/ RB!Call(o, k)
    BY <1>3 DEF Calling, Call, Use
  <2>2. pc = "ready" /\ pc' = "find" /\ op' = o /\ key' = k /\ UNCHANGED <<alive, ret>>
    BY <2>1 DEF ST!Call, RB!Call
  <2>3. ST!Members = alive /\ ST!Members' = alive /\ RB!Members = alive /\ RB!Members' = alive
    BY <2>2 DEF ST!Members, RB!Members
  <2>4. S!Call(o, k)
    BY <1>1, <1>2, <2>2, <2>3 DEF S!Call
  <2>5. QED
    BY <2>4 DEF S!Next, Calls
<1>4. CASE Stepping
  <2>1. CASE ops = "s-tree"
    <3>1. PICK sp : StInv(sp)
      BY <2>1 DEF TreeIntInv, OneTree
    <3>2. ST!Step
      BY <1>4, <2>1 DEF Stepping, Use
    <3>3. Serves(ST!Members, ST!Members')
      BY <3>1, <3>2, StSet
    <3>4. QED
      BY <1>1, <2>1, <3>3, Served
  <2>2. CASE ops # "s-tree"
    <3>1. PICK sp, h : RbInv(sp, h)
      BY <2>2 DEF TreeIntInv, OneTree
    <3>2. RB!Step
      BY <1>4, <2>2 DEF Stepping, Use
    <3>3. Serves(RB!Members, RB!Members')
      BY <3>1, <3>2, RbSet
    <3>4. QED
      BY <1>1, <2>2, <3>3, Served
  <2>3. QED
    BY <2>1, <2>2
<1>5. CASE Destroying
  <2>1. ST!st_destroy \/ RB!treeint_rb_destroy
    BY <1>5 DEF Destroying, Use
  <2>2. pc = "ready" /\ pc' = "destroyed" /\ UNCHANGED <<op, key, ret>>
    BY <2>1 DEF ST!st_destroy, RB!treeint_rb_destroy, ST!callVars, RB!callVars
  <2>3. S!Destroy
    BY <1>2, <2>2 DEF S!Destroy
  <2>4. QED
    BY <2>3 DEF S!Next
<1>6. CASE UNCHANGED vars
  <2>1. ST!Members' = ST!Members /\ RB!Members' = RB!Members /\ UNCHANGED <<pc, ops, op, key, ret>>
    BY <1>6 DEF vars, bothVars, clientVars, ST!Members, RB!Members
  <2>2. QED
    BY <2>1 DEF S!keySetVars
<1>7. QED
  BY <1>1, <1>3, <1>4, <1>5, <1>6

(* The calls of either tree are those on a set: each of them changes it    *)
(* once, as it should, and answers what the set says at that moment,       *)
(* however many rounds it takes before and after.                          *)
THEOREM CallsOfASet == Spec => S!Init /\ [][S!Next]_(S!keySetVars)
BY KeySetInit, KeySetStep, TreeIntAlways, PTL DEF Spec
=============================================================================
