---------------------------- MODULE SourceProofs ----------------------------
(***************************************************************************)
(* Proofs about what stands between the requests of the server and the     *)
(* code of a source: the store that the host keeps for a program           *)
(* (WasmStore), the worker that answers the calls of the other runtimes    *)
(* (SourceWorkers), the health history that requests leave                 *)
(* (SourceRequests), and what an instance knows of its package             *)
(* (SourceInstances).  They hold for any handles, callers, chapters,       *)
(* requests, packages, settings and bounds.                                *)
(***************************************************************************)
EXTENDS SourceServices, OrderLemmas, TLAPS

-----------------------------------------------------------------------------
(* WasmStore: a document is kept as long as it is needed.  A value is a    *)
(* tree of at most three levels, in which only elements of html belong to  *)
(* documents, and those were there before the next handle.                 *)

Below(p) == 0..(p - 1)      \* the handles that were given out before p
Kinds ==
  {"string", "html", "array", "object", "null", "bool", "int", "bytes", "filter", "filters", "listing",
   "manga", "chapter", "page", "page_result", "deeplink", "next_manga", "next_chapter", "image_response"}
\* A value of elements of documents before p, with values of a set inside.
Node(p, inner) ==
  {v \in [kind : Kinds, docs : Seq(Below(p)), items : Seq(inner)] : v.kind # "html" => v.docs = <<>>}
Flat(p) == Node(p, {})
Shallow(p) == Node(p, Flat(p))
Deep(p) == Node(p, Shallow(p))

\* How many elements of x the values of the store are made of.
Total(values, x) == SumFunction([d \in DOMAIN values |-> Wasm!Occurs(values[d], x)])

StoreFields == {"pointer", "values", "htmls", "refs", "encoded", "requests", "things", "limit", "late"}
\* A store is typed; its documents are counted, and needed; and the values that were not
\* late have theirs.
StoreTyped(s, nodes) ==
  /\ DOMAIN s = StoreFields
  /\ s.pointer \in Nat /\ s.htmls \subseteq Below(s.pointer) /\ DOMAIN s.refs = s.htmls
  /\ DOMAIN s.values \subseteq Below(s.pointer) /\ s.values \in [DOMAIN s.values -> nodes]
Counted(s) == \A x \in s.htmls : s.refs[x] = Total(s.values, x)
Needed(s) == \A x \in s.htmls : s.refs[x] > 0
All(docs, htmls) == \A i \in DOMAIN docs : docs[i] \in htmls
Present(s) == \A d \in DOMAIN s.values \ s.late : All(s.values[d].docs, s.htmls)

Linked(s, nodes) == StoreTyped(s, nodes) /\ Counted(s) /\ Present(s)

\* The operators of the library that the instance sees are those the lemmas are about.
LEMMA SameLibrary ==
  /\ \A S : Wasm!Cardinality(S) = Cardinality(S)
  /\ \A s : Wasm!ToSet(s) = ToSet(s) /\ Wasm!Last(s) = Last(s)
  /\ \A s, i : Wasm!RemoveAt(s, i) = RemoveAt(s, i)
  /\ \A s, I : Wasm!Pick(s, I) = Pick(s, I)
  /\ \A f : Wasm!SumFunction(f) = SumFunction(f)
<1>1. \A S : Wasm!Cardinality(S) = Cardinality(S)
  BY DEF Wasm!Cardinality, Cardinality
<1>2. \A s : Wasm!ToSet(s) = ToSet(s) /\ Wasm!Last(s) = Last(s)
  BY DEF Wasm!ToSet, ToSet, Wasm!Last, Last
<1>3. \A s, I : Wasm!Pick(s, I) = Pick(s, I)
  BY DEF Wasm!Pick, Pick, Wasm!Place, Place, Wasm!Cardinality, Cardinality
<1>4. \A f : Wasm!SumFunction(f) = SumFunction(f)
  BY Zenon DEF Wasm!SumFunction, SumFunction, Wasm!SumFunctionOnSet, SumFunctionOnSet,
               Wasm!FoldFunctionOnSet, FoldFunctionOnSet, Wasm!MapThenFoldSet, MapThenFoldSet
<1>5. \A s, i : Wasm!RemoveAt(s, i) = RemoveAt(s, i)
  BY DEF Wasm!RemoveAt, RemoveAt
<1>. QED
  BY <1>1, <1>2, <1>3, <1>4, <1>5

LEMMA BelowFinite ==
  ASSUME NEW p \in Nat
  PROVE  IsFiniteSet(Below(p))
<1>1. 0 \in Int /\ p - 1 \in Int
  OBVIOUS
<1>. QED
  BY <1>1, FS_Interval DEF Below

LEMMA SeqGrows ==
  ASSUME NEW A, NEW B, A \subseteq B
  PROVE  Seq(A) \subseteq Seq(B)
  OBVIOUS

LEMMA NodeGrows ==
  ASSUME NEW p \in Nat, NEW q \in Nat, p <= q, NEW A, NEW B, A \subseteq B
  PROVE  Node(p, A) \subseteq Node(q, B)
<1>1. Seq(Below(p)) \subseteq Seq(Below(q)) /\ Seq(A) \subseteq Seq(B)
  BY SeqGrows DEF Below
<1>. QED
  BY <1>1 DEF Node

LEMMA NodesGrow ==
  ASSUME NEW p \in Nat, NEW q \in Nat, p <= q
  PROVE  Flat(p) \subseteq Flat(q) /\ Shallow(p) \subseteq Shallow(q) /\ Deep(p) \subseteq Deep(q)
  BY NodeGrows DEF Flat, Shallow, Deep

LEMMA NodesNest ==
  ASSUME NEW p \in Nat
  PROVE  Flat(p) \subseteq Shallow(p) /\ Shallow(p) \subseteq Deep(p)
  BY NodeGrows DEF Flat, Shallow, Deep

LEMMA OccursNumber ==
  ASSUME NEW A, NEW v, v.docs \in Seq(A), NEW x
  PROVE  /\ Wasm!Occurs(v, x) \in Nat
         /\ Wasm!Occurs(v, x) > 0 <=> \E i \in DOMAIN v.docs : v.docs[i] = x
<1>. DEFINE I == {i \in DOMAIN v.docs : v.docs[i] = x}
<1>1. IsFiniteSet(DOMAIN v.docs)
  <2>1. DOMAIN v.docs = 1..Len(v.docs) /\ Len(v.docs) \in Nat  OBVIOUS
  <2>. QED  BY <2>1, FS_Interval
<1>2. IsFiniteSet(I)
  BY <1>1, FS_Subset
<1>3. Cardinality(I) \in Nat /\ (Cardinality(I) = 0 <=> I = {})
  BY <1>2, FS_CardinalityType, FS_EmptySet
<1>4. Wasm!Occurs(v, x) = Cardinality(I)
  BY SameLibrary DEF Wasm!Occurs
<1>. QED
  BY <1>3, <1>4

LEMMA AliveAll ==
  ASSUME NEW s, NEW A, NEW v, v.docs \in Seq(A)
  PROVE  /\ Wasm!Alive(s, v) \in Seq(A)
         /\ Wasm!Alive(s, v) = v.docs <=> All(v.docs, s.htmls)
<1>. DEFINE I == {i \in DOMAIN v.docs : v.docs[i] \in s.htmls}
<1>1. Pick(v.docs, I) \in Seq(A) /\ (Pick(v.docs, I) = v.docs <=> I = DOMAIN v.docs)
  BY Picking
<1>2. I = DOMAIN v.docs <=> All(v.docs, s.htmls)
  BY DEF All
<1>. QED
  BY <1>1, <1>2, SameLibrary DEF Wasm!Alive

LEMMA SetFields ==
  ASSUME NEW s, DOMAIN s = StoreFields, NEW d, NEW v, NEW t, t = Wasm!set_std_value(s, d, v)
  PROVE  /\ DOMAIN t = StoreFields
         /\ t.pointer = s.pointer /\ t.htmls = s.htmls
         /\ t.values = Wasm!Put(s.values, d, v)
         /\ DOMAIN t.refs = s.htmls /\ \A x \in s.htmls : t.refs[x] = s.refs[x] + Wasm!Occurs(v, x)
         /\ s.late \subseteq t.late /\ (Wasm!Alive(s, v) # v.docs => d \in t.late)
  BY DEF Wasm!set_std_value, Wasm!link_reference_html, StoreFields

LEMMA TakeFields ==
  ASSUME NEW s, DOMAIN s = StoreFields, NEW d, NEW t, t = Wasm!take_std_value(s, d)
  PROVE  /\ DOMAIN t = StoreFields
         /\ t.pointer = s.pointer /\ t.late = s.late
         /\ d \in DOMAIN s.values =>
              /\ t.values = Wasm!Drop(s.values, d)
              /\ \A x : x \in t.htmls <=>
                         /\ x \in s.htmls
                         /\ Wasm!Occurs(s.values[d], x) > 0 => ~(s.refs[x] <= Wasm!Occurs(s.values[d], x))
              /\ DOMAIN t.refs = t.htmls
                 /\ \A x \in t.htmls : t.refs[x] = s.refs[x] - Wasm!Occurs(s.values[d], x)
         /\ d \notin DOMAIN s.values => t.values = s.values /\ t.htmls = s.htmls /\ t.refs = s.refs
  BY DEF Wasm!take_std_value, Wasm!free_reference_html, StoreFields

\* The documents that a value is made of are counted as often as it is.
LEMMA Occurrences ==
  ASSUME NEW s, NEW p \in Nat, NEW inner, NEW x,
         DOMAIN s.values \subseteq Below(p), s.values \in [DOMAIN s.values -> Node(p, inner)]
  PROVE  /\ IsFiniteSet(DOMAIN s.values)
         /\ [d \in DOMAIN s.values |-> Wasm!Occurs(s.values[d], x)] \in [DOMAIN s.values -> Nat]
         /\ Total(s.values, x) \in Nat
<1>1. IsFiniteSet(DOMAIN s.values)
  BY BelowFinite, FS_Subset
<1>. DEFINE f == [d \in DOMAIN s.values |-> Wasm!Occurs(s.values[d], x)]
<1>2. f \in [DOMAIN s.values -> Nat]
  BY OccursNumber DEF Node
<1>. HIDE DEF f
<1>3. SumFunction(f) \in Nat
  BY <1>1, <1>2, SumNumber
<1>. QED
  BY <1>1, <1>2, <1>3 DEF Total, f

\* An element more, or one that was zero.
LEMMA SumPut ==
  ASSUME NEW S, IsFiniteSet(S), NEW d, NEW f, f \in [S -> Int], NEW g, g \in [S \cup {d} -> Int],
         \A e \in S \ {d} : g[e] = f[e], d \in S => f[d] = 0
  PROVE  SumFunction(g) = SumFunction(f) + g[d]
<1>1. SumFunction(f) \in Int /\ g[d] \in Int
  BY SumNumber
<1>2. CASE d \in S
  <2>1. S \cup {d} = S
    BY <1>2
  <2>2. SumFunction(g) = SumFunction(f) + g[d] - f[d]
    BY <1>1, <1>2, <2>1, SumChange
  <2>. QED
    BY <1>1, <1>2, <2>2
<1>3. CASE d \notin S
  <2>1. IsFiniteSet(S) /\ d \notin S /\ f \in [S -> Int] /\ g \in [S \cup {d} -> Int]
        /\ \A e \in S : g[e] = f[e]
    BY <1>3
  <2>. QED
    BY ONLY <2>1, SumAdds
<1>. QED
  BY <1>2, <1>3

\* A value that is put, over nothing or over a value of no elements, counts for itself.
LEMMA TotalOfPut ==
  ASSUME NEW p \in Nat, NEW inner, NEW values, values \in [DOMAIN values -> Node(p, inner)],
         DOMAIN values \subseteq Below(p), NEW d \in Below(p), NEW v \in Node(p, inner),
         d \in DOMAIN values => values[d].docs = <<>>, NEW x
  PROVE  Total(Wasm!Put(values, d, v), x) = Total(values, x) + Wasm!Occurs(v, x)
<1>. DEFINE S == DOMAIN values
            f == [e \in S |-> Wasm!Occurs(values[e], x)]
            g == [e \in S \cup {d} |-> Wasm!Occurs(Wasm!Put(values, d, v)[e], x)]
<1>1. IsFiniteSet(S)
  BY BelowFinite, FS_Subset
<1>2. f \in [S -> Nat] /\ Wasm!Occurs(v, x) \in Nat
  BY OccursNumber DEF Node
<1>3. DOMAIN Wasm!Put(values, d, v) = S \cup {d} /\ Wasm!Put(values, d, v)[d] = v
      /\ \A e \in S \ {d} : Wasm!Put(values, d, v)[e] = values[e]
  BY DEF Wasm!Put
<1>4. g[d] = Wasm!Occurs(v, x) /\ \A e \in S \ {d} : g[e] = f[e]
  BY <1>3
<1>5. g \in [S \cup {d} -> Nat]
  BY <1>2, <1>3, <1>4
<1>6. Total(values, x) = SumFunction(f) /\ Total(Wasm!Put(values, d, v), x) = SumFunction(g)
  BY <1>3 DEF Total
<1>7. d \in S => f[d] = 0
  <2>1. SUFFICES ASSUME d \in S PROVE f[d] = 0
    OBVIOUS
  <2>2. values[d].docs \in Seq(Below(p)) /\ DOMAIN values[d].docs = {}
    BY <2>1 DEF Node
  <2>3. Wasm!Occurs(values[d], x) \in Nat /\ ~(Wasm!Occurs(values[d], x) > 0)
    BY <2>2, OccursNumber
  <2>. QED
    BY <2>1, <2>3
<1>. HIDE DEF S, f, g
<1>8. SumFunction(g) = SumFunction(f) + g[d]
  <2>1. /\ IsFiniteSet(S) /\ f \in [S -> Int] /\ g \in [S \cup {d} -> Int]
        /\ \A e \in S \ {d} : g[e] = f[e]
        /\ d \in S => f[d] = 0
    BY <1>1, <1>2, <1>4, <1>5, <1>7
  <2>. QED
    BY ONLY <2>1, SumPut
<1>. QED
  BY <1>4, <1>6, <1>8

\* A value that is dropped no longer counts.
LEMMA TotalOfDrop ==
  ASSUME NEW p \in Nat, NEW inner, NEW values, values \in [DOMAIN values -> Node(p, inner)],
         DOMAIN values \subseteq Below(p), NEW d \in DOMAIN values, NEW x
  PROVE  /\ Total(Wasm!Drop(values, d), x) = Total(values, x) - Wasm!Occurs(values[d], x)
         /\ Total(values, x) \in Nat
         /\ Wasm!Occurs(values[d], x) <= Total(values, x)
         /\ \A e \in DOMAIN values \ {d} :
              Wasm!Occurs(values[d], x) + Wasm!Occurs(values[e], x) <= Total(values, x)
<1>. DEFINE S == DOMAIN values
            R == S \ {d}
            f == [e \in S |-> Wasm!Occurs(values[e], x)]
            g == [e \in R |-> Wasm!Occurs(Wasm!Drop(values, d)[e], x)]
<1>1. IsFiniteSet(S) /\ IsFiniteSet(R)
  BY BelowFinite, FS_Subset
<1>2. f \in [S -> Nat] /\ \A e \in S : f[e] = Wasm!Occurs(values[e], x)
  BY OccursNumber DEF Node
<1>3. DOMAIN Wasm!Drop(values, d) = R /\ \A e \in R : Wasm!Drop(values, d)[e] = values[e]
  BY DEF Wasm!Drop
<1>4. g \in [R -> Nat] /\ \A e \in R : g[e] = f[e]
  BY <1>2, <1>3
<1>5. Total(values, x) = SumFunction(f) /\ Total(Wasm!Drop(values, d), x) = SumFunction(g)
  BY <1>3 DEF Total
<1>6. R \cup {d} = S /\ d \notin R /\ d \in S
  OBVIOUS
<1>. HIDE DEF S, R, f, g
<1>7. SumFunction(f) \in Nat /\ SumFunction(g) \in Nat
  BY <1>1, <1>2, <1>4, SumNumber
<1>8. SumFunction(f) = SumFunction(g) + f[d]
  <2>1. /\ IsFiniteSet(R) /\ d \notin R /\ f \in [R \cup {d} -> Int] /\ g \in [R -> Int]
        /\ \A e \in R : f[e] = g[e]
    BY <1>1, <1>2, <1>4, <1>6
  <2>. QED
    BY ONLY <2>1, SumAdds
<1>9. f[d] <= SumFunction(f) /\ \A e \in S \ {d} : f[d] + f[e] <= SumFunction(f)
  BY <1>1, <1>2, <1>6, SumHolds
<1>10. f[d] = Wasm!Occurs(values[d], x) /\ f[d] \in Nat
  BY <1>2, <1>6
<1>. QED
  BY <1>2, <1>5, <1>7, <1>8, <1>9, <1>10 DEF S

\* A value is put in the store, and its documents are linked.
Grown(s, t, v) ==
  /\ t.pointer = s.pointer /\ t.htmls = s.htmls
  /\ \A x \in t.htmls : /\ s.refs[x] \in Nat /\ Wasm!Occurs(v, x) \in Nat
                        /\ t.refs[x] = s.refs[x] + Wasm!Occurs(v, x)

LEMMA SetLinks ==
  ASSUME NEW s, NEW inner, Linked(s, Node(s.pointer, inner)), NEW d \in Below(s.pointer),
         NEW v \in Node(s.pointer, inner), d \in DOMAIN s.values => s.values[d].docs = <<>>,
         NEW t, t = Wasm!set_std_value(s, d, v)
  PROVE  Linked(t, Node(t.pointer, inner)) /\ Grown(s, t, v)
<1>. DEFINE p == s.pointer
<1>0. DOMAIN s = StoreFields /\ p \in Nat
  BY DEF Linked, StoreTyped
<1>1. /\ DOMAIN t = StoreFields
      /\ t.pointer = s.pointer /\ t.htmls = s.htmls
      /\ t.values = Wasm!Put(s.values, d, v)
      /\ DOMAIN t.refs = s.htmls /\ \A x \in s.htmls : t.refs[x] = s.refs[x] + Wasm!Occurs(v, x)
      /\ s.late \subseteq t.late /\ (Wasm!Alive(s, v) # v.docs => d \in t.late)
  BY <1>0, SetFields
<1>2. /\ DOMAIN t.values = DOMAIN s.values \cup {d} /\ t.values[d] = v
      /\ \A e \in DOMAIN s.values \ {d} : t.values[e] = s.values[e]
      /\ t.values \in [DOMAIN t.values -> Node(p, inner)]
  BY <1>1 DEF Wasm!Put, Linked, StoreTyped
<1>3. StoreTyped(t, Node(t.pointer, inner))
  BY <1>1, <1>2 DEF Linked, StoreTyped
<1>4. Wasm!Alive(s, v) = v.docs <=> All(v.docs, s.htmls)
  BY AliveAll DEF Node
<1>5. Present(t)
  BY <1>1, <1>2, <1>4 DEF Linked, Present
<1>6. ASSUME NEW x \in s.htmls
      PROVE  s.refs[x] \in Nat /\ Wasm!Occurs(v, x) \in Nat /\ s.refs[x] = Total(s.values, x)
             /\ Total(t.values, x) = Total(s.values, x) + Wasm!Occurs(v, x)
  <2>1. s.values \in [DOMAIN s.values -> Node(p, inner)] /\ DOMAIN s.values \subseteq Below(p)
    BY DEF Linked, StoreTyped
  <2>2. s.refs[x] = Total(s.values, x) /\ Total(s.values, x) \in Nat
    BY <1>0, <2>1, Occurrences DEF Linked, Counted
  <2>3. Wasm!Occurs(v, x) \in Nat
    BY OccursNumber DEF Node
  <2>4. Total(t.values, x) = Total(s.values, x) + Wasm!Occurs(v, x)
    BY <1>0, <1>1, <2>1, TotalOfPut
  <2>. QED
    BY <2>2, <2>3, <2>4
<1>7. Counted(t)
  BY <1>1, <1>6 DEF Counted
<1>. QED
  BY <1>1, <1>3, <1>5, <1>6, <1>7 DEF Linked, Grown

\* What is taken is unlinked, and the documents that nothing is made of any more are gone.
LEMMA TakeLinks ==
  ASSUME NEW s, NEW inner, Linked(s, Node(s.pointer, inner)), Needed(s), NEW d,
         NEW t, t = Wasm!take_std_value(s, d)
  PROVE  /\ Linked(t, Node(t.pointer, inner)) /\ Needed(t)
         /\ t.pointer = s.pointer /\ d \notin DOMAIN t.values
<1>. DEFINE p == s.pointer
            v == s.values[d]
<1>0. DOMAIN s = StoreFields /\ p \in Nat
  BY DEF Linked, StoreTyped
<1>1. /\ DOMAIN t = StoreFields
      /\ t.pointer = s.pointer /\ t.late = s.late
      /\ d \in DOMAIN s.values =>
           /\ t.values = Wasm!Drop(s.values, d)
           /\ \A x : x \in t.htmls <=>
                      /\ x \in s.htmls
                      /\ Wasm!Occurs(v, x) > 0 => ~(s.refs[x] <= Wasm!Occurs(v, x))
           /\ DOMAIN t.refs = t.htmls /\ \A x \in t.htmls : t.refs[x] = s.refs[x] - Wasm!Occurs(v, x)
      /\ d \notin DOMAIN s.values => t.values = s.values /\ t.htmls = s.htmls /\ t.refs = s.refs
  BY <1>0, TakeFields
<1>2. CASE d \notin DOMAIN s.values
  BY <1>1, <1>2 DEF Linked, StoreTyped, Counted, Needed, Present
<1>3. CASE d \in DOMAIN s.values
  <2>1. /\ DOMAIN t.values = DOMAIN s.values \ {d}
        /\ \A e \in DOMAIN t.values : t.values[e] = s.values[e]
        /\ t.values \in [DOMAIN t.values -> Node(p, inner)]
    BY <1>1, <1>3 DEF Wasm!Drop, Linked, StoreTyped
  <2>2. StoreTyped(t, Node(t.pointer, inner))
    BY <1>1, <1>3, <2>1 DEF Linked, StoreTyped
  <2>3. s.values \in [DOMAIN s.values -> Node(p, inner)] /\ DOMAIN s.values \subseteq Below(p)
    BY DEF Linked, StoreTyped
  <2>4. \A e \in DOMAIN s.values : s.values[e].docs \in Seq(Below(p))
    BY <2>3 DEF Node
  <2>5. ASSUME NEW x \in s.htmls
        PROVE  /\ s.refs[x] \in Nat /\ Wasm!Occurs(v, x) \in Nat /\ s.refs[x] = Total(s.values, x)
               /\ Total(t.values, x) = Total(s.values, x) - Wasm!Occurs(v, x)
               /\ Wasm!Occurs(v, x) <= s.refs[x]
               /\ \A e \in DOMAIN s.values \ {d} :
                    Wasm!Occurs(v, x) + Wasm!Occurs(s.values[e], x) <= s.refs[x]
    <3>1. s.refs[x] = Total(s.values, x)
      BY DEF Linked, Counted
    <3>2. Wasm!Occurs(v, x) \in Nat
      BY <1>3, <2>4, OccursNumber
    <3>. QED
      BY <1>0, <1>1, <1>3, <2>3, <3>1, <3>2, TotalOfDrop
  <2>6. Counted(t)
    BY <1>1, <1>3, <2>5 DEF Counted
  <2>7. Needed(t)
    <3>1. ASSUME NEW x \in t.htmls
          PROVE  s.refs[x] - Wasm!Occurs(v, x) > 0
      <4>1. x \in s.htmls /\ (Wasm!Occurs(v, x) > 0 => ~(s.refs[x] <= Wasm!Occurs(v, x)))
        BY <1>1, <1>3
      <4>2. s.refs[x] > 0 /\ s.refs[x] \in Nat /\ Wasm!Occurs(v, x) \in Nat
        BY <2>5, <4>1 DEF Needed
      <4>. QED
        BY <4>1, <4>2
    <3>. QED
      BY <1>1, <1>3, <3>1 DEF Needed
  <2>8. Present(t)
    <3>1. SUFFICES ASSUME NEW e \in DOMAIN t.values \ t.late, NEW i \in DOMAIN t.values[e].docs
                   PROVE  t.values[e].docs[i] \in t.htmls
      BY DEF Present, All
    <3>. DEFINE x == t.values[e].docs[i]
    <3>2. e \in DOMAIN s.values \ {d} /\ t.values[e] = s.values[e] /\ x \in s.htmls
      BY <1>1, <2>1 DEF Linked, Present, All
    <3>3. Wasm!Occurs(s.values[e], x) \in Nat /\ Wasm!Occurs(s.values[e], x) > 0
      BY <2>4, <3>2, OccursNumber
    <3>4. Wasm!Occurs(v, x) + Wasm!Occurs(s.values[e], x) <= s.refs[x] /\ s.refs[x] \in Nat
          /\ Wasm!Occurs(v, x) \in Nat
      BY <2>5, <3>2
    <3>5. ~(s.refs[x] <= Wasm!Occurs(v, x))
      BY <3>3, <3>4
    <3>. QED
      BY <1>1, <1>3, <3>2, <3>5
  <2>. QED
    BY <1>1, <2>1, <2>2, <2>6, <2>7, <2>8 DEF Linked
<1>. QED
  BY <1>2, <1>3

\* A store as an import may leave it, and as the host goes on with it.
Raw(s) == Linked(s, Deep(s.pointer)) /\ Needed(s)
Sound(s) == Linked(s, Shallow(s.pointer)) /\ Needed(s)

LEMMA SoundIsRaw ==
  ASSUME NEW s, Sound(s)
  PROVE  Raw(s)
<1>1. Shallow(s.pointer) \subseteq Deep(s.pointer)
  BY NodesNest DEF Sound, Linked, StoreTyped
<1>2. s.values \in [DOMAIN s.values -> Deep(s.pointer)]
  BY <1>1 DEF Sound, Linked, StoreTyped
<1>. QED
  BY <1>2 DEF Sound, Raw, Linked, StoreTyped

LEMMA RawWithin ==
  ASSUME NEW s, Raw(s), Wasm!Within(s)
  PROVE  Sound(s)
<1>. DEFINE p == s.pointer
<1>1. ASSUME NEW v \in Deep(p), \A i \in DOMAIN v.items : v.items[i].items = <<>>
      PROVE  v \in Shallow(p)
  <2>1. v.items \in Seq(Shallow(p)) /\ \A i \in DOMAIN v.items : v.items[i] \in Shallow(p)
    BY DEF Deep, Node
  <2>2. \A i \in DOMAIN v.items : v.items[i] \in Flat(p)
    <3>1. <<>> \in Seq({})
      OBVIOUS
    <3>2. ASSUME NEW u \in Shallow(p), u.items = <<>>
          PROVE  u \in Flat(p)
      BY <3>1, <3>2 DEF Shallow, Flat, Node
    <3>. QED
      BY <1>1, <2>1, <3>2
  <2>3. v.items \in Seq(Flat(p))
    BY <2>1, <2>2
  <2>. QED
    BY <2>3 DEF Deep, Shallow, Node
<1>2. s.values \in [DOMAIN s.values -> Shallow(p)]
  BY <1>1 DEF Raw, Linked, StoreTyped, Wasm!Within
<1>. QED
  BY <1>2 DEF Sound, Raw, Linked, StoreTyped

\* What is not about documents may change, and handles may be given out.
LEMMA RawElse ==
  ASSUME NEW s, Raw(s), NEW t, DOMAIN t = StoreFields, t.pointer \in Nat, s.pointer <= t.pointer,
         t.values = s.values, t.htmls = s.htmls, t.refs = s.refs, t.late = s.late
  PROVE  Raw(t)
<1>1. /\ s.pointer \in Nat
      /\ Deep(s.pointer) \subseteq Deep(t.pointer) /\ Below(s.pointer) \subseteq Below(t.pointer)
  BY NodesGrow DEF Raw, Linked, StoreTyped, Below
<1>2. StoreTyped(t, Deep(t.pointer))
  BY <1>1 DEF Raw, Linked, StoreTyped
<1>. QED
  BY <1>2 DEF Raw, Linked, Counted, Needed, Present

LEMMA SoundElse ==
  ASSUME NEW s, Sound(s), NEW t, DOMAIN t = StoreFields, t.pointer = s.pointer,
         t.values = s.values, t.htmls = s.htmls, t.refs = s.refs, t.late = s.late
  PROVE  Sound(t)
  BY DEF Sound, Linked, StoreTyped, Counted, Needed, Present

LEMMA RawSet ==
  ASSUME NEW s, Linked(s, Deep(s.pointer)), NEW d \in Below(s.pointer), NEW v \in Deep(s.pointer),
         d \in DOMAIN s.values => s.values[d].docs = <<>>,
         \A x \in s.htmls : s.refs[x] > 0 \/ Wasm!Occurs(v, x) > 0
  PROVE  Raw(Wasm!set_std_value(s, d, v)) /\ Wasm!set_std_value(s, d, v).pointer = s.pointer
<1>. DEFINE t == Wasm!set_std_value(s, d, v)
<1>1. /\ Linked(t, Deep(t.pointer))
      /\ t.pointer = s.pointer /\ t.htmls = s.htmls
      /\ \A x \in t.htmls : /\ s.refs[x] \in Nat /\ Wasm!Occurs(v, x) \in Nat
                            /\ t.refs[x] = s.refs[x] + Wasm!Occurs(v, x)
  <2>1. Linked(s, Node(s.pointer, Shallow(s.pointer))) /\ v \in Node(s.pointer, Shallow(s.pointer))
    BY DEF Deep
  <2>. HIDE DEF t
  <2>2. t = Wasm!set_std_value(s, d, v)
    BY DEF t
  <2>3. /\ Linked(t, Node(t.pointer, Shallow(s.pointer)))
        /\ t.pointer = s.pointer /\ t.htmls = s.htmls
        /\ \A x \in t.htmls : /\ s.refs[x] \in Nat /\ Wasm!Occurs(v, x) \in Nat
                              /\ t.refs[x] = s.refs[x] + Wasm!Occurs(v, x)
    <3>. DEFINE inner == Shallow(s.pointer)
    <3>1. d \in Below(s.pointer) /\ (d \in DOMAIN s.values => s.values[d].docs = <<>>)
      OBVIOUS
    <3>2. Linked(s, Node(s.pointer, inner)) /\ v \in Node(s.pointer, inner)
      BY <2>1
    <3>. HIDE DEF inner
    <3>3. Linked(t, Node(t.pointer, inner)) /\ Grown(s, t, v)
      BY ONLY <2>2, <3>1, <3>2, SetLinks
    <3>. QED
      BY ONLY <3>3 DEF inner, Grown
  <2>. QED
    BY <2>3 DEF Deep
<1>. HIDE DEF t
<1>2. Needed(t)
  BY <1>1 DEF Needed
<1>. QED
  BY <1>1, <1>2 DEF Raw, t

LEMMA Increased ==
  ASSUME NEW s, DOMAIN s = StoreFields, NEW t, t = Wasm!increase_pointer(s)
  PROVE  /\ DOMAIN t = StoreFields /\ t.pointer = s.pointer + 1
         /\ t.values = s.values /\ t.htmls = s.htmls /\ t.refs = s.refs /\ t.late = s.late
  BY DEF Wasm!increase_pointer, StoreFields

\* Every import that makes a value stores it at the next handle.
LEMMA RawStore ==
  ASSUME NEW s, Raw(s), NEW v \in Deep(s.pointer)
  PROVE  Raw(Wasm!store_std_value(s, v)) /\ Wasm!store_std_value(s, v).pointer = s.pointer + 1
<1>. DEFINE t == Wasm!increase_pointer(s)
<1>1. s.pointer \in Nat /\ DOMAIN s = StoreFields /\ DOMAIN s.values \subseteq Below(s.pointer)
  BY DEF Raw, Linked, StoreTyped
<1>2. /\ DOMAIN t = StoreFields /\ t.pointer = s.pointer + 1
      /\ t.values = s.values /\ t.htmls = s.htmls /\ t.refs = s.refs /\ t.late = s.late
  BY <1>1, Increased
<1>. HIDE DEF t
<1>3. Raw(t)
  BY <1>1, <1>2, RawElse
<1>4. s.pointer \in Below(t.pointer) /\ s.pointer \notin DOMAIN t.values
  BY <1>1, <1>2 DEF Below
<1>5. v \in Deep(t.pointer)
  BY <1>1, <1>2, NodesGrow
<1>6. Raw(Wasm!set_std_value(t, s.pointer, v)) /\ Wasm!set_std_value(t, s.pointer, v).pointer = t.pointer
  BY <1>3, <1>4, <1>5, RawSet DEF Raw, Needed
<1>. QED
  BY <1>2, <1>6 DEF Wasm!store_std_value, t

LEMMA RawTake ==
  ASSUME NEW s, Raw(s), NEW d
  PROVE  /\ Raw(Wasm!take_std_value(s, d)) /\ Wasm!take_std_value(s, d).pointer = s.pointer
         /\ d \notin DOMAIN Wasm!take_std_value(s, d).values
  BY TakeLinks DEF Raw, Deep

LEMMA HtmlFields ==
  ASSUME NEW s, DOMAIN s = StoreFields, NEW t, t = Wasm!set_html(s)
  PROVE  /\ DOMAIN t = StoreFields /\ t.pointer = s.pointer + 1
         /\ t.values = s.values /\ t.htmls = s.htmls \cup {s.pointer} /\ t.late = s.late
         /\ DOMAIN t.refs = DOMAIN s.refs \cup {s.pointer} /\ t.refs[s.pointer] = 0
         /\ \A x \in DOMAIN s.refs : x # s.pointer => t.refs[x] = s.refs[x]
  BY DEF Wasm!set_html, Wasm!increase_pointer, StoreFields, Wasm!Put

\* Nothing is made of a document that is not there yet.
LEMMA NothingOfNew ==
  ASSUME NEW s, StoreTyped(s, Deep(s.pointer))
  PROVE  Total(s.values, s.pointer) = 0
<1>1. \A d \in DOMAIN s.values : Wasm!Occurs(s.values[d], s.pointer) = 0
  <2>1. ASSUME NEW d \in DOMAIN s.values
        PROVE  Wasm!Occurs(s.values[d], s.pointer) = 0
    <3>1. s.values[d].docs \in Seq(Below(s.pointer)) /\ s.pointer \in Nat
      BY DEF StoreTyped, Deep, Node
    <3>2. \A i \in DOMAIN s.values[d].docs : s.values[d].docs[i] # s.pointer
      BY <3>1 DEF Below
    <3>3. /\ Wasm!Occurs(s.values[d], s.pointer) \in Nat
          /\ ~(Wasm!Occurs(s.values[d], s.pointer) > 0)
      BY <3>1, <3>2, OccursNumber
    <3>. QED
      BY <3>3
  <2>. QED
    BY <2>1
<1>2. [d \in DOMAIN s.values |-> Wasm!Occurs(s.values[d], s.pointer)] = [d \in DOMAIN s.values |-> 0]
  BY <1>1
<1>3. IsFiniteSet(DOMAIN s.values)
  BY BelowFinite, FS_Subset DEF StoreTyped
<1>. QED
  BY <1>2, <1>3, SumZero DEF Total

\* The values that imports and calls store.
LEMMA PlainNode ==
  ASSUME NEW p, NEW inner, NEW kind \in Kinds, kind # "html"
  PROVE  Wasm!Plain(kind) \in Node(p, inner)
  BY DEF Wasm!Plain, Node

LEMMA HtmlNode ==
  ASSUME NEW p, NEW inner, NEW docs \in Seq(Below(p))
  PROVE  Wasm!Html(docs) \in Node(p, inner) /\ Wasm!Html(docs).docs = docs
<1>1. Wasm!Html(docs) = [kind |-> "html", docs |-> docs, items |-> <<>>]
  BY DEF Wasm!Html, Wasm!Plain
<1>2. <<>> \in Seq(inner)
  OBVIOUS
<1>3. Wasm!Html(docs) \in [kind : Kinds, docs : Seq(Below(p)), items : Seq(inner)]
  BY <1>1, <1>2 DEF Kinds
<1>4. Wasm!Html(docs).docs = docs /\ Wasm!Html(docs).kind = "html"
  BY <1>1
<1>. QED
  BY <1>3, <1>4 DEF Node

LEMMA ContainerNode ==
  ASSUME NEW p, NEW inner, NEW items \in Seq(inner)
  PROVE  Wasm!Array(items) \in Node(p, inner) /\ Wasm!Object(items) \in Node(p, inner)
<1>1. /\ Wasm!Array(items) = [kind |-> "array", docs |-> <<>>, items |-> items]
      /\ Wasm!Object(items) = [kind |-> "object", docs |-> <<>>, items |-> items]
  BY DEF Wasm!Array, Wasm!Object, Wasm!Plain
<1>2. <<>> \in Seq(Below(p))
  OBVIOUS
<1>3. \A kind \in Kinds :
        [kind |-> kind, docs |-> <<>>, items |-> items]
          \in [kind : Kinds, docs : Seq(Below(p)), items : Seq(inner)]
  BY <1>2
<1>4. Wasm!Array(items).docs = <<>> /\ Wasm!Object(items).docs = <<>>
  BY <1>1
<1>. QED
  BY <1>1, <1>3, <1>4 DEF Node, Kinds

\* A document comes with an element of it.
LEMMA RawParse ==
  ASSUME NEW s, Raw(s)
  PROVE  Raw(Wasm!store_std_value(Wasm!set_html(s), Wasm!Html(<<s.pointer>>)))
<1>. DEFINE h == Wasm!set_html(s)
            t == Wasm!increase_pointer(h)
            v == Wasm!Html(<<s.pointer>>)
<1>1. s.pointer \in Nat /\ DOMAIN s = StoreFields /\ s.htmls \subseteq Below(s.pointer)
  BY DEF Raw, Linked, StoreTyped
<1>2. /\ DOMAIN h = StoreFields /\ h.pointer = s.pointer + 1
      /\ h.values = s.values /\ h.htmls = s.htmls \cup {s.pointer} /\ h.late = s.late
      /\ DOMAIN h.refs = DOMAIN s.refs \cup {s.pointer} /\ h.refs[s.pointer] = 0
      /\ \A x \in DOMAIN s.refs : x # s.pointer => h.refs[x] = s.refs[x]
  BY <1>1, HtmlFields
<1>. HIDE DEF h
<1>3. /\ DOMAIN t = StoreFields /\ t.pointer = h.pointer + 1
      /\ t.values = h.values /\ t.htmls = h.htmls /\ t.refs = h.refs /\ t.late = h.late
  BY <1>2, Increased
<1>. HIDE DEF t
<1>4. /\ t.pointer \in Nat /\ t.pointer = s.pointer + 2
      /\ h.pointer \in Below(t.pointer) /\ h.pointer \notin DOMAIN t.values
  BY <1>1, <1>2, <1>3 DEF Raw, Linked, StoreTyped, Below
<1>5. StoreTyped(t, Deep(t.pointer))
  <2>1. Deep(s.pointer) \subseteq Deep(t.pointer)
    BY <1>1, <1>4, NodesGrow
  <2>. QED
    BY <1>1, <1>2, <1>3, <1>4, <2>1 DEF Raw, Linked, StoreTyped, Below
<1>6. Counted(t) /\ \A x \in s.htmls : t.refs[x] > 0
  <2>1. Total(s.values, s.pointer) = 0
    BY NothingOfNew DEF Raw, Linked
  <2>2. \A x \in s.htmls : t.refs[x] = s.refs[x]
    BY <1>1, <1>2, <1>3 DEF Raw, Linked, StoreTyped, Below
  <2>. QED
    BY <1>2, <1>3, <2>1, <2>2 DEF Raw, Linked, Counted, Needed
<1>7. Present(t)
  BY <1>2, <1>3 DEF Raw, Linked, Present, All
<1>8. v \in Deep(t.pointer) /\ v.docs = <<s.pointer>>
  <2>1. <<s.pointer>> \in Seq(Below(t.pointer))
    BY <1>1, <1>4 DEF Below
  <2>. QED
    BY <2>1, HtmlNode DEF Deep
<1>9. Wasm!Occurs(v, s.pointer) > 0
  BY <1>8, OccursNumber DEF Deep, Node
<1>. HIDE DEF v
<1>10. Raw(Wasm!set_std_value(t, h.pointer, v))
  BY <1>2, <1>3, <1>4, <1>5, <1>6, <1>7, <1>8, <1>9, RawSet DEF Linked
<1>. QED
  BY <1>10 DEF Wasm!store_std_value, t, h, v

\* A container is of no elements itself.
LEMMA RawReplace ==
  ASSUME NEW s, Raw(s), NEW d \in DOMAIN s.values, NEW kind, kind # "html", NEW items,
         items = Nothing \/ items \in Seq(Shallow(s.pointer))
  PROVE  Raw(Wasm!Replace(s, d, kind, items))
<1>. DEFINE t == Wasm!take_std_value(s, d)
            v == [s.values[d] EXCEPT !.items = items]
<1>1. Raw(t) /\ t.pointer = s.pointer /\ d \notin DOMAIN t.values
  BY RawTake
<1>. HIDE DEF t
<1>2. CASE items = Nothing \/ s.values[d].kind # kind
  BY <1>1, <1>2 DEF Wasm!Replace, t
<1>3. CASE items \in Seq(Shallow(s.pointer)) /\ s.values[d].kind = kind
  <2>1. s.values[d] \in Deep(s.pointer) /\ d \in Below(s.pointer)
    BY DEF Raw, Linked, StoreTyped
  <2>2. v \in Deep(t.pointer)
    BY <1>1, <1>3, <2>1 DEF Deep, Node
  <2>. HIDE DEF v
  <2>3. Raw(Wasm!set_std_value(t, d, v))
    BY <1>1, <2>1, <2>2, RawSet DEF Raw, Needed
  <2>. QED
    BY <1>1, <2>3 DEF Wasm!Replace, t, v
<1>. QED
  BY <1>2, <1>3

LEMMA RawRemove ==
  ASSUME NEW s, Raw(s), NEW d \in DOMAIN s.values, s.values[d].kind # "html",
         NEW v \in Deep(s.pointer)
  PROVE  Raw(Wasm!set_std_value(s, d, v))
<1>1. s.values[d].docs = <<>> /\ d \in Below(s.pointer)
  BY DEF Raw, Linked, StoreTyped, Deep, Node
<1>. QED
  BY <1>1, RawSet DEF Raw, Needed

-----------------------------------------------------------------------------
\* Every import leaves a store that is typed and linked, whatever handle it is called with.
AllRaw(stores) == \A t \in stores : Raw(t)


LEMMA HeldValue ==
  ASSUME NEW s, Sound(s), NEW d \in DOMAIN s.values
  PROVE  /\ s.pointer \in Nat /\ s.values[d] \in Shallow(s.pointer) /\ s.values[d] \in Deep(s.pointer)
         /\ s.values[d].docs \in Seq(Below(s.pointer)) /\ s.values[d].items \in Seq(Flat(s.pointer))
         /\ s.values[d].kind # "html" => s.values[d].docs = <<>>
         /\ \A i \in DOMAIN s.values[d].items :
              s.values[d].items[i] \in Flat(s.pointer) /\ s.values[d].items[i] \in Deep(s.pointer)
<1>1. s.pointer \in Nat /\ s.values[d] \in Shallow(s.pointer)
  BY DEF Sound, Linked, StoreTyped
<1>2. Flat(s.pointer) \subseteq Shallow(s.pointer) /\ Shallow(s.pointer) \subseteq Deep(s.pointer)
  BY <1>1, NodesNest
<1>. QED
  BY <1>1, <1>2 DEF Shallow, Node

LEMMA StoredRaw ==
  ASSUME NEW s, Sound(s), NEW v \in Deep(s.pointer)
  PROVE  Raw(Wasm!store_std_value(s, v))
  BY SoundIsRaw, RawStore

LEMMA PlainRaw ==
  ASSUME NEW s, Sound(s), NEW kind \in Kinds, kind # "html"
  PROVE  Raw(Wasm!store_std_value(s, Wasm!Plain(kind)))
  BY StoredRaw, PlainNode DEF Deep

LEMMA StringRaw ==
  ASSUME NEW s, Sound(s)
  PROVE  Raw(Wasm!store_std_value(s, Wasm!String))
  BY PlainRaw DEF Wasm!String, Kinds

LEMMA ElementsRaw ==
  ASSUME NEW s, Sound(s), NEW docs \in Seq(Below(s.pointer))
  PROVE  Raw(Wasm!store_std_value(s, Wasm!Html(docs)))
  BY StoredRaw, HtmlNode DEF Deep

LEMMA ContainerRaw ==
  ASSUME NEW s, Sound(s), NEW items \in Seq(Flat(s.pointer))
  PROVE  Raw(Wasm!store_std_value(s, Wasm!Array(items)))
  /\ Raw(Wasm!store_std_value(s, Wasm!Object(items)))
<1>1. items \in Seq(Shallow(s.pointer))
  BY NodesNest, SeqGrows DEF Sound, Linked, StoreTyped
<1>. QED
  BY <1>1, StoredRaw, ContainerNode DEF Deep

LEMMA StringsFlat ==
  ASSUME NEW p
  PROVE  Wasm!String \in Flat(p) /\ <<Wasm!String>> \in Seq(Flat(p)) /\ <<>> \in Seq(Flat(p))
<1>1. Wasm!String \in Flat(p)
  BY PlainNode DEF Wasm!String, Flat, Kinds
<1>. QED
  BY <1>1

LEMMA JsonRaw ==
  ASSUME NEW s, Sound(s)
  PROVE  AllRaw(Wasm!json_parse(s))
<1>1. Raw(Wasm!store_std_value(s, Wasm!Plain("int"))) /\ Raw(Wasm!store_std_value(s, Wasm!Plain("null")))
  BY PlainRaw DEF Kinds
<1>2. Raw(Wasm!store_std_value(s, Wasm!Array(<<Wasm!String>>)))
      /\ Raw(Wasm!store_std_value(s, Wasm!Object(<<Wasm!String>>)))
  BY StringsFlat, ContainerRaw
<1>. QED
  BY <1>1, <1>2, StringRaw DEF AllRaw, Wasm!json_parse, Wasm!JsonValues

LEMMA RemovedSeq ==
  ASSUME NEW A, NEW q \in Seq(A), NEW i \in DOMAIN q
  PROVE  RemoveAt(q, i) \in Seq(A)
<1>1. DOMAIN q = 1..Len(q) /\ Len(q) \in Nat
  OBVIOUS
<1>2. SubSeq(q, 1, i - 1) \in Seq(A) /\ SubSeq(q, i + 1, Len(q)) \in Seq(A)
  BY <1>1, SubSeqProperties
<1>. QED
  BY <1>2 DEF RemoveAt

LEMMA ValuesRaw ==
  ASSUME NEW s, Sound(s), NEW d
  PROVE  /\ AllRaw(Wasm!create_value(s, Wasm!String)) /\ AllRaw(Wasm!create_value(s, Wasm!Array(<<>>)))
         /\ AllRaw(Wasm!create_value(s, Wasm!Object(<<>>)))
         /\ AllRaw(Wasm!copy(s, d)) /\ AllRaw(Wasm!destroy(s, d))
         /\ AllRaw(Wasm!object_get(s, d)) /\ AllRaw(Wasm!object_remove(s, d))
         /\ AllRaw(Wasm!object_keys(s, d)) /\ AllRaw(Wasm!object_values(s, d))
         /\ AllRaw(Wasm!array_get(s, d)) /\ \A i : AllRaw(Wasm!array_remove(s, d, i))
<1>1. AllRaw(Wasm!create_value(s, Wasm!String)) /\ AllRaw(Wasm!create_value(s, Wasm!Array(<<>>)))
      /\ AllRaw(Wasm!create_value(s, Wasm!Object(<<>>)))
  BY StringRaw, StringsFlat, ContainerRaw DEF AllRaw, Wasm!create_value
<1>2. AllRaw(Wasm!copy(s, d))
  BY HeldValue, StoredRaw DEF AllRaw, Wasm!copy, Wasm!When, Wasm!Held
<1>3. AllRaw(Wasm!destroy(s, d))
  BY SoundIsRaw, RawTake DEF AllRaw, Wasm!destroy
<1>4. AllRaw(Wasm!object_get(s, d))
  <2>1. SUFFICES ASSUME NEW v \in Wasm!Of(s, d, {"object", "page_result", "manga", "filter"}), NEW x \in Wasm!Fields(v)
                 PROVE  Raw(Wasm!store_std_value(s, x))
    BY DEF AllRaw, Wasm!object_get
  <2>2. d \in DOMAIN s.values /\ v = s.values[d]
    BY DEF Wasm!Of
  <2>3. v.items \in Seq(Flat(s.pointer)) /\ \A i \in DOMAIN v.items : v.items[i] \in Deep(s.pointer)
    BY <2>2, HeldValue
  <2>4. CASE v.kind = "object"
    <3>1. \E i \in DOMAIN v.items : x = v.items[i]
      BY <2>3, <2>4, SameLibrary DEF Wasm!Fields, ToSet
    <3>. QED
      BY <2>3, <3>1, StoredRaw
  <2>5. CASE v.kind = "page_result"
    <3>1. x \in {Wasm!Array(v.items), Wasm!Plain("bool")}
      BY <2>5 DEF Wasm!Fields
    <3>2. Raw(Wasm!store_std_value(s, Wasm!Array(v.items)))
      BY <2>3, ContainerRaw
    <3>3. Raw(Wasm!store_std_value(s, Wasm!Plain("bool")))
      BY PlainRaw DEF Kinds
    <3>. QED
      BY <3>1, <3>2, <3>3
  <2>6. CASE v.kind = "manga"
    <3>1. x \in {Wasm!String, Wasm!Array(<<Wasm!String>>)}
      BY <2>6 DEF Wasm!Fields
    <3>2. Raw(Wasm!store_std_value(s, Wasm!Array(<<Wasm!String>>)))
      BY StringsFlat, ContainerRaw
    <3>. QED
      BY <3>1, <3>2, StringRaw
  <2>7. CASE v.kind \notin {"object", "page_result", "manga"}
    BY <2>7, StringRaw DEF Wasm!Fields
  <2>. QED
    BY <2>4, <2>5, <2>6, <2>7
<1>5. AllRaw(Wasm!object_remove(s, d))
  <2>1. SUFFICES ASSUME d \in DOMAIN s.values
                 PROVE  Raw(Wasm!Replace(s, d, "object", <<>>))
    BY DEF AllRaw, Wasm!object_remove, Wasm!When, Wasm!Held
  <2>2. <<>> \in Seq(Shallow(s.pointer))
    OBVIOUS
  <2>. QED
    BY <2>1, <2>2, SoundIsRaw, RawReplace
<1>6. AllRaw(Wasm!object_keys(s, d))
  <2>1. SUFFICES ASSUME NEW v \in Wasm!Of(s, d, {"object"})
                 PROVE  Raw(Wasm!store_std_value(s, Wasm!Array([i \in DOMAIN v.items |-> Wasm!String])))
    BY DEF AllRaw, Wasm!object_keys
  <2>2. v.items \in Seq(Flat(s.pointer))
    BY HeldValue DEF Wasm!Of
  <2>3. [i \in DOMAIN v.items |-> Wasm!String] \in Seq(Flat(s.pointer))
    BY <2>2, StringsFlat
  <2>. QED
    BY <2>3, ContainerRaw
<1>7. AllRaw(Wasm!object_values(s, d))
  <2>1. \A v \in Wasm!Of(s, d, {"object"}) : v.items \in Seq(Flat(s.pointer))
    BY HeldValue DEF Wasm!Of
  <2>. QED
    BY <2>1, ContainerRaw DEF AllRaw, Wasm!object_values
<1>8. AllRaw(Wasm!array_get(s, d))
  <2>1. SUFFICES ASSUME NEW v \in Wasm!Of(s, d, {"array"}), NEW x \in ToSet(v.items)
                 PROVE  Raw(Wasm!store_std_value(s, x))
    BY SameLibrary DEF AllRaw, Wasm!array_get
  <2>2. \A i \in DOMAIN v.items : v.items[i] \in Deep(s.pointer)
    BY HeldValue DEF Wasm!Of
  <2>3. \E i \in DOMAIN v.items : x = v.items[i]
    BY DEF ToSet
  <2>. QED
    BY <2>2, <2>3, StoredRaw
<1>9. ASSUME NEW i
      PROVE  AllRaw(Wasm!array_remove(s, d, i))
  <2>1. SUFFICES ASSUME NEW v \in Wasm!Of(s, d, {"array"}), i \in DOMAIN v.items
                 PROVE  Raw(Wasm!set_std_value(s, d, Wasm!Array(RemoveAt(v.items, i))))
    BY SameLibrary DEF AllRaw, Wasm!array_remove
  <2>2. d \in DOMAIN s.values /\ v = s.values[d] /\ v.kind = "array"
    BY DEF Wasm!Of
  <2>3. v.items \in Seq(Flat(s.pointer)) /\ s.pointer \in Nat
    BY <2>2, HeldValue
  <2>4. RemoveAt(v.items, i) \in Seq(Flat(s.pointer))
    BY <2>1, <2>3, RemovedSeq
  <2>5. Wasm!Array(RemoveAt(v.items, i)) \in Deep(s.pointer)
    BY <2>3, <2>4, NodesNest, ContainerNode DEF Shallow
  <2>. QED
    BY <2>2, <2>5, SoundIsRaw, RawRemove
<1>. QED
  BY <1>1, <1>2, <1>3, <1>4, <1>5, <1>6, <1>7, <1>8, <1>9

LEMMA ContainersRaw ==
  ASSUME NEW s, Sound(s), NEW d, NEW e
  PROVE  /\ AllRaw(Wasm!object_set(s, d, e)) /\ AllRaw(Wasm!array_append(s, d, e))
         /\ \A i : AllRaw(Wasm!array_set(s, d, i, e))
<1>. SUFFICES ASSUME d \in DOMAIN s.values, e \in DOMAIN s.values, NEW i
              PROVE  /\ Raw(Wasm!Replace(s, d, "object", <<s.values[e]>>))
                     /\ Raw(Wasm!Replace(s, d, "array", Append(s.values[d].items, s.values[e])))
                     /\ Raw(Wasm!Replace(s, d, "array", IF i \in DOMAIN s.values[d].items
                              THEN [s.values[d].items EXCEPT ![i] = s.values[e]] ELSE Nothing))
  BY DEF AllRaw, Wasm!object_set, Wasm!array_append, Wasm!array_set, Wasm!When, Wasm!Held
<1>1. Raw(s)
  BY SoundIsRaw
<1>2. s.values[e] \in Shallow(s.pointer)
  BY HeldValue
<1>3. s.values[d].items \in Seq(Shallow(s.pointer))
  BY HeldValue, NodesNest, SeqGrows
<1>4. /\ <<s.values[e]>> \in Seq(Shallow(s.pointer))
      /\ Append(s.values[d].items, s.values[e]) \in Seq(Shallow(s.pointer))
      /\ i \in DOMAIN s.values[d].items =>
           [s.values[d].items EXCEPT ![i] = s.values[e]] \in Seq(Shallow(s.pointer))
  BY <1>2, <1>3
<1>5. Raw(Wasm!Replace(s, d, "object", <<s.values[e]>>))
  BY <1>1, <1>4, RawReplace
<1>6. Raw(Wasm!Replace(s, d, "array", Append(s.values[d].items, s.values[e])))
  BY <1>1, <1>4, RawReplace
<1>. DEFINE items == IF i \in DOMAIN s.values[d].items
                    THEN [s.values[d].items EXCEPT ![i] = s.values[e]] ELSE Nothing
<1>7. items = Nothing \/ items \in Seq(Shallow(s.pointer))
  BY <1>4
<1>. HIDE DEF items
<1>8. Raw(Wasm!Replace(s, d, "array", items))
  BY <1>1, <1>7, RawReplace
<1>. QED
  BY <1>5, <1>6, <1>8 DEF items

\* What is made of values of the store, and of the documents that are there.
LEMMA StringsRaw ==
  ASSUME NEW s, Sound(s), NEW vs
  PROVE  AllRaw(Wasm!StringOf(s, vs))
  BY StringRaw DEF AllRaw, Wasm!StringOf

LEMMA HtmlsRaw ==
  ASSUME NEW s, Sound(s), NEW vs, \A docs \in vs : docs \in Seq(Below(s.pointer))
  PROVE  AllRaw(Wasm!ElementsOf(s, vs))
  BY ElementsRaw DEF AllRaw, Wasm!ElementsOf

LEMMA HtmlDocs ==
  ASSUME NEW s, Sound(s), NEW d, NEW v \in Wasm!Htmls(s, d)
  PROVE  /\ v.docs \in Seq(Below(s.pointer)) /\ Wasm!Alive(s, v) \in Seq(Below(s.pointer))
         /\ Wasm!Alive(s, v) \o Wasm!Alive(s, v) \in Seq(Below(s.pointer))
            /\ <<>> \in Seq(Below(s.pointer))
         /\ \A i \in DOMAIN v.docs : <<v.docs[i]>> \in Seq(Below(s.pointer))
         /\ v.docs # <<>> =>
              <<v.docs[1]>> \in Seq(Below(s.pointer)) /\ <<Last(v.docs)>> \in Seq(Below(s.pointer))
         /\ Wasm!Alive(s, v) # <<>> => <<Wasm!Alive(s, v)[1]>> \in Seq(Below(s.pointer))
<1>1. v.docs \in Seq(Below(s.pointer))
  BY HeldValue DEF Wasm!Htmls, Wasm!Of
<1>2. Wasm!Alive(s, v) \in Seq(Below(s.pointer))
  BY <1>1, AliveAll
<1>3. \A q \in Seq(Below(s.pointer)) : q # <<>>
        => q[1] \in Below(s.pointer) /\ Last(q) \in Below(s.pointer)
  BY DEF Last
<1>. QED
  BY <1>1, <1>2, <1>3

LEMMA ParsesRaw ==
  ASSUME NEW s, Sound(s)
  PROVE  /\ AllRaw(Wasm!parse_with_uri(s)) /\ AllRaw(Wasm!parse_fragment_with_uri(s))
         /\ AllRaw(Wasm!next_parse(s)) /\ AllRaw(Wasm!next_parse_fragment(s))
  BY SoundIsRaw, RawParse
     DEF AllRaw, Wasm!parse_with_uri, Wasm!parse_fragment_with_uri, Wasm!next_parse,
         Wasm!next_parse_fragment

LEMMA TextsRaw ==
  ASSUME NEW s, Sound(s), NEW d
  PROVE  /\ AllRaw(Wasm!attr(s, d)) /\ AllRaw(Wasm!base_uri(s, d)) /\ AllRaw(Wasm!text(s, d))
         /\ AllRaw(Wasm!untrimmed_text(s, d)) /\ AllRaw(Wasm!html(s, d)) /\ AllRaw(Wasm!outer_html(s, d))
         /\ AllRaw(Wasm!own_text(s, d)) /\ AllRaw(Wasm!data(s, d)) /\ AllRaw(Wasm!id(s, d))
         /\ AllRaw(Wasm!tag_name(s, d)) /\ AllRaw(Wasm!class_name(s, d))
         /\ AllRaw(Wasm!escape(s, d)) /\ AllRaw(Wasm!unescape(s, d))
  BY StringsRaw DEF Wasm!attr, Wasm!base_uri, Wasm!text, Wasm!untrimmed_text, Wasm!html,
                    Wasm!outer_html, Wasm!own_text, Wasm!data, Wasm!id,
                    Wasm!tag_name, Wasm!class_name, Wasm!escape, Wasm!unescape

LEMMA SelectionsRaw ==
  ASSUME NEW s, Sound(s), NEW d
  PROVE  /\ AllRaw(Wasm!select(s, d)) /\ AllRaw(Wasm!child_nodes(s, d)) /\ AllRaw(Wasm!children(s, d))
         /\ AllRaw(Wasm!siblings(s, d))
         /\ AllRaw(Wasm!parent(s, d)) /\ AllRaw(Wasm!next_next(s, d)) /\ AllRaw(Wasm!next_previous(s, d))
<1>1. \A docs \in Wasm!Found(s, Wasm!Htmls(s, d)) : docs \in Seq(Below(s.pointer))
  <2>1. SUFFICES ASSUME NEW docs \in Wasm!Found(s, Wasm!Htmls(s, d))
                 PROVE  docs \in Seq(Below(s.pointer))
    OBVIOUS
  <2>2. PICK v \in Wasm!Htmls(s, d) :
          docs \in {<<>>, Wasm!Alive(s, v), Wasm!Alive(s, v) \o Wasm!Alive(s, v)}
    BY Zenon DEF Wasm!Found
  <2>. QED
    BY <2>2, HtmlDocs
<1>2. \A docs \in Wasm!Perhaps(s, Wasm!Htmls(s, d)) : docs \in Seq(Below(s.pointer))
  <2>1. SUFFICES ASSUME NEW docs \in Wasm!Perhaps(s, Wasm!Htmls(s, d))
                 PROVE  docs \in Seq(Below(s.pointer))
    OBVIOUS
  <2>2. PICK v \in Wasm!Htmls(s, d) : docs \in {<<>>, Wasm!Alive(s, v)}
    BY Zenon DEF Wasm!Perhaps
  <2>. QED
    BY <2>2, HtmlDocs
<1>. QED
  BY <1>1, <1>2, HtmlsRaw DEF Wasm!select, Wasm!child_nodes, Wasm!children, Wasm!siblings, Wasm!parent,
                              Wasm!next_next, Wasm!next_previous

LEMMA OnesRaw ==
  ASSUME NEW s, Sound(s), NEW d
  PROVE  /\ AllRaw(Wasm!first(s, d)) /\ AllRaw(Wasm!last(s, d)) /\ AllRaw(Wasm!next(s, d))
  /\ AllRaw(Wasm!previous(s, d))
         /\ AllRaw(Wasm!select_first(s, d)) /\ AllRaw(Wasm!get(s, d)) /\ AllRaw(Wasm!array(s, d))
<1>1. AllRaw(Wasm!first(s, d)) /\ AllRaw(Wasm!last(s, d))
  <2>1. \A v \in Wasm!Htmls(s, d) : v.docs # <<>> =>
          <<v.docs[1]>> \in Seq(Below(s.pointer)) /\ <<Last(v.docs)>> \in Seq(Below(s.pointer))
    BY HtmlDocs
  <2>. QED
    BY <2>1, HtmlsRaw, SameLibrary DEF Wasm!first, Wasm!last
<1>2. AllRaw(Wasm!next(s, d)) /\ AllRaw(Wasm!previous(s, d))
  <2>1. \A v \in Wasm!FirstAlive(s, Wasm!Single(s, d)) : v.docs \in Seq(Below(s.pointer))
    BY HtmlDocs DEF Wasm!FirstAlive, Wasm!Single
  <2>. QED
    BY <2>1, HtmlsRaw DEF Wasm!next, Wasm!previous
<1>3. AllRaw(Wasm!select_first(s, d))
  <2>1. \A v \in Wasm!SomeAlive(s, Wasm!Htmls(s, d)) : <<Wasm!Alive(s, v)[1]>> \in Seq(Below(s.pointer))
    BY HtmlDocs DEF Wasm!SomeAlive
  <2>. QED
    BY <2>1, HtmlsRaw DEF Wasm!select_first
<1>4. AllRaw(Wasm!get(s, d))
  <2>. DEFINE vs == UNION {{<<v.docs[i]>> : i \in DOMAIN v.docs} : v \in Wasm!Htmls(s, d)}
  <2>1. ASSUME NEW docs \in vs
        PROVE  docs \in Seq(Below(s.pointer))
    <3>1. PICK v \in Wasm!Htmls(s, d) : docs \in {<<v.docs[i]>> : i \in DOMAIN v.docs}
      BY Zenon
    <3>2. PICK i \in DOMAIN v.docs : docs = <<v.docs[i]>>
      BY <3>1
    <3>. QED
      BY <3>2, HtmlDocs
  <2>2. Wasm!get(s, d) = Wasm!ElementsOf(s, vs)
    BY DEF Wasm!get
  <2>. HIDE DEF vs
  <2>. QED
    BY <2>1, <2>2, HtmlsRaw
<1>5. AllRaw(Wasm!array(s, d))
  <2>1. SUFFICES ASSUME NEW v \in Wasm!Htmls(s, d)
                 PROVE  Raw(Wasm!store_std_value(s, Wasm!Array([i \in DOMAIN v.docs |-> Wasm!Html(<<v.docs[i]>>)])))
    BY DEF AllRaw, Wasm!array
  <2>2. \A i \in DOMAIN v.docs : Wasm!Html(<<v.docs[i]>>) \in Flat(s.pointer)
    BY HtmlDocs, HtmlNode DEF Flat
  <2>3. v.docs \in Seq(Below(s.pointer))
    BY HtmlDocs
  <2>4. [i \in DOMAIN v.docs |-> Wasm!Html(<<v.docs[i]>>)] \in Seq(Flat(s.pointer))
    <3>. DEFINE n == Len(v.docs)
                q == [i \in DOMAIN v.docs |-> Wasm!Html(<<v.docs[i]>>)]
    <3>1. n \in Nat /\ DOMAIN v.docs = 1..n
      BY <2>3
    <3>2. q \in [1..n -> Flat(s.pointer)]
      BY <2>2, <3>1
    <3>. HIDE DEF n, q
    <3>3. q \in Seq(Flat(s.pointer))
      BY <3>1, <3>2
    <3>. QED
      BY <3>3 DEF q
  <2>. QED
    BY <2>4, ContainerRaw
<1>. QED
  BY <1>1, <1>2, <1>3, <1>4, <1>5

\* Requests, things, limits and names of strings are not about documents.
LEMMA ElseRaw ==
  ASSUME NEW s, Raw(s), NEW d, NEW r
  PROVE  /\ Raw(Wasm!SetRequest(s, d, r)) /\ Raw(Wasm!create_request(s)) /\ Raw(Wasm!Thing(s, r))
         /\ Raw(Wasm!mark_str_encode(s, d)) /\ Raw([s EXCEPT !.limit = r])
         /\ Wasm!create_request(s).pointer = s.pointer + 1 /\ Wasm!Thing(s, r).pointer = s.pointer + 1
<1>1. DOMAIN s = StoreFields /\ s.pointer \in Nat
  BY DEF Raw, Linked, StoreTyped
<1>2. Raw(Wasm!SetRequest(s, d, r))
  <2>. DEFINE t == Wasm!SetRequest(s, d, r)
  <2>1. /\ DOMAIN t = StoreFields /\ t.pointer = s.pointer
        /\ t.values = s.values /\ t.htmls = s.htmls /\ t.refs = s.refs /\ t.late = s.late
    BY <1>1 DEF Wasm!SetRequest, StoreFields
  <2>. HIDE DEF t
  <2>. QED
    BY <1>1, <2>1, RawElse DEF t
<1>3. Raw(Wasm!mark_str_encode(s, d))
  <2>. DEFINE t == Wasm!mark_str_encode(s, d)
  <2>1. /\ DOMAIN t = StoreFields /\ t.pointer = s.pointer
        /\ t.values = s.values /\ t.htmls = s.htmls /\ t.refs = s.refs /\ t.late = s.late
    BY <1>1 DEF Wasm!mark_str_encode, StoreFields
  <2>. HIDE DEF t
  <2>. QED
    BY <1>1, <2>1, RawElse DEF t
<1>4. Raw([s EXCEPT !.limit = r])
  <2>. DEFINE t == [s EXCEPT !.limit = r]
  <2>1. /\ DOMAIN t = StoreFields /\ t.pointer = s.pointer
        /\ t.values = s.values /\ t.htmls = s.htmls /\ t.refs = s.refs /\ t.late = s.late
    BY <1>1 DEF StoreFields
  <2>. HIDE DEF t
  <2>2. Raw(t)
    BY <1>1, <2>1, RawElse
  <2>. QED
    BY <2>2 DEF t
<1>5. Raw(Wasm!create_request(s)) /\ Wasm!create_request(s).pointer = s.pointer + 1
  <2>. DEFINE t == Wasm!create_request(s)
  <2>1. /\ DOMAIN t = StoreFields /\ t.pointer = s.pointer + 1
        /\ t.values = s.values /\ t.htmls = s.htmls /\ t.refs = s.refs /\ t.late = s.late
    BY <1>1 DEF Wasm!create_request, Wasm!increase_pointer, StoreFields
  <2>. HIDE DEF t
  <2>2. t.pointer \in Nat /\ s.pointer <= t.pointer
    BY <1>1, <2>1
  <2>. QED
    BY <2>1, <2>2, RawElse DEF t
<1>6. Raw(Wasm!Thing(s, r)) /\ Wasm!Thing(s, r).pointer = s.pointer + 1
  <2>. DEFINE t == Wasm!Thing(s, r)
  <2>1. /\ DOMAIN t = StoreFields /\ t.pointer = s.pointer + 1
        /\ t.values = s.values /\ t.htmls = s.htmls /\ t.refs = s.refs /\ t.late = s.late
    BY <1>1 DEF Wasm!Thing, Wasm!increase_pointer, StoreFields
  <2>. HIDE DEF t
  <2>2. t.pointer \in Nat /\ s.pointer <= t.pointer
    BY <1>1, <2>1
  <2>. QED
    BY <2>1, <2>2, RawElse DEF t
<1>. QED
  BY <1>2, <1>3, <1>4, <1>5, <1>6

LEMMA NetworkRaw ==
  ASSUME NEW s, Sound(s), NEW d, NEW n, NEW period
  PROVE  /\ AllRaw(Wasm!init(s)) /\ AllRaw(Wasm!close(s, d)) /\ AllRaw(Wasm!set_url(s, d))
  /\ AllRaw(Wasm!get_url(s, d))
         /\ AllRaw(Wasm!get_data(s, d)) /\ AllRaw(Wasm!get_header(s, d))
            /\ AllRaw(Wasm!get_status_code(s, d))
         /\ AllRaw(Wasm!net_json(s, d)) /\ AllRaw(Wasm!net_html(s, d)) /\ AllRaw(Wasm!get_image(s, d))
         /\ AllRaw(Wasm!net_set_rate_limit(s, n)) /\ AllRaw(Wasm!set_rate_limit_period(s, n))
         /\ AllRaw(Wasm!next_set_rate_limit(s, n, period))
<1>1. AllRaw(Wasm!init(s)) /\ AllRaw(Wasm!close(s, d)) /\ AllRaw(Wasm!set_url(s, d))
      /\ AllRaw(Wasm!get_data(s, d))
      /\ AllRaw(Wasm!get_image(s, d))
  <2>1. Raw(Wasm!create_request(s)) /\ Raw(Wasm!Thing(s, "image")) /\ \A r : Raw(Wasm!SetRequest(s, d, r))
    BY SoundIsRaw, ElseRaw
  <2>. QED
    BY <2>1 DEF AllRaw, Wasm!init, Wasm!close, Wasm!set_url, Wasm!get_data, Wasm!get_image, Wasm!When
<1>2. AllRaw(Wasm!get_url(s, d)) /\ AllRaw(Wasm!get_header(s, d))
  BY StringRaw DEF AllRaw, Wasm!get_url, Wasm!get_header, Wasm!When
<1>3. AllRaw(Wasm!get_status_code(s, d))
  BY PlainRaw DEF AllRaw, Wasm!get_status_code, Wasm!When, Kinds
<1>4. AllRaw(Wasm!net_json(s, d)) /\ AllRaw(Wasm!net_html(s, d))
  BY JsonRaw, ParsesRaw DEF AllRaw, Wasm!net_json, Wasm!net_html
<1>5. \A permits, span : Raw(Wasm!set_rate_limit(s, permits, span))
  BY SoundIsRaw, ElseRaw DEF Wasm!set_rate_limit
<1>. QED
  BY <1>1, <1>2, <1>3, <1>4, <1>5
     DEF AllRaw, Wasm!net_set_rate_limit, Wasm!set_rate_limit_period, Wasm!next_set_rate_limit

LEMMA MediaRaw ==
  ASSUME NEW s, Sound(s), NEW d
  PROVE  /\ AllRaw(Wasm!new_context(s)) /\ AllRaw(Wasm!system_font(s)) /\ AllRaw(Wasm!load_font(s))
         /\ AllRaw(Wasm!new_image(s)) /\ AllRaw(Wasm!context_create(s)) /\ AllRaw(Wasm!defaults_get(s))
         /\ AllRaw(Wasm!canvas_get_image(s, d)) /\ AllRaw(Wasm!get_image_data(s, d))
         /\ AllRaw(Wasm!context_eval(s, d)) /\ AllRaw(Wasm!context_get(s, d))
<1>1. AllRaw(Wasm!new_context(s)) /\ AllRaw(Wasm!system_font(s)) /\ AllRaw(Wasm!load_font(s))
      /\ AllRaw(Wasm!new_image(s)) /\ AllRaw(Wasm!context_create(s))
         /\ AllRaw(Wasm!canvas_get_image(s, d))
  <2>1. \A kind : Raw(Wasm!Thing(s, kind))
    BY SoundIsRaw, ElseRaw
  <2>. QED
    BY <2>1 DEF AllRaw, Wasm!new_context, Wasm!system_font, Wasm!load_font, Wasm!new_image,
                Wasm!context_create,
                Wasm!canvas_get_image, Wasm!When
<1>2. Raw(Wasm!store_std_value(s, Wasm!Plain("bytes")))
  BY PlainRaw DEF Kinds
<1>3. AllRaw(Wasm!get_image_data(s, d)) /\ AllRaw(Wasm!context_eval(s, d))
      /\ AllRaw(Wasm!context_get(s, d))
  BY <1>2, StringRaw DEF AllRaw, Wasm!get_image_data, Wasm!context_eval, Wasm!context_get, Wasm!When
<1>4. AllRaw(Wasm!defaults_get(s))
  <2>1. ASSUME NEW v \in {Wasm!String, Wasm!Plain("bytes")}
        PROVE  Raw(Wasm!mark_str_encode(Wasm!store_std_value(s, v), s.pointer))
    <3>1. Raw(Wasm!store_std_value(s, v))  BY <1>2, <2>1, StringRaw
    <3>. QED  BY ONLY <3>1, ElseRaw
  <2>. QED  BY <2>1 DEF AllRaw, Wasm!defaults_get
<1>. QED
  BY <1>1, <1>3, <1>4

LEMMA CallsRaw ==
  ASSUME NEW s, Sound(s), NEW d, NEW e
  PROVE  /\ AllRaw(Wasm!create_manga(s)) /\ AllRaw(Wasm!create_chapter(s)) /\ AllRaw(Wasm!create_page(s))
         /\ AllRaw(Wasm!create_manga_result(s, d)) /\ AllRaw(Wasm!create_deeplink(s, d, e))
<1>1. \A kind \in Kinds \ {"html"} : Raw(Wasm!store_std_value(s, Wasm!Plain(kind)))
  BY PlainRaw
<1>2. AllRaw(Wasm!create_manga_result(s, d))
  <2>1. SUFFICES ASSUME NEW v \in Wasm!Of(s, d, {"array"})
                 PROVE  Raw(Wasm!store_std_value(s, [v EXCEPT !.kind = "page_result"]))
    BY DEF AllRaw, Wasm!create_manga_result
  <2>2. v \in Deep(s.pointer) /\ v.docs = <<>>
    BY HeldValue DEF Wasm!Of
  <2>3. [v EXCEPT !.kind = "page_result"] \in Deep(s.pointer)
    BY <2>2 DEF Deep, Node, Kinds
  <2>. QED
    BY <2>3, StoredRaw
<1>. QED
  BY <1>1, <1>2 DEF AllRaw, Wasm!create_manga, Wasm!create_chapter, Wasm!create_page,
                    Wasm!create_deeplink, Wasm!When, Kinds

\* What leaves a store sound, with no bound to keep.
LEMMA SoundTake ==
  ASSUME NEW s, Sound(s)
  PROVE  \A d : Sound(Wasm!take_std_value(s, d))
<1>. SUFFICES ASSUME NEW d PROVE Sound(Wasm!take_std_value(s, d))
  OBVIOUS
<1>. DEFINE t == Wasm!take_std_value(s, d)
<1>1. Linked(s, Node(s.pointer, Flat(s.pointer))) /\ Needed(s)
  BY DEF Sound, Shallow
<1>2. t = Wasm!take_std_value(s, d)
  OBVIOUS
<1>. HIDE DEF t
<1>3. Linked(t, Node(t.pointer, Flat(s.pointer))) /\ Needed(t) /\ t.pointer = s.pointer
  BY ONLY <1>1, <1>2, TakeLinks
<1>. QED
  BY <1>3 DEF Sound, Shallow, t

LEMMA SoundLimit ==
  ASSUME NEW s, Sound(s), NEW l
  PROVE  Sound([s EXCEPT !.limit = l])
<1>. DEFINE t == [s EXCEPT !.limit = l]
<1>1. /\ DOMAIN t = StoreFields /\ t.pointer = s.pointer
      /\ t.values = s.values /\ t.htmls = s.htmls /\ t.refs = s.refs /\ t.late = s.late
  BY DEF Sound, Linked, StoreTyped, StoreFields
<1>. HIDE DEF t
<1>2. Sound(t)
  BY <1>1, SoundElse
<1>. QED
  BY <1>2 DEF t

LEMMA SoundRequest ==
  ASSUME NEW s, Sound(s), NEW d, NEW r
  PROVE  Sound(Wasm!SetRequest(s, d, r))
<1>. DEFINE t == Wasm!SetRequest(s, d, r)
<1>1. /\ DOMAIN t = StoreFields /\ t.pointer = s.pointer
      /\ t.values = s.values /\ t.htmls = s.htmls /\ t.refs = s.refs /\ t.late = s.late
  BY DEF Sound, Linked, StoreTyped, StoreFields, Wasm!SetRequest
<1>. HIDE DEF t
<1>2. Sound(t)
  BY <1>1, SoundElse
<1>. QED
  BY <1>2 DEF t

-----------------------------------------------------------------------------
LEMMA DoesKeeps ==
  ASSUME Sound(store), NEW family, NEW results, AllRaw(results), Wasm!Does(family, results)
  PROVE  Sound(store')
<1>1. PICK t \in results : Wasm!Within(t) /\ store' = t
  BY DEF Wasm!Does
<1>. QED
  BY <1>1, RawWithin DEF AllRaw

LEMMA ImportsKeep ==
  ASSUME Sound(store), Wasm!ValueImports \/ Wasm!HtmlImports \/ Wasm!MediaImports \/ Wasm!CallImports
  PROVE  Sound(store')
<1>1. CASE Wasm!ValueImports
  BY <1>1, DoesKeeps, ValuesRaw, ContainersRaw, JsonRaw DEF Wasm!ValueImports, Wasm!Values
<1>2. CASE Wasm!HtmlImports
  BY <1>2, DoesKeeps, ParsesRaw, TextsRaw, SelectionsRaw, OnesRaw DEF Wasm!HtmlImports, Wasm!Values
<1>3. CASE Wasm!MediaImports
  BY <1>3, DoesKeeps, MediaRaw, ValuesRaw DEF Wasm!MediaImports, Wasm!Media
<1>4. CASE Wasm!CallImports
  BY <1>4, DoesKeeps, CallsRaw, ValuesRaw, ContainersRaw DEF Wasm!CallImports, Wasm!InCalls
<1>. QED
  BY <1>1, <1>2, <1>3, <1>4

LEMMA NetworkKeeps ==
  ASSUME Sound(store), Wasm!NetworkImports
  PROVE  Sound(store')
<1>1. \A results :
        AllRaw(results) /\ (Wasm!Requests(results) \/ Wasm!Limits(results) \/ Wasm!Network(results))
          => Sound(store')
  BY DoesKeeps DEF Wasm!Network, Wasm!Requests, Wasm!Limits
<1>2. CASE \E d, e \in Wasm!Handles : Wasm!Send(<<d>>) \/ Wasm!Send(<<d, e>>)
  BY <1>2 DEF Wasm!Send
<1>3. CASE ~(\E d, e \in Wasm!Handles : Wasm!Send(<<d>>) \/ Wasm!Send(<<d, e>>))
  BY <1>1, <1>3, NetworkRaw, ValuesRaw DEF Wasm!NetworkImports
<1>. QED
  BY <1>2, <1>3

LEMMA EnterKeeps ==
  ASSUME NEW t, Raw(t), NEW object, NEW end, Wasm!Enter(t, object, end)
  PROVE  Sound(store')
  BY RawWithin DEF Wasm!Enter

LEMMA HostCallsKeep ==
  ASSUME Sound(store), Wasm!HostCalls
  PROVE  Sound(store')
<1>1. Raw(store) /\ store.pointer \in Nat
  BY SoundIsRaw DEF Sound, Linked, StoreTyped
<1>2. \A kind \in Kinds \ {"html"} :
        /\ Raw(Wasm!Stored(Wasm!Plain(kind))) /\ Wasm!Stored(Wasm!Plain(kind)).pointer = store.pointer + 1
        /\ \A s : Raw(s) => Raw(Wasm!store_std_value(s, Wasm!Plain(kind)))
  BY <1>1, PlainNode, RawStore DEF Deep, Wasm!Stored
<1>3. \A kind, type \in Kinds \ {"html"} : Raw(Wasm!StoredBoth(Wasm!Plain(kind), Wasm!Plain(type)))
  BY <1>2 DEF Wasm!StoredBoth
<1>4. Raw(Wasm!Stored(Wasm!Object(<<Wasm!String>>)))
      /\ Raw(Wasm!Stored(Wasm!Array(<<Wasm!Plain("filter")>>)))
  <2>1. <<Wasm!String>> \in Seq(Flat(store.pointer))
        /\ <<Wasm!Plain("filter")>> \in Seq(Flat(store.pointer))
    BY StringsFlat, PlainNode DEF Flat, Kinds
  <2>. QED
    BY <2>1, ContainerRaw DEF Wasm!Stored
<1>5. ASSUME NEW t, NEW object, NEW end, Wasm!Enter(t, object, end), Raw(t)
      PROVE  Sound(store')
  BY <1>5, EnterKeeps
<1>6. CASE Wasm!start \/ Wasm!get_manga_details \/ Wasm!get_chapter_list \/ Wasm!get_page_list
      \/ Wasm!search_mangas_by_filters
  BY <1>1, <1>4, <1>5, <1>6
     DEF Wasm!start, Wasm!get_manga_details, Wasm!get_chapter_list, Wasm!get_page_list,
         Wasm!search_mangas_by_filters
<1>7. CASE \/ Wasm!get_search_manga_list \/ Wasm!get_manga_update \/ Wasm!get_page_list_next
           \/ Wasm!get_manga_list_next \/ Wasm!handle_notification
  BY <1>2, <1>3, <1>5, <1>7
     DEF Wasm!get_search_manga_list, Wasm!get_manga_update, Wasm!get_page_list_next,
         Wasm!get_manga_list_next,
         Wasm!handle_notification, Wasm!String, Kinds
<1>8. CASE Wasm!process_page_image
  <2>1. Raw(Wasm!store_std_value(Wasm!Thing(store, "image"), Wasm!Plain("image_response")))
    BY <1>1, <1>2, ElseRaw DEF Kinds
  <2>. QED
    BY <1>5, <1>8, <2>1 DEF Wasm!process_page_image
<1>9. CASE Wasm!get_image_request \/ Wasm!get_image_request_next
  <2>1. Raw(Wasm!Stored(Wasm!String))
    BY <1>2 DEF Wasm!String, Kinds
  <2>2. Raw(Wasm!mark_str_encode(Wasm!Stored(Wasm!String), store.pointer))
    BY <2>1, ElseRaw
  <2>3. Raw(Wasm!SetRequest(Wasm!create_request(store), store.pointer, [Wasm!Building EXCEPT !.url = TRUE]))
    BY <1>1, ElseRaw
  <2>. QED
    BY <1>5, <1>9, <2>2, <2>3 DEF Wasm!get_image_request, Wasm!get_image_request_next
<1>10. CASE \E ok \in BOOLEAN : Wasm!call_cleanup(ok) \/ Wasm!ReturnEarly(ok)
  <2>1. Sound(Wasm!TakeAll)
    BY SoundTake DEF Wasm!TakeAll
  <2>. QED
    BY <1>10, <2>1 DEF Wasm!call_cleanup, Wasm!ReturnEarly, Wasm!Leave
<1>. QED
  BY <1>6, <1>7, <1>8, <1>9, <1>10 DEF Wasm!HostCalls

LEMMA SendNextKeeps ==
  ASSUME Sound(store), Wasm!SendNext
  PROVE  Sound(store')
<1>1. \A l : Sound([store EXCEPT !.limit = l])
  BY SoundLimit
<1>2. \A t \in Wasm!rate_limit_acquire(store) : Sound(t)
  BY <1>1 DEF Wasm!rate_limit_acquire
<1>3. \A t, u : Sound(t) /\ u \in Wasm!Sent(t, sending[1]) => Sound(u)
  BY SoundRequest DEF Wasm!Sent
<1>. QED
  BY <1>2, <1>3 DEF Wasm!SendNext

LEMMA TickKeeps ==
  ASSUME Sound(store), Wasm!Tick
  PROVE  Sound(store')
<1>1. store' = [store EXCEPT !.limit = [store.limit EXCEPT !.waited = @ + 1]]
  BY DEF Wasm!Tick, Sound, Linked, StoreTyped, StoreFields
<1>. QED
  BY <1>1, SoundLimit

LEMMA WasmNext ==
  ASSUME Sound(store), [Wasm!Next]_Wasm!vars
  PROVE  Sound(store')
<1>1. CASE Wasm!Next
  BY <1>1, HostCallsKeep, ImportsKeep, NetworkKeeps, SendNextKeeps, TickKeeps DEF Wasm!Next
<1>2. CASE UNCHANGED Wasm!vars
  BY <1>2 DEF Wasm!vars
<1>. QED
  BY <1>1, <1>2

LEMMA WasmInit ==
  ASSUME Wasm!Init
  PROVE  Sound(store)
<1>1. /\ DOMAIN store = StoreFields /\ store.pointer = 0
      /\ store.values = <<>> /\ store.htmls = {} /\ store.refs = <<>>
  BY DEF Wasm!Init, Wasm!Empty, StoreFields
<1>2. DOMAIN store.values = {} /\ DOMAIN store.refs = {} /\ store.values \in [{} -> Shallow(0)]
  BY <1>1
<1>. QED
  BY <1>1, <1>2 DEF Sound, Linked, StoreTyped, Counted, Needed, Present, Below

\* The store of a source is always linked: its documents are those that its values are
\* made of, each with its count (link_reference_html and free_reference_html of
\* wasm_store.rs, over all imports and calls).
THEOREM WasmInvariance == Wasm!Spec => []Sound(store)
<1>1. Wasm!Init => Sound(store)
  BY WasmInit
<1>2. Sound(store) /\ [Wasm!Next]_Wasm!vars => Sound(store)'
  BY WasmNext
<1>. QED
  BY <1>1, <1>2, PTL DEF Wasm!Spec

\* A document is in the store as long as a value is made of its elements, and no longer, and
\* whatever was stored while its documents were there has them (wasm_store.rs).
THEOREM DocumentsAreHeld == Wasm!Spec => []DocumentsHeld
<1>1. Sound(store) => DocumentsHeld
  <2>1. SUFFICES ASSUME Sound(store) PROVE DocumentsHeld
    OBVIOUS
  <2>2. \A x \in store.htmls : store.refs[x] > 0 /\ store.refs[x] = Total(store.values, x)
    BY <2>1 DEF Sound, Needed, Linked, Counted
  <2>3. ASSUME NEW d \in DOMAIN store.values \ store.late
        PROVE  Wasm!Alive(store, store.values[d]) = store.values[d].docs
    <3>1. All(store.values[d].docs, store.htmls) /\ store.values[d].docs \in Seq(Below(store.pointer))
      BY <2>1, HeldValue DEF Sound, Linked, Present
    <3>. QED
      BY <3>1, AliveAll
  <2>. QED
    BY <2>2, <2>3, SameLibrary DEF DocumentsHeld, Wasm!DocumentsHeld, Total
<1>. QED
  BY <1>1, WasmInvariance, PTL

-----------------------------------------------------------------------------
(* SourceWorkers: an engine that answers has the pages of the chapter that *)
(* it says, and the addresses of a request before are forgotten.           *)

CallStates == {"idle", "check", "start", "wait", "done"}
WorkerStates == {"boot", "ready", "ended", "finished"}
CallShape(x) ==
  /\ DOMAIN x = {"steps", "pc", "attempts", "starts"}
  /\ x.pc \in CallStates
WorkerShape(x) ==
  /\ DOMAIN x = {"state", "queue", "engine"}
  /\ x.state \in WorkerStates
EngineTrue(e) ==
  DOMAIN e = {"last_url", "page_list_chapter", "stash"} /\ e.stash \in {Nothing, e.page_list_chapter}

CallsTyped == calls = [c \in Callers |-> calls[c]] /\ \A c \in Callers : CallShape(calls[c])
WorkersTyped ==
  /\ handle \in {Nothing} \cup DOMAIN workers
  /\ workers = [w \in DOMAIN workers |-> workers[w]]
  /\ \A w \in DOMAIN workers : WorkerShape(workers[w])
EnginesTrue == \A w \in DOMAIN workers : workers[w].state = "ready" => EngineTrue(workers[w].engine)

WorkersInv == CallsTyped /\ WorkersTyped /\ EnginesTrue /\ Workers!AnswersOwn

LEMMA WorkersInit == Workers!Init => WorkersInv
  BY DEF Workers!Init, WorkersInv, CallsTyped, WorkersTyped, EnginesTrue, Workers!AnswersOwn,
         Workers!Idle, CallShape, CallStates

LEMMA KeptFacts ==
  ASSUME NEW ws, NEW h,
         ws = [w \in DOMAIN ws |-> ws[w]], \A w \in DOMAIN ws : WorkerShape(ws[w]),
         h \in {Nothing} \cup DOMAIN ws
  PROVE  /\ DOMAIN Workers!Kept(ws, h) \subseteq DOMAIN ws
         /\ \A w \in DOMAIN Workers!Kept(ws, h) : Workers!Kept(ws, h)[w] = ws[w]
         /\ Workers!Kept(ws, h) = [w \in DOMAIN Workers!Kept(ws, h) |-> Workers!Kept(ws, h)[w]]
         /\ h \in {Nothing} \cup DOMAIN Workers!Kept(ws, h)
  BY DEF Workers!Kept

LEMMA AfterShape == \A call, ok : CallShape(Workers!After(call, ok))
  BY DEF CallShape, CallStates, Workers!After, Workers!Idle

LEMMA CallFields ==
  ASSUME NEW x, CallShape(x), NEW pc \in CallStates, NEW n
  PROVE  /\ CallShape([x EXCEPT !.pc = pc]) /\ CallShape([x EXCEPT !.steps = n, !.pc = pc])
         /\ CallShape([x EXCEPT !.attempts = n, !.pc = pc])
            /\ CallShape([x EXCEPT !.starts = n, !.pc = pc])
  BY DEF CallShape

LEMMA WorkerFields ==
  ASSUME NEW x, WorkerShape(x), NEW state \in WorkerStates, NEW q, NEW e
  PROVE  /\ WorkerShape([x EXCEPT !.state = state]) /\ [x EXCEPT !.state = state].state = state
         /\ WorkerShape([x EXCEPT !.state = state, !.queue = q])
         /\ [x EXCEPT !.state = state, !.queue = q].state = state
         /\ WorkerShape([x EXCEPT !.state = state, !.engine = e])
         /\ [x EXCEPT !.state = state, !.engine = e].engine = e
         /\ WorkerShape([x EXCEPT !.queue = q]) /\ [x EXCEPT !.queue = q].state = x.state
         /\ [x EXCEPT !.queue = q].engine = x.engine
  BY DEF WorkerShape

LEMMA EngineFields ==
  ASSUME NEW e, EngineTrue(e), NEW u, NEW ch
  PROVE  /\ EngineTrue([e EXCEPT !.last_url = u]) /\ [e EXCEPT !.last_url = u].last_url = u
         /\ EngineTrue(Workers!GetPages(e, ch)) /\ Workers!GetPages(e, ch).stash = ch
         /\ Workers!GetPages(e, ch).last_url = e.last_url
  BY DEF EngineTrue, Workers!GetPages

LEMMA InvokeShape ==
  ASSUME NEW call, CallShape(call)
  PROVE  /\ CallShape(Workers!invoke_keiyoushi(call)) /\ CallShape(Workers!invoke_lnreader(call))
         /\ CallShape(Workers!invoke_mangayomi(call)) /\ CallShape(Workers!invoke_mangayomi_js(call))
  BY AfterShape, CallFields DEF CallStates, Workers!invoke_keiyoushi, Workers!invoke_lnreader,
                                Workers!invoke_mangayomi, Workers!invoke_mangayomi_js

\* A call in a new state, of its shape.
LEMMA CallChanges ==
  ASSUME CallsTyped, NEW c \in Callers, NEW x, CallShape(x), calls' = [calls EXCEPT ![c] = x]
  PROVE  CallsTyped'
  BY DEF CallsTyped

\* Workers are dropped, and the handle is given up or stays.
LEMMA DroppedKeep ==
  ASSUME WorkersTyped, EnginesTrue, NEW h \in {Nothing} \cup DOMAIN workers,
         handle' = h, workers' = Workers!Kept(workers, h)
  PROVE  WorkersTyped' /\ EnginesTrue'
  BY KeptFacts DEF WorkersTyped, EnginesTrue

\* A worker in a new state, of its shape.
LEMMA BecomesKeeps ==
  ASSUME WorkersTyped, EnginesTrue, NEW w \in DOMAIN workers, NEW x, WorkerShape(x),
         x.state = "ready" => EngineTrue(x.engine),
         Workers!Becomes(w, x), handle' = handle
  PROVE  WorkersTyped' /\ EnginesTrue'
<1>. DEFINE ws == [workers EXCEPT ![w] = x]
<1>1. /\ DOMAIN ws = DOMAIN workers /\ ws[w] = x /\ ws = [v \in DOMAIN ws |-> ws[v]]
      /\ \A v \in DOMAIN workers \ {w} : ws[v] = workers[v]
  BY DEF WorkersTyped
<1>2. \A v \in DOMAIN ws : WorkerShape(ws[v])
  BY <1>1 DEF WorkersTyped
<1>3. handle \in {Nothing} \cup DOMAIN ws /\ workers' = Workers!Kept(ws, handle)
  BY <1>1 DEF WorkersTyped, Workers!Becomes
<1>. HIDE DEF ws
<1>4. /\ DOMAIN workers' \subseteq DOMAIN ws
      /\ \A v \in DOMAIN workers' : workers'[v] = ws[v]
      /\ workers' = [v \in DOMAIN workers' |-> workers'[v]]
      /\ handle \in {Nothing} \cup DOMAIN workers'
  BY <1>1, <1>2, <1>3, KeptFacts
<1>5. \A v \in DOMAIN workers' : WorkerShape(workers'[v])
  BY <1>2, <1>4
<1>6. \A v \in DOMAIN workers' : workers'[v].state = "ready" => EngineTrue(workers'[v].engine)
  BY <1>1, <1>4 DEF EnginesTrue
<1>. QED
  BY <1>4, <1>5, <1>6 DEF WorkersTyped, EnginesTrue

LEMMA BeginKeeps ==
  ASSUME WorkersInv, NEW c \in Callers, Workers!Begin(c)
  PROVE  WorkersInv'
<1>1. PICK script : calls' = [calls EXCEPT ![c].steps = script, ![c].pc = "check"]
  BY DEF Workers!Begin
<1>2. calls' = [calls EXCEPT ![c] = [calls[c] EXCEPT !.steps = script, !.pc = "check"]]
  BY <1>1 DEF WorkersInv, CallsTyped
<1>3. CallShape([calls[c] EXCEPT !.steps = script, !.pc = "check"])
  BY CallFields DEF WorkersInv, CallsTyped, CallStates
<1>4. CallsTyped'
  BY <1>2, <1>3, CallChanges DEF WorkersInv
<1>. QED
  BY <1>4 DEF WorkersInv, Workers!Begin, WorkersTyped, EnginesTrue, Workers!AnswersOwn

LEMMA RestartKeeps ==
  ASSUME WorkersInv, NEW c \in Callers, Workers!Restart(c)
  PROVE  WorkersInv'
<1>1. PICK x : CallShape(x) /\ calls' = [calls EXCEPT ![c] = x]
  BY InvokeShape DEF WorkersInv, CallsTyped, Workers!Restart
<1>2. CallsTyped'
  BY <1>1, CallChanges DEF WorkersInv
<1>3. WorkersTyped' /\ EnginesTrue'
  BY DroppedKeep DEF WorkersInv, Workers!Restart
<1>. QED
  BY <1>2, <1>3 DEF WorkersInv, Workers!Restart, Workers!AnswersOwn

LEMMA StartKeeps ==
  ASSUME WorkersInv, NEW c \in Callers, Workers!start_worker(c)
  PROVE  WorkersInv'
<1>1. /\ DOMAIN Workers!Kept(workers, Nothing) \subseteq DOMAIN workers
  BY KeptFacts DEF WorkersInv, WorkersTyped
<1>2. WorkersTyped' /\ EnginesTrue'
  BY <1>1 DEF WorkersInv, WorkersTyped, EnginesTrue, Workers!start_worker, WorkerShape, WorkerStates
<1>3. CallShape([calls[c] EXCEPT !.pc = "check"])
  BY CallFields DEF WorkersInv, CallsTyped, CallStates
<1>4. CallsTyped'
  BY <1>3, CallChanges DEF WorkersInv, CallsTyped, Workers!start_worker, Workers!Goes
<1>. QED
  BY <1>2, <1>4 DEF WorkersInv, Workers!start_worker, Workers!AnswersOwn

LEMMA SendKeeps ==
  ASSUME WorkersInv, NEW c \in Callers, Workers!Send(c)
  PROVE  WorkersInv'
<1>1. CASE workers[handle].state = "ended"
  <2>1. calls' = [calls EXCEPT ![c] = Workers!After(calls[c], FALSE)] /\ workers' = workers
    BY <1>1 DEF Workers!Send
  <2>2. CallsTyped'
    BY <2>1, AfterShape, CallChanges DEF WorkersInv
  <2>. QED
    BY <2>1, <2>2 DEF WorkersInv, WorkersTyped, EnginesTrue, Workers!Send, Workers!AnswersOwn
<1>2. CASE workers[handle].state # "ended"
  <2>1. handle \in DOMAIN workers
    BY DEF Workers!Send, Workers!FinishedHandle, WorkersInv, WorkersTyped
  <2>2. /\ workers' = [workers EXCEPT ![handle].queue = Append(@, Workers!Queued(c))]
        /\ handle' = handle /\ astray' = astray /\ Workers!Goes(c, "wait")
    BY <1>2 DEF Workers!Send
  <2>. DEFINE x == [workers[handle] EXCEPT !.queue = Append(@, Workers!Queued(c))]
  <2>3. WorkersTyped' /\ EnginesTrue'
    <3>1. WorkerShape(x) /\ x.state = workers[handle].state /\ x.engine = workers[handle].engine
      BY <2>1, WorkerFields DEF WorkersInv, WorkersTyped, WorkerShape
    <3>2. workers' = [workers EXCEPT ![handle] = x]
      BY <2>1, <2>2 DEF WorkersInv, WorkersTyped
    <3>. QED
      <4>. HIDE DEF x
      <4>1. WorkersTyped /\ EnginesTrue  BY DEF WorkersInv
      <4>2. x.state = "ready" => EngineTrue(x.engine)  BY <2>1, <3>1, <4>1 DEF EnginesTrue
      <4>3. workers = [w \in DOMAIN workers |-> workers[w]] /\ handle' \in {Nothing} \cup DOMAIN workers
        BY ONLY <2>2, <4>1 DEF WorkersTyped
      <4>4. /\ DOMAIN workers' = DOMAIN workers /\ workers' = [w \in DOMAIN workers' |-> workers'[w]]
            /\ \A w \in DOMAIN workers : workers'[w] = IF w = handle THEN x ELSE workers[w]
        BY ONLY <2>1, <3>2, <4>3
      <4>5. \A w \in DOMAIN workers' : WorkerShape(workers'[w])
        BY ONLY <3>1, <4>1, <4>4 DEF WorkersTyped
      <4>6. \A w \in DOMAIN workers' : workers'[w].state = "ready" => EngineTrue(workers'[w].engine)
        BY ONLY <4>1, <4>2, <4>4 DEF EnginesTrue
      <4>. QED  BY ONLY <4>3, <4>4, <4>5, <4>6 DEF WorkersTyped, EnginesTrue
  <2>4. CallShape([calls[c] EXCEPT !.pc = "wait"])
    BY CallFields DEF WorkersInv, CallsTyped, CallStates
  <2>5. CallsTyped'
    BY <2>2, <2>4, CallChanges DEF WorkersInv, CallsTyped, Workers!Goes
  <2>. QED
    BY <2>2, <2>3, <2>5 DEF WorkersInv, Workers!AnswersOwn
<1>. QED
  BY <1>1, <1>2

LEMMA GiveUpKeeps ==
  ASSUME WorkersInv, NEW c \in Callers, Workers!GiveUp(c)
  PROVE  WorkersInv'
<1>. DEFINE ws == Workers!Orphaned(c, workers)
<1>1. DOMAIN ws = DOMAIN workers /\ ws = [w \in DOMAIN ws |-> ws[w]]
  BY DEF Workers!Orphaned
<1>2. \A w \in DOMAIN ws :
        /\ WorkerShape(ws[w]) /\ ws[w].state = workers[w].state
        /\ ws[w].engine = workers[w].engine
  BY WorkerFields DEF Workers!Orphaned, WorkersInv, WorkersTyped, WorkerShape
<1>3. handle' = Nothing /\ workers' = Workers!Kept(ws, Nothing)
  BY DEF Workers!GiveUp
<1>. HIDE DEF ws
<1>4. WorkersTyped' /\ EnginesTrue'
  BY <1>1, <1>2, <1>3, KeptFacts DEF WorkersTyped, EnginesTrue, WorkersInv
<1>5. CallShape([calls[c] EXCEPT !.attempts = @ + 1, !.pc = "check"])
  BY CallFields DEF WorkersInv, CallsTyped, CallStates
<1>6. CallShape(Workers!Again(calls[c]))
  BY <1>5, AfterShape DEF Workers!Again
<1>7. CallsTyped'
  BY <1>6, CallChanges DEF WorkersInv, Workers!GiveUp
<1>. QED
  BY <1>4, <1>7 DEF WorkersInv, Workers!GiveUp, Workers!AnswersOwn

LEMMA StopKeeps ==
  ASSUME WorkersInv, Workers!stop_worker
  PROVE  WorkersInv'
<1>1. WorkersTyped' /\ EnginesTrue'
  BY DroppedKeep DEF WorkersInv, Workers!stop_worker
<1>. QED
  BY <1>1 DEF WorkersInv, CallsTyped, Workers!stop_worker, Workers!AnswersOwn

LEMMA BootKeeps ==
  ASSUME WorkersInv, NEW w, Workers!Boot(w)
  PROVE  WorkersInv'
<1>1. /\ w \in DOMAIN workers /\ WorkerShape(workers[w])
      /\ calls' = calls /\ handle' = handle /\ astray' = astray
  BY DEF Workers!Boot, Workers!In, Workers!Live, WorkersInv, WorkersTyped
<1>. DEFINE ready == [workers[w] EXCEPT !.state = "ready", !.engine = Workers!boot_engine]
            ended == [workers[w] EXCEPT !.state = "ended", !.queue = <<>>]
<1>2. /\ WorkerShape(ready) /\ EngineTrue(ready.engine)
      /\ WorkerShape(ended) /\ ended.state # "ready"
  <2>1. EngineTrue(Workers!boot_engine)
    BY DEF EngineTrue, Workers!boot_engine
  <2>2. WorkerShape(ready) /\ ready.engine = Workers!boot_engine
    BY <1>1 DEF WorkerShape, WorkerStates
  <2>3. WorkerShape(ended) /\ ended.state = "ended"
    BY <1>1 DEF WorkerShape, WorkerStates
  <2>. QED
    BY <2>1, <2>2, <2>3
<1>3. Workers!Becomes(w, ready) \/ Workers!Becomes(w, ended)
  BY DEF Workers!Boot
<1>. HIDE DEF ready, ended
<1>4. WorkersTyped' /\ EnginesTrue'
  BY <1>1, <1>2, <1>3, BecomesKeeps DEF WorkersInv
<1>. QED
  BY <1>1, <1>4 DEF WorkersInv, CallsTyped, Workers!AnswersOwn

LEMMA FinishKeeps ==
  ASSUME WorkersInv, NEW w, Workers!Finish(w)
  PROVE  WorkersInv'
<1>1. /\ w \in DOMAIN workers /\ WorkerShape(workers[w])
      /\ calls' = calls /\ handle' = handle /\ astray' = astray
  BY DEF Workers!Finish, Workers!In, Workers!Live, WorkersInv, WorkersTyped
<1>. DEFINE x == [workers[w] EXCEPT !.state = "finished"]
<1>2. WorkerShape(x) /\ x.state # "ready"
  BY <1>1, WorkerFields DEF WorkerStates
<1>3. Workers!Becomes(w, x)
  BY DEF Workers!Finish
<1>. HIDE DEF x
<1>4. WorkersTyped' /\ EnginesTrue'
  BY <1>1, <1>2, <1>3, BecomesKeeps DEF WorkersInv
<1>. QED
  BY <1>1, <1>4 DEF WorkersInv, CallsTyped, Workers!AnswersOwn

\* Whatever a request comes to, the engine is true to its chapter, and an answer is right.
LEMMA OutcomesTrue ==
  ASSUME NEW e, EngineTrue(e), NEW r, e.last_url \in {Nothing, r.call},
         NEW o \in Workers!handle_request(e, r)
  PROVE  EngineTrue(o.engine) /\ ~Workers!Wrong(r, o)
<1>. DEFINE Out(x, ok) == [engine |-> x, ok |-> ok]
            Parsed ==
              UNION {IF p = "ok" THEN {Out(Workers!GetPages(e, r.chapter), TRUE)}
                     ELSE {Out(f, FALSE) : f \in Workers!FailedParse(e)} : p \in Workers!Parses}
<1>1. \A x \in Parsed :
        /\ EngineTrue(x.engine) /\ x.engine.last_url = e.last_url
        /\ x.ok => x.engine.stash \in {Nothing, r.chapter}
  <2>1. /\ EngineTrue(Workers!GetPages(e, r.chapter))
        /\ Workers!GetPages(e, r.chapter).stash = r.chapter
        /\ Workers!GetPages(e, r.chapter).last_url = e.last_url
    BY EngineFields
  <2>2. \A f \in Workers!FailedParse(e) : EngineTrue(f) /\ f.last_url = e.last_url
    BY DEF Workers!FailedParse, EngineTrue
  <2>. QED
    BY <2>1, <2>2
<1>2. CASE r.what = "pages"
  <2>1. o \in Parsed
    BY <1>2 DEF Workers!handle_request
  <2>. QED
    BY <1>1, <1>2, <2>1 DEF Workers!Wrong, Workers!base
<1>3. CASE r.what = "image"
  <2>1. PICK x \in (IF Workers!Stashed(e, r.chapter) THEN {Out(e, TRUE)} ELSE Parsed), fetched \in BOOLEAN :
          o = Out(x.engine, x.ok /\ fetched)
    BY <1>3 DEF Workers!handle_request
  <2>2. /\ EngineTrue(x.engine) /\ x.engine.last_url = e.last_url
        /\ (x.ok => x.engine.stash \in {Nothing, r.chapter})
    BY <1>1, <2>1 DEF Workers!Stashed, EngineTrue
  <2>. QED
    BY <1>3, <2>1, <2>2 DEF Workers!Wrong, Workers!base
<1>4. CASE r.what \notin {"pages", "image"}
  <2>1. o.engine = e
    BY <1>4 DEF Workers!handle_request
  <2>. QED
    BY <1>4, <2>1 DEF Workers!Wrong, Workers!base
<1>. QED
  BY <1>2, <1>3, <1>4

LEMMA ReplyKeeps ==
  ASSUME WorkersInv, NEW w, Workers!Reply(w)
  PROVE  WorkersInv'
<1>. DEFINE r == Head(workers[w].queue)
            fresh == Workers!Fresh(workers[w].engine)
            then == Workers!Afterwards(r.call # Nothing)
<1>1. /\ w \in DOMAIN workers /\ WorkerShape(workers[w]) /\ EngineTrue(workers[w].engine)
      /\ handle' = handle
  BY DEF Workers!Reply, Workers!In, Workers!Live, WorkersInv, WorkersTyped, EnginesTrue
<1>2. PICK seen \in {fresh, IF runtime = "keiyoushi" THEN Workers!execute_request(fresh, r.call) ELSE fresh} :
      \E o \in Workers!handle_request(seen, r) :
        /\ astray' = (astray \/ Workers!Wrong(r, o))
        /\ Workers!Becomes(w, [state |-> then, engine |-> o.engine,
                               queue |-> IF then = "ready" THEN Tail(workers[w].queue) ELSE <<>>])
        /\ IF r.call # Nothing THEN calls' = [calls EXCEPT ![r.call] = Workers!After(@, o.ok)]
                            ELSE UNCHANGED calls
  BY DEF Workers!Reply
<1>3. EngineTrue(seen) /\ seen.last_url \in {Nothing, r.call}
  <2>1. EngineTrue(fresh) /\ fresh.last_url = Nothing
    BY <1>1, EngineFields DEF Workers!Fresh
  <2>. HIDE DEF fresh
  <2>2. /\ EngineTrue(Workers!execute_request(fresh, r.call))
        /\ Workers!execute_request(fresh, r.call).last_url = r.call
    BY ONLY SMTT(60), <2>1, EngineFields DEF Workers!execute_request
  <2>. QED
    BY <1>2, <2>1, <2>2
<1>4. PICK o \in Workers!handle_request(seen, r) :
        /\ astray' = (astray \/ Workers!Wrong(r, o))
        /\ Workers!Becomes(w, [state |-> then, engine |-> o.engine,
                               queue |-> IF then = "ready" THEN Tail(workers[w].queue) ELSE <<>>])
        /\ IF r.call # Nothing THEN calls' = [calls EXCEPT ![r.call] = Workers!After(@, o.ok)]
                            ELSE UNCHANGED calls
  BY <1>2
<1>5. EngineTrue(o.engine) /\ ~Workers!Wrong(r, o)
  BY <1>3, OutcomesTrue
<1>6. then \in {"ready", "ended"}
  BY DEF Workers!Afterwards, Workers!worker_loop_keiyoushi, Workers!worker_loop_lnreader,
         Workers!worker_loop_mangayomi, Workers!worker_loop_mangayomi_js
<1>. HIDE DEF then, r
<1>. DEFINE x == [state |-> then, engine |-> o.engine,
                  queue |-> IF then = "ready" THEN Tail(workers[w].queue) ELSE <<>>]
<1>7. WorkerShape(x) /\ x.engine = o.engine
  BY <1>6 DEF WorkerShape, WorkerStates
<1>8. Workers!Becomes(w, x)
  BY <1>4
<1>. HIDE DEF x
<1>9. WorkersTyped' /\ EnginesTrue'
  BY <1>1, <1>5, <1>7, <1>8, BecomesKeeps DEF WorkersInv
<1>10. CallsTyped'
  BY <1>4, AfterShape DEF WorkersInv, CallsTyped
<1>. QED
  BY <1>4, <1>5, <1>9, <1>10 DEF WorkersInv, Workers!AnswersOwn

LEMMA WorkersNext == WorkersInv /\ [Workers!Next]_Workers!vars => WorkersInv'
<1>. SUFFICES ASSUME WorkersInv, [Workers!Next]_Workers!vars PROVE WorkersInv'
  OBVIOUS
<1>1. ASSUME NEW c \in Callers,
             Workers!Begin(c) \/ Workers!Restart(c) \/ Workers!start_worker(c)
             \/ Workers!Send(c) \/ Workers!GiveUp(c)
      PROVE  WorkersInv'
  BY <1>1, BeginKeeps, RestartKeeps, StartKeeps, SendKeeps, GiveUpKeeps
<1>2. ASSUME NEW w, Workers!Boot(w) \/ Workers!Reply(w) \/ Workers!Finish(w)
      PROVE  WorkersInv'
  BY <1>2, BootKeeps, ReplyKeeps, FinishKeeps
<1>3. CASE UNCHANGED Workers!vars
  BY <1>3 DEF Workers!vars, WorkersInv, CallsTyped, WorkersTyped, EnginesTrue, Workers!AnswersOwn
<1>. QED
  BY <1>1, <1>2, <1>3, StopKeeps DEF Workers!Next

\* What is proved of the workers is always so, for any callers, chapters and bounds.
THEOREM WorkersInvariance == Workers!Spec => []WorkersInv
  BY WorkersInit, WorkersNext, PTL DEF Workers!Spec

\* The handle leads to a worker that there is, and workers and calls are in their states.
THEOREM WorkersTypeCorrect == Workers!Spec => []Workers!TypeOK
<1>1. WorkersInv => Workers!TypeOK
  BY DEF WorkersInv, CallsTyped, WorkersTyped, CallShape, WorkerShape, CallStates, WorkerStates,
         Workers!TypeOK
<1>. QED
  BY <1>1, WorkersInvariance, PTL

\* An image is only fetched by the engine that has read its chapter's page list last, and
\* an answer is completed with an address of its own request, whatever the worker does for
\* other callers (keiyoushi/mod.rs).
THEOREM AnswersAreOwn == Workers!Spec => []AnswersOwn
<1>1. WorkersInv => AnswersOwn
  BY DEF WorkersInv, AnswersOwn
<1>. QED
  BY <1>1, WorkersInvariance, PTL

-----------------------------------------------------------------------------
(* SourceRequests: the bounded history of a source is as good as all that  *)
(* was observed of it.  Whatever a history does not hold is older than all *)
(* it holds, and is out of date or one too many: so a request that records *)
(* late, what has been pruned, a write that failed and a restart change no *)
(* verdict.                                                                *)

LEMMA SameLines ==
  /\ \A S : Many!Cardinality(S) = Cardinality(S)
  /\ \A s : Many!ToSet(s) = ToSet(s) /\ Many!Last(s) = Last(s)
  /\ \A S : Many!SetToSeqs(S) = SetToSeqs(S)
  /\ \A s, I : Many!Pick(s, I) = Pick(s, I)
<1>1. \A S : Many!Cardinality(S) = Cardinality(S)
  BY DEF Many!Cardinality, Cardinality
<1>2. \A s : Many!ToSet(s) = ToSet(s) /\ Many!Last(s) = Last(s)
  BY DEF Many!ToSet, ToSet, Many!Last, Last
<1>3. \A S : Many!SetToSeqs(S) = SetToSeqs(S)
  BY DEF Many!SetToSeqs, SetToSeqs, Many!Cardinality, Cardinality
<1>4. \A s, I : Many!Pick(s, I) = Pick(s, I)
  BY DEF Many!Pick, Pick, Many!Place, Place, Many!Cardinality, Cardinality
<1>. QED
  BY <1>1, <1>2, <1>3, <1>4

Items == {j[2] : j \in UNION {Asked[r] : r \in Askers}}
Operations == {Asking[r] : r \in Askers}
Observations == [source : Many!Sources, item : Items, operation : Operations, ok : BOOLEAN, at : Nat]

\* Observations have times of their own.
Timed(S) == \A o, p \in S : o.at = p.at => o = p
InTime(s) == \A i, j \in DOMAIN s : i < j => s[i].at < s[j].at
Expired(o, time) == o.at + Retention < time
\* Whatever is missing from a history is older than all of it, and out of date or one too many.
Remembers(s, S, time) ==
  \A o \in S \ ToSet(s) :
    /\ \A p \in ToSet(s) : o.at < p.at
    /\ Expired(o, time) \/ Len(s) = MaxObservations

\* A sequence that rises from each place to the next rises.
LEMMA Rising ==
  ASSUME NEW S, NEW s \in Seq(S), \A o \in S : o.at \in Nat,
         \A i \in 1..(Len(s) - 1) : s[i].at < s[i + 1].at
  PROVE  InTime(s)
<1>1. DOMAIN s = 1..Len(s) /\ Len(s) \in Nat /\ \A i \in 1..Len(s) : s[i].at \in Nat
  BY LenProperties, ElementOfSeq
<1>2. SUFFICES ASSUME NEW i \in 1..Len(s) PROVE \A j \in (i + 1)..Len(s) : s[i].at < s[j].at
  BY <1>1 DEF InTime
<1>. DEFINE Bad == {j \in (i + 1)..Len(s) : ~(s[i].at < s[j].at)}
<1>3. SUFFICES ASSUME Bad # {} PROVE FALSE
  OBVIOUS
<1>4. Bad \in SUBSET Int /\ IsFiniteSet(Bad)
  <2>1. i + 1 \in Int /\ Len(s) \in Int  BY <1>1
  <2>2. IsFiniteSet((i + 1)..Len(s))  BY <2>1, FS_Interval
  <2>3. Bad \subseteq (i + 1)..Len(s)  OBVIOUS
  <2>. QED  BY <2>1, <2>2, <2>3, FS_Subset
<1>. DEFINE j == Min(Bad)
<1>5. j \in Bad /\ \A k \in Bad : j <= k
  <2>. HIDE DEF Bad
  <2>. QED  BY <1>3, <1>4, MinOfSet
<1>. HIDE DEF j
<1>6. j \in (i + 1)..Len(s) /\ ~(s[i].at < s[j].at)
  BY <1>5
<1>7. j - 1 \in 1..(Len(s) - 1) /\ (j - 1) + 1 = j
  BY <1>1, <1>6
<1>8. s[j - 1].at < s[j].at
  BY <1>7
<1>9. CASE j = i + 1
  BY <1>6, <1>8, <1>9
<1>10. CASE j # i + 1
  <2>1. j - 1 \in (i + 1)..Len(s) /\ ~(j <= j - 1)  BY <1>1, <1>6, <1>10
  <2>2. s[i].at < s[j - 1].at  BY <1>5, <2>1
  <2>3. s[i].at \in Nat /\ s[j].at \in Nat /\ s[j - 1].at \in Nat  BY <1>1, <1>6, <1>7
  <2>. QED  BY <1>6, <1>8, <2>2, <2>3
<1>. QED
  BY <1>9, <1>10

LEMMA SeqSetFinite ==
  ASSUME NEW A, NEW s \in Seq(A)
  PROVE  IsFiniteSet(ToSet(s)) /\ ToSet(s) \subseteq A
<1>1. DOMAIN s = 1..Len(s) /\ Len(s) \in Nat
  BY LenProperties
<1>. DEFINE f == [i \in 1..Len(s) |-> s[i]]
<1>2. IsFiniteSet(1..Len(s))
  BY <1>1, FS_Interval
<1>3. f \in Surjection(1..Len(s), ToSet(s))
  BY <1>1, Members DEF Surjection
<1>4. IsFiniteSet(ToSet(s))
  <2>. HIDE DEF f
  <2>. QED  BY <1>2, <1>3, FS_Surjection
<1>. QED
  BY <1>4, Members

LEMMA InTimeIsLine ==
  ASSUME NEW s \in Seq(Observations), InTime(s)
  PROVE  Line(s, Observations) /\ IsFiniteSet(ToSet(s)) /\ Len(s) = Cardinality(ToSet(s))
<1>1. DOMAIN s = 1..Len(s) /\ Len(s) \in Nat /\ \A i \in 1..Len(s) : s[i].at \in Nat
  <2>1. \A o \in Observations : o.at \in Nat  BY DEF Observations
  <2>. QED  BY <2>1, LenProperties, ElementOfSeq
<1>2. \A i, j \in 1..Len(s) : s[i] = s[j] => i = j
  <2>. SUFFICES ASSUME NEW i \in 1..Len(s), NEW j \in 1..Len(s), s[i] = s[j], i # j PROVE FALSE
    OBVIOUS
  <2>1. i < j \/ j < i  OBVIOUS
  <2>. QED  BY <1>1, <2>1 DEF InTime
<1>3. Line(s, Observations)
  BY <1>1, <1>2 DEF Line, Distinct
<1>4. IsFiniteSet(ToSet(s))
  BY SeqSetFinite
<1>. QED
  BY <1>3, <1>4, LengthIsSize

\* The listing by time exists.
LEMMA Timeline ==
  ASSUME NEW S \in SUBSET Observations, IsFiniteSet(S), Timed(S), NEW t, t = Many!ByTime(S)
  PROVE  t \in Seq(S) /\ InTime(t) /\ ToSet(t) = S /\ t \in Seq(Observations)
<1>. DEFINE R == {p \in S \X S : p[1].at <= p[2].at}
<1>1. \A a, b \in S : a.at \in Nat /\ b.at \in Nat /\ (<<a, b>> \in R <=> a.at <= b.at)
  BY DEF Observations
<1>2. \A a, b \in S : <<a, b>> \in R \/ <<b, a>> \in R
  <2>. HIDE DEF R
  <2>. TAKE a, b \in S
  <2>1. a.at \in Nat /\ b.at \in Nat  BY <1>1
  <2>2. a.at <= b.at \/ b.at <= a.at  BY <2>1
  <2>. QED  BY <1>1, <2>2
<1>3. \A a, b, c \in S : <<a, b>> \in R /\ <<b, c>> \in R => <<a, c>> \in R
  <2>. HIDE DEF R
  <2>. SUFFICES ASSUME NEW a \in S, NEW b \in S, NEW c \in S, <<a, b>> \in R, <<b, c>> \in R
                PROVE  <<a, c>> \in R
    OBVIOUS
  <2>1. a.at <= b.at /\ b.at <= c.at /\ a.at \in Nat /\ b.at \in Nat /\ c.at \in Nat  BY <1>1
  <2>2. a.at <= c.at  BY <2>1
  <2>. QED  BY <1>1, <2>2
<1>. HIDE DEF R
<1>4. PICK s \in SetToSeqs(S) : \A i \in 1..(Len(s) - 1) : <<s[i], s[i + 1]>> \in R
  BY <1>2, <1>3, Sorting
<1>5. /\ s \in Seq(S) /\ DOMAIN s = 1..Len(s) /\ Len(s) \in Nat
      /\ \A i, j \in DOMAIN s : s[i] = s[j] => i = j
      /\ \A i \in 1..Len(s) : s[i] \in S
  BY Listing, LenProperties, ElementOfSeq
<1>6. ASSUME NEW i \in 1..(Len(s) - 1) PROVE s[i].at < s[i + 1].at
  <2>1. i \in DOMAIN s /\ i + 1 \in DOMAIN s /\ i # i + 1  BY <1>5
  <2>2. s[i] # s[i + 1] /\ s[i] \in S /\ s[i + 1] \in S  BY <1>5, <2>1
  <2>3. s[i].at <= s[i + 1].at /\ s[i].at \in Nat /\ s[i + 1].at \in Nat  BY <1>1, <1>4, <2>2
  <2>4. s[i].at # s[i + 1].at  BY <2>2 DEF Timed
  <2>. QED  BY <2>3, <2>4
<1>7. InTime(s)
  BY <1>1, <1>5, <1>6, Rising
<1>8. t \in SetToSeqs(S) /\ InTime(t)
  BY <1>4, <1>7, SameLines DEF Many!ByTime, InTime
<1>9. t \in Seq(S) /\ \A x \in S : \E i \in DOMAIN t : t[i] = x
  BY <1>8, Listing
<1>10. ToSet(t) = S
  <2>1. DOMAIN t = 1..Len(t)  BY <1>9, LenProperties
  <2>2. \A x : x \in ToSet(t) <=> \E i \in 1..Len(t) : t[i] = x  BY <1>9, Members
  <2>3. \A i \in 1..Len(t) : t[i] \in S  BY <1>9, Members
  <2>. QED  BY <1>9, <2>1, <2>2, <2>3
<1>11. t \in Seq(Observations)
  BY <1>9
<1>. QED
  BY <1>8, <1>9, <1>10, <1>11

\* What is drained is older than all that stays.
LEMMA NewestKeeps ==
  ASSUME NEW u \in Seq(Observations), InTime(u), NEW t, t = Many!Newest(u)
  PROVE  /\ t \in Seq(Observations) /\ InTime(t) /\ Len(t) <= MaxObservations
         /\ ToSet(t) \subseteq ToSet(u)
         /\ \A o \in ToSet(u) \ ToSet(t) : Len(t) = MaxObservations /\ \A p \in ToSet(t) : o.at < p.at
<1>1. DOMAIN u = 1..Len(u) /\ Len(u) \in Nat /\ MaxObservations \in Nat
  BY LenProperties, BoundsAreNumbers
<1>2. CASE Len(u) <= MaxObservations
  <2>1. t = u  BY <1>1, <1>2 DEF Many!Newest
  <2>. QED  BY <1>2, <2>1
<1>3. CASE ~(Len(u) <= MaxObservations)
  <2>. DEFINE k == Len(u) - MaxObservations
  <2>1. k \in Nat /\ k + 1 \in 1..(Len(u) + 1) /\ t = SubSeq(u, k + 1, Len(u))
    BY <1>1, <1>3 DEF Many!Newest
  <2>2. t \in Seq(Observations) /\ Len(t) = Len(u) - k /\ \A i \in 1..(Len(u) - k) : t[i] = u[k + i]
    <3>1. k + 1 \in Int /\ Len(u) \in Nat /\ 1 <= k + 1  BY <1>1, <2>1
    <3>2. \A i \in (k + 1)..Len(u) : u[i] \in Observations  BY <1>1, <2>1, ElementOfSeq
    <3>3. t \in Seq(Observations) /\ Len(t) = Len(u) - k
          /\ \A i \in 1..(Len(u) - k) : t[i] = u[(k + 1) + i - 1]
      BY <1>1, <2>1, <3>1, <3>2, SubSeqProperties
    <3>4. \A i \in 1..(Len(u) - k) : (k + 1) + i - 1 = k + i  BY <2>1
    <3>. QED  BY <3>3, <3>4
  <2>3. Len(t) = MaxObservations /\ DOMAIN t = 1..MaxObservations
    BY <1>1, <2>2, LenProperties
  <2>0. MaxObservations = Len(u) - k  BY <1>1
  <2>. HIDE DEF k
  <2>4. \A i \in 1..MaxObservations : t[i] = u[k + i] /\ k + i \in 1..Len(u)
    <3>. TAKE i \in 1..MaxObservations
    <3>1. i \in 1..(Len(u) - k) /\ k + i \in 1..Len(u)  BY <1>1, <2>0, <2>1
    <3>. QED  BY <2>2, <3>1
  <2>5. InTime(t)
    <3>. SUFFICES ASSUME NEW i \in 1..MaxObservations, NEW j \in 1..MaxObservations, i < j
                  PROVE  t[i].at < t[j].at
      BY <2>3 DEF InTime
    <3>1. k + i < k + j  BY <2>1
    <3>2. u[k + i].at < u[k + j].at  BY <1>1, <2>4, <3>1 DEF InTime
    <3>. QED  BY <2>4, <3>2
  <2>6. ToSet(t) \subseteq ToSet(u)
    BY <2>2, <2>3, <2>4, Members
  <2>7. ASSUME NEW o \in ToSet(u) \ ToSet(t), NEW p \in ToSet(t) PROVE o.at < p.at
    <3>1. PICK i \in 1..Len(u) : u[i] = o  BY Members
    <3>2. PICK j \in 1..MaxObservations : t[j] = p  BY <2>2, <2>3, Members
    <3>3. i <= k
      <4>1. SUFFICES ASSUME i > k PROVE FALSE  BY <2>1
      <4>2. i - k \in 1..MaxObservations /\ k + (i - k) = i  BY <1>1, <2>0, <2>1, <4>1
      <4>3. t[i - k] = o  BY <2>4, <3>1, <4>2
      <4>. QED  BY <2>2, <2>3, <2>7, <4>2, <4>3, Members
    <3>4. i < k + j /\ k + j \in 1..Len(u) /\ u[k + j] = p  BY <2>1, <2>4, <3>2, <3>3
    <3>. QED  BY <1>1, <3>1, <3>4 DEF InTime
  <2>. QED
    BY <2>2, <2>3, <2>5, <2>6, <2>7
<1>. QED
  BY <1>2, <1>3

\* What a history keeps.
LEMMA Pruned ==
  ASSUME NEW h \in Seq(Observations), Timed(ToSet(h)), NEW time \in Nat,
         NEW t, t = Many!Newest(Many!ByTime(Many!Recent(h, time)))
  PROVE  /\ t \in Seq(Observations) /\ InTime(t) /\ Len(t) <= MaxObservations
         /\ ToSet(t) \subseteq ToSet(h) /\ \A o \in ToSet(t) : ~Expired(o, time)
         /\ \A o \in ToSet(h) \ ToSet(t) :
              \/ Expired(o, time)
              \/ Len(t) = MaxObservations /\ \A p \in ToSet(t) : o.at < p.at
<1>. DEFINE S == Many!Recent(h, time)
            u == Many!ByTime(S)
<1>1. IsFiniteSet(ToSet(h)) /\ ToSet(h) \subseteq Observations
  BY SeqSetFinite
<1>2. \A o : o \in S <=> o \in ToSet(h) /\ ~Expired(o, time)
  <2>1. \A o \in Observations : o.at \in Nat  BY DEF Observations
  <2>2. \A o \in ToSet(h) : (o.at + Retention >= time) <=> ~Expired(o, time)
    BY <1>1, <2>1, BoundsAreNumbers DEF Expired
  <2>3. S = {o \in ToSet(h) : o.at + Retention >= time}  BY SameLines DEF Many!Recent
  <2>. QED  BY <2>2, <2>3
<1>. HIDE DEF S
<1>3. IsFiniteSet(S) /\ S \in SUBSET Observations /\ Timed(S)
  <2>1. S \subseteq ToSet(h)  BY <1>2
  <2>. QED  BY <1>1, <2>1, FS_Subset DEF Timed
<1>4. u \in Seq(Observations) /\ InTime(u) /\ ToSet(u) = S
  BY <1>3, Timeline
<1>5. t = Many!Newest(u)
  BY DEF S
<1>. HIDE DEF u
<1>6. /\ t \in Seq(Observations) /\ InTime(t) /\ Len(t) <= MaxObservations
      /\ ToSet(t) \subseteq S
      /\ \A o \in S \ ToSet(t) : Len(t) = MaxObservations /\ \A p \in ToSet(t) : o.at < p.at
  BY <1>4, <1>5, NewestKeeps
<1>. QED
  BY <1>2, <1>6

\* A history that remembered goes on so.
LEMMA Remembered ==
  ASSUME NEW m \in Seq(Observations), InTime(m), NEW R \in SUBSET Observations, NEW time \in Nat,
         Remembers(m, R, time),
         NEW h \in Seq(Observations), Timed(ToSet(h)), ToSet(m) \subseteq ToSet(h),
         NEW t, t = Many!Newest(Many!ByTime(Many!Recent(h, time)))
  PROVE  Remembers(t, R \cup ToSet(h), time)
<1>1. /\ t \in Seq(Observations) /\ InTime(t) /\ Len(t) <= MaxObservations
      /\ ToSet(t) \subseteq ToSet(h) /\ \A o \in ToSet(t) : ~Expired(o, time)
      /\ \A o \in ToSet(h) \ ToSet(t) :
           \/ Expired(o, time)
           \/ Len(t) = MaxObservations /\ \A p \in ToSet(t) : o.at < p.at
  BY Pruned
<1>2. \A o \in R \cup ToSet(h) : o.at \in Nat
  <2>1. \A o \in Observations : o.at \in Nat  BY DEF Observations
  <2>. QED  BY <2>1, SeqSetFinite
<1>3. Retention \in Nat
  BY BoundsAreNumbers
<1>4. ASSUME NEW o \in (R \cup ToSet(h)) \ ToSet(t)
      PROVE  Expired(o, time) \/ (Len(t) = MaxObservations /\ \A p \in ToSet(t) : o.at < p.at)
  <2>1. CASE o \in ToSet(h)
    <3>1. o \in ToSet(h) \ ToSet(t)  BY <2>1
    <3>. QED  BY <1>1, <3>1
  <2>2. CASE o \notin ToSet(h) /\ ~Expired(o, time)
    <3>1. (\A p \in ToSet(m) : o.at < p.at) /\ Len(m) = MaxObservations
      BY <1>4, <2>2 DEF Remembers
    <3>2. CASE ToSet(m) \subseteq ToSet(t)
      <4>1. /\ IsFiniteSet(ToSet(m)) /\ Len(m) = Cardinality(ToSet(m))
            /\ IsFiniteSet(ToSet(t)) /\ Len(t) = Cardinality(ToSet(t))
        BY <1>1, InTimeIsLine
      <4>2. /\ Cardinality(ToSet(m)) <= Cardinality(ToSet(t))
            /\ Cardinality(ToSet(m)) = Cardinality(ToSet(t)) => ToSet(m) = ToSet(t)
        BY <3>2, <4>1, FS_Subset
      <4>3. Len(m) \in Nat /\ Len(t) \in Nat  BY <1>1, LenProperties
      <4>4. Len(t) = MaxObservations  BY <1>1, <3>1, <4>1, <4>2, <4>3
      <4>. QED  BY <3>1, <4>1, <4>2, <4>4
    <3>3. CASE ~(ToSet(m) \subseteq ToSet(t))
      <4>1. PICK p \in ToSet(m) : p \notin ToSet(t)  BY <3>3
      <4>2. p \in ToSet(h) /\ o.at < p.at /\ p.at \in Nat /\ o.at \in Nat  BY <1>2, <1>4, <3>1, <4>1
      <4>3. ~Expired(p, time)  BY <1>3, <2>2, <4>2 DEF Expired
      <4>4. Len(t) = MaxObservations /\ \A q \in ToSet(t) : p.at < q.at  BY <1>1, <4>1, <4>2, <4>3
      <4>5. \A q \in ToSet(t) : q.at \in Nat  BY <1>1, <1>2
      <4>. QED  BY <4>2, <4>4, <4>5
    <3>. QED  BY <3>2, <3>3
  <2>3. CASE Expired(o, time)  BY <2>3
  <2>. QED  BY <2>1, <2>2, <2>3
<1>5. ASSUME NEW o \in (R \cup ToSet(h)) \ ToSet(t), Expired(o, time), NEW p \in ToSet(t)
      PROVE  o.at < p.at
  BY <1>1, <1>2, <1>3, <1>5 DEF Expired
<1>. QED
  BY <1>4, <1>5 DEF Remembers

\* All that was observed, and is still held.
Observed ==
  (UNION {ToSet(recorded[s]) : s \in Many!Sources}) \cup (UNION {ToSet(request[r].batch) : r \in Askers})
RequestRecords ==
  [pc : {"new", "working", "done"}, cancelled : BOOLEAN, left : SUBSET UNION {Asked[r] : r \in Askers},
   batch : Seq(Observations)]

RequestsTyped ==
  /\ clock \in Nat
  /\ memory \in [Many!Sources -> Seq(Observations)]
  /\ written \in [Many!Sources -> Seq(Observations)]
  /\ recorded \in [Many!Sources -> Seq(Observations)]
  /\ request \in [Askers -> RequestRecords]
OwnTimes == Timed(Observed) /\ \A o \in Observed : o.at <= clock
Within(history) ==
  \A s \in Many!Sources : InTime(history[s]) /\ ToSet(history[s]) \subseteq ToSet(recorded[s])
Remembering == \A s \in Many!Sources : Remembers(memory[s], ToSet(recorded[s]), clock)
RequestsInv == RequestsTyped /\ OwnTimes /\ Within(memory) /\ Within(written) /\ Remembering

\* The verdict on a history that remembers is that on everything.
LEMMA SameVerdict ==
  ASSUME NEW m \in Seq(Observations), InTime(m), NEW R \in SUBSET Observations, IsFiniteSet(R), Timed(R),
         NEW time, Remembers(m, R, time), ToSet(m) \subseteq R,
         NEW w, w = Many!ByTime(R)
  PROVE  LET kept == Many!summarize(m, time)
             whole == Many!summarize(w, time)
         IN  \/ kept = whole
             \/ kept = "unknown" /\ whole = "failing"
             \/ kept = "unknown" /\ whole = "healthy" /\ m = <<>>
<1>. DEFINE F(s) == Many!ActiveFailures(s, time)
            Failing(s) == /\ Many!Cardinality(F(s)) >= 3
                          /\ \/ Many!Cardinality({s[i].item : i \in F(s)}) >= 2
                             \/ Many!Cardinality({s[i].operation : i \in F(s)}) >= 2
            Healthy(s) == s # <<>> /\ Last(s).ok
<1>1. \A s : Many!summarize(s, time) = IF Healthy(s) THEN "healthy"
                                       ELSE IF Failing(s) THEN "failing" ELSE "unknown"
  BY SameLines DEF Many!summarize
<1>2. w \in Seq(Observations) /\ InTime(w) /\ ToSet(w) = R
  BY Timeline
<1>3. ASSUME NEW s \in Seq(Observations), InTime(s)
      PROVE  /\ DOMAIN s = 1..Len(s) /\ Len(s) \in Nat /\ IsFiniteSet(F(s))
             /\ \A i, j \in DOMAIN s : s[i] = s[j] => i = j
             /\ \A x : x \in ToSet(s) <=> \E i \in DOMAIN s : s[i] = x
             /\ s # <<>> => Last(s) \in ToSet(s) /\ \A p \in ToSet(s) : p = Last(s) \/ p.at < Last(s).at
  <2>1. DOMAIN s = 1..Len(s) /\ Len(s) \in Nat  BY LenProperties
  <2>2. F(s) \subseteq 1..Len(s) /\ IsFiniteSet(1..Len(s))  BY <2>1, FS_Interval DEF Many!ActiveFailures
  <2>3. IsFiniteSet(F(s))  BY <2>2, FS_Subset
  <2>4. \A i, j \in DOMAIN s : s[i] = s[j] => i = j
    <3>1. Line(s, Observations)  BY <1>3, InTimeIsLine
    <3>. QED  BY <2>1, <3>1 DEF Line, Distinct
  <2>5. \A x : x \in ToSet(s) <=> \E i \in DOMAIN s : s[i] = x  BY <2>1, Members
  <2>6. ASSUME s # <<>>
        PROVE  Last(s) \in ToSet(s) /\ \A p \in ToSet(s) : p = Last(s) \/ p.at < Last(s).at
    <3>1. Len(s) \in DOMAIN s /\ Last(s) = s[Len(s)]  BY <2>1, <2>6, EmptySeq DEF Last
    <3>2. \A i \in DOMAIN s : i = Len(s) \/ i < Len(s)  BY <2>1
    <3>3. \A i \in DOMAIN s : i < Len(s) => s[i].at < s[Len(s)].at  BY <1>3, <3>1 DEF InTime
    <3>. QED  BY <2>5, <3>1, <3>2, <3>3
  <2>. QED  BY <2>1, <2>3, <2>4, <2>5, <2>6
<1>4. \A o \in Observations : o.at \in Nat /\ o.ok \in BOOLEAN
  BY DEF Observations
<1>. HIDE DEF F
<1>5. CASE m = <<>>
  <2>1. F(m) = {}  BY <1>5 DEF F, Many!ActiveFailures
  <2>2. ~Healthy(m) /\ ~Failing(m)
    <3>1. Many!Cardinality(F(m)) = 0  BY <2>1, SameLines, FS_EmptySet
    <3>. QED  BY <1>5, <3>1
  <2>3. Many!summarize(m, time) = "unknown"  BY <1>1, <2>2
  <2>. QED  BY <1>1, <1>5, <2>3
<1>6. CASE m # <<>>
  <2>1. Last(m) \in ToSet(m) /\ Last(m) \in R /\ \A p \in ToSet(m) : p = Last(m) \/ p.at < Last(m).at
    BY <1>3, <1>6
  <2>2. \A p \in R : p = Last(m) \/ p.at < Last(m).at
    BY <2>1 DEF Remembers
  <2>3. w # <<>> /\ Last(w) \in R /\ \A p \in R : p = Last(w) \/ p.at < Last(w).at
    <3>1. w # <<>>
      <4>1. DOMAIN w # {}  BY <1>2, <1>3, <2>1
      <4>. QED  BY <4>1
    <3>. QED  BY <1>2, <1>3, <3>1
  <2>4. Last(w) = Last(m)
    BY <1>4, <2>1, <2>2, <2>3
  <2>5. CASE Last(m).ok
    <3>1. Healthy(m) /\ Healthy(w)  BY <1>6, <2>3, <2>4, <2>5
    <3>. QED  BY <1>1, <3>1
  <2>6. CASE ~Last(m).ok
    <3>1. ~Healthy(m) /\ ~Healthy(w)  BY <2>4, <2>6
    <3>2. ASSUME NEW i \in F(m) PROVE \E j \in F(w) : w[j] = m[i]
      <4>1. /\ i \in DOMAIN m /\ ~m[i].ok /\ m[i].at + FailureWindow >= time
            /\ \A j \in DOMAIN m : m[j].ok => m[i].at > m[j].at
        BY <3>2 DEF F, Many!ActiveFailures
      <4>2. m[i] \in ToSet(m) /\ m[i] \in R /\ m[i].at \in Nat  BY <1>3, <1>4, <4>1
      <4>3. PICK j \in DOMAIN w : w[j] = m[i]  BY <1>2, <1>3, <4>2
      <4>4. ASSUME NEW k \in DOMAIN w, w[k].ok PROVE w[j].at > w[k].at
        <5>1. w[k] \in R /\ w[k].at \in Nat  BY <1>2, <1>3, <1>4
        <5>2. CASE w[k] \in ToSet(m)
          <6>1. PICK l \in DOMAIN m : m[l] = w[k]  BY <1>3, <5>2
          <6>. QED  BY <4>1, <4>3, <4>4, <6>1
        <5>3. CASE w[k] \notin ToSet(m)
          <6>1. w[k].at < m[i].at  BY <4>2, <5>1, <5>3 DEF Remembers
          <6>. QED  BY <4>2, <4>3, <5>1, <6>1
        <5>. QED  BY <5>2, <5>3
      <4>5. j \in F(w)  BY <4>1, <4>3, <4>4 DEF F, Many!ActiveFailures
      <4>. QED  BY <4>3, <4>5
    <3>3. Many!Cardinality(F(m)) <= Many!Cardinality(F(w))
      <4>. DEFINE g == [i \in F(m) |-> CHOOSE j \in F(w) : w[j] = m[i]]
      <4>1. \A i \in F(m) : g[i] \in F(w) /\ w[g[i]] = m[i]  BY <3>2
      <4>2. \A i \in F(m) : i \in DOMAIN m  BY DEF F, Many!ActiveFailures
      <4>3. \A i, j \in F(m) : g[i] = g[j] => i = j
        <5>. HIDE DEF g
        <5>. QED  BY <1>3, <4>1, <4>2
      <4>4. g \in Injection(F(m), F(w))
        <5>1. g \in [F(m) -> F(w)]  BY <4>1
        <5>. HIDE DEF g
        <5>. QED  BY <4>3, <5>1 DEF Injection, IsInjective
      <4>5. Cardinality(F(m)) <= Cardinality(F(w))
        <5>. HIDE DEF g
        <5>. QED  BY <1>2, <1>3, <4>4, FS_Injection
      <4>. QED  BY <4>5, SameLines
    <3>4. ASSUME NEW X, NEW Y, X \subseteq Y, IsFiniteSet(Y)
          PROVE  Many!Cardinality(X) <= Many!Cardinality(Y) /\ Many!Cardinality(X) \in Nat
          /\ Many!Cardinality(Y) \in Nat
      BY <3>4, SameLines, FS_Subset, FS_CardinalityType
    <3>. DEFINE I(s) == {s[i].item : i \in F(s)}
                O(s) == {s[i].operation : i \in F(s)}
    <3>5. I(m) \subseteq I(w) /\ O(m) \subseteq O(w)
      <4>1. \A i \in F(m) : \E j \in F(w) : w[j].item = m[i].item
            /\ w[j].operation = m[i].operation  BY <3>2
      <4>. QED  BY <4>1
    <3>6. IsFiniteSet(I(w)) /\ IsFiniteSet(O(w))
      <4>. DEFINE f == [i \in F(w) |-> w[i].item]
                  g == [i \in F(w) |-> w[i].operation]
      <4>1. f \in Surjection(F(w), I(w)) /\ g \in Surjection(F(w), O(w))  BY DEF Surjection
      <4>2. IsFiniteSet(F(w))  BY <1>2, <1>3
      <4>. HIDE DEF f, g, I, O
      <4>. QED  BY <4>1, <4>2, FS_Surjection
    <3>7. /\ Many!Cardinality(I(m)) <= Many!Cardinality(I(w))
          /\ Many!Cardinality(O(m)) <= Many!Cardinality(O(w))
          /\ Many!Cardinality(I(m)) \in Nat /\ Many!Cardinality(O(m)) \in Nat
          /\ Many!Cardinality(I(w)) \in Nat /\ Many!Cardinality(O(w)) \in Nat
      <4>. HIDE DEF I, O
      <4>. QED  BY <3>4, <3>5, <3>6
    <3>8. Many!Cardinality(F(m)) \in Nat /\ Many!Cardinality(F(w)) \in Nat
      BY <1>2, <1>3, FS_CardinalityType, SameLines
    <3>9. Failing(m) => Failing(w)
      BY <3>3, <3>7, <3>8
    <3>. HIDE DEF I, O, Failing, Healthy
    <3>. QED  BY <1>1, <3>1, <3>9
  <2>. QED  BY <2>5, <2>6
<1>. QED
  BY <1>5, <1>6

\* What is remembered is enough for the verdict.
LEMMA InvIsHonest == RequestsInv => SummaryHonest
<1>. SUFFICES ASSUME RequestsInv, NEW s \in Many!Sources
              PROVE  LET kept == Many!summarize(memory[s], clock)
                         whole == Many!summarize(Many!ByTime(Many!ToSet(recorded[s])), clock)
                     IN  \/ kept = whole
                         \/ kept = "unknown" /\ whole = "failing"
                         \/ kept = "unknown" /\ whole = "healthy" /\ memory[s] = <<>>
  BY DEF SummaryHonest, Many!SummaryHonest
<1>. DEFINE R == ToSet(recorded[s])
<1>1. memory[s] \in Seq(Observations) /\ recorded[s] \in Seq(Observations)
  BY DEF RequestsInv, RequestsTyped
<1>2. R \in SUBSET Observations /\ IsFiniteSet(R) /\ Many!ToSet(recorded[s]) = R
  BY <1>1, SeqSetFinite, SameLines
<1>3. Timed(R)
  BY DEF RequestsInv, OwnTimes, Observed, Timed
<1>4. InTime(memory[s]) /\ ToSet(memory[s]) \subseteq R /\ Remembers(memory[s], R, clock)
  BY DEF RequestsInv, Within, Remembering
<1>. HIDE DEF R
<1>. QED
  BY <1>1, <1>2, <1>3, <1>4, SameVerdict
\* What has been observed is recorded, or still in a batch.
LEMMA ObservedIs ==
  /\ \A o : o \in Observed <=>
       \/ \E s \in Many!Sources : o \in ToSet(recorded[s])
       \/ \E r \in Askers : o \in ToSet(request[r].batch)
  /\ \A o : o \in Observed' <=>
       \/ \E s \in Many!Sources : o \in ToSet(recorded'[s])
       \/ \E r \in Askers : o \in ToSet(request'[r].batch)
<1>2. \A o : o \in Observed <=> \/ o \in UNION {ToSet(recorded[s]) : s \in Many!Sources}
                                \/ o \in UNION {ToSet(request[r].batch) : r \in Askers}
  BY DEF Observed
<1>3. \A o : /\ o \in UNION {ToSet(recorded[s]) : s \in Many!Sources}
                  <=> \E s \in Many!Sources : o \in ToSet(recorded[s])
             /\ o \in UNION {ToSet(request[r].batch) : r \in Askers}
                  <=> \E r \in Askers : o \in ToSet(request[r].batch)
  BY Zenon
<1>4. \A o : o \in Observed' <=> \/ o \in UNION {ToSet(recorded'[s]) : s \in Many!Sources}
                                 \/ o \in UNION {ToSet(request'[r].batch) : r \in Askers}
  BY DEF Observed
<1>5. \A o : /\ o \in UNION {ToSet(recorded'[s]) : s \in Many!Sources}
                  <=> \E s \in Many!Sources : o \in ToSet(recorded'[s])
             /\ o \in UNION {ToSet(request'[r].batch) : r \in Askers}
                  <=> \E r \in Askers : o \in ToSet(request'[r].batch)
  BY Zenon
<1>. QED
  BY <1>2, <1>3, <1>4, <1>5

LEMMA ObservedTyped ==
  ASSUME RequestsInv
  PROVE  \A o \in Observed : o \in Observations /\ o.at \in Nat /\ o.at <= clock
<1>. TAKE o \in Observed
<1>1. o \in Observations
  <2>1. CASE \E s \in Many!Sources : o \in ToSet(recorded[s])
    <3>1. PICK s \in Many!Sources : o \in ToSet(recorded[s])  BY <2>1
    <3>2. recorded[s] \in Seq(Observations)  BY DEF RequestsInv, RequestsTyped
    <3>. QED  BY <3>1, <3>2, SeqSetFinite
  <2>2. CASE \E r \in Askers : o \in ToSet(request[r].batch)
    <3>1. PICK r \in Askers : o \in ToSet(request[r].batch)  BY <2>2
    <3>2. request[r].batch \in Seq(Observations)  BY DEF RequestsInv, RequestsTyped, RequestRecords
    <3>. QED  BY <3>1, <3>2, SeqSetFinite
  <2>. QED  BY <2>1, <2>2, ObservedIs
<1>2. o.at \in Nat
  BY <1>1 DEF Observations
<1>3. o.at <= clock
  BY DEF RequestsInv, OwnTimes
<1>. QED
  BY <1>1, <1>2, <1>3

\* Nothing was observed yet.
LEMMA RequestsInit == Many!Init => RequestsInv
<1>. SUFFICES ASSUME Many!Init PROVE RequestsInv
  OBVIOUS
<1>1. /\ clock = 0 /\ memory = [s \in Many!Sources |-> <<>>] /\ written = memory /\ recorded = memory
      /\ request = [r \in Askers |-> [pc |-> "new", cancelled |-> FALSE, left |-> {}, batch |-> <<>>]]
  BY DEF Many!Init, Many!Fresh
<1>2. RequestsTyped
  BY <1>1 DEF RequestsTyped, RequestRecords
<1>3. ToSet(<<>>) = {}
  BY DEF ToSet
<1>4. \A o : o \notin Observed
  <2>1. \A s \in Many!Sources : ToSet(recorded[s]) = {}  BY <1>1, <1>3
  <2>2. \A r \in Askers : ToSet(request[r].batch) = {}  BY <1>1, <1>3
  <2>. QED  BY <2>1, <2>2 DEF Observed
<1>5. \A s \in Many!Sources : memory[s] = <<>> /\ written[s] = <<>> /\ recorded[s] = <<>>
  BY <1>1
<1>. QED
  BY <1>2, <1>3, <1>4, <1>5 DEF RequestsInv, OwnTimes, Timed, Within, InTime, Remembering, Remembers

Done == [Many!Fresh EXCEPT !.pc = "done"]

LEMMA RecordsAtRest ==
  /\ Many!Fresh \in RequestRecords /\ Many!Fresh.batch = <<>>
  /\ Done \in RequestRecords /\ Done.batch = <<>>
<1>1. Many!Fresh \in RequestRecords /\ Many!Fresh.batch = <<>>
  BY DEF Many!Fresh, RequestRecords
<1>2. \A x \in RequestRecords :
        [x EXCEPT !.pc = "done"] \in RequestRecords /\ [x EXCEPT !.pc = "done"].batch = x.batch
  BY DEF RequestRecords
<1>. QED
  BY <1>1, <1>2 DEF Done

\* Later, a history remembers what it did.
LEMMA Later ==
  ASSUME RequestsInv, NEW time \in Nat, clock <= time, NEW s \in Many!Sources
  PROVE  Remembers(memory[s], ToSet(recorded[s]), time)
<1>1. recorded[s] \in Seq(Observations) /\ Remembers(memory[s], ToSet(recorded[s]), clock)
      /\ clock \in Nat
  BY DEF RequestsInv, RequestsTyped, Remembering
<1>2. \A o \in ToSet(recorded[s]) : o.at \in Nat
  <2>1. \A o \in Observations : o.at \in Nat  BY DEF Observations
  <2>. QED  BY <1>1, <2>1, SeqSetFinite
<1>3. \A o \in ToSet(recorded[s]) : Expired(o, clock) => Expired(o, time)
  BY <1>1, <1>2, BoundsAreNumbers DEF Expired
<1>. QED
  BY <1>1, <1>3 DEF Remembers

\* A step that only moves the clock, and the batches, whose observations are new or were there.
LEMMA HealthRests ==
  ASSUME RequestsInv, RequestsTyped', clock <= clock', UNCHANGED <<memory, written, recorded>>,
         \A o, p \in Observed' : o.at = p.at => o = p, \A o \in Observed' : o.at <= clock'
  PROVE  RequestsInv'
<1>1. Within(memory)' /\ Within(written)'
  BY DEF RequestsInv, Within
<1>2. Remembering'
  BY Later DEF Remembering, RequestsTyped
<1>3. OwnTimes'
  BY DEF OwnTimes, Timed
<1>. QED
  BY <1>1, <1>2, <1>3 DEF RequestsInv

\* Nothing is observed.
LEMMA NothingNew ==
  ASSUME RequestsInv, RequestsTyped', clock <= clock', UNCHANGED <<memory, written, recorded>>,
         \A r \in Askers : request'[r].batch \in {<<>>, request[r].batch}
  PROVE  RequestsInv'
<1>1. \A o \in Observed' : o \in Observed
  <2>1. \A r \in Askers : ToSet(request'[r].batch) \subseteq ToSet(request[r].batch)
    BY DEF ToSet
  <2>. QED  BY <2>1 DEF Observed
<1>2. \A o \in Observed : o.at <= clock /\ o.at \in Nat
  BY ObservedTyped
<1>3. \A o \in Observed' : o.at <= clock'
  BY <1>1, <1>2 DEF RequestsInv, RequestsTyped
<1>4. \A o, p \in Observed' : o.at = p.at => o = p
  BY <1>1 DEF RequestsInv, OwnTimes, Timed
<1>. QED
  BY <1>3, <1>4, HealthRests
\* A batch gains one observation, and may lose one.
LEMMA Pushed ==
  ASSUME NEW batch \in Seq(Observations), NEW o \in Observations, NEW t, t = Many!Push(batch, o)
  PROVE  t \in Seq(Observations) /\ ToSet(t) \subseteq ToSet(batch) \cup {o}
<1>. DEFINE I == DOMAIN batch \ {Many!Place(Many!Of(batch, o.source), 1)}
            p == Pick(batch, I)
<1>1. t = Append(batch, o) \/ t = Append(p, o)
  BY SameLines DEF Many!Push
<1>2. p \in Seq(Observations) /\ \A n \in DOMAIN p : \E i \in I : p[n] = batch[i]
  BY Picking
<1>3. ToSet(p) \subseteq ToSet(batch)
  BY <1>2 DEF ToSet
<1>4. ASSUME NEW b \in Seq(Observations), ToSet(b) \subseteq ToSet(batch)
      PROVE  Append(b, o) \in Seq(Observations) /\ ToSet(Append(b, o)) \subseteq ToSet(batch) \cup {o}
  <2>. DEFINE c == Append(b, o)
  <2>1. /\ c \in Seq(Observations) /\ Len(c) = Len(b) + 1 /\ Len(b) \in Nat
        /\ c[Len(b) + 1] = o /\ \A i \in 1..Len(b) : c[i] = b[i]
    BY AppendProperties, LenProperties
  <2>. HIDE DEF c
  <2>2. \A i \in 1..(Len(b) + 1) : i = Len(b) + 1 \/ i \in 1..Len(b)
    BY <2>1
  <2>3. \A x : x \in ToSet(c) <=> \E i \in 1..(Len(b) + 1) : c[i] = x
    BY ONLY <2>1, Members
  <2>4. \A i \in 1..Len(b) : b[i] \in ToSet(b)
    BY Members
  <2>5. c \in Seq(Observations) /\ ToSet(c) \subseteq ToSet(batch) \cup {o}
    BY <1>4, <2>1, <2>2, <2>3, <2>4
  <2>. QED
    BY <2>5 DEF c
<1>. HIDE DEF p
<1>. QED
  BY <1>1, <1>2, <1>3, <1>4

\* A source that was asked is observed in a request's batch, at a time of its own.
LEMMA ObserveKeeps ==
  ASSUME RequestsInv, NEW r \in Askers, NEW j \in Asked[r], NEW ok \in BOOLEAN, Many!Observe(r, j, ok)
  PROVE  RequestsInv'
<1>. DEFINE o == Many!Observation(r, j, ok)
            b == Many!Push(request[r].batch, o)
<1>1. clock \in Nat /\ request \in [Askers -> RequestRecords] /\ request[r].batch \in Seq(Observations)
  BY DEF RequestsInv, RequestsTyped, RequestRecords
<1>2. o \in Observations /\ o.at = clock + 1
  <2>1. j[1] \in Many!Sources /\ j[2] \in Items /\ Asking[r] \in Operations
    BY DEF Many!Sources, Items, Operations
  <2>. QED  BY <1>1, <2>1 DEF Observations, Many!Observation
<1>. HIDE DEF o
<1>3. b \in Seq(Observations) /\ ToSet(b) \subseteq ToSet(request[r].batch) \cup {o}
  BY <1>1, <1>2, Pushed
<1>4. /\ clock' = clock + 1 /\ UNCHANGED <<memory, written, recorded>>
      /\ request' = [request EXCEPT ![r].left = @ \ {j}, ![r].batch = b]
  BY DEF Many!Observe, Many!Health, o
<1>. HIDE DEF b
<1>5. RequestsTyped'
  <2>1. request' \in [Askers -> RequestRecords]
    <3>. DEFINE x == [request[r] EXCEPT !.left = @ \ {j}, !.batch = b]
    <3>1. x \in RequestRecords
      <4>1. request[r] \in RequestRecords  BY ONLY <1>1
      <4>. QED  BY ONLY <1>3, <4>1 DEF RequestRecords
    <3>2. request' = [request EXCEPT ![r] = x]  BY ONLY <1>1, <1>4
    <3>. HIDE DEF x
    <3>. QED  BY ONLY <1>1, <3>1, <3>2
  <2>2. clock' \in Nat  BY <1>1, <1>4
  <2>. QED  BY <1>4, <2>1, <2>2 DEF RequestsInv, RequestsTyped
<1>6. request'[r].batch = b /\ \A q \in Askers \ {r} : request'[q].batch = request[q].batch
  BY <1>1, <1>4 DEF RequestRecords
<1>7. \A x \in Observed' : x = o \/ x \in Observed
  <2>. TAKE x \in Observed'
  <2>1. CASE \E s \in Many!Sources : x \in ToSet(recorded'[s])  BY <1>4, <2>1, ObservedIs
  <2>2. CASE \E q \in Askers : x \in ToSet(request'[q].batch)
    <3>1. PICK q \in Askers : x \in ToSet(request'[q].batch)  BY <2>2
    <3>2. CASE q = r  BY <1>3, <1>6, <3>1, <3>2, ObservedIs
    <3>3. CASE q # r  BY <1>6, <3>1, <3>3, ObservedIs
    <3>. QED  BY <3>2, <3>3
  <2>. QED  BY <2>1, <2>2, ObservedIs
<1>8. \A x \in Observed : x.at \in Nat /\ x.at <= clock
  BY ObservedTyped
<1>9. \A x \in Observed' : x.at <= clock'
  BY <1>1, <1>2, <1>4, <1>7, <1>8
<1>10. \A x, y \in Observed' : x.at = y.at => x = y
  <2>. SUFFICES ASSUME NEW x \in Observed', NEW y \in Observed', x.at = y.at PROVE x = y
    OBVIOUS
  <2>1. \A z \in Observed : z.at # o.at  BY <1>1, <1>2, <1>8
  <2>2. \A u, v \in Observed : u.at = v.at => u = v  BY DEF RequestsInv, OwnTimes, Timed
  <2>. QED  BY <1>7, <2>1, <2>2
<1>11. clock <= clock'
  BY <1>1, <1>4
<1>. QED
  BY <1>4, <1>5, <1>9, <1>10, <1>11, HealthRests

\* What two sequences hold together.
LEMMA Joined ==
  ASSUME NEW a \in Seq(Observations), NEW b \in Seq(Observations)
  PROVE  a \o b \in Seq(Observations) /\ ToSet(a \o b) = ToSet(a) \cup ToSet(b)
<1>1. /\ a \o b \in Seq(Observations) /\ Len(a \o b) = Len(a) + Len(b) /\ Len(a) \in Nat /\ Len(b) \in Nat
      /\ \A i \in 1..(Len(a) + Len(b)) : (a \o b)[i] = IF i <= Len(a) THEN a[i] ELSE b[i - Len(a)]
  BY ConcatProperties, LenProperties
<1>2. \A i \in 1..Len(a) : i \in 1..(Len(a) + Len(b)) /\ (a \o b)[i] = a[i]
  BY <1>1
<1>3. \A i \in 1..Len(b) : Len(a) + i \in 1..(Len(a) + Len(b)) /\ (a \o b)[Len(a) + i] = b[i]
  <2>. TAKE i \in 1..Len(b)
  <2>1. Len(a) + i \in 1..(Len(a) + Len(b)) /\ ~(Len(a) + i <= Len(a))
        /\ (Len(a) + i) - Len(a) = i  BY <1>1
  <2>. QED  BY <1>1, <2>1
<1>4. \A i \in 1..(Len(a) + Len(b)) :
      \/ i \in 1..Len(a)
      \/ i - Len(a) \in 1..Len(b) /\ Len(a) + (i - Len(a)) = i
  BY <1>1
<1>5. \A x : x \in ToSet(a) <=> \E i \in 1..Len(a) : a[i] = x
  BY Members
<1>6. \A x : x \in ToSet(b) <=> \E i \in 1..Len(b) : b[i] = x
  BY Members
<1>. DEFINE c == a \o b
<1>7. \A x : x \in ToSet(c) <=> \E i \in 1..(Len(a) + Len(b)) : c[i] = x
  <2>1. c \in Seq(Observations) /\ Len(c) = Len(a) + Len(b)  BY <1>1
  <2>. HIDE DEF c
  <2>. QED  BY <2>1, Members
<1>8. /\ \A i \in 1..Len(a) : i \in 1..(Len(a) + Len(b)) /\ c[i] = a[i]
      /\ \A i \in 1..Len(b) : Len(a) + i \in 1..(Len(a) + Len(b)) /\ c[Len(a) + i] = b[i]
  BY <1>2, <1>3
<1>9. c \in Seq(Observations)
  BY <1>1
<1>. HIDE DEF c
<1>10. \A x : x \in ToSet(c) => x \in ToSet(a) \cup ToSet(b)
  <2>. TAKE x
  <2>1. SUFFICES ASSUME NEW i \in 1..(Len(a) + Len(b)), c[i] = x PROVE x \in ToSet(a) \cup ToSet(b)
    BY <1>7
  <2>2. CASE i \in 1..Len(a)  BY <1>5, <1>8, <2>1, <2>2
  <2>3. CASE i - Len(a) \in 1..Len(b) /\ Len(a) + (i - Len(a)) = i
    <3>1. c[i] = b[i - Len(a)]  BY <1>8, <2>3
    <3>. QED  BY <1>6, <2>1, <2>3, <3>1
  <2>. QED  BY <1>4, <2>2, <2>3
<1>11. \A x : x \in ToSet(a) \cup ToSet(b) => x \in ToSet(c)
  <2>. TAKE x
  <2>1. CASE x \in ToSet(a)  BY <1>5, <1>7, <1>8, <2>1
  <2>2. CASE x \in ToSet(b)
    <3>1. PICK i \in 1..Len(b) : b[i] = x  BY <1>6, <2>2
    <3>2. Len(a) + i \in 1..(Len(a) + Len(b)) /\ c[Len(a) + i] = x  BY <1>8, <3>1
    <3>. QED  BY <1>7, <3>2
  <2>. QED  BY <2>1, <2>2
<1>12. c \in Seq(Observations) /\ ToSet(c) = ToSet(a) \cup ToSet(b)
  BY <1>9, <1>10, <1>11
<1>. QED
  BY <1>12 DEF c

\* Observations of a batch join what was recorded, and the history is pruned.
LEMMA RecordKeeps ==
  ASSUME RequestsInv, NEW r \in Askers, NEW saved, Many!Respond(r, saved)
  PROVE  RequestsInv'
<1>. DEFINE batch == request[r].batch
            New(s) == Pick(batch, Many!Of(batch, s))
            Held(s) == memory[s] \o New(s)
<1>1. /\ clock \in Nat /\ batch \in Seq(Observations) /\ request \in [Askers -> RequestRecords]
      /\ memory \in [Many!Sources -> Seq(Observations)] /\ written \in [Many!Sources -> Seq(Observations)]
      /\ recorded \in [Many!Sources -> Seq(Observations)]
  BY DEF RequestsInv, RequestsTyped, RequestRecords
<1>2. /\ clock' = clock
      /\ request' = [request EXCEPT ![r] = Done]
  BY DEF Many!Respond, Many!Leave, Done
<1>3. request' \in [Askers -> RequestRecords] /\ clock <= clock' /\ clock' \in Nat
  BY <1>1, <1>2, RecordsAtRest
<1>4. \A q \in Askers : request'[q].batch \in {<<>>, request[q].batch}
  BY <1>1, <1>2, RecordsAtRest
<1>5. CASE batch = <<>>
  <2>1. UNCHANGED <<memory, written, recorded>>
    BY <1>5 DEF Many!Respond, Many!record_batch, Many!Health
  <2>. QED  BY <1>1, <1>3, <1>4, <2>1, NothingNew DEF RequestsTyped
<1>6. CASE batch # <<>>
  <2>1. /\ memory' = Many!prune(Many!Extended(memory, batch), clock)
        /\ recorded' = Many!Extended(recorded, batch)
        /\ written' \in {written, memory'}
    BY <1>6 DEF Many!Respond, Many!record_batch, Many!atomic_write
  <2>2. \A s \in Many!Sources : New(s) \in Seq(Observations) /\ ToSet(New(s)) \subseteq ToSet(batch)
    <3>. TAKE s \in Many!Sources
    <3>1. Many!Of(batch, s) \in SUBSET DOMAIN batch  BY DEF Many!Of
    <3>2. New(s) \in Seq(Observations)
          /\ \A n \in DOMAIN New(s) : \E i \in Many!Of(batch, s) : New(s)[n] = batch[i]
      BY <1>1, <3>1, Picking
    <3>. QED  BY <3>1, <3>2 DEF ToSet
  <2>3. /\ DOMAIN memory' = Many!Sources /\ DOMAIN recorded' = Many!Sources
        /\ memory' = [s \in Many!Sources |-> memory'[s]]
           /\ recorded' = [s \in Many!Sources |-> recorded'[s]]
        /\ \A s \in Many!Sources :
             /\ memory'[s] = Many!Newest(Many!ByTime(Many!Recent(Held(s), clock)))
             /\ recorded'[s] = recorded[s] \o New(s)
    BY <1>1, <2>1, SameLines DEF Many!prune, Many!Extended
  <2>. HIDE DEF New
  <2>4. \A s \in Many!Sources :
          /\ Held(s) \in Seq(Observations) /\ ToSet(Held(s)) = ToSet(memory[s]) \cup ToSet(New(s))
          /\ recorded'[s] \in Seq(Observations)
             /\ ToSet(recorded'[s]) = ToSet(recorded[s]) \cup ToSet(New(s))
    <3>. TAKE s \in Many!Sources
    <3>1. memory[s] \in Seq(Observations) /\ recorded[s] \in Seq(Observations) /\ New(s) \in Seq(Observations)
      BY <1>1, <2>2
    <3>2. Held(s) \in Seq(Observations) /\ ToSet(Held(s)) = ToSet(memory[s]) \cup ToSet(New(s))
      BY ONLY <3>1, Joined
    <3>3. /\ recorded[s] \o New(s) \in Seq(Observations)
          /\ ToSet(recorded[s] \o New(s)) = ToSet(recorded[s]) \cup ToSet(New(s))
      BY ONLY <3>1, Joined
    <3>. QED  BY <2>3, <3>2, <3>3
  <2>. HIDE DEF Held
  <2>5. \A s \in Many!Sources : /\ ToSet(memory[s]) \subseteq ToSet(recorded[s]) /\ InTime(memory[s])
                                /\ ToSet(written[s]) \subseteq ToSet(recorded[s]) /\ InTime(written[s])
    BY DEF RequestsInv, Within
  <2>6. \A s \in Many!Sources : ToSet(recorded'[s]) \subseteq Observed
        /\ ToSet(Held(s)) \subseteq Observed
    <3>. TAKE s \in Many!Sources
    <3>1. ToSet(recorded[s]) \subseteq Observed /\ ToSet(batch) \subseteq Observed  BY ObservedIs
    <3>. QED  BY <2>2, <2>4, <2>5, <3>1
  <2>7. \A s \in Many!Sources : Timed(ToSet(Held(s)))
    BY <2>6 DEF RequestsInv, OwnTimes, Timed
  <2>8. \A s \in Many!Sources : /\ memory'[s] \in Seq(Observations) /\ InTime(memory'[s])
                                /\ ToSet(memory'[s]) \subseteq ToSet(recorded'[s])
    <3>. TAKE s \in Many!Sources
    <3>1. memory'[s] \in Seq(Observations) /\ InTime(memory'[s])
          /\ ToSet(memory'[s]) \subseteq ToSet(Held(s))
      BY <1>1, <2>3, <2>4, <2>7, Pruned
    <3>. QED  BY <2>4, <2>5, <3>1
  <2>9. RequestsTyped'
    <3>1. memory' \in [Many!Sources -> Seq(Observations)]  BY <2>3, <2>8
    <3>2. recorded' \in [Many!Sources -> Seq(Observations)]  BY <2>3, <2>4
    <3>3. written' \in [Many!Sources -> Seq(Observations)]  BY <1>1, <2>1, <3>1
    <3>. QED  BY <1>3, <3>1, <3>2, <3>3 DEF RequestsTyped
  <2>10. Within(memory)'
    BY <2>8 DEF Within
  <2>11. Within(written)'
    <3>1. CASE written' = memory'  BY <2>8, <3>1 DEF Within
    <3>2. CASE written' = written  BY <2>4, <2>5, <3>2 DEF Within
    <3>. QED  BY <2>1, <3>1, <3>2
  <2>12. Remembering'
    <3>. SUFFICES ASSUME NEW s \in Many!Sources PROVE Remembers(memory'[s], ToSet(recorded'[s]), clock)
      BY <1>2 DEF Remembering
    <3>1. memory[s] \in Seq(Observations) /\ InTime(memory[s])
          /\ ToSet(memory[s]) \subseteq ToSet(Held(s))
      BY <1>1, <2>4, <2>5
    <3>2. ToSet(recorded[s]) \in SUBSET Observations /\ Remembers(memory[s], ToSet(recorded[s]), clock)
      BY <1>1, SeqSetFinite DEF RequestsInv, Remembering
    <3>3. Held(s) \in Seq(Observations) /\ Timed(ToSet(Held(s)))
          /\ memory'[s] = Many!Newest(Many!ByTime(Many!Recent(Held(s), clock)))
      BY <2>3, <2>4, <2>7
    <3>4. Remembers(memory'[s], ToSet(recorded[s]) \cup ToSet(Held(s)), clock)
      BY ONLY <1>1, <3>1, <3>2, <3>3, Remembered
    <3>5. ToSet(recorded[s]) \cup ToSet(Held(s)) = ToSet(recorded'[s])
      BY <2>4, <2>5
    <3>. QED  BY <3>4, <3>5
  <2>13. OwnTimes'
    <3>1. \A o \in Observed' : o \in Observed
      <4>1. \A q \in Askers :
              ToSet(request'[q].batch) \subseteq ToSet(request[q].batch)  BY <1>4 DEF ToSet
      <4>. QED  BY <2>6, <4>1 DEF Observed
    <3>. QED  BY <1>2, <3>1 DEF RequestsInv, OwnTimes, Timed
  <2>. QED  BY <2>9, <2>10, <2>11, <2>12, <2>13 DEF RequestsInv
<1>. QED
  BY <1>5, <1>6

\* What the file holds is what is remembered.
LEMMA RequestsRestart ==
  ASSUME RequestsInv, Many!Restart
  PROVE  RequestsInv'
<1>1. /\ clock \in Nat /\ request \in [Askers -> RequestRecords]
      /\ memory \in [Many!Sources -> Seq(Observations)] /\ written \in [Many!Sources -> Seq(Observations)]
      /\ recorded \in [Many!Sources -> Seq(Observations)]
  BY DEF RequestsInv, RequestsTyped
<1>2. /\ memory' = Many!prune(written, clock) /\ clock' = clock /\ written' = written
      /\ recorded' = IF written = memory THEN recorded ELSE written
      /\ request' = [r \in Askers |-> IF request[r].pc = "new" THEN Many!Fresh
                                    ELSE Done]
  BY DEF Many!Restart, Done
<1>3. request' \in [Askers -> RequestRecords] /\ \A r \in Askers : request'[r].batch = <<>>
  BY <1>2, RecordsAtRest
<1>4. \A s \in Many!Sources : /\ ToSet(memory[s]) \subseteq ToSet(recorded[s]) /\ InTime(memory[s])
                              /\ ToSet(written[s]) \subseteq ToSet(recorded[s]) /\ InTime(written[s])
  BY DEF RequestsInv, Within
<1>5. \A s \in Many!Sources :
        ToSet(recorded'[s]) \subseteq ToSet(recorded[s])
        /\ ToSet(written[s]) \subseteq ToSet(recorded'[s])
  BY <1>2, <1>4
<1>6. \A s \in Many!Sources : ToSet(recorded[s]) \subseteq Observed /\ Timed(ToSet(written[s]))
  BY <1>4 DEF Observed, RequestsInv, OwnTimes, Timed
<1>7. /\ memory' = [s \in Many!Sources |-> memory'[s]]
      /\ \A s \in Many!Sources : memory'[s] = Many!Newest(Many!ByTime(Many!Recent(written[s], clock)))
  BY <1>1, <1>2 DEF Many!prune
<1>8. \A s \in Many!Sources : /\ memory'[s] \in Seq(Observations) /\ InTime(memory'[s])
                              /\ ToSet(memory'[s]) \subseteq ToSet(recorded'[s])
  <2>. TAKE s \in Many!Sources
  <2>1. memory'[s] \in Seq(Observations) /\ InTime(memory'[s])
        /\ ToSet(memory'[s]) \subseteq ToSet(written[s])
    BY <1>1, <1>6, <1>7, Pruned
  <2>. QED  BY <1>5, <2>1
<1>9. RequestsTyped'
  BY <1>1, <1>2, <1>3, <1>7, <1>8 DEF RequestsTyped
<1>10. Within(memory)' /\ Within(written)'
  BY <1>2, <1>4, <1>5, <1>8 DEF Within
<1>11. OwnTimes'
  <2>1. \A o \in Observed' : o \in Observed
    <3>1. ToSet(<<>>) = {}  BY DEF ToSet
    <3>2. \A r \in Askers : ToSet(request'[r].batch) = {}  BY <1>3, <3>1
    <3>. QED  BY <1>5, <3>2 DEF Observed
  <2>. QED  BY <1>2, <2>1 DEF RequestsInv, OwnTimes, Timed
<1>12. Remembering'
  <2>. SUFFICES ASSUME NEW s \in Many!Sources PROVE Remembers(memory'[s], ToSet(recorded'[s]), clock)
    BY <1>2 DEF Remembering
  <2>1. /\ written[s] \in Seq(Observations) /\ InTime(written[s]) /\ Timed(ToSet(written[s]))
        /\ memory'[s] = Many!Newest(Many!ByTime(Many!Recent(written[s], clock)))
    BY <1>1, <1>4, <1>6, <1>7
  <2>2. CASE written = memory
    <3>1. ToSet(recorded[s]) \in SUBSET Observations /\ Remembers(written[s], ToSet(recorded[s]), clock)
      BY <1>1, <2>2, SeqSetFinite DEF RequestsInv, Remembering
    <3>2. Remembers(memory'[s], ToSet(recorded[s]) \cup ToSet(written[s]), clock)
      BY ONLY <1>1, <2>1, <3>1, Remembered
    <3>3. ToSet(recorded[s]) \cup ToSet(written[s]) = ToSet(recorded[s])  BY <1>4
    <3>. QED  BY <1>2, <2>2, <3>2, <3>3
  <2>3. CASE written # memory
    <3>1. Remembers(written[s], {}, clock)  BY DEF Remembers
    <3>2. Remembers(memory'[s], {} \cup ToSet(written[s]), clock)
      BY ONLY <1>1, <2>1, <3>1, Remembered
    <3>. QED  BY <1>2, <2>3, <3>2
  <2>. QED  BY <2>2, <2>3
<1>. QED
  BY <1>9, <1>10, <1>11, <1>12 DEF RequestsInv

LEMMA RequestsNext == RequestsInv /\ [Many!Next]_Many!vars => RequestsInv'
<1>. SUFFICES ASSUME RequestsInv, [Many!Next]_Many!vars PROVE RequestsInv'
  OBVIOUS
<1>1. /\ clock \in Nat /\ request \in [Askers -> RequestRecords]
      /\ memory \in [Many!Sources -> Seq(Observations)] /\ written \in [Many!Sources -> Seq(Observations)]
      /\ recorded \in [Many!Sources -> Seq(Observations)]
  BY DEF RequestsInv, RequestsTyped
<1>2. ASSUME NEW r \in Askers, NEW x, x \in RequestRecords, x.batch \in {<<>>, request[r].batch},
             UNCHANGED <<clock, memory, written, recorded>>, request' = [request EXCEPT ![r] = x]
      PROVE  RequestsInv'
  <2>1. \A q \in Askers : request'[q] = IF q = r THEN x ELSE request[q]
    BY <1>1, <1>2
  <2>2. request' \in [Askers -> RequestRecords]
    BY <1>1, <1>2
  <2>3. \A q \in Askers : request'[q].batch \in {<<>>, request[q].batch}
    BY <1>2, <2>1
  <2>4. RequestsTyped'  BY <1>1, <1>2, <2>2 DEF RequestsTyped
  <2>5. clock <= clock'  BY <1>1, <1>2
  <2>. QED  BY <1>2, <2>3, <2>4, <2>5, NothingNew
<1>3. ASSUME clock' \in Nat, clock <= clock', UNCHANGED <<memory, written, recorded, request>>
      PROVE  RequestsInv'
  <2>1. RequestsTyped'  BY <1>1, <1>3 DEF RequestsTyped
  <2>. QED  BY <1>3, <2>1, NothingNew
<1>4. ASSUME NEW r \in Askers, Many!Leave(r), UNCHANGED <<clock, memory, written, recorded>>
      PROVE RequestsInv'
  <2>1. request' = [request EXCEPT ![r] = Done]  BY <1>4 DEF Many!Leave, Done
  <2>2. Done \in RequestRecords /\ Done.batch \in {<<>>, request[r].batch}  BY RecordsAtRest
  <2>. QED  BY ONLY <1>2, <1>4, <2>1, <2>2
<1>5. CASE Many!Tick
  BY <1>1, <1>3, <1>5 DEF Many!Tick, Many!Health
<1>6. CASE Many!Restart
  BY <1>6, RequestsRestart
<1>7. ASSUME NEW r \in Askers, Many!Register(r) PROVE RequestsInv'
  <2>. DEFINE x == [request[r] EXCEPT !.pc = "working", !.left = Asked[r]]
  <2>1. request' = [request EXCEPT ![r] = x] /\ UNCHANGED <<clock, memory, written, recorded>>
    BY <1>1, <1>7 DEF Many!Register, Many!Health
  <2>2. x \in RequestRecords /\ x.batch = request[r].batch  BY <1>1 DEF RequestRecords
  <2>. HIDE DEF x
  <2>3. x.batch \in {<<>>, request[r].batch}  BY <2>2
  <2>. QED  BY ONLY <1>2, <1>7, <2>1, <2>2, <2>3
<1>8. ASSUME NEW r \in Askers, Many!SearchStops(r) \/ Many!SearchTimesOut(r) \/ Many!Drop(r)
      PROVE RequestsInv'
  BY <1>4, <1>8 DEF Many!SearchStops, Many!SearchTimesOut, Many!Drop, Many!Health
<1>9. ASSUME NEW r \in Askers, NEW saved \in BOOLEAN, Many!Respond(r, saved) PROVE RequestsInv'
  BY <1>9, RecordKeeps
<1>10. ASSUME NEW r \in Askers, NEW j \in Asked[r], NEW ok \in BOOLEAN,
              Many!SearchAnswer(r, j, ok) \/ Many!RefreshAnswer(r, j, ok) \/ Many!LibraryAnswer(r, j, ok)
       PROVE  RequestsInv'
  BY <1>10, ObserveKeeps DEF Many!SearchAnswer, Many!RefreshAnswer, Many!LibraryAnswer
<1>11. ASSUME NEW r \in Askers, Many!CleanUp(r) PROVE RequestsInv'
  BY <1>1, <1>3, <1>11 DEF Many!CleanUp, Many!Health
<1>12. ASSUME NEW r \in Askers, Many!post_cancel_request(r) \/ Many!CancelJob(r) PROVE RequestsInv'
  <2>1. PICK c \in BOOLEAN : request' = [request EXCEPT ![r].cancelled = c]
    BY <1>12 DEF Many!post_cancel_request, Many!CancelJob, Many!At
  <2>. DEFINE x == [request[r] EXCEPT !.cancelled = c]
  <2>2. request' = [request EXCEPT ![r] = x] /\ UNCHANGED <<clock, memory, written, recorded>>
    BY <1>1, <1>12, <2>1 DEF Many!post_cancel_request, Many!CancelJob, Many!Health
  <2>3. x \in RequestRecords /\ x.batch = request[r].batch  BY <1>1 DEF RequestRecords
  <2>. HIDE DEF x
  <2>4. x.batch \in {<<>>, request[r].batch}  BY <2>3
  <2>. QED  BY ONLY <1>2, <1>12, <2>2, <2>3, <2>4
<1>13. CASE UNCHANGED Many!vars
  BY <1>1, <1>3, <1>13 DEF Many!vars
<1>. QED
  BY <1>5, <1>6, <1>7, <1>8, <1>9, <1>10, <1>11, <1>12, <1>13 DEF Many!Next

\* In every state a history remembers, whatever is recorded, pruned, written and read again.
THEOREM RequestsInvariance == Many!Spec => []RequestsInv
<1>. QED
  BY RequestsInit, RequestsNext, PTL DEF Many!Spec

\* The verdict on a source from its bounded history is the verdict on all that was observed,
\* but for the two cases in which the history says that it does not know
\* (source_health.rs: record_batch, prune and summarize).
THEOREM SummaryIsHonest == Many!Spec => []SummaryHonest
<1>. QED
  BY RequestsInvariance, InvIsHonest, PTL

-----------------------------------------------------------------------------
(* SourceInstances: what an instance knows of its package.  An instance is *)
(* of the version on disk or of an older one, and what it was told of its  *)
(* code is true of it unless the package is ahead, or a late probe was     *)
(* filed.  A new instance gets a name that no call uses.                   *)

InstanceFields == {"code", "next", "stored", "defaults", "meta", "engine"}
PackageKinds == {"aidoku", "lnreader", "mangayomi", "keiyoushi"}
Late(w) == "late probe" \in w
\* An instance of a package at a version, and w is what went wrong with its files.
Describes(i, v, w) ==
  /\ DOMAIN i = InstanceFields /\ i.code \in Nat /\ i.code <= v
  /\ i.meta \notin {Nothing, Instances!Failure} => i.meta.of = i.code \/ i.code # v \/ Late(w)
  /\ i.engine # Nothing => i.engine.code = i.code \/ i.code # v
\* An instance works with what is stored of settings.
Has(i, settings) ==
  \A k \in DOMAIN settings :
    /\ k \in DOMAIN i.stored /\ i.stored[k] = settings[k]
    /\ i.engine # Nothing /\ k \in DOMAIN i.engine.seed => i.engine.seed[k] = settings[k]
FileTrue(file, w) ==
  /\ DOMAIN file = {"version", "sidecar", "cache"} /\ file.version \in Nat
  /\ DOMAIN file.sidecar = {"from", "next"}
  /\ file.cache # Nothing => file.cache.meta.of = file.cache.print \/ Late(w)

LEMMA Ages ==
  ASSUME NEW i, NEW v \in Nat, NEW w, Describes(i, v, w), NEW u \in Nat, NEW x, v <= u,
         u = v => (Late(w) => Late(x))
  PROVE  Describes(i, u, x)
  BY DEF Describes

\* What a load makes of a package.
LEMMA LoadedIs ==
  ASSUME NEW kind \in PackageKinds, NEW file, NEW w, FileTrue(file, w), NEW settings, NEW id,
         NEW i, i = Instances!load_source_package(kind, file, settings, id)
  PROVE  /\ Describes(i, file.version, w) /\ i.code = file.version
         /\ Has(i, Instances!StoredIn(settings, id))
<1>. DEFINE s == Instances!StoredIn(settings, id)
            b == Instances!Loading(file, settings, id)
            c == Instances!read_probe_cache(file)
<1>1. /\ DOMAIN b = InstanceFields /\ b.code = file.version /\ b.stored = s
      /\ b.meta = Nothing /\ b.engine = Nothing
  BY DEF Instances!Loading, InstanceFields
<1>2. c # Nothing => c.of = file.version \/ Late(w)
  BY DEF Instances!read_probe_cache, FileTrue
<1>3. file.version \in Nat  BY DEF FileTrue
<1>. HIDE DEF b, c, s
<1>4. CASE kind = "aidoku"
  <2>. DEFINE e == [b EXCEPT !.meta = Instances!Told(file.version, FALSE),
                             !.defaults = Instances!Defaults(Instances!aidoku_setting_definitions(file.version))]
  <2>1. /\ DOMAIN e = InstanceFields /\ e.code = file.version /\ e.stored = s
        /\ e.meta.of = file.version /\ e.engine = Nothing
    BY <1>1 DEF InstanceFields, Instances!Told
  <2>2. \/ i = e
        \/ "url" \notin DOMAIN Instances!settings_all(e) /\ \E url : i = Instances!set(e, "url", url)
    BY <1>4 DEF Instances!load_source_package, Instances!from_aix_file, b
  <2>. HIDE DEF e
  <2>3. ASSUME NEW url, "url" \notin DOMAIN Instances!settings_all(e), i = Instances!set(e, "url", url)
        PROVE  /\ DOMAIN i = InstanceFields /\ i.code = file.version
               /\ i.meta.of = file.version /\ i.engine = Nothing
               /\ \A k \in DOMAIN s : k \in DOMAIN i.stored /\ i.stored[k] = s[k]
    <3>1. i.stored = Instances!Over(Instances!Only("url", url), s)
      BY <2>1, <2>3 DEF Instances!set, InstanceFields
    <3>2. "url" \notin DOMAIN s
      BY <2>1, <2>3 DEF Instances!settings_all, Instances!Over
    <3>3. \A k \in DOMAIN s : k \in DOMAIN i.stored /\ i.stored[k] = s[k]
      BY <3>1, <3>2 DEF Instances!Over, Instances!Only
    <3>. QED  BY <2>1, <2>3, <3>3 DEF Instances!set, InstanceFields
  <2>. QED  BY <1>3, <2>1, <2>2, <2>3 DEF Describes, Has, s
<1>5. CASE kind = "lnreader"
  <2>. DEFINE t == Instances!build_probed(b, c)
  <2>1. i = b \/ (c # Nothing /\ i = t /\ t.meta # Instances!Failure)
    BY <1>5 DEF Instances!load_source_package, Instances!from_lnreader_file, b, c
  <2>2. ASSUME t.meta # Instances!Failure
        PROVE  /\ DOMAIN t = InstanceFields /\ t.code = file.version /\ t.stored = s /\ t.meta = c
               /\ t.engine.code = file.version
               /\ \A k \in DOMAIN s : k \in DOMAIN t.engine.seed => t.engine.seed[k] = s[k]
    <3>1. t # [b EXCEPT !.meta = Instances!Failure]
      BY <1>1, <2>2 DEF InstanceFields
    <3>2. PICK d, p : t = [b EXCEPT !.meta = c, !.defaults = d,
                             !.engine = [code |-> b.code, next |-> FALSE, seed |-> Instances!storage_seed(b, p, d)]]
      BY <3>1 DEF Instances!build_probed
    <3>3. t.engine.seed = Instances!storage_seed(b, p, d)
      BY <1>1, <3>2 DEF InstanceFields
    <3>4. \A k \in DOMAIN s : k \in DOMAIN t.engine.seed => t.engine.seed[k] = s[k]
      BY <1>1, <3>3 DEF Instances!storage_seed, Instances!Restrict, Instances!Over
    <3>. QED  BY <1>1, <3>2, <3>4 DEF InstanceFields
  <2>. HIDE DEF t
  <2>. QED  BY <1>1, <1>2, <1>3, <2>1, <2>2 DEF Describes, Has, s
<1>6. CASE kind = "mangayomi"
  <2>1. i = b \/ (c # Nothing /\ i = Instances!Probed("mangayomi", b, c))
    BY <1>6 DEF Instances!load_source_package, Instances!from_mangayomi_file, b, c
  <2>2. ASSUME c # Nothing, i = Instances!Probed("mangayomi", b, c)
        PROVE  /\ DOMAIN i = InstanceFields /\ i.code = file.version /\ i.meta = c /\ i.engine = Nothing
               /\ \A k \in DOMAIN s : k \in DOMAIN i.stored /\ i.stored[k] = s[k]
    <3>1. CASE c = Instances!Failure
      BY <1>1, <2>2, <3>1 DEF Instances!Probed, InstanceFields
    <3>2. CASE c # Instances!Failure
      <4>1. PICK d : i = [Instances!seed_defaults(b, d) EXCEPT !.meta = c]
        BY <2>2, <3>2 DEF Instances!Probed
      <4>2. i.stored = Instances!Over(s, Instances!Defaults(d))
        BY <1>1, <4>1 DEF Instances!seed_defaults, InstanceFields
      <4>3. \A k \in DOMAIN s : k \in DOMAIN i.stored /\ i.stored[k] = s[k]
        BY <4>2 DEF Instances!Over
      <4>. QED  BY <1>1, <4>1, <4>3 DEF Instances!seed_defaults, InstanceFields
    <3>. QED  BY <3>1, <3>2
  <2>. QED  BY <1>1, <1>2, <1>3, <2>1, <2>2 DEF Describes, Has, s
<1>7. CASE kind = "keiyoushi"
  <2>1. PICK d : i = [b EXCEPT !.meta = Instances!ApkProbe(file), !.defaults = d]
    BY <1>7 DEF Instances!load_source_package, Instances!from_keiyoushi_apk, b
  <2>2. Instances!ApkProbe(file).of = file.version \/ Late(w)
    BY <1>2 DEF Instances!ApkProbe, Instances!probe_apk, Instances!Told, c
  <2>. QED  BY <1>1, <1>3, <2>1, <2>2 DEF Describes, Has, s, InstanceFields
<1>. QED
  BY <1>4, <1>5, <1>6, <1>7 DEF PackageKinds

\* A load changes no more than the probe cache of a package.
LEMMA AfterLoadTrue ==
  ASSUME NEW kind, NEW file, NEW w, FileTrue(file, w), NEW f, f = Instances!AfterLoad(kind, file)
  PROVE  FileTrue(f, w) /\ f.version = file.version /\ f.sidecar = file.sidecar
<1>1. \/ f = file \/ f = [file EXCEPT !.cache = Nothing]
      \/ f = Instances!write_probe_cache(file, file.version, Instances!probe_apk(file.version))
  BY DEF Instances!AfterLoad
<1>. QED
  BY <1>1 DEF FileTrue, Instances!write_probe_cache, Instances!probe_apk, Instances!Told

Ids == Instances!Ids
PackageOf(id) == Instances!PackageOf(id)
\* The sources, their names, and the calls, that a registry names.
NamesTrue(r, cs) ==
  /\ r = [id \in Ids |-> r[id]]
  /\ \A id \in Ids : r[id] # Nothing => r[id][1] = id
  /\ cs = [c \in Ongoing |-> cs[c]]
  /\ \A c \in Ongoing : /\ DOMAIN cs[c] = {"at", "of", "note"}
                        /\ cs[c].at = "idle" <=> cs[c].of = Nothing
                        /\ cs[c].of # Nothing => cs[c].of[1] \in Ids

LEMMA Owners ==
  ASSUME NEW id \in Ids
  PROVE  PackageOf(id) \in DOMAIN packages /\ id \in packages[PackageOf(id)].ids
  BY DEF Ids, PackageOf, Instances!Ids, Instances!PackageOf

LEMMA InUseIs ==
  ASSUME NEW r, NEW cs, NamesTrue(r, cs)
  PROVE  \A n : n \in Instances!InUse(r, cs) <=>
                  n # Nothing /\ ((\E id \in Ids : n = r[id]) \/ \E c \in Ongoing : n = cs[c].of)
  BY DEF NamesTrue, Instances!InUse, Instances!Range

LEMMA NamesOfSources ==
  ASSUME NEW r, NEW cs, NamesTrue(r, cs), NEW n \in Instances!InUse(r, cs)
  PROVE  n[1] \in Ids
  BY InUseIs DEF NamesTrue

\* One more name than there are calls and a registered instance.
LEMMA FreshName ==
  ASSUME NamesTrue(registered, serving), DOMAIN instances = Instances!InUse(registered, serving),
         NEW id \in Ids
  PROVE  Instances!NewName(id) \notin DOMAIN instances /\ Instances!NewName(id)[1] = id
<1>. DEFINE k == Cardinality(Ongoing)
            m == registered[id][2]
            N == 0..(k + 1)
            M == N \ {m}
            Held(n) == {c \in Ongoing : serving[c].of = <<id, n>>}
            f == [n \in M |-> CHOOSE c \in Ongoing : serving[c].of = <<id, n>>]
<1>1. IsFiniteSet(Ongoing) /\ k \in Nat
  BY PackagesAreKnown, FS_CardinalityType
<1>2. IsFiniteSet(N) /\ Cardinality(N) = k + 2
  <2>1. 0 \in Int /\ k + 1 \in Int /\ ~(0 > k + 1) /\ (k + 1) - 0 + 1 = k + 2
    BY <1>1
  <2>. HIDE DEF k
  <2>. QED  BY <2>1, FS_Interval
<1>. HIDE DEF k, N, m
<1>3. IsFiniteSet(M) /\ Cardinality(M) >= k + 1
  <2>1. /\ IsFiniteSet(N \ {m})
        /\ Cardinality(N \ {m}) = IF m \in N THEN Cardinality(N) - 1 ELSE Cardinality(N)
    BY ONLY <1>2, FS_RemoveElement
  <2>. QED  BY ONLY <1>1, <1>2, <2>1
<1>4. \E n \in N : <<id, n>> \notin DOMAIN instances
  <2>. SUFFICES ASSUME \A n \in N : <<id, n>> \in DOMAIN instances PROVE FALSE
    OBVIOUS
  <2>1. ASSUME NEW n \in M PROVE \E c \in Ongoing : serving[c].of = <<id, n>>
    <3>1. <<id, n>> \in DOMAIN instances /\ n # m  OBVIOUS
    <3>2. ASSUME NEW x \in Ids, <<id, n>> = registered[x], registered[x] # Nothing PROVE FALSE
      <4>1. x = id  BY <3>2 DEF NamesTrue
      <4>2. registered[id][2] = n  BY <3>2, <4>1
      <4>. QED  BY <3>1, <4>2 DEF m
    <3>. QED  BY <3>1, <3>2, InUseIs
  <2>2. f \in [M -> Ongoing] /\ \A n \in M : serving[f[n]].of = <<id, n>>
    BY <2>1
  <2>. HIDE DEF M, f
  <2>3. PICK x \in M, y \in M : x # y /\ f[x] = f[y]
    <3>1. Cardinality(Ongoing) < Cardinality(M)
      <4>1. Cardinality(M) \in Nat  BY <1>3, FS_CardinalityType
      <4>. QED  BY <1>1, <1>3, <4>1 DEF k
    <3>. QED  BY <1>1, <1>3, <2>2, <3>1, FS_PigeonHole
  <2>4. <<id, x>> = <<id, y>>  BY <2>2, <2>3
  <2>. QED  BY <2>3, <2>4
<1>5. Instances!NewName(id) = <<id, CHOOSE n \in N : <<id, n>> \notin DOMAIN instances>>
  <2>1. Instances!Cardinality(Ongoing) = Cardinality(Ongoing)
    BY DEF Instances!Cardinality, Cardinality
  <2>. QED  BY ONLY <2>1 DEF Instances!NewName, N, k
<1>. QED
  BY <1>4, <1>5

\* What a reload does: packages that it reads are loaded, but for those that fail; their
\* instances are new.
IdsOf(ps) == Instances!IdsOf(ps)
Reloaded(fs, ps, settings, lost, cs) ==
  /\ NamesTrue(registered', cs) /\ DOMAIN instances' = Instances!InUse(registered', cs)
  /\ \A n \in DOMAIN instances \cap DOMAIN instances' : instances'[n] = instances[n]
  /\ \A n \in DOMAIN instances' \ DOMAIN instances :
       /\ n[1] \in IdsOf(ps)
       /\ instances'[n] = Instances!load_source_package(Instances!Kind(n[1]), fs[PackageOf(n[1])], settings, n[1])
  /\ \A id \in Ids : registered'[id] # Nothing =>
       \/ id \in IdsOf(ps) /\ registered'[id] \notin DOMAIN instances
       \/ id \notin IdsOf(ps) /\ registered'[id] = registered[id]
  /\ files' = [p \in DOMAIN fs |-> IF p \in ps \ lost THEN Instances!AfterLoad(packages[p].kind, fs[p])
                                   ELSE fs[p]]

LEMMA Reloads ==
  ASSUME NamesTrue(registered, serving), DOMAIN instances = Instances!InUse(registered, serving),
         NEW fs, NEW ps \in SUBSET DOMAIN packages, NEW settings, NEW lost, NEW cs,
         cs = [c \in Ongoing |-> cs[c]],
         \A c \in Ongoing : \/ cs[c] = Instances!Idle
                            \/ /\ DOMAIN cs[c] = {"at", "of", "note"} /\ cs[c].of = serving[c].of
                               /\ cs[c].at = "idle" <=> serving[c].at = "idle",
         Instances!Reload(fs, ps, settings, lost, cs)
  PROVE  Reloaded(fs, ps, settings, lost, cs)
<1>. DEFINE made == IdsOf(ps \ lost)
            now == registered'
            new == [i \in {now[id] : id \in made} |->
                      Instances!load_source_package(Instances!Kind(i[1]), fs[PackageOf(i[1])], settings, i[1])]
            use == Instances!InUse(registered', cs)
<1>1. /\ now = [id \in Ids |-> CASE id \in made -> Instances!NewName(id)
                                 [] id \in IdsOf(ps) \ made -> Nothing
                                 [] OTHER -> registered[id]]
      /\ instances' = Instances!Restrict(Instances!Over(new, instances), use)
      /\ files' = [p \in DOMAIN fs |-> IF p \in ps \ lost THEN Instances!AfterLoad(packages[p].kind, fs[p])
                                       ELSE fs[p]]
  BY DEF Instances!Reload, IdsOf, Instances!IdsOf, Ids, PackageOf
<1>2. made \subseteq IdsOf(ps) /\ IdsOf(ps) \subseteq Ids
  BY DEF IdsOf, Instances!IdsOf, Ids, Instances!Ids
<1>. HIDE DEF made, new, use
<1>3. now = [id \in Ids |-> now[id]]
  BY ONLY <1>1
<1>4. /\ \A id \in made : now[id] = Instances!NewName(id)
      /\ \A id \in IdsOf(ps) \ made : now[id] = Nothing
      /\ \A id \in Ids \ IdsOf(ps) : now[id] = registered[id]
  BY ONLY <1>1, <1>2
<1>. HIDE DEF now
<1>5. \A id \in made : now[id] \notin DOMAIN instances /\ now[id][1] = id
  BY <1>2, <1>4, FreshName
<1>6. NamesTrue(now, cs)
  <2>1. \A id \in Ids : now[id] # Nothing => now[id][1] = id
    BY <1>4, <1>5 DEF NamesTrue
  <2>. QED  BY <1>3, <2>1 DEF NamesTrue, Instances!Idle
<1>7. \A n \in use : n \in DOMAIN new \/ n \in DOMAIN instances
  <2>. TAKE n \in use
  <2>1. CASE \E id \in Ids : n = now[id] /\ n # Nothing
    <3>1. PICK id \in Ids : n = now[id] /\ n # Nothing  BY <2>1
    <3>2. CASE id \in made  BY <3>1, <3>2 DEF new, now
    <3>3. CASE id \notin made
      <4>1. n = registered[id] /\ n # Nothing  BY <1>4, <3>1, <3>3
      <4>. QED  BY <4>1, InUseIs
    <3>. QED  BY <3>2, <3>3
  <2>2. CASE \E c \in Ongoing : n = cs[c].of /\ n # Nothing
    <3>1. PICK c \in Ongoing : n = cs[c].of /\ n # Nothing  BY <2>2
    <3>2. n = serving[c].of  BY <3>1 DEF Instances!Idle
    <3>. QED  BY <3>1, <3>2, InUseIs
  <2>. QED  BY <1>6, <2>1, <2>2, InUseIs DEF use, now
<1>8. /\ DOMAIN instances' = use
      /\ \A n \in use : instances'[n] = IF n \in DOMAIN new THEN new[n] ELSE instances[n]
  BY <1>1, <1>7 DEF Instances!Restrict, Instances!Over
<1>9. \A n \in DOMAIN new : /\ n \notin DOMAIN instances /\ n[1] \in made
                            /\ new[n] = Instances!load_source_package(Instances!Kind(n[1]), fs[PackageOf(n[1])], settings, n[1])
  BY <1>5 DEF new, now
<1>10. \A id \in Ids : now[id] # Nothing =>
              \/ id \in IdsOf(ps) /\ now[id] \notin DOMAIN instances
              \/ id \notin IdsOf(ps) /\ now[id] = registered[id]
  BY <1>4, <1>5
<1>11. /\ \A n \in DOMAIN instances \cap DOMAIN instances' : instances'[n] = instances[n]
       /\ \A n \in DOMAIN instances' \ DOMAIN instances :
            /\ n[1] \in IdsOf(ps)
            /\ instances'[n] = Instances!load_source_package(Instances!Kind(n[1]), fs[PackageOf(n[1])], settings, n[1])
  BY <1>2, <1>7, <1>8, <1>9
<1>. QED
  BY <1>1, <1>6, <1>8, <1>10, <1>11 DEF Reloaded, now, use

-----------------------------------------------------------------------------
Version(n) == files[PackageOf(n[1])].version
Wrong(n) == wrongs[PackageOf(n[1])]
FilesTrue ==
  /\ packages \in Collections
  /\ files = [p \in DOMAIN packages |-> files[p]] /\ wrongs = [p \in DOMAIN packages |-> wrongs[p]]
  /\ \A p \in DOMAIN packages : FileTrue(files[p], wrongs[p])
  /\ Instances!ProvenanceKept
RegistryTrue ==
  /\ NamesTrue(registered, serving) /\ DOMAIN instances = Instances!InUse(registered, serving)
  /\ \A n \in DOMAIN instances : Describes(instances[n], Version(n), Wrong(n))
KindOf(n) == Instances!Kind(n[1])
\* What a call has in hand fits its instance, of a package of a kind and at a version.
CallTrue(x, i, v, kind) ==
  /\ x.at = "evaluating" => kind \in {"lnreader", "mangayomi"}
  /\ x.at = "persisting" => DOMAIN x.note.sidecar = {"from", "next"}
  /\ x.at \in {"persisting", "starting"} =>
       /\ x.note.engine.code = i.code \/ i.code # v
       /\ x.note.engine.seed = Instances!settings_all(i)
Alone(c) == \A d \in Ongoing \ {c} : serving[d].of = serving[c].of => serving[d].at = "taken"
CallsTrue ==
  \A c \in Ongoing : serving[c].at \notin {"idle", "taken"} =>
    Alone(c) /\ CallTrue(serving[c], instances[serving[c].of], Version(serving[c].of), KindOf(serving[c].of))
Saving(n) == \E c \in Ongoing : serving[c].of = n /\ serving[c].at = "saving"
SettingsTrue ==
  /\ app = [id \in Ids |-> app[id]] /\ manager = [id \in Ids |-> manager[id]]
  /\ disk = [id \in Ids |-> disk[id]]
  /\ \A id \in Ids : manager[id] = app[id] \/ id \in apart
  /\ \A id \in Ids : registered[id] # Nothing =>
       \/ id \in stuck \/ Saving(registered[id])
       \/ Has(instances[registered[id]], Instances!StoredIn(manager, id))
InstancesInv == FilesTrue /\ RegistryTrue /\ CallsTrue /\ SettingsTrue

LEMMA InUseMembers ==
  ASSUME RegistryTrue
  PROVE  /\ \A id \in Ids : registered[id] # Nothing => registered[id] \in DOMAIN instances
         /\ \A c \in Ongoing : serving[c].of # Nothing => serving[c].of \in DOMAIN instances
         /\ \A n \in DOMAIN instances : n[1] \in Ids /\ PackageOf(n[1]) \in DOMAIN packages
  BY InUseIs, NamesOfSources, Owners DEF RegistryTrue

\* What the properties say.
LEMMA InstancesInvTrue == InstancesInv => InstancesTrue
<1>. SUFFICES ASSUME InstancesInv PROVE InstancesTrue
  OBVIOUS
<1>1. Instances!ProvenanceKept
  BY DEF InstancesInv, FilesTrue
<1>2. ASSUME NEW id \in Ids, registered[id] # Nothing
      PROVE  /\ registered[id] \in DOMAIN instances /\ registered[id][1] = id
             /\ Describes(instances[registered[id]], files[PackageOf(id)].version, wrongs[PackageOf(id)])
  BY <1>2, InUseMembers DEF InstancesInv, RegistryTrue, NamesTrue, Version, Wrong
<1>3. Instances!MetadataTrue
  <2>1. SUFFICES ASSUME NEW id \in Ids, registered[id] # Nothing
                 PROVE  /\ Instances!manifest(registered[id]) # Nothing =>
                             \/ Instances!manifest(registered[id]).of = instances[registered[id]].code
                             \/ Late(wrongs[PackageOf(id)])
                             \/ instances[registered[id]].code # files[PackageOf(id)].version
                        /\ instances[registered[id]].engine # Nothing =>
                             \/ instances[registered[id]].engine.code = instances[registered[id]].code
                             \/ instances[registered[id]].code # files[PackageOf(id)].version
    BY DEF Instances!MetadataTrue, Instances!Registered, Instances!Current, Instances!Untouched, Late,
           Ids, PackageOf
  <2>. DEFINE n == registered[id]
              i == instances[n]
  <2>2. Describes(i, files[PackageOf(id)].version, wrongs[PackageOf(id)])
    BY <1>2, <2>1
  <2>3. \/ Instances!manifest(n) = Nothing
        \/ Instances!manifest(n) = Instances!Told(i.code, TRUE)
        \/ Instances!manifest(n) = i.meta /\ i.meta \notin {Nothing, Instances!Failure}
    BY DEF Instances!manifest, Instances!probed, Instances!placeholder_manifest
  <2>. HIDE DEF n
  <2>4. Instances!Told(i.code, TRUE).of = i.code
    BY DEF Instances!Told
  <2>. HIDE DEF i
  <2>5. ASSUME Instances!manifest(n) # Nothing
        PROVE  Instances!manifest(n).of = i.code \/ Late(wrongs[PackageOf(id)]) \/ i.code # files[PackageOf(id)].version
    <3>1. CASE Instances!manifest(n) = Instances!Told(i.code, TRUE)
      BY ONLY <2>4, <3>1
    <3>2. CASE Instances!manifest(n) = i.meta /\ i.meta \notin {Nothing, Instances!Failure}
      BY ONLY <2>2, <3>2 DEF Describes
    <3>. QED  BY ONLY <2>3, <2>5, <3>1, <3>2
  <2>6. i.engine # Nothing => i.engine.code = i.code \/ i.code # files[PackageOf(id)].version
    BY ONLY <2>2 DEF Describes
  <2>. QED  BY ONLY <2>5, <2>6 DEF n, i
<1>4. Instances!SettingsReach
  <2>1. SUFFICES ASSUME NEW id \in Ids, registered[id] # Nothing
                 PROVE  /\ manager[id] = app[id] \/ id \in apart
                        /\ \/ id \in stuck
                           \/ \E c \in Ongoing : serving[c].of = registered[id] /\ serving[c].at = "saving"
                           \/ \A k \in DOMAIN Instances!StoredIn(manager, id) :
                                /\ Instances!get(instances[registered[id]], k) = manager[id][k]
                                /\ /\ instances[registered[id]].engine # Nothing
                                   /\ k \in DOMAIN instances[registered[id]].engine.seed
                                   => instances[registered[id]].engine.seed[k] = manager[id][k]
    BY DEF Instances!SettingsReach, Instances!Registered, Instances!Current, Ids
  <2>. DEFINE i == instances[registered[id]]
              s == Instances!StoredIn(manager, id)
  <2>2. ASSUME Has(i, s), NEW k \in DOMAIN s
        PROVE  Instances!get(i, k) = manager[id][k]
               /\ (i.engine # Nothing /\ k \in DOMAIN i.engine.seed => i.engine.seed[k] = manager[id][k])
    <3>1. s[k] = manager[id][k]  BY <2>2 DEF Instances!StoredIn, Instances!Unset
    <3>. HIDE DEF s, i
    <3>2. k \in DOMAIN i.stored /\ i.stored[k] = s[k]
          /\ (i.engine # Nothing /\ k \in DOMAIN i.engine.seed => i.engine.seed[k] = s[k])
      BY <2>2 DEF Has
    <3>. QED  BY <3>1, <3>2 DEF Instances!get, Instances!settings_all, Instances!Over
  <2>3. id \in stuck \/ Saving(registered[id]) \/ Has(i, s)
    BY <2>1 DEF InstancesInv, SettingsTrue
  <2>4. manager[id] = app[id] \/ id \in apart
    BY DEF InstancesInv, SettingsTrue
  <2>. QED  BY <2>2, <2>3, <2>4 DEF Saving
<1>. QED
  BY <1>1, <1>3, <1>4 DEF InstancesTrue

LEMMA InstancesInit == Instances!Init => InstancesInv
<1>. SUFFICES ASSUME Instances!Init PROVE InstancesInv
  OBVIOUS
<1>. DEFINE names == {<<id, 0>> : id \in Ids}
<1>1. /\ packages \in Collections
      /\ files = [p \in DOMAIN packages |->
                    [version |-> 1, sidecar |-> [from |-> 1, next |-> Nothing],
                     cache |-> IF packages[p].kind = "keiyoushi"
                               THEN [print |-> 1, meta |-> Instances!probe_apk(1)] ELSE Nothing]]
      /\ wrongs = [p \in DOMAIN packages |-> {}]
      /\ disk = [id \in Ids |-> Nothing] /\ app = disk /\ manager = disk
      /\ registered = [id \in Ids |-> <<id, 0>>]
      /\ instances = [i \in names |->
                        Instances!load_source_package(Instances!Kind(i[1]), files[PackageOf(i[1])], disk, i[1])]
      /\ serving = [c \in Ongoing |-> Instances!Idle]
  BY DEF Instances!Init, Ids, PackageOf
<1>2. FilesTrue
  BY <1>1 DEF FilesTrue, FileTrue, Instances!probe_apk, Instances!Told, Instances!ProvenanceKept
<1>3. NamesTrue(registered, serving)
  BY <1>1 DEF NamesTrue, Instances!Idle
<1>4. \A id \in Ids : Instances!Kind(id) \in PackageKinds
  BY <1>1, Owners, PackagesAreKnown DEF Instances!Kind, PackageOf, PackageKinds
<1>5. \A id \in Ids : FileTrue(files[PackageOf(id)], wrongs[PackageOf(id)])
  BY <1>2, Owners DEF FilesTrue
<1>. HIDE DEF names
<1>6. ASSUME NEW n \in names
      PROVE  /\ n[1] \in Ids /\ n = registered[n[1]]
             /\ Describes(instances[n], Version(n), Wrong(n))
             /\ Has(instances[n], Instances!StoredIn(manager, n[1]))
  <2>1. n[1] \in Ids /\ n = registered[n[1]]  BY <1>1 DEF names
  <2>2. instances[n] = Instances!load_source_package(Instances!Kind(n[1]), files[PackageOf(n[1])], manager, n[1])
    BY <1>1
  <2>. QED  BY ONLY <1>4, <1>5, <2>1, <2>2, LoadedIs DEF Version, Wrong
<1>7. DOMAIN instances = Instances!InUse(registered, serving)
  <2>1. \A id \in Ids : <<id, 0>> # Nothing
    BY <1>1, Owners, PackagesAreKnown
  <2>2. \A c \in Ongoing : serving[c].of = Nothing
    BY <1>1 DEF Instances!Idle
  <2>3. \A n : n \in Instances!InUse(registered, serving) <=> n # Nothing /\ \E id \in Ids : n = registered[id]
    BY <1>3, <2>2, InUseIs
  <2>. QED  BY <1>1, <2>1, <2>3 DEF names
<1>8. RegistryTrue
  BY <1>1, <1>3, <1>6, <1>7 DEF RegistryTrue
<1>9. CallsTrue
  BY <1>1 DEF CallsTrue, Instances!Idle
<1>10. SettingsTrue
  <2>1. \A id \in Ids : registered[id] \in names /\ registered[id][1] = id
    BY <1>1 DEF names
  <2>. QED  BY <1>1, <1>6, <2>1 DEF SettingsTrue
<1>. QED
  BY <1>2, <1>8, <1>9, <1>10 DEF InstancesInv

LEMMA OlderCalls ==
  ASSUME NEW x, NEW i, NEW v \in Nat, NEW w, NEW kind, Describes(i, v, w), CallTrue(x, i, v, kind),
         NEW u \in Nat, v <= u
  PROVE  CallTrue(x, i, u, kind)
  BY DEF CallTrue, Describes

\* Of the instances in use, one changes.
Moves(o, i) ==
  /\ DOMAIN instances' = Instances!InUse(registered, serving')
  /\ \A n \in DOMAIN instances \cap DOMAIN instances' : instances'[n] = IF n = o THEN i ELSE instances[n]

LEMMA WithMoves ==
  ASSUME RegistryTrue, NEW c \in Ongoing, serving[c].of # Nothing, NEW i, NEW cs, Instances!With(i, c, cs)
  PROVE  serving' = cs /\ Moves(serving[c].of, i)
  BY InUseMembers DEF Instances!With, Instances!Own, Instances!Restrict, Moves

\* A step of a call inside its instance.
LEMMA ServeKeeps ==
  ASSUME InstancesInv, NEW c \in Ongoing,
         serving[c].of # Nothing, serving[c].at # "saving", Alone(c),
         NEW x, DOMAIN x = {"at", "of", "note"}, x.at = "idle" <=> x.of = Nothing,
         x.of \in {Nothing, serving[c].of}, serving' = [serving EXCEPT ![c] = x],
         NEW i, Describes(i, Version(serving[c].of), Wrong(serving[c].of)),
         x.of # Nothing => CallTrue(x, i, Version(serving[c].of), KindOf(serving[c].of)),
         x.at = "saving" \/ \A settings : Has(instances[serving[c].of], settings) => Has(i, settings),
         Moves(serving[c].of, i),
         FilesTrue', \A p \in DOMAIN packages : /\ files'[p].version = files[p].version
                                                /\ Late(wrongs[p]) => Late(wrongs'[p]),
         UNCHANGED <<packages, disk, app, manager, registered, apart, stuck>>
  PROVE  InstancesInv'
<1>. DEFINE o == serving[c].of
<1>1. /\ NamesTrue(registered, serving) /\ DOMAIN instances = Instances!InUse(registered, serving)
      /\ \A n \in DOMAIN instances : Describes(instances[n], Version(n), Wrong(n))
      /\ o \in DOMAIN instances
  BY InUseMembers DEF InstancesInv, RegistryTrue
<1>2. /\ Ids' = Ids /\ \A id : PackageOf(id)' = PackageOf(id) /\ Instances!Kind(id)' = Instances!Kind(id)
  BY DEF Ids, PackageOf, Instances!Ids, Instances!PackageOf, Instances!Kind
<1>3. /\ serving'[c] = x /\ \A d \in Ongoing \ {c} : serving'[d] = serving[d]
      /\ serving' = [d \in Ongoing |-> serving'[d]]
  BY <1>1 DEF NamesTrue
<1>4. NamesTrue(registered, serving')
  BY <1>1, <1>3 DEF NamesTrue
<1>5. Instances!InUse(registered, serving') \subseteq DOMAIN instances
  BY <1>1, <1>3, <1>4, InUseIs
<1>. DEFINE g == [n \in DOMAIN instances |-> IF n = o THEN i ELSE instances[n]]
<1>6. /\ DOMAIN instances' = Instances!InUse(registered, serving')
      /\ \A n \in DOMAIN instances' : n \in DOMAIN instances /\ instances'[n] = g[n]
      /\ g[o] = i /\ \A n \in DOMAIN instances \ {o} : g[n] = instances[n]
  BY <1>1, <1>5 DEF Moves
<1>. HIDE DEF g
<1>7. \A n \in DOMAIN instances : n[1] \in Ids /\ PackageOf(n[1]) \in DOMAIN packages
  BY InUseMembers DEF InstancesInv
<1>8. \A n \in DOMAIN instances : /\ Version(n)' = Version(n) /\ Version(n) \in Nat
                                  /\ Late(Wrong(n)) => Late(Wrong(n)')
  BY <1>2, <1>7 DEF Version, Wrong, InstancesInv, FilesTrue, FileTrue
<1>9. \A n \in DOMAIN instances' : Describes(instances'[n], Version(n)', Wrong(n)')
  <2>. TAKE n \in DOMAIN instances'
  <2>1. Describes(g[n], Version(n), Wrong(n))
    BY <1>1, <1>6
  <2>2. n \in DOMAIN instances /\ instances'[n] = g[n]  BY ONLY <1>6
  <2>3. /\ Version(n) \in Nat /\ Version(n)' = Version(n)
        /\ Late(Wrong(n)) => Late(Wrong(n)')
    BY ONLY <1>8, <2>2
  <2>4. Version(n) <= Version(n)
    <3>. DEFINE v == Version(n)
    <3>1. v \in Nat  BY <2>3
    <3>. HIDE DEF v
    <3>2. v <= v  BY ONLY <3>1
    <3>. QED  BY ONLY <3>2 DEF v
  <2>5. Describes(g[n], Version(n), Wrong(n)')  BY ONLY <2>1, <2>3, <2>4, Ages
  <2>. QED  BY ONLY <2>2, <2>3, <2>5
<1>10. RegistryTrue'
  <2>1. NamesTrue(registered, serving)'  BY <1>2, <1>4 DEF NamesTrue
  <2>2. Instances!InUse(registered, serving)' = Instances!InUse(registered, serving')
    BY DEF Instances!InUse, Instances!Range
  <2>. QED  BY <1>6, <1>9, <2>1, <2>2 DEF RegistryTrue
<1>11. CallsTrue'
  <2>. DEFINE Fits(d) ==
                /\ \A e \in Ongoing \ {d} : serving'[e].of = serving'[d].of => serving'[e].at = "taken"
                /\ CallTrue(serving'[d], instances'[serving'[d].of], Version(serving'[d].of), KindOf(serving'[d].of))
  <2>1. ASSUME NEW d \in Ongoing, serving'[d].at \notin {"idle", "taken"} PROVE Fits(d)
    <3>1. CASE d = c
      <4>1. x.of = o  BY <1>3, <2>1, <3>1
      <4>2. x.of \in DOMAIN instances'  BY <1>1, <1>3, <1>4, <1>6, <4>1, InUseIs
      <4>3. CallTrue(x, i, Version(o), KindOf(o)) /\ instances'[x.of] = i  BY <1>6, <4>1, <4>2
      <4>4. \A e \in Ongoing \ {d} : serving'[e].of = serving'[d].of => serving'[e].at = "taken"
        BY <1>3, <3>1, <4>1 DEF Alone
      <4>. QED  BY <1>3, <3>1, <4>1, <4>3, <4>4
    <3>2. CASE d # c
      <4>1. serving'[d] = serving[d]  BY <1>3, <3>2
      <4>2. /\ Alone(d)
            /\ CallTrue(serving[d], instances[serving[d].of], Version(serving[d].of), KindOf(serving[d].of))
        BY <2>1, <4>1 DEF InstancesInv, CallsTrue
      <4>3. serving[d].of # Nothing  BY <1>1, <2>1, <4>1 DEF NamesTrue
      <4>4. serving[d].of # o
        <5>1. serving[c].at # "taken" => serving[d].of # o  BY <3>2, <4>2 DEF Alone
        <5>2. serving[d].at # "taken"  BY <2>1, <4>1
        <5>. QED  BY <3>2, <5>2 DEF Alone
      <4>5. serving[d].of \in DOMAIN instances'  BY <1>3, <1>4, <1>6, <4>1, <4>3, InUseIs
      <4>6. instances'[serving[d].of] = instances[serving[d].of]  BY <1>6, <4>4, <4>5
      <4>7. \A e \in Ongoing \ {d} : serving'[e].of = serving'[d].of => serving'[e].at = "taken"
        BY <1>3, <4>1, <4>2, <4>3, <4>4 DEF Alone
      <4>. QED  BY <4>1, <4>2, <4>6, <4>7
    <3>. QED  BY <3>1, <3>2
  <2>2. ASSUME NEW d \in Ongoing, serving'[d].at \notin {"idle", "taken"}
        PROVE  serving'[d].of \in DOMAIN instances
    <3>1. serving'[d].of # Nothing  BY <1>4, <2>2 DEF NamesTrue
    <3>. QED  BY <1>4, <1>6, <2>2, <3>1, InUseIs
  <2>3. \A n \in DOMAIN instances : Version(n)' = Version(n) /\ KindOf(n)' = KindOf(n)
    BY <1>2, <1>8 DEF KindOf
  <2>4. ASSUME NEW d \in Ongoing, serving'[d].at \notin {"idle", "taken"}
        PROVE  (Alone(d) /\ CallTrue(serving[d], instances[serving[d].of], Version(serving[d].of), KindOf(serving[d].of)))'
    <3>1. Version(serving[d].of)' = Version(serving'[d].of) /\ KindOf(serving[d].of)' = KindOf(serving'[d].of)
      BY <2>2, <2>3, <2>4, <1>2, <1>8 DEF KindOf, Version
    <3>. QED  BY <2>1, <2>4, <3>1 DEF Alone
  <2>. QED  BY <2>4 DEF CallsTrue
<1>12. SettingsTrue'
  <2>1. ASSUME NEW id \in Ids, registered[id] # Nothing
        PROVE  id \in stuck \/ Saving(registered[id])' \/ Has(instances'[registered[id]], Instances!StoredIn(manager, id))
    <3>1. registered[id] \in DOMAIN instances'  BY <1>4, <1>6, <2>1, InUseIs
    <3>2. CASE Saving(registered[id])
      <4>1. PICK d \in Ongoing : serving[d].of = registered[id] /\ serving[d].at = "saving"  BY <3>2 DEF Saving
      <4>2. d # c  BY <4>1
      <4>. QED  BY <1>3, <4>1, <4>2 DEF Saving
    <3>3. CASE Has(instances[registered[id]], Instances!StoredIn(manager, id))
      <4>1. CASE registered[id] = o /\ x.at = "saving"
        <5>1. x.of = o
          BY <4>1
        <5>. QED  BY <1>3, <4>1, <5>1 DEF Saving
      <4>2. CASE registered[id] = o /\ x.at # "saving"  BY <1>6, <3>1, <3>3, <4>2
      <4>3. CASE registered[id] # o  BY <1>6, <3>1, <3>3, <4>3
      <4>. QED  BY <4>1, <4>2, <4>3
    <3>. QED  BY <2>1, <3>2, <3>3 DEF InstancesInv, SettingsTrue
  <2>2. \A id \in Ids : Instances!StoredIn(manager, id)' = Instances!StoredIn(manager, id)
    BY DEF Instances!StoredIn
  <2>3. /\ app = [id \in Ids |-> app[id]] /\ manager = [id \in Ids |-> manager[id]]
        /\ disk = [id \in Ids |-> disk[id]]
        /\ \A id \in Ids : manager[id] = app[id] \/ id \in apart
    BY DEF InstancesInv, SettingsTrue
  <2>4. \A id \in Ids' : registered'[id] # Nothing =>
           \/ id \in stuck' \/ Saving(registered[id])'
           \/ Has(instances'[registered'[id]], Instances!StoredIn(manager, id)')
    BY <1>2, <2>1, <2>2
  <2>. QED  BY ONLY <1>2, <2>3, <2>4, UNCHANGED <<disk, app, manager, registered, apart, stuck>> DEF SettingsTrue
<1>. QED
  BY <1>10, <1>11, <1>12 DEF InstancesInv

\* The file beside a package names where it is from.
KeepsOrigin(file, w) == file.sidecar.from = file.version \/ w \cap {"overwritten", "late boot"} # {}
Mapped(f, S) == f = [x \in S |-> f[x]]    \* a function on S
\* A call that is over, that goes on, or whose setting was stored.
Continues(y, x) ==
  \/ y = Instances!Idle \/ y = x
  \/ x.at = "saving" /\ y = [x EXCEPT !.at = "running", !.note = Nothing]

LEMMA ContinuesIs ==
  ASSUME NEW x, NEW y, Continues(y, x), DOMAIN x = {"at", "of", "note"}
  PROVE  \/ y = Instances!Idle
         \/ /\ DOMAIN y = {"at", "of", "note"} /\ y.of = x.of
            /\ y = x \/ (x.at = "saving" /\ y.at = "running")
  BY DEF Continues

\* What becomes of the settings of the sources when some are loaded again.
SettingsOf(ps, settings) ==
  \A id \in Ids : registered'[id] # Nothing =>
    \/ id \in IdsOf(ps) /\ Has(instances'[registered'[id]], Instances!StoredIn(settings, id))
    \/ /\ id \notin IdsOf(ps) /\ registered'[id] = registered[id]
       /\ instances'[registered[id]] = instances[registered[id]]

\* A step in which packages are loaded, perhaps of newer files.
LEMMA LoadKeeps ==
  ASSUME InstancesInv, NEW fs, Mapped(fs, DOMAIN packages),
         NEW ps \in SUBSET DOMAIN packages, NEW settings, NEW lost,
         Mapped(wrongs', DOMAIN packages),
         \A p \in DOMAIN packages :
           /\ FileTrue(fs[p], wrongs'[p]) /\ files[p].version <= fs[p].version
           /\ fs[p].version = files[p].version => (Late(wrongs[p]) => Late(wrongs'[p]))
           /\ KeepsOrigin(fs[p], wrongs'[p]),
         Mapped(serving', Ongoing),
         \A c \in Ongoing : Continues(serving'[c], serving[c]),
         Reloaded(fs, ps, settings, lost, serving'), packages' = packages
  PROVE  FilesTrue' /\ RegistryTrue' /\ CallsTrue' /\ SettingsOf(ps, settings)
<1>1. /\ NamesTrue(registered, serving) /\ DOMAIN instances = Instances!InUse(registered, serving)
      /\ \A n \in DOMAIN instances : Describes(instances[n], Version(n), Wrong(n))
  BY DEF InstancesInv, RegistryTrue
<1>2. /\ Ids' = Ids /\ \A id : PackageOf(id)' = PackageOf(id) /\ Instances!Kind(id)' = Instances!Kind(id)
  BY ONLY packages' = packages DEF Ids, PackageOf, Instances!Ids, Instances!PackageOf, Instances!Kind
<1>3. \A c \in Ongoing : \/ serving'[c] = Instances!Idle
                         \/ /\ DOMAIN serving'[c] = {"at", "of", "note"} /\ serving'[c].of = serving[c].of
                            /\ serving'[c] = serving[c] \/ (serving[c].at = "saving" /\ serving'[c].at = "running")
  BY <1>1, ContinuesIs DEF NamesTrue
<1>4. /\ NamesTrue(registered', serving') /\ DOMAIN instances' = Instances!InUse(registered', serving')
      /\ \A n \in DOMAIN instances \cap DOMAIN instances' : instances'[n] = instances[n]
      /\ \A n \in DOMAIN instances' \ DOMAIN instances :
           /\ n[1] \in IdsOf(ps)
           /\ instances'[n] = Instances!load_source_package(Instances!Kind(n[1]), fs[PackageOf(n[1])], settings, n[1])
      /\ \A id \in Ids : registered'[id] # Nothing =>
           \/ id \in IdsOf(ps) /\ registered'[id] \notin DOMAIN instances
           \/ id \notin IdsOf(ps) /\ registered'[id] = registered[id]
      /\ files' = [p \in DOMAIN fs |-> IF p \in ps \ lost THEN Instances!AfterLoad(packages[p].kind, fs[p])
                                       ELSE fs[p]]
  BY DEF Reloaded
<1>5. DOMAIN fs = DOMAIN packages
  BY ONLY Mapped(fs, DOMAIN packages) DEF Mapped
<1>6. \A p \in DOMAIN packages : /\ FileTrue(files'[p], wrongs'[p])
                                 /\ files'[p].version = fs[p].version /\ files'[p].sidecar = fs[p].sidecar
  <2>. TAKE p \in DOMAIN packages
  <2>1. CASE p \in ps \ lost
    <3>1. files'[p] = Instances!AfterLoad(packages[p].kind, fs[p])  BY <1>4, <1>5, <2>1
    <3>2. FileTrue(fs[p], wrongs'[p])  OBVIOUS
    <3>. QED  BY ONLY <3>1, <3>2, AfterLoadTrue
  <2>2. CASE p \notin ps \ lost
    <3>1. files'[p] = fs[p]  BY <1>4, <1>5, <2>2
    <3>. QED  BY <3>1
  <2>. QED  BY <2>1, <2>2
<1>7. FilesTrue'
  <2>1. Instances!ProvenanceKept'
    BY <1>6 DEF Instances!ProvenanceKept, KeepsOrigin
  <2>2. packages \in Collections /\ files' = [p \in DOMAIN packages |-> files'[p]]
    BY <1>4, <1>5 DEF InstancesInv, FilesTrue
  <2>. QED  BY <1>6, <2>1, <2>2 DEF FilesTrue, Mapped
<1>8. \A id \in Ids : PackageOf(id) \in DOMAIN packages /\ Instances!Kind(id) \in PackageKinds
  BY Owners, PackagesAreKnown DEF Instances!Kind, PackageOf, PackageKinds, InstancesInv, FilesTrue
<1>9. \A n : n[1] \in Ids => /\ Version(n) \in Nat /\ Version(n)' \in Nat /\ Version(n) <= Version(n)'
                             /\ Version(n)' = fs[PackageOf(n[1])].version
                             /\ Wrong(n)' = wrongs'[PackageOf(n[1])]
                             /\ Version(n)' = Version(n) => (Late(Wrong(n)) => Late(Wrong(n)'))
                             /\ FileTrue(fs[PackageOf(n[1])], wrongs'[PackageOf(n[1])])
  <2>. TAKE n
  <2>. HAVE n[1] \in Ids
  <2>. DEFINE p == PackageOf(n[1])
  <2>1. p \in DOMAIN packages /\ Version(n) = files[p].version /\ Version(n)' = files'[p].version
        /\ Wrong(n) = wrongs[p] /\ Wrong(n)' = wrongs'[p]
    BY <1>2, <1>8 DEF Version, Wrong
  <2>. HIDE DEF p
  <2>2. files[p].version \in Nat /\ files'[p].version \in Nat /\ files'[p].version = fs[p].version
        /\ files[p].version <= fs[p].version /\ FileTrue(fs[p], wrongs'[p])
        /\ (fs[p].version = files[p].version => (Late(wrongs[p]) => Late(wrongs'[p])))
    BY <1>6, <2>1 DEF FileTrue, InstancesInv, FilesTrue
  <2>. QED  BY <2>1, <2>2 DEF p
<1>10. \A n \in DOMAIN instances : n[1] \in Ids
  BY InUseMembers DEF InstancesInv
<1>11. \A n \in DOMAIN instances' : n[1] \in Ids
  BY <1>4, NamesOfSources
<1>12. \A n \in DOMAIN instances' \ DOMAIN instances :
          /\ Describes(instances'[n], Version(n)', Wrong(n)')
          /\ Has(instances'[n], Instances!StoredIn(settings, n[1]))
  <2>. TAKE n \in DOMAIN instances' \ DOMAIN instances
  <2>1. instances'[n] = Instances!load_source_package(Instances!Kind(n[1]), fs[PackageOf(n[1])], settings, n[1])
    BY ONLY <1>4
  <2>2. Instances!Kind(n[1]) \in PackageKinds /\ FileTrue(fs[PackageOf(n[1])], wrongs'[PackageOf(n[1])])
        /\ Version(n)' = fs[PackageOf(n[1])].version /\ Wrong(n)' = wrongs'[PackageOf(n[1])]
    BY <1>8, <1>9, <1>11
  <2>. QED  BY ONLY <2>1, <2>2, LoadedIs
<1>13. \A n \in DOMAIN instances \cap DOMAIN instances' : Describes(instances'[n], Version(n)', Wrong(n)')
  <2>. TAKE n \in DOMAIN instances \cap DOMAIN instances'
  <2>1. instances'[n] = instances[n] /\ Describes(instances[n], Version(n), Wrong(n)) /\ n[1] \in Ids
    BY ONLY <1>1, <1>4, <1>10
  <2>2. Version(n) \in Nat /\ Version(n)' \in Nat /\ Version(n) <= Version(n)'
        /\ (Version(n)' = Version(n) => (Late(Wrong(n)) => Late(Wrong(n)')))
    BY ONLY <1>9, <2>1
  <2>. QED  BY ONLY <2>1, <2>2, Ages
<1>14. RegistryTrue'
  <2>1. NamesTrue(registered, serving)'  BY <1>2, <1>4 DEF NamesTrue
  <2>2. Instances!InUse(registered, serving)' = Instances!InUse(registered', serving')
    BY DEF Instances!InUse, Instances!Range
  <2>. QED  BY <1>4, <1>12, <1>13, <2>1, <2>2 DEF RegistryTrue
<1>15. CallsTrue'
  <2>1. ASSUME NEW c \in Ongoing, serving'[c].at \notin {"idle", "taken"}
        PROVE  /\ \A d \in Ongoing \ {c} : serving'[d].of = serving'[c].of => serving'[d].at = "taken"
               /\ CallTrue(serving'[c], instances'[serving'[c].of], Version(serving[c].of)', KindOf(serving[c].of)')
    <3>1. serving'[c].of = serving[c].of /\ serving[c].at \notin {"idle", "taken"}
          /\ (serving'[c] = serving[c] \/ serving'[c].at = "running")
      <4>1. /\ serving[c].at = "idle" <=> serving[c].of = Nothing
            /\ DOMAIN serving[c] = {"at", "of", "note"}
        BY ONLY <1>1 DEF NamesTrue
      <4>2. serving'[c] # Instances!Idle  BY ONLY <2>1 DEF Instances!Idle
      <4>. QED  BY ONLY <1>3, <2>1, <4>1, <4>2, c \in Ongoing
    <3>2. /\ Alone(c) /\ serving[c].of # Nothing
          /\ CallTrue(serving[c], instances[serving[c].of], Version(serving[c].of), KindOf(serving[c].of))
      BY <1>1, <3>1 DEF InstancesInv, CallsTrue, NamesTrue
    <3>3. \A d \in Ongoing \ {c} : serving'[d].of = serving'[c].of => serving'[d].at = "taken"
      <4>. TAKE d \in Ongoing \ {c}
      <4>1. serving'[d] = Instances!Idle => serving'[d].of = Nothing  BY ONLY DEF Instances!Idle
      <4>2. serving[d].of = serving[c].of => serving[d].at = "taken"  BY <3>2 DEF Alone
      <4>3. serving'[d] = Instances!Idle \/ serving'[d] = serving[d]
            \/ (serving[d].at = "saving" /\ serving'[d].of = serving[d].of)
        BY <1>3
      <4>. QED  BY <3>1, <3>2, <4>1, <4>2, <4>3
    <3>. PICK n : n = serving[c].of  OBVIOUS
    <3>4. n \in DOMAIN instances /\ n \in DOMAIN instances' /\ n[1] \in Ids
      BY <1>1, <1>4, <1>10, <3>1, <3>2, InUseIs
    <3>5. KindOf(n)' = KindOf(n) /\ instances'[n] = instances[n]
      BY <1>2, <1>4, <3>1, <3>4 DEF KindOf
    <3>6. CallTrue(serving[c], instances[n], Version(n)', KindOf(n))
      <4>1. Version(n) \in Nat /\ Version(n)' \in Nat /\ Version(n) <= Version(n)'  BY ONLY <1>9, <3>4
      <4>2. Describes(instances[n], Version(n), Wrong(n))  BY <1>1, <3>4
      <4>3. CallTrue(serving[c], instances[n], Version(n), KindOf(n))  BY <3>2
      <4>. QED  BY ONLY <4>1, <4>2, <4>3, OlderCalls
    <3>7. CallTrue(serving'[c], instances'[n], Version(n)', KindOf(n)')
      BY <3>1, <3>5, <3>6 DEF CallTrue
    <3>8. Version(serving[c].of)' = Version(n)' /\ KindOf(serving[c].of)' = KindOf(n)'
      BY <3>1 DEF Version, KindOf
    <3>. QED  BY <3>1, <3>3, <3>7, <3>8
  <2>2. ASSUME NEW c \in Ongoing, serving'[c].at \notin {"idle", "taken"}
        PROVE  (Alone(c) /\ CallTrue(serving[c], instances[serving[c].of], Version(serving[c].of), KindOf(serving[c].of)))'
    BY <2>1, <2>2 DEF Alone
  <2>. QED  BY <2>2 DEF CallsTrue
<1>16. ASSUME NEW id \in Ids, registered'[id] # Nothing
       PROVE  \/ id \in IdsOf(ps) /\ Has(instances'[registered'[id]], Instances!StoredIn(settings, id))
              \/ /\ id \notin IdsOf(ps) /\ registered'[id] = registered[id]
                 /\ instances'[registered[id]] = instances[registered[id]]
  <2>1. registered'[id] \in DOMAIN instances' /\ registered'[id][1] = id
    BY <1>4, <1>16, InUseIs DEF NamesTrue
  <2>2. CASE id \in IdsOf(ps) /\ registered'[id] \notin DOMAIN instances
    BY <1>12, <2>1, <2>2
  <2>3. CASE id \notin IdsOf(ps) /\ registered'[id] = registered[id]
    <3>1. registered[id] \in DOMAIN instances  BY <1>16, <2>3, InUseMembers DEF InstancesInv
    <3>. QED  BY <1>4, <2>1, <2>3, <3>1
  <2>. QED  BY <1>4, <1>16, <2>2, <2>3
<1>17. SettingsOf(ps, settings)
  BY ONLY <1>16 DEF SettingsOf
<1>. QED
  BY ONLY <1>7, <1>14, <1>15, <1>17

LEMMA ReloadKeeps ==
  ASSUME InstancesInv, NEW ps \in SUBSET DOMAIN packages, NEW settings, NEW lost,
         Mapped(serving', Ongoing),
         \A c \in Ongoing : Continues(serving'[c], serving[c]),
         Instances!Reload(files, ps, settings, lost, serving'), packages' = packages, wrongs' = wrongs
  PROVE  FilesTrue' /\ RegistryTrue' /\ CallsTrue' /\ SettingsOf(ps, settings)
<1>1. /\ NamesTrue(registered, serving) /\ DOMAIN instances = Instances!InUse(registered, serving)
      /\ Mapped(files, DOMAIN packages) /\ Mapped(wrongs', DOMAIN packages)
  BY DEF InstancesInv, RegistryTrue, FilesTrue, Mapped
<1>2. ASSUME NEW p \in DOMAIN packages
      PROVE  /\ FileTrue(files[p], wrongs'[p]) /\ files[p].version <= files[p].version
             /\ files[p].version = files[p].version => (Late(wrongs[p]) => Late(wrongs'[p]))
             /\ KeepsOrigin(files[p], wrongs'[p])
  <2>1. FileTrue(files[p], wrongs'[p]) /\ wrongs'[p] = wrongs[p]  BY DEF InstancesInv, FilesTrue
  <2>2. files[p].version <= files[p].version
    <3>. PICK v \in Nat : v = files[p].version  BY <2>1 DEF FileTrue
    <3>. v <= v  OBVIOUS
    <3>. QED  OBVIOUS
  <2>3. KeepsOrigin(files[p], wrongs'[p])
    BY <2>1 DEF InstancesInv, FilesTrue, Instances!ProvenanceKept, KeepsOrigin
  <2>. QED  BY ONLY <2>1, <2>2, <2>3
<1>3. Reloaded(files, ps, settings, lost, serving')
  <2>1. ASSUME NEW c \in Ongoing
        PROVE  \/ serving'[c] = Instances!Idle
               \/ /\ DOMAIN serving'[c] = {"at", "of", "note"} /\ serving'[c].of = serving[c].of
                  /\ serving'[c].at = "idle" <=> serving[c].at = "idle"
    <3>1. DOMAIN serving[c] = {"at", "of", "note"} /\ Continues(serving'[c], serving[c])
      BY ONLY <1>1, \A d \in Ongoing : Continues(serving'[d], serving[d]), c \in Ongoing DEF NamesTrue
    <3>2. \/ serving'[c] = Instances!Idle
          \/ /\ DOMAIN serving'[c] = {"at", "of", "note"} /\ serving'[c].of = serving[c].of
             /\ serving'[c] = serving[c] \/ (serving[c].at = "saving" /\ serving'[c].at = "running")
      BY ONLY <3>1, ContinuesIs
    <3>. QED  BY ONLY <3>2
  <2>2. /\ Mapped(serving', Ongoing)
        /\ Instances!Reload(files, ps, settings, lost, serving')
        /\ ps \in SUBSET DOMAIN packages
    OBVIOUS
  <2>. QED  BY ONLY <1>1, <2>1, <2>2, Reloads DEF Mapped
<1>. QED
  BY <1>1, <1>2, <1>3, LoadKeeps

SavingIn(cs, n) == \E c \in Ongoing : cs[c].of = n /\ cs[c].at = "saving"

\* What a step in which packages are loaded is to show of the settings.
LEMMA SettingsKeep ==
  ASSUME InstancesInv, NEW ps, NEW settings, SettingsOf(ps, settings), FilesTrue', RegistryTrue', CallsTrue',
         Mapped(disk', Ids), Mapped(app', Ids), Mapped(settings, Ids), manager' = settings, packages' = packages,
         \A id \in Ids : settings[id] = app'[id] \/ id \in apart',
         \A id \in Ids \ IdsOf(ps) : registered[id] # Nothing =>
           \/ id \in stuck'
           \/ /\ id \notin stuck /\ settings[id] = manager[id]
              /\ SavingIn(serving, registered[id]) => SavingIn(serving', registered[id])
  PROVE  InstancesInv'
<1>1. Ids' = Ids
  BY ONLY packages' = packages DEF Ids, Instances!Ids
<1>2. ASSUME NEW id \in Ids, registered'[id] # Nothing
      PROVE  \/ id \in stuck' \/ SavingIn(serving', registered'[id])
             \/ Has(instances'[registered'[id]], Instances!StoredIn(settings, id))
  <2>1. CASE id \in IdsOf(ps)  BY <1>2, <2>1 DEF SettingsOf
  <2>2. CASE id \notin IdsOf(ps)
    <3>1. registered'[id] = registered[id] /\ instances'[registered[id]] = instances[registered[id]]
      BY ONLY <1>2, <2>2, SettingsOf(ps, settings) DEF SettingsOf
    <3>2. \/ id \in stuck' \/ SavingIn(serving', registered[id])
          \/ settings[id] = manager[id] /\ Has(instances[registered[id]], Instances!StoredIn(manager, id))
      BY <1>2, <2>2, <3>1 DEF InstancesInv, SettingsTrue, Saving, SavingIn
    <3>3. settings[id] = manager[id] => Instances!StoredIn(settings, id) = Instances!StoredIn(manager, id)
      BY ONLY DEF Instances!StoredIn
    <3>. QED  BY ONLY <3>1, <3>2, <3>3
  <2>. QED  BY <2>1, <2>2
<1>3. \A id \in Ids : registered'[id] # Nothing =>
        \/ id \in stuck' \/ SavingIn(serving', registered'[id])
        \/ Has(instances'[registered'[id]], Instances!StoredIn(manager', id))
  BY <1>2
<1>4. SettingsTrue'
  BY ONLY <1>1, <1>3, Mapped(disk', Ids), Mapped(app', Ids), Mapped(settings, Ids), manager' = settings,
          \A id \in Ids : settings[id] = app'[id] \/ id \in apart'
     DEF SettingsTrue, Mapped, Saving, SavingIn, Instances!StoredIn
<1>. QED
  BY <1>4 DEF InstancesInv

LEMMA StoredKeeps ==
  ASSUME InstancesInv, NEW id \in Ids, NEW stored, Instances!set_source_stored_settings(id, stored)
  PROVE  InstancesInv'
<1>. DEFINE updated == [app EXCEPT ![id] = stored]
            changed == Instances!changed_source_ids(updated)
            affected == UNION {Instances!source_file_for_id(x) : x \in changed}
            reached(lost) == {p \in affected : \A q \in lost : p <= q}
<1>1. PICK lost :
        /\ manager' = updated
        /\ stuck' = (stuck \cup IdsOf(affected)) \ IdsOf(reached(lost))
        /\ Instances!Reload(files, reached(lost), updated, lost, serving)
        /\ app' = IF lost = {} THEN updated ELSE app
        /\ apart' = IF lost = {} THEN {} ELSE apart \cup {id}
  BY DEF Instances!set_source_stored_settings, Instances!update_settings, IdsOf
<1>2. disk' = updated /\ UNCHANGED <<packages, serving, wrongs>>
  BY DEF Instances!set_source_stored_settings
<1>3. /\ app = [x \in Ids |-> app[x]] /\ \A x \in Ids : manager[x] = app[x] \/ x \in apart
      /\ Mapped(app, Ids) /\ Mapped(updated, Ids)
  BY DEF InstancesInv, SettingsTrue, Mapped
<1>4. \A x \in Ids : registered[x] # Nothing => Instances!source_file_for_id(x) = {PackageOf(x)}
  BY DEF Instances!source_file_for_id, PackageOf
<1>5. changed = {x \in Ids : manager[x] # updated[x]}
  BY DEF Instances!changed_source_ids, Ids
<1>. HIDE DEF updated, changed
<1>6. affected \in SUBSET DOMAIN packages
  BY <1>5, Owners DEF Instances!source_file_for_id, PackageOf
<1>. PICK ps : ps = reached(lost)  OBVIOUS
<1>7. ps \in SUBSET DOMAIN packages
  BY <1>6
<1>8. \A x \in Ids : x \in changed /\ registered[x] # Nothing => x \in IdsOf(affected)
  BY <1>4, Owners DEF IdsOf, Instances!IdsOf
<1>. HIDE DEF affected, reached
<1>9. FilesTrue' /\ RegistryTrue' /\ CallsTrue' /\ SettingsOf(ps, updated)
  <2>1. Mapped(serving', Ongoing) /\ \A c \in Ongoing : Continues(serving'[c], serving[c])
    BY <1>2 DEF InstancesInv, RegistryTrue, NamesTrue, Mapped, Continues
  <2>2. Instances!Reload(files, ps, updated, lost, serving')
    BY ONLY <1>1, <1>2, ps = reached(lost)
  <2>. QED  BY ONLY <1>2, <1>7, <2>1, <2>2, InstancesInv, ReloadKeeps
<1>10. Mapped(disk', Ids) /\ Mapped(app', Ids) /\ \A x \in Ids : updated[x] = app'[x] \/ x \in apart'
  BY <1>1, <1>2, <1>3 DEF updated
<1>11. ASSUME NEW x \in Ids \ IdsOf(ps), registered[x] # Nothing
       PROVE  \/ x \in stuck'
              \/ /\ x \notin stuck /\ updated[x] = manager[x]
                 /\ SavingIn(serving, registered[x]) => SavingIn(serving', registered[x])
  <2>1. stuck' = (stuck \cup IdsOf(affected)) \ IdsOf(ps)
    BY <1>1
  <2>2. x \in stuck' \/ (x \notin stuck /\ updated[x] = manager[x])
    BY <1>5, <1>8, <1>11, <2>1
  <2>. QED  BY ONLY <1>2, <2>2
<1>. QED
  BY ONLY InstancesInv, <1>1, <1>2, <1>3, <1>9, <1>10, <1>11, SettingsKeep

LEMMA AllIds == IdsOf(DOMAIN packages) = Ids
  BY DEF IdsOf, Instances!IdsOf, Ids, Instances!Ids

LEMMA InstancesRestart ==
  ASSUME InstancesInv, Instances!Restart
  PROVE  InstancesInv'
<1>1. PICK lost : Instances!Reload(files, DOMAIN packages, disk, lost, serving')
  BY DEF Instances!Restart, Instances!load_all_sources
<1>2. /\ app' = disk /\ manager' = disk /\ UNCHANGED <<packages, disk, wrongs>>
      /\ serving' = [c \in Ongoing |-> Instances!Idle]
  BY DEF Instances!Restart
<1>3. FilesTrue' /\ RegistryTrue' /\ CallsTrue' /\ SettingsOf(DOMAIN packages, disk)
  <2>1. Mapped(serving', Ongoing) /\ \A c \in Ongoing : Continues(serving'[c], serving[c])
    BY <1>2 DEF Mapped, Continues
  <2>2. DOMAIN packages \in SUBSET DOMAIN packages  OBVIOUS
  <2>. QED  BY ONLY <1>1, <1>2, <2>1, <2>2, InstancesInv, ReloadKeeps
<1>4. Mapped(disk, Ids)
  BY DEF InstancesInv, SettingsTrue, Mapped
<1>5. \A id \in Ids \ IdsOf(DOMAIN packages) : FALSE
  BY AllIds
<1>. QED
  BY ONLY InstancesInv, <1>2, <1>3, <1>4, <1>5, SettingsKeep

LEMMA InstallKeeps ==
  ASSUME InstancesInv, NEW p \in DOMAIN packages, Instances!Install(p)
  PROVE  InstancesInv'
<1>. DEFINE v == files[p].version + 1
            bare == [version |-> v, sidecar |-> [from |-> v, next |-> Nothing], cache |-> Nothing]
<1>1. PICK meta, file :
        /\ file = IF meta = Nothing THEN bare ELSE Instances!write_probe_cache(bare, v, meta)
        /\ meta # Nothing => meta.of = v
        /\ Instances!Reload([files EXCEPT ![p] = file], {p}, manager, {}, serving)
  <2>. DEFINE told == CASE packages[p].kind = "lnreader" -> Instances!lnreader_run_probe(v) \ {Instances!Failure}
                        [] packages[p].kind = "mangayomi" -> Instances!mangayomi_run_probe(v)
                        [] OTHER -> {Nothing}
  <2>1. \E meta \in told :
          Instances!Reload([files EXCEPT ![p] = IF meta = Nothing THEN bare ELSE Instances!write_probe_cache(bare, v, meta)],
                           {p}, manager, {}, serving)
    BY DEF Instances!Install
  <2>2. \A meta \in told : meta = Nothing \/ meta.of = v
    BY DEF Instances!lnreader_run_probe, Instances!mangayomi_run_probe, Instances!Told, Instances!Failure
  <2>. QED  BY ONLY <2>1, <2>2
<1>2. /\ wrongs' = [wrongs EXCEPT ![p] = {}] /\ stuck' = stuck \ packages[p].ids
      /\ UNCHANGED <<packages, disk, app, manager, serving, apart>>
  BY DEF Instances!Install
<1>3. /\ files = [q \in DOMAIN packages |-> files[q]] /\ wrongs = [q \in DOMAIN packages |-> wrongs[q]]
      /\ \A q \in DOMAIN packages : FileTrue(files[q], wrongs[q]) /\ KeepsOrigin(files[q], wrongs[q])
  BY DEF InstancesInv, FilesTrue, Instances!ProvenanceKept, KeepsOrigin
<1>4. v \in Nat /\ files[p].version \in Nat /\ files[p].version <= v /\ v # files[p].version
  <2>1. files[p].version \in Nat  BY <1>3 DEF FileTrue
  <2>. QED  BY ONLY <2>1
<1>. PICK fs : fs = [files EXCEPT ![p] = file]  OBVIOUS
<1>5. /\ fs[p] = file /\ Mapped(fs, DOMAIN packages) /\ Mapped(wrongs', DOMAIN packages) /\ wrongs'[p] = {}
      /\ \A q \in DOMAIN packages \ {p} : fs[q] = files[q] /\ wrongs'[q] = wrongs[q]
  BY <1>2, <1>3 DEF Mapped
<1>6. FileTrue(file, {}) /\ KeepsOrigin(file, {}) /\ file.version = v
  <2>. HIDE DEF v
  <2>1. CASE meta = Nothing
    BY <1>1, <1>4, <2>1 DEF FileTrue, KeepsOrigin
  <2>2. CASE meta # Nothing
    BY <1>1, <1>4, <2>2 DEF FileTrue, KeepsOrigin, Instances!write_probe_cache
  <2>. QED  BY <2>1, <2>2
<1>7. ASSUME NEW q \in DOMAIN packages
      PROVE  /\ FileTrue(fs[q], wrongs'[q]) /\ files[q].version <= fs[q].version
             /\ fs[q].version = files[q].version => (Late(wrongs[q]) => Late(wrongs'[q]))
             /\ KeepsOrigin(fs[q], wrongs'[q])
  <2>1. CASE q = p  BY ONLY <1>4, <1>5, <1>6, <2>1
  <2>2. CASE q # p
    <3>1. fs[q] = files[q] /\ wrongs'[q] = wrongs[q]  BY ONLY <1>5, <2>2, q \in DOMAIN packages
    <3>2. FileTrue(files[q], wrongs[q]) /\ KeepsOrigin(files[q], wrongs[q])  BY ONLY <1>3, q \in DOMAIN packages
    <3>3. files[q].version \in Nat  BY ONLY <3>2 DEF FileTrue
    <3>4. files[q].version <= files[q].version  BY ONLY <3>3
    <3>. QED  BY ONLY <3>1, <3>2, <3>4
  <2>. QED  BY <2>1, <2>2
<1>8. /\ Mapped(serving', Ongoing) /\ \A c \in Ongoing : Continues(serving'[c], serving[c])
      /\ NamesTrue(registered, serving) /\ DOMAIN instances = Instances!InUse(registered, serving)
  BY <1>2 DEF InstancesInv, RegistryTrue, NamesTrue, Mapped, Continues
<1>9. Reloaded(fs, {p}, manager, {}, serving')
  <2>1. ASSUME NEW c \in Ongoing
        PROVE  /\ DOMAIN serving'[c] = {"at", "of", "note"} /\ serving'[c].of = serving[c].of
               /\ serving'[c].at = "idle" <=> serving[c].at = "idle"
    <3>1. serving' = serving  BY ONLY <1>2
    <3>2. DOMAIN serving[c] = {"at", "of", "note"} /\ (serving[c].at = "idle" <=> serving[c].of = Nothing)
      BY DEF InstancesInv, RegistryTrue, NamesTrue
    <3>. QED  BY ONLY <3>1, <3>2
  <2>2. {p} \in SUBSET DOMAIN packages  OBVIOUS
  <2>3. Instances!Reload(fs, {p}, manager, {}, serving')  BY ONLY <1>1, <1>2, fs = [files EXCEPT ![p] = file]
  <2>. QED  BY ONLY <1>8, <2>1, <2>2, <2>3, Reloads DEF Mapped
<1>10. FilesTrue' /\ RegistryTrue' /\ CallsTrue' /\ SettingsOf({p}, manager)
  <2>1. {p} \in SUBSET DOMAIN packages  OBVIOUS
  <2>. QED  BY ONLY InstancesInv, <1>2, <1>5, <1>7, <1>8, <1>9, <2>1, LoadKeeps
<1>11. Mapped(disk', Ids) /\ Mapped(app', Ids) /\ Mapped(manager, Ids) /\ \A id \in Ids : manager[id] = app'[id] \/ id \in apart'
  BY <1>2 DEF InstancesInv, SettingsTrue, Mapped
<1>12. \A id : id \in IdsOf({p}) <=> id \in packages[p].ids
  BY DEF IdsOf, Instances!IdsOf
<1>13. \A id \in Ids \ IdsOf({p}) : id \in stuck' \/ id \notin stuck
  BY <1>2, <1>12
<1>. QED
  BY ONLY InstancesInv, <1>2, <1>10, <1>11, <1>13, SettingsKeep

\* A source has stored a setting: all packages are loaded again, or none if their folder cannot
\* be read.
LEMMA UpdateKeeps ==
  ASSUME InstancesInv, NEW c \in Ongoing, Instances!update_source_setting(c)
  PROVE  InstancesInv'
<1>. DEFINE id == serving[c].of[1]
            settings == [manager EXCEPT ![id] = serving[c].note]
<1>1. /\ serving[c].at = "saving" /\ manager' = settings /\ apart' = apart \cup {id}
      /\ serving' = [serving EXCEPT ![c] = [@ EXCEPT !.at = "running", !.note = Nothing]]
      /\ UNCHANGED <<packages, disk, app, wrongs>>
      /\ \/ /\ \E lost : Instances!Reload(files, DOMAIN packages, settings, lost, serving')
            /\ stuck' = {}
         \/ UNCHANGED <<registered, instances, files>> /\ stuck' = stuck \cup {id}
  BY DEF Instances!update_source_setting, Instances!load_all_sources, Instances!Goes, Instances!Own
<1>2. /\ NamesTrue(registered, serving) /\ DOMAIN instances = Instances!InUse(registered, serving)
      /\ \A d \in Ongoing : DOMAIN serving[d] = {"at", "of", "note"}
      /\ \A d \in Ongoing : serving[d].at = "idle" <=> serving[d].of = Nothing
      /\ Mapped(serving, Ongoing)
  BY DEF InstancesInv, RegistryTrue, NamesTrue, Mapped
<1>3. id \in Ids
  <2>1. serving[c].of # Nothing  BY <1>1, <1>2
  <2>. QED  BY <2>1, InUseMembers DEF InstancesInv
<1>4. /\ serving'[c] = [serving[c] EXCEPT !.at = "running", !.note = Nothing]
      /\ \A d \in Ongoing \ {c} : serving'[d] = serving[d]
      /\ Mapped(serving', Ongoing)
  BY <1>1, <1>2 DEF Mapped
<1>5. \A d \in Ongoing : Continues(serving'[d], serving[d])
  BY <1>1, <1>4 DEF Continues
<1>6. /\ Mapped(manager, Ids) /\ Mapped(app', Ids) /\ Mapped(disk', Ids) /\ Mapped(settings, Ids)
      /\ \A x \in Ids : settings[x] = app'[x] \/ x \in apart'
      /\ \A x \in Ids \ {id} : settings[x] = manager[x]
  <2>1. /\ Mapped(manager, Ids) /\ Mapped(app', Ids) /\ Mapped(disk', Ids)
        /\ \A x \in Ids : manager[x] = app'[x] \/ x \in apart
    BY <1>1 DEF InstancesInv, SettingsTrue, Mapped
  <2>2. Mapped(settings, Ids) /\ \A x \in Ids \ {id} : settings[x] = manager[x]
    BY <2>1 DEF Mapped
  <2>. HIDE DEF id, settings
  <2>3. apart' = apart \cup {id}  BY ONLY <1>1
  <2>. QED  BY ONLY <2>1, <2>2, <2>3
<1>. HIDE DEF id, settings
<1>7. CASE (\E lost : Instances!Reload(files, DOMAIN packages, settings, lost, serving')) /\ stuck' = {}
  <2>1. PICK lost : Instances!Reload(files, DOMAIN packages, settings, lost, serving')  BY <1>7
  <2>2. DOMAIN packages \in SUBSET DOMAIN packages  OBVIOUS
  <2>3. FilesTrue' /\ RegistryTrue' /\ CallsTrue' /\ SettingsOf(DOMAIN packages, settings)
    BY ONLY <1>1, <1>4, <1>5, <2>1, <2>2, InstancesInv, ReloadKeeps
  <2>4. \A x \in Ids \ IdsOf(DOMAIN packages) : FALSE
    BY AllIds
  <2>. QED  BY ONLY InstancesInv, <1>1, <1>6, <2>3, <2>4, SettingsKeep
<1>8. CASE UNCHANGED <<registered, instances, files>> /\ stuck' = stuck \cup {id}
  <2>. PICK none : none = {}  OBVIOUS
  <2>1. files = [p \in DOMAIN packages |-> files[p]] /\ wrongs = [p \in DOMAIN packages |-> wrongs[p]]
    BY DEF InstancesInv, FilesTrue
  <2>2. \A d \in Ongoing : \/ serving'[d] = Instances!Idle
                           \/ /\ DOMAIN serving'[d] = {"at", "of", "note"} /\ serving'[d].of = serving[d].of
                              /\ serving'[d] = serving[d] \/ (serving[d].at = "saving" /\ serving'[d].at = "running")
    BY ONLY <1>2, <1>5, ContinuesIs
  <2>3. serving'[c].of = serving[c].of /\ serving'[c].at = "running" /\ DOMAIN serving'[c] = {"at", "of", "note"}
    BY ONLY <1>2, <1>4, c \in Ongoing
  <2>4. NamesTrue(registered', serving')
    <3>1. \A d \in Ongoing : /\ DOMAIN serving'[d] = {"at", "of", "note"} /\ serving'[d].of = serving[d].of
                             /\ serving'[d].at = "idle" <=> serving'[d].of = Nothing
      BY ONLY <1>1, <1>2, <1>4, <2>3
    <3>2. registered' = registered  BY ONLY <1>8
    <3>. QED  BY ONLY <1>2, <1>4, <3>1, <3>2 DEF NamesTrue, Mapped
  <2>5. \A n : n \in Instances!InUse(registered', serving') <=> n \in Instances!InUse(registered, serving)
    <3>1. \A d \in Ongoing : serving'[d].of = serving[d].of
      BY ONLY <1>4, <2>3
    <3>. QED  BY ONLY <1>2, <1>8, <2>4, <3>1, InUseIs
  <2>6. DOMAIN instances' = Instances!InUse(registered', serving')
    BY ONLY <1>2, <1>8, <2>5
  <2>7. Reloaded(files, none, settings, none, serving')
    <3>1. files' = [p \in DOMAIN files |-> IF p \in none \ none THEN Instances!AfterLoad(packages[p].kind, files[p])
                                           ELSE files[p]]
      BY <1>8, <2>1
    <3>2. \A id2 : id2 \notin IdsOf(none)
      BY DEF IdsOf, Instances!IdsOf
    <3>3. instances' = instances /\ registered' = registered  BY ONLY <1>8
    <3>. QED  BY ONLY <2>4, <2>6, <3>1, <3>2, <3>3 DEF Reloaded
  <2>8. ASSUME NEW p \in DOMAIN packages
        PROVE  /\ FileTrue(files[p], wrongs'[p]) /\ files[p].version <= files[p].version
               /\ files[p].version = files[p].version => (Late(wrongs[p]) => Late(wrongs'[p]))
               /\ KeepsOrigin(files[p], wrongs'[p])
    <3>1. FileTrue(files[p], wrongs[p]) /\ KeepsOrigin(files[p], wrongs[p])
      BY DEF InstancesInv, FilesTrue, Instances!ProvenanceKept, KeepsOrigin
    <3>2. files[p].version \in Nat  BY ONLY <3>1 DEF FileTrue
    <3>3. files[p].version <= files[p].version  BY ONLY <3>2
    <3>4. wrongs' = wrongs  BY <1>1
    <3>. QED  BY ONLY <3>1, <3>3, <3>4
  <2>9. FilesTrue' /\ RegistryTrue' /\ CallsTrue' /\ SettingsOf(none, settings)
    <3>1. Mapped(files, DOMAIN packages) /\ Mapped(wrongs', DOMAIN packages) /\ none \in SUBSET DOMAIN packages
      BY <1>1, <2>1 DEF Mapped
    <3>. QED  BY ONLY InstancesInv, <1>1, <1>4, <1>5, <2>7, <2>8, <3>1, LoadKeeps
  <2>10. \A x \in Ids \ IdsOf(none) : registered[x] # Nothing =>
           \/ x \in stuck'
           \/ /\ x \notin stuck /\ settings[x] = manager[x]
              /\ SavingIn(serving, registered[x]) => SavingIn(serving', registered[x])
    <3>. TAKE x \in Ids \ IdsOf(none)
    <3>. HAVE registered[x] # Nothing
    <3>1. CASE x = id  BY <1>8, <3>1
    <3>2. CASE x # id
      <4>1. settings[x] = manager[x]  BY <1>6, <3>2
      <4>2. ASSUME SavingIn(serving, registered[x]) PROVE SavingIn(serving', registered[x])
        <5>1. PICK d \in Ongoing : serving[d].of = registered[x] /\ serving[d].at = "saving"  BY <4>2 DEF SavingIn
        <5>2. registered[x][1] = x  BY <1>2 DEF NamesTrue
        <5>3. d # c  BY <3>2, <5>1, <5>2 DEF id
        <5>. QED  BY ONLY <1>4, <5>1, <5>3 DEF SavingIn
      <4>. QED  BY <1>8, <4>1, <4>2
    <3>. QED  BY <3>1, <3>2
  <2>. QED  BY ONLY InstancesInv, <1>1, <1>6, <2>9, <2>10, SettingsKeep
<1>. QED
  BY ONLY <1>1, <1>7, <1>8

LEMMA TakeKeeps ==
  ASSUME InstancesInv, NEW c \in Ongoing, NEW id \in Ids, Instances!Take(c, id)
  PROVE  InstancesInv'
<1>1. /\ serving[c].at = "idle" /\ registered[id] # Nothing
      /\ serving' = [serving EXCEPT ![c] = [Instances!Idle EXCEPT !.at = "taken", !.of = registered[id]]]
      /\ UNCHANGED <<packages, files, disk, app, manager, registered, instances, wrongs, apart, stuck>>
  BY DEF Instances!Take
<1>2. /\ NamesTrue(registered, serving) /\ DOMAIN instances = Instances!InUse(registered, serving)
      /\ Mapped(serving, Ongoing)
      /\ serving[c].of = Nothing /\ registered[id][1] = id /\ registered[id] \in DOMAIN instances
  BY <1>1, InUseMembers DEF InstancesInv, RegistryTrue, NamesTrue, Mapped
<1>3. /\ Ids' = Ids /\ \A x : PackageOf(x)' = PackageOf(x) /\ Instances!Kind(x)' = Instances!Kind(x)
  BY <1>1 DEF Ids, PackageOf, Instances!Ids, Instances!PackageOf, Instances!Kind
<1>4. /\ DOMAIN serving'[c] = {"at", "of", "note"} /\ serving'[c].at = "taken" /\ serving'[c].of = registered[id]
      /\ \A d \in Ongoing \ {c} : serving'[d] = serving[d]
      /\ Mapped(serving', Ongoing)
  BY <1>1, <1>2 DEF Mapped, Instances!Idle
<1>5. NamesTrue(registered, serving')
  BY <1>1, <1>2, <1>4 DEF NamesTrue, Mapped
<1>6. \A n : n \in Instances!InUse(registered, serving') <=> n \in Instances!InUse(registered, serving)
  BY ONLY <1>2, <1>4, <1>5, id \in Ids, InUseIs
<1>7. RegistryTrue'
  <2>1. NamesTrue(registered, serving)'  BY <1>1, <1>3, <1>5 DEF NamesTrue
  <2>2. DOMAIN instances' = Instances!InUse(registered, serving)'
    BY <1>1, <1>2, <1>6 DEF Instances!InUse, Instances!Range
  <2>3. \A n \in DOMAIN instances : Describes(instances[n], Version(n), Wrong(n))
    BY DEF InstancesInv, RegistryTrue
  <2>4. \A n : Version(n)' = Version(n) /\ Wrong(n)' = Wrong(n)
    BY <1>1, <1>3 DEF Version, Wrong
  <2>. QED  BY ONLY <1>1, <2>1, <2>2, <2>3, <2>4 DEF RegistryTrue
<1>8. CallsTrue'
  <2>1. ASSUME NEW d \in Ongoing, serving'[d].at \notin {"idle", "taken"}
        PROVE  /\ \A e \in Ongoing \ {d} : serving'[e].of = serving'[d].of => serving'[e].at = "taken"
               /\ CallTrue(serving'[d], instances'[serving'[d].of], Version(serving'[d].of), KindOf(serving'[d].of))
    <3>1. d # c /\ serving'[d] = serving[d]  BY ONLY <1>4, <2>1
    <3>2. /\ Alone(d)
          /\ CallTrue(serving[d], instances[serving[d].of], Version(serving[d].of), KindOf(serving[d].of))
      BY <2>1, <3>1 DEF InstancesInv, CallsTrue
    <3>. QED  BY ONLY <1>1, <1>4, <3>1, <3>2 DEF Alone
  <2>2. ASSUME NEW d \in Ongoing, serving'[d].at \notin {"idle", "taken"}
        PROVE  (Alone(d) /\ CallTrue(serving[d], instances[serving[d].of], Version(serving[d].of), KindOf(serving[d].of)))'
    <3>1. Version(serving[d].of)' = Version(serving'[d].of) /\ KindOf(serving[d].of)' = KindOf(serving'[d].of)
      BY <1>1, <1>3 DEF KindOf, Version
    <3>. QED  BY <2>1, <2>2, <3>1 DEF Alone
  <2>. QED  BY <2>2 DEF CallsTrue
<1>9. SettingsTrue'
  <2>1. \A x \in Ids : Saving(registered[x]) => SavingIn(serving', registered[x])
    BY <1>1, <1>4 DEF Saving, SavingIn
  <2>2. /\ app = [x \in Ids |-> app[x]] /\ manager = [x \in Ids |-> manager[x]]
        /\ disk = [x \in Ids |-> disk[x]]
        /\ \A x \in Ids : manager[x] = app[x] \/ x \in apart
        /\ \A x \in Ids : registered[x] # Nothing =>
             \/ x \in stuck \/ SavingIn(serving', registered[x])
             \/ Has(instances[registered[x]], Instances!StoredIn(manager, x))
    BY <2>1 DEF InstancesInv, SettingsTrue
  <2>. QED  BY ONLY <1>1, <1>3, <2>2 DEF SettingsTrue, Saving, SavingIn, Instances!StoredIn
<1>10. FilesTrue'
  BY <1>1 DEF InstancesInv, FilesTrue, Instances!ProvenanceKept
<1>. QED
  BY <1>7, <1>8, <1>9, <1>10 DEF InstancesInv

\* A step that only moves packages ahead.
LEMMA AheadKeeps ==
  ASSUME InstancesInv, FilesTrue',
         \A p \in DOMAIN packages :
           /\ files[p].version <= files'[p].version
           /\ files'[p].version = files[p].version => (Late(wrongs[p]) => Late(wrongs'[p])),
         UNCHANGED <<packages, disk, app, manager, registered, instances, serving, apart, stuck>>
  PROVE  InstancesInv'
<1>1. /\ Ids' = Ids /\ \A id : PackageOf(id)' = PackageOf(id) /\ Instances!Kind(id)' = Instances!Kind(id)
  BY DEF Ids, PackageOf, Instances!Ids, Instances!PackageOf, Instances!Kind
<1>2. \A n \in DOMAIN instances : n[1] \in Ids /\ PackageOf(n[1]) \in DOMAIN packages
  BY InUseMembers DEF InstancesInv
<1>3. \A p \in DOMAIN packages : files[p].version \in Nat /\ files'[p].version \in Nat
  BY DEF InstancesInv, FilesTrue, FileTrue
<1>4. \A n \in DOMAIN instances : /\ Version(n) \in Nat /\ Version(n)' \in Nat /\ Version(n) <= Version(n)'
                                  /\ Version(n)' = Version(n) => (Late(Wrong(n)) => Late(Wrong(n)'))
                                  /\ KindOf(n)' = KindOf(n)
  BY <1>1, <1>2, <1>3 DEF Version, Wrong, KindOf
<1>5. \A n \in DOMAIN instances : Describes(instances[n], Version(n), Wrong(n))
  BY DEF InstancesInv, RegistryTrue
<1>6. \A n \in DOMAIN instances : Describes(instances[n], Version(n)', Wrong(n)')
  BY ONLY <1>4, <1>5, Ages
<1>7. RegistryTrue'
  <2>1. NamesTrue(registered, serving)'
    BY <1>1 DEF NamesTrue, InstancesInv, RegistryTrue
  <2>2. DOMAIN instances' = Instances!InUse(registered, serving)'
    BY DEF InstancesInv, RegistryTrue, Instances!InUse, Instances!Range
  <2>. QED  BY <1>6, <2>1, <2>2 DEF RegistryTrue
<1>8. CallsTrue'
  <2>1. ASSUME NEW c \in Ongoing, serving[c].at \notin {"idle", "taken"}
        PROVE  Alone(c)' /\ CallTrue(serving[c], instances[serving[c].of], Version(serving[c].of), KindOf(serving[c].of))'
    <3>1. /\ Alone(c) /\ serving[c].of \in DOMAIN instances
          /\ CallTrue(serving[c], instances[serving[c].of], Version(serving[c].of), KindOf(serving[c].of))
      BY <2>1, InUseMembers DEF InstancesInv, CallsTrue, RegistryTrue, NamesTrue
    <3>. PICK n : n = serving[c].of  OBVIOUS
    <3>. PICK x : x = serving[c]  OBVIOUS
    <3>. PICK i : i = instances[n]  OBVIOUS
    <3>2. CallTrue(x, i, Version(n)', KindOf(n))
      <4>1. Describes(i, Version(n), Wrong(n)) /\ CallTrue(x, i, Version(n), KindOf(n)) /\ n \in DOMAIN instances
        BY <1>5, <3>1
      <4>. QED  BY ONLY <1>4, <4>1, OlderCalls
    <3>3. Version(serving[c].of)' = Version(n)' /\ KindOf(serving[c].of)' = KindOf(n)
      <4>1. serving' = serving  OBVIOUS
      <4>. QED  BY <1>1, <4>1 DEF Version, KindOf
    <3>. QED  BY <3>1, <3>2, <3>3 DEF Alone
  <2>. QED  BY <2>1 DEF CallsTrue
<1>9. SettingsTrue'
  BY <1>1 DEF InstancesInv, SettingsTrue, Saving, Instances!StoredIn
<1>. QED
  BY <1>7, <1>8, <1>9 DEF InstancesInv

LEMMA OverwriteKeeps ==
  ASSUME InstancesInv, NEW p \in DOMAIN packages, Instances!Overwrite(p)
  PROVE  InstancesInv'
<1>1. /\ files' = [files EXCEPT ![p].version = @ + 1]
      /\ wrongs' = [wrongs EXCEPT ![p] = @ \cup {"overwritten"}]
      /\ UNCHANGED <<packages, disk, app, manager, registered, instances, serving, apart, stuck>>
  BY DEF Instances!Overwrite
<1>2. /\ packages \in Collections
      /\ files = [q \in DOMAIN packages |-> files[q]] /\ wrongs = [q \in DOMAIN packages |-> wrongs[q]]
      /\ \A q \in DOMAIN packages : FileTrue(files[q], wrongs[q])
      /\ Instances!ProvenanceKept
  BY DEF InstancesInv, FilesTrue
<1>3. files[p].version \in Nat /\ DOMAIN files[p] = {"version", "sidecar", "cache"}
  BY <1>2 DEF FileTrue
<1>4. /\ files'[p] = [files[p] EXCEPT !.version = @ + 1] /\ wrongs'[p] = wrongs[p] \cup {"overwritten"}
      /\ \A q \in DOMAIN packages \ {p} : files'[q] = files[q] /\ wrongs'[q] = wrongs[q]
      /\ files' = [q \in DOMAIN packages |-> files'[q]] /\ wrongs' = [q \in DOMAIN packages |-> wrongs'[q]]
  BY <1>1, <1>2
<1>5. /\ files'[p].version = files[p].version + 1 /\ files'[p].sidecar = files[p].sidecar
      /\ files'[p].cache = files[p].cache /\ DOMAIN files'[p] = {"version", "sidecar", "cache"}
  BY ONLY <1>3, <1>4
<1>6. \A q \in DOMAIN packages : FileTrue(files'[q], wrongs'[q])
  <2>1. FileTrue(files[p], wrongs[p]) /\ wrongs'[p] = wrongs[p] \cup {"overwritten"}
    BY <1>2, <1>4
  <2>2. Late(wrongs[p]) => Late(wrongs'[p])  BY ONLY <2>1, Zenon DEF Late
  <2>3. FileTrue(files'[p], wrongs'[p])  BY ONLY <1>3, <1>5, <2>1, <2>2 DEF FileTrue
  <2>. QED  BY <1>2, <1>4, <2>3
<1>7. Instances!ProvenanceKept'
  BY <1>1, <1>2, <1>4 DEF Instances!ProvenanceKept
<1>8. FilesTrue'
  BY <1>1, <1>2, <1>4, <1>6, <1>7 DEF FilesTrue
<1>9. ASSUME NEW q \in DOMAIN packages
      PROVE  /\ files[q].version <= files'[q].version
             /\ files'[q].version = files[q].version => (Late(wrongs[q]) => Late(wrongs'[q]))
  <2>1. files[q].version \in Nat  BY <1>2 DEF FileTrue
  <2>2. CASE q = p  BY ONLY <1>3, <1>5, <2>2
  <2>3. CASE q # p  BY <1>4, <2>1, <2>3
  <2>. QED  BY <2>2, <2>3
<1>. QED
  BY <1>1, <1>8, <1>9, AheadKeeps

LEMMA SameFiles ==
  ASSUME InstancesInv, UNCHANGED <<packages, files, wrongs>>
  PROVE  FilesTrue' /\ \A p \in DOMAIN packages : /\ files'[p].version = files[p].version
                                                  /\ Late(wrongs[p]) => Late(wrongs'[p])
  BY DEF InstancesInv, FilesTrue, Instances!ProvenanceKept

\* A call that works has an instance of an installed package.
LEMMA Working ==
  ASSUME InstancesInv, NEW c \in Ongoing, serving[c].at # "idle"
  PROVE  /\ DOMAIN serving[c] = {"at", "of", "note"} /\ serving[c].of # Nothing
         /\ serving[c].of \in DOMAIN instances /\ serving[c].of[1] \in Ids
         /\ PackageOf(serving[c].of[1]) \in DOMAIN packages
         /\ Describes(instances[serving[c].of], Version(serving[c].of), Wrong(serving[c].of))
         /\ FileTrue(files[PackageOf(serving[c].of[1])], Wrong(serving[c].of))
         /\ Version(serving[c].of) = files[PackageOf(serving[c].of[1])].version
         /\ serving[c].at # "taken" =>
              Alone(c) /\ CallTrue(serving[c], instances[serving[c].of], Version(serving[c].of), KindOf(serving[c].of))
<1>1. DOMAIN serving[c] = {"at", "of", "note"} /\ serving[c].of # Nothing
  BY DEF InstancesInv, RegistryTrue, NamesTrue
<1>2. serving[c].of \in DOMAIN instances /\ serving[c].of[1] \in Ids /\ PackageOf(serving[c].of[1]) \in DOMAIN packages
  BY <1>1, InUseMembers DEF InstancesInv
<1>3. Describes(instances[serving[c].of], Version(serving[c].of), Wrong(serving[c].of))
  BY <1>2 DEF InstancesInv, RegistryTrue
<1>4. FileTrue(files[PackageOf(serving[c].of[1])], Wrong(serving[c].of))
  BY <1>2 DEF InstancesInv, FilesTrue, Wrong
<1>5. serving[c].at # "taken" =>
        Alone(c) /\ CallTrue(serving[c], instances[serving[c].of], Version(serving[c].of), KindOf(serving[c].of))
  BY DEF InstancesInv, CallsTrue
<1>. QED
  BY ONLY <1>1, <1>2, <1>3, <1>4, <1>5 DEF Version

\* A call ends, and one goes on, with its instance in another state.
LEMMA EndKeeps ==
  ASSUME InstancesInv, NEW c \in Ongoing, serving[c].at \notin {"idle", "saving"}, Alone(c),
         serving' = Instances!Ends(c),
         NEW i, Describes(i, Version(serving[c].of), Wrong(serving[c].of)),
         \A settings : Has(instances[serving[c].of], settings) => Has(i, settings),
         Moves(serving[c].of, i),
         FilesTrue', \A p \in DOMAIN packages : /\ files'[p].version = files[p].version
                                                /\ Late(wrongs[p]) => Late(wrongs'[p]),
         UNCHANGED <<packages, disk, app, manager, registered, apart, stuck>>
  PROVE  InstancesInv'
<1>1. serving[c].of # Nothing
  BY Working
<1>. PICK x : x = Instances!Idle  OBVIOUS
<1>2. DOMAIN x = {"at", "of", "note"} /\ x.at = "idle" /\ x.of = Nothing
  BY DEF Instances!Idle
<1>3. serving' = [serving EXCEPT ![c] = x]
  BY DEF Instances!Ends
<1>. QED
  BY <1>1, <1>2, <1>3, ServeKeeps

LEMMA GoesIs ==
  ASSUME NEW c \in Ongoing, DOMAIN serving[c] = {"at", "of", "note"}, NEW at, NEW note
  PROVE  \E x : /\ DOMAIN x = {"at", "of", "note"} /\ x.at = at /\ x.of = serving[c].of /\ x.note = note
                /\ Instances!Goes(c, at, note) = [serving EXCEPT ![c] = x]
<1>. PICK x : x = [serving[c] EXCEPT !.at = at, !.note = note]  OBVIOUS
<1>1. DOMAIN x = {"at", "of", "note"} /\ x.at = at /\ x.of = serving[c].of /\ x.note = note
  BY ONLY DOMAIN serving[c] = {"at", "of", "note"}, x = [serving[c] EXCEPT !.at = at, !.note = note]
<1>2. Instances!Goes(c, at, note) = [serving EXCEPT ![c] = x]
  BY DEF Instances!Goes
<1>. QED
  BY ONLY <1>1, <1>2

LEMMA GoKeeps ==
  ASSUME InstancesInv, NEW c \in Ongoing, serving[c].at \notin {"idle", "saving"}, Alone(c),
         NEW x, DOMAIN x = {"at", "of", "note"}, x.at # "idle", x.of = serving[c].of,
         serving' = [serving EXCEPT ![c] = x],
         NEW i, Describes(i, Version(serving[c].of), Wrong(serving[c].of)),
         CallTrue(x, i, Version(serving[c].of), KindOf(serving[c].of)),
         x.at = "saving" \/ \A settings : Has(instances[serving[c].of], settings) => Has(i, settings),
         Moves(serving[c].of, i),
         FilesTrue', \A p \in DOMAIN packages : /\ files'[p].version = files[p].version
                                                /\ Late(wrongs[p]) => Late(wrongs'[p]),
         UNCHANGED <<packages, disk, app, manager, registered, apart, stuck>>
  PROVE  InstancesInv'
<1>1. serving[c].of # Nothing
  BY Working
<1>. QED
  BY <1>1, ServeKeeps

\* What a call is told of the code of its instance is true of the instance.
LEMMA ProbedIs ==
  ASSUME NEW kind \in {"lnreader", "mangayomi"}, NEW i, NEW v, NEW w, Describes(i, v, w), NEW meta,
         meta # Instances!Failure => meta.of = i.code \/ i.code # v \/ Late(w),
         NEW j, j = Instances!Probed(kind, i, meta)
  PROVE  Describes(j, v, w) /\ \A settings : Has(i, settings) => Has(j, settings)
<1>1. DOMAIN i = InstanceFields
  BY DEF Describes
<1>2. CASE j = [i EXCEPT !.meta = Instances!Failure]
  <2>1. /\ DOMAIN j = InstanceFields /\ j.code = i.code /\ j.stored = i.stored /\ j.engine = i.engine
        /\ j.meta = Instances!Failure
    BY ONLY <1>1, <1>2 DEF InstanceFields
  <2>. QED  BY <2>1 DEF Describes, Has
<1>3. CASE kind = "lnreader" /\ meta # Instances!Failure /\ j # [i EXCEPT !.meta = Instances!Failure]
  <2>1. j = Instances!build_probed(i, meta)
    BY <1>3 DEF Instances!Probed
  <2>2. PICK d, p : j = [i EXCEPT !.meta = meta, !.defaults = d,
                           !.engine = [code |-> i.code, next |-> FALSE, seed |-> Instances!storage_seed(i, p, d)]]
    BY <1>3, <2>1 DEF Instances!build_probed
  <2>3. /\ DOMAIN j = InstanceFields /\ j.code = i.code /\ j.stored = i.stored /\ j.meta = meta
        /\ j.engine.code = i.code /\ j.engine.seed = Instances!storage_seed(i, p, d)
    BY ONLY <1>1, <2>2 DEF InstanceFields
  <2>4. \A k \in DOMAIN i.stored : k \in DOMAIN j.engine.seed => j.engine.seed[k] = i.stored[k]
    BY ONLY <2>3 DEF Instances!storage_seed, Instances!Restrict, Instances!Over
  <2>5. Describes(j, v, w)
    BY ONLY <1>3, <2>3, Describes(i, v, w), meta # Instances!Failure => meta.of = i.code \/ i.code # v \/ Late(w)
       DEF Describes
  <2>6. \A settings : Has(i, settings) => Has(j, settings)
    BY ONLY <2>3, <2>4 DEF Has
  <2>. QED  BY <2>5, <2>6
<1>4. CASE kind = "mangayomi" /\ meta # Instances!Failure
  <2>1. PICK d : j = [[i EXCEPT !.stored = Instances!Over(@, d)] EXCEPT !.meta = meta]
    BY <1>4 DEF Instances!Probed, Instances!seed_defaults
  <2>2. /\ DOMAIN j = InstanceFields /\ j.code = i.code /\ j.stored = Instances!Over(i.stored, d) /\ j.meta = meta
        /\ j.engine = i.engine
    BY ONLY <1>1, <2>1 DEF InstanceFields
  <2>3. \A k \in DOMAIN i.stored : k \in DOMAIN j.stored /\ j.stored[k] = i.stored[k]
    BY ONLY <2>2 DEF Instances!Over
  <2>4. Describes(j, v, w)
    BY ONLY <1>4, <2>2, Describes(i, v, w), meta # Instances!Failure => meta.of = i.code \/ i.code # v \/ Late(w)
       DEF Describes
  <2>5. \A settings : Has(i, settings) => Has(j, settings)
    BY ONLY <2>2, <2>3 DEF Has
  <2>. QED  BY <2>4, <2>5
<1>5. meta = Instances!Failure => j = [i EXCEPT !.meta = Instances!Failure]
  BY DEF Instances!Probed
<1>. QED
  BY ONLY <1>2, <1>3, <1>4, <1>5, kind \in {"lnreader", "mangayomi"}

\* An instance whose engine was started, and one that has stored a setting.
LEMMA StartedIs ==
  ASSUME NEW i, NEW v, NEW w, Describes(i, v, w), NEW engine, engine.code = i.code \/ i.code # v,
         \A k \in DOMAIN i.stored : k \in DOMAIN engine.seed => engine.seed[k] = i.stored[k],
         NEW j, j = [i EXCEPT !.engine = engine]
  PROVE  Describes(j, v, w) /\ \A settings : Has(i, settings) => Has(j, settings)
<1>1. DOMAIN i = InstanceFields
  BY DEF Describes
<1>2. /\ DOMAIN j = InstanceFields /\ j.code = i.code /\ j.stored = i.stored /\ j.meta = i.meta
      /\ j.engine = engine
  BY ONLY <1>1, j = [i EXCEPT !.engine = engine] DEF InstanceFields
<1>3. Describes(j, v, w)
  BY ONLY <1>2, Describes(i, v, w), engine.code = i.code \/ i.code # v DEF Describes
<1>. QED
  BY <1>2, <1>3 DEF Has

LEMMA SetIs ==
  ASSUME NEW i, NEW v, NEW w, Describes(i, v, w), NEW key, NEW value, NEW j, j = Instances!set(i, key, value)
  PROVE  Describes(j, v, w)
<1>1. DOMAIN i = InstanceFields
  BY DEF Describes
<1>2. DOMAIN j = InstanceFields /\ j.code = i.code /\ j.meta = i.meta /\ j.engine = i.engine
  BY <1>1 DEF InstanceFields, Instances!set
<1>. QED
  BY ONLY <1>2, Describes(i, v, w) DEF Describes

LEMMA EnsureProbedKeeps ==
  ASSUME InstancesInv, NEW c \in Ongoing, Instances!ensure_probed(c)
  PROVE  InstancesInv'
<1>. DEFINE o == serving[c].of
            i == instances[o]
            file == files[PackageOf(o[1])]
            cached == Instances!read_probe_cache(file)
<1>1. /\ serving[c].at = "taken" /\ Alone(c) /\ KindOf(o) \in {"lnreader", "mangayomi"}
      /\ UNCHANGED <<packages, files, disk, app, manager, registered, wrongs, apart, stuck>>
      /\ \/ Instances!With(i, c, Instances!Ends(c))
         \/ cached # Nothing /\ Instances!With(Instances!Probed(KindOf(o), i, cached), c, Instances!Ends(c))
         \/ Instances!With(i, c, Instances!Goes(c, "evaluating", file.version))
  BY DEF Instances!ensure_probed, Instances!Own, Instances!Free, Instances!File, Instances!KindOf, KindOf, Alone,
         PackageOf
<1>2. /\ o # Nothing /\ Describes(i, Version(o), Wrong(o)) /\ FileTrue(file, Wrong(o)) /\ Version(o) = file.version
  BY <1>1, Working
<1>3. /\ FilesTrue' /\ \A p \in DOMAIN packages : /\ files'[p].version = files[p].version
                                                 /\ Late(wrongs[p]) => Late(wrongs'[p])
      /\ UNCHANGED <<packages, disk, app, manager, registered, apart, stuck>>
  BY <1>1, SameFiles
<1>4. RegistryTrue
  BY DEF InstancesInv
<1>. PICK j : j = Instances!Probed(KindOf(o), i, cached)  OBVIOUS
<1>5. cached # Nothing => Describes(j, Version(o), Wrong(o)) /\ \A settings : Has(i, settings) => Has(j, settings)
  <2>1. cached # Nothing => cached.of = file.version \/ Late(Wrong(o))
    BY <1>2 DEF FileTrue, Instances!read_probe_cache
  <2>2. cached # Nothing => cached.of = i.code \/ i.code # Version(o) \/ Late(Wrong(o))
    BY <1>2, <2>1
  <2>. HIDE DEF i, o, cached
  <2>. QED  BY ONLY <1>1, <1>2, <2>2, j = Instances!Probed(KindOf(o), i, cached), ProbedIs
<1>6. CASE Instances!With(i, c, Instances!Ends(c))
  <2>1. serving' = Instances!Ends(c) /\ Moves(o, i)
    BY ONLY <1>2, <1>4, <1>6, c \in Ongoing, WithMoves
  <2>2. serving[c].at \notin {"idle", "saving"}  BY ONLY <1>1
  <2>. QED  BY ONLY InstancesInv, c \in Ongoing, <1>1, <1>2, <1>3, <2>1, <2>2, EndKeeps
<1>7. CASE cached # Nothing /\ Instances!With(j, c, Instances!Ends(c))
  <2>1. serving' = Instances!Ends(c) /\ Moves(o, j)
    BY ONLY <1>2, <1>4, <1>7, c \in Ongoing, WithMoves
  <2>2. serving[c].at \notin {"idle", "saving"}  BY ONLY <1>1
  <2>. QED  BY ONLY InstancesInv, c \in Ongoing, <1>1, <1>3, <1>5, <1>7, <2>1, <2>2, EndKeeps
<1>8. CASE Instances!With(i, c, Instances!Goes(c, "evaluating", file.version))
  <2>1. serving' = Instances!Goes(c, "evaluating", file.version) /\ Moves(o, i)
    BY ONLY <1>2, <1>4, <1>8, c \in Ongoing, WithMoves
  <2>2. DOMAIN serving[c] = {"at", "of", "note"} /\ serving[c].at \notin {"idle", "saving"}
    BY <1>1, Working
  <2>. PICK at, note : at = "evaluating" /\ note = file.version  OBVIOUS
  <2>3. PICK x : /\ DOMAIN x = {"at", "of", "note"} /\ x.at = "evaluating" /\ x.of = o
                 /\ serving' = [serving EXCEPT ![c] = x]
    <3>1. \E x : /\ DOMAIN x = {"at", "of", "note"} /\ x.at = at /\ x.of = serving[c].of /\ x.note = note
                 /\ Instances!Goes(c, at, note) = [serving EXCEPT ![c] = x]
      BY ONLY <2>2, c \in Ongoing, GoesIs
    <3>. QED  BY ONLY <2>1, <3>1, at = "evaluating" /\ note = file.version
  <2>4. CallTrue(x, i, Version(o), KindOf(o)) /\ x.at # "idle"
    BY ONLY <1>1, <2>3 DEF CallTrue
  <2>. QED  BY ONLY InstancesInv, c \in Ongoing, <1>1, <1>2, <1>3, <2>1, <2>2, <2>3, <2>4, GoKeeps
<1>. QED
  BY ONLY <1>1, <1>6, <1>7, <1>8, j = Instances!Probed(KindOf(o), i, cached)

LEMMA RunProbeKeeps ==
  ASSUME InstancesInv, NEW c \in Ongoing, Instances!run_probe(c)
  PROVE  InstancesInv'
<1>. DEFINE o == serving[c].of
            i == instances[o]
            p == PackageOf(o[1])
            print == serving[c].note
<1>1. serving[c].at = "evaluating" /\ UNCHANGED <<packages, disk, app, manager, registered, apart, stuck>>
  BY DEF Instances!run_probe
<1>2. PICK meta \in IF KindOf(o) = "lnreader" THEN Instances!lnreader_run_probe(i.code)
                                            ELSE Instances!mangayomi_run_probe(i.code) :
        /\ files' = IF meta = Instances!Failure THEN files
                    ELSE [files EXCEPT ![p] = Instances!write_probe_cache(@, print, meta)]
        /\ wrongs' = IF meta = Instances!Failure \/ i.code = print THEN wrongs
                     ELSE [wrongs EXCEPT ![p] = @ \cup {"late probe"}]
        /\ Instances!With(Instances!Probed(KindOf(o), i, meta), c, Instances!Ends(c))
  BY DEF Instances!run_probe, Instances!Own, Instances!KindOf, KindOf, PackageOf
<1>3. meta # Instances!Failure => meta.of = i.code
  BY DEF Instances!lnreader_run_probe, Instances!mangayomi_run_probe, Instances!Told
<1>4. /\ o # Nothing /\ p \in DOMAIN packages /\ Describes(i, Version(o), Wrong(o)) /\ Alone(c)
      /\ KindOf(o) \in {"lnreader", "mangayomi"}
  BY <1>1, Working DEF CallTrue
<1>. PICK j : j = Instances!Probed(KindOf(o), i, meta)  OBVIOUS
<1>5. Describes(j, Version(o), Wrong(o)) /\ \A settings : Has(i, settings) => Has(j, settings)
  <2>. HIDE DEF i, o
  <2>. QED  BY ONLY <1>3, <1>4, j = Instances!Probed(KindOf(o), i, meta), ProbedIs
<1>6. /\ packages \in Collections
      /\ files = [q \in DOMAIN packages |-> files[q]] /\ wrongs = [q \in DOMAIN packages |-> wrongs[q]]
      /\ \A q \in DOMAIN packages : FileTrue(files[q], wrongs[q]) /\ KeepsOrigin(files[q], wrongs[q])
  BY DEF InstancesInv, FilesTrue, Instances!ProvenanceKept, KeepsOrigin
<1>. HIDE DEF i, p, print
<1>7. ASSUME meta # Instances!Failure
      PROVE  /\ files'[p] = Instances!write_probe_cache(files[p], print, meta)
             /\ \A q \in DOMAIN packages \ {p} : files'[q] = files[q] /\ wrongs'[q] = wrongs[q]
             /\ wrongs'[p] = wrongs[p] \cup (IF i.code = print THEN {} ELSE {"late probe"})
             /\ files' = [q \in DOMAIN packages |-> files'[q]] /\ wrongs' = [q \in DOMAIN packages |-> wrongs'[q]]
  BY <1>2, <1>4, <1>6, <1>7
<1>8. ASSUME meta # Instances!Failure
      PROVE  /\ files'[p].version = files[p].version
             /\ FileTrue(files'[p], wrongs'[p]) /\ KeepsOrigin(files'[p], wrongs'[p])
             /\ Late(wrongs[p]) => Late(wrongs'[p])
  <2>1. DOMAIN files[p] = {"version", "sidecar", "cache"} /\ FileTrue(files[p], wrongs[p])
    BY <1>4, <1>6 DEF FileTrue
  <2>2. /\ DOMAIN files'[p] = {"version", "sidecar", "cache"} /\ files'[p].version = files[p].version
        /\ files'[p].sidecar = files[p].sidecar
        /\ files'[p].cache.print = print /\ files'[p].cache.meta = meta
    <3>1. files'[p] = Instances!write_probe_cache(files[p], print, meta)  BY ONLY <1>7, <1>8, Zenon
    <3>2. DOMAIN files[p] = {"version", "sidecar", "cache"}  BY ONLY <2>1
    <3>. QED  BY ONLY <3>1, <3>2 DEF Instances!write_probe_cache
  <2>3. (Late(wrongs[p]) => Late(wrongs'[p])) /\ (i.code = print \/ Late(wrongs'[p]))
    BY ONLY <1>7, <1>8, Zenon DEF Late
  <2>4. FileTrue(files'[p], wrongs'[p])
    BY ONLY <1>3, <1>8, <2>1, <2>2, <2>3 DEF FileTrue
  <2>5. wrongs[p] \subseteq wrongs'[p]
    BY ONLY <1>7, <1>8, Zenon
  <2>6. KeepsOrigin(files'[p], wrongs'[p])
    <3>1. KeepsOrigin(files[p], wrongs[p])  BY ONLY <1>4, <1>6
    <3>2. wrongs[p] \cap {"overwritten", "late boot"} # {} => wrongs'[p] \cap {"overwritten", "late boot"} # {}
      BY ONLY <2>5, Zenon
    <3>. QED  BY ONLY <2>2, <3>1, <3>2, Zenon DEF KeepsOrigin
  <2>. QED  BY ONLY <2>2, <2>3, <2>4, <2>6
<1>9. /\ FilesTrue'
      /\ \A q \in DOMAIN packages : /\ files'[q].version = files[q].version
                                    /\ Late(wrongs[q]) => Late(wrongs'[q])
  <2>1. CASE meta = Instances!Failure
    <3>1. UNCHANGED <<packages, files, wrongs>>  BY ONLY <1>1, <1>2, <2>1
    <3>. QED  BY <3>1, SameFiles
  <2>2. CASE meta # Instances!Failure
    <3>1. \A q \in DOMAIN packages : /\ files'[q].version = files[q].version
                                     /\ Late(wrongs[q]) => Late(wrongs'[q])
                                     /\ FileTrue(files'[q], wrongs'[q]) /\ KeepsOrigin(files'[q], wrongs'[q])
      BY ONLY <1>6, <1>7, <1>8, <2>2
    <3>2. FilesTrue'
      BY <1>1, <1>6, <1>7, <2>2, <3>1 DEF FilesTrue, Instances!ProvenanceKept, KeepsOrigin
    <3>. QED  BY ONLY <3>1, <3>2
  <2>. QED  BY <2>1, <2>2
<1>10. serving' = Instances!Ends(c) /\ Moves(o, j)
  <2>1. RegistryTrue  BY DEF InstancesInv
  <2>2. Instances!With(j, c, Instances!Ends(c))  BY ONLY <1>2, j = Instances!Probed(KindOf(o), i, meta)
  <2>. QED  BY ONLY <1>4, <2>1, <2>2, c \in Ongoing, WithMoves
<1>11. serving[c].at \notin {"idle", "saving"}
  BY ONLY <1>1
<1>. QED
  BY ONLY InstancesInv, c \in Ongoing, <1>1, <1>4, <1>5, <1>9, <1>10, <1>11, EndKeeps DEF i

LEMMA InstancesBoot ==
  ASSUME InstancesInv, NEW c \in Ongoing, Instances!boot(c)
  PROVE  InstancesInv'
<1>. DEFINE o == serving[c].of
            i == instances[o]
            file == files[PackageOf(o[1])]
            note(next) == [engine |-> [code |-> file.version, next |-> next, seed |-> Instances!settings_all(i)],
                           sidecar |-> file.sidecar]
<1>1. /\ serving[c].at = "taken" /\ Alone(c)
      /\ UNCHANGED <<packages, files, disk, app, manager, registered, wrongs, apart, stuck>>
      /\ instances' = Instances!Restrict(instances, Instances!InUse(registered, serving'))
  BY DEF Instances!boot, Instances!Own, Instances!Free, Alone
<1>2. \/ serving' = Instances!Ends(c)
      \/ \E next, at : at \in {"starting", "persisting"} /\ serving' = Instances!Goes(c, at, note(next))
  BY DEF Instances!boot, Instances!Own, Instances!File, PackageOf
<1>3. /\ o # Nothing /\ Describes(i, Version(o), Wrong(o)) /\ FileTrue(file, Wrong(o)) /\ Version(o) = file.version
      /\ DOMAIN serving[c] = {"at", "of", "note"} /\ serving[c].at \notin {"idle", "saving"}
      /\ \A settings : Has(i, settings) => Has(i, settings)
  BY <1>1, Working
<1>4. /\ FilesTrue' /\ \A p \in DOMAIN packages : /\ files'[p].version = files[p].version
                                                 /\ Late(wrongs[p]) => Late(wrongs'[p])
      /\ UNCHANGED <<packages, disk, app, manager, registered, apart, stuck>>
  BY <1>1, SameFiles
<1>5. Moves(o, i)
  BY <1>1 DEF Moves, Instances!Restrict
<1>6. CASE serving' = Instances!Ends(c)
  BY ONLY InstancesInv, c \in Ongoing, <1>1, <1>3, <1>4, <1>5, <1>6, EndKeeps
<1>7. ASSUME NEW next, NEW at, at \in {"starting", "persisting"}, serving' = Instances!Goes(c, at, note(next))
      PROVE  InstancesInv'
  <2>. PICK n : n = note(next)  OBVIOUS
  <2>1. n.engine.code = file.version /\ n.engine.seed = Instances!settings_all(i) /\ n.sidecar = file.sidecar
    BY ONLY n = note(next)
  <2>2. \E x : /\ DOMAIN x = {"at", "of", "note"} /\ x.at = at /\ x.of = serving[c].of /\ x.note = n
               /\ Instances!Goes(c, at, n) = [serving EXCEPT ![c] = x]
    BY ONLY <1>3, c \in Ongoing, GoesIs
  <2>3. serving' = Instances!Goes(c, at, n)
    BY ONLY <1>7, n = note(next)
  <2>. HIDE DEF note, i, file
  <2>4. PICK x : /\ DOMAIN x = {"at", "of", "note"} /\ x.at = at /\ x.of = serving[c].of /\ x.note = n
                 /\ serving' = [serving EXCEPT ![c] = x]
    BY ONLY <2>2, <2>3
  <2>5. CallTrue(x, i, Version(o), KindOf(o)) /\ x.at # "idle"
    <3>1. DOMAIN file.sidecar = {"from", "next"}  BY ONLY <1>3 DEF FileTrue
    <3>2. x.note.engine.code = i.code \/ i.code # Version(o)  BY ONLY <1>3, <2>1, <2>4
    <3>3. x.note.engine.seed = Instances!settings_all(i) /\ x.note.sidecar = file.sidecar
      BY ONLY <2>1, <2>4
    <3>. QED  BY ONLY <1>7, <2>4, <3>1, <3>2, <3>3 DEF CallTrue
  <2>. QED  BY ONLY InstancesInv, c \in Ongoing, <1>1, <1>3, <1>4, <1>5, <2>4, <2>5, GoKeeps DEF i
<1>. QED
  BY ONLY <1>2, <1>6, <1>7

LEMMA EnsureBootedKeeps ==
  ASSUME InstancesInv, NEW c \in Ongoing, Instances!ensure_booted(c)
  PROVE  InstancesInv'
<1>. DEFINE o == serving[c].of
            i == instances[o]
            p == PackageOf(o[1])
            note == serving[c].note
<1>1. /\ serving[c].at = "persisting" /\ serving' = Instances!Goes(c, "starting", note)
      /\ UNCHANGED <<packages, disk, app, manager, registered, instances, apart, stuck>>
      /\ files' = [files EXCEPT ![p].sidecar = Instances!Booted(note.sidecar, note.engine.next)]
      /\ wrongs' = IF note.sidecar = files[p].sidecar THEN wrongs ELSE [wrongs EXCEPT ![p] = @ \cup {"late boot"}]
  BY DEF Instances!ensure_booted, Instances!Own, Instances!File, PackageOf
<1>2. /\ o # Nothing /\ p \in DOMAIN packages /\ Describes(i, Version(o), Wrong(o)) /\ Alone(c)
      /\ CallTrue(serving[c], i, Version(o), KindOf(o)) /\ DOMAIN serving[c] = {"at", "of", "note"}
      /\ serving[c].at \notin {"idle", "saving"} /\ \A settings : Has(i, settings) => Has(i, settings)
  BY <1>1, Working
<1>3. /\ packages \in Collections
      /\ files = [q \in DOMAIN packages |-> files[q]] /\ wrongs = [q \in DOMAIN packages |-> wrongs[q]]
      /\ \A q \in DOMAIN packages : FileTrue(files[q], wrongs[q]) /\ KeepsOrigin(files[q], wrongs[q])
  BY DEF InstancesInv, FilesTrue, Instances!ProvenanceKept, KeepsOrigin
<1>4. DOMAIN note.sidecar = {"from", "next"}
  BY <1>1, <1>2 DEF CallTrue
<1>. HIDE DEF p, note
<1>5. /\ files'[p] = [files[p] EXCEPT !.sidecar = Instances!Booted(note.sidecar, note.engine.next)]
      /\ \A q \in DOMAIN packages \ {p} : files'[q] = files[q] /\ wrongs'[q] = wrongs[q]
      /\ files' = [q \in DOMAIN packages |-> files'[q]] /\ wrongs' = [q \in DOMAIN packages |-> wrongs'[q]]
  BY <1>1, <1>2, <1>3
<1>6. \/ note.sidecar = files[p].sidecar /\ wrongs'[p] = wrongs[p]
      \/ wrongs'[p] = wrongs[p] \cup {"late boot"}
  BY <1>1, <1>2, <1>3
<1>7. /\ files'[p].version = files[p].version
      /\ FileTrue(files'[p], wrongs'[p]) /\ KeepsOrigin(files'[p], wrongs'[p])
      /\ Late(wrongs[p]) => Late(wrongs'[p])
  <2>1. DOMAIN files[p] = {"version", "sidecar", "cache"} /\ FileTrue(files[p], wrongs[p]) /\ KeepsOrigin(files[p], wrongs[p])
    BY <1>2, <1>3 DEF FileTrue
  <2>. PICK sidecar : sidecar = Instances!Booted(note.sidecar, note.engine.next)  OBVIOUS
  <2>2. DOMAIN sidecar = {"from", "next"} /\ sidecar.from = note.sidecar.from
    BY ONLY <1>4, sidecar = Instances!Booted(note.sidecar, note.engine.next) DEF Instances!Booted
  <2>3. files'[p] = [files[p] EXCEPT !.sidecar = sidecar]
    BY ONLY <1>5, sidecar = Instances!Booted(note.sidecar, note.engine.next), Zenon
  <2>4. /\ DOMAIN files'[p] = {"version", "sidecar", "cache"} /\ files'[p].version = files[p].version
        /\ files'[p].sidecar = sidecar /\ files'[p].cache = files[p].cache
    <3>1. DOMAIN files[p] = {"version", "sidecar", "cache"}  BY ONLY <2>1
    <3>. QED  BY ONLY <2>3, <3>1
  <2>5. Late(wrongs[p]) => Late(wrongs'[p])
    BY ONLY <1>6, Zenon DEF Late
  <2>6. FileTrue(files'[p], wrongs'[p])
    BY ONLY <2>1, <2>2, <2>4, <2>5 DEF FileTrue
  <2>7. KeepsOrigin(files'[p], wrongs'[p])
    <3>1. wrongs'[p] = wrongs[p] \cup {"late boot"} => wrongs'[p] \cap {"overwritten", "late boot"} # {}
      BY ONLY Zenon
    <3>2. note.sidecar = files[p].sidecar => files'[p].sidecar.from = files[p].sidecar.from
      BY ONLY <2>2, <2>4
    <3>. QED  BY ONLY <1>6, <2>1, <2>4, <3>1, <3>2, Zenon DEF KeepsOrigin
  <2>. QED  BY ONLY <2>4, <2>5, <2>6, <2>7
<1>8. \A q \in DOMAIN packages : /\ files'[q].version = files[q].version
                                 /\ Late(wrongs[q]) => Late(wrongs'[q])
                                 /\ FileTrue(files'[q], wrongs'[q]) /\ KeepsOrigin(files'[q], wrongs'[q])
  BY ONLY <1>3, <1>5, <1>7
<1>9. FilesTrue'
  BY <1>1, <1>3, <1>5, <1>8 DEF FilesTrue, Instances!ProvenanceKept, KeepsOrigin
<1>. PICK at, n : at = "starting" /\ n = note  OBVIOUS
<1>10. \E x : /\ DOMAIN x = {"at", "of", "note"} /\ x.at = at /\ x.of = serving[c].of /\ x.note = n
              /\ Instances!Goes(c, at, n) = [serving EXCEPT ![c] = x]
  BY ONLY <1>2, c \in Ongoing, GoesIs
<1>11. PICK x : /\ DOMAIN x = {"at", "of", "note"} /\ x.at = "starting" /\ x.of = serving[c].of /\ x.note = note
                /\ serving' = [serving EXCEPT ![c] = x]
  BY ONLY <1>1, <1>10, at = "starting" /\ n = note
<1>12. CallTrue(x, i, Version(o), KindOf(o)) /\ x.at # "idle"
  BY <1>1, <1>2, <1>11 DEF CallTrue, note
<1>13. Moves(o, i)
  <2>1. NamesTrue(registered, serving) /\ DOMAIN instances = Instances!InUse(registered, serving)
    BY DEF InstancesInv, RegistryTrue
  <2>2. NamesTrue(registered, serving')
    BY <1>2, <1>11, <1>12, <2>1 DEF NamesTrue
  <2>3. \A n2 : n2 \in Instances!InUse(registered, serving') <=> n2 \in Instances!InUse(registered, serving)
    <3>1. \A d \in Ongoing : serving'[d].of = serving[d].of
      BY <1>11, <2>1 DEF NamesTrue
    <3>. QED  BY ONLY <2>1, <2>2, <3>1, InUseIs
  <2>. QED  BY <1>1, <2>1, <2>3 DEF Moves
<1>. QED
  BY ONLY InstancesInv, c \in Ongoing, <1>1, <1>2, <1>8, <1>9, <1>11, <1>12, <1>13, GoKeeps DEF i

\* A call goes on with its instance, and its files, as they are.
LEMMA RunKeeps ==
  ASSUME InstancesInv, NEW c \in Ongoing, serving[c].at \notin {"idle", "saving"}, Alone(c),
         NEW at \in {"running", "saving"}, NEW note, NEW i, Instances!With(i, c, Instances!Goes(c, at, note)),
         Describes(i, Version(serving[c].of), Wrong(serving[c].of)),
         at = "saving" \/ \A settings : Has(instances[serving[c].of], settings) => Has(i, settings),
         UNCHANGED <<packages, files, disk, app, manager, registered, wrongs, apart, stuck>>
  PROVE  InstancesInv'
<1>1. DOMAIN serving[c] = {"at", "of", "note"} /\ serving[c].of # Nothing /\ RegistryTrue
  BY Working DEF InstancesInv
<1>2. \E x : /\ DOMAIN x = {"at", "of", "note"} /\ x.at = at /\ x.of = serving[c].of /\ x.note = note
             /\ Instances!Goes(c, at, note) = [serving EXCEPT ![c] = x]
  BY ONLY <1>1, c \in Ongoing, GoesIs
<1>. PICK cs : cs = Instances!Goes(c, at, note)  OBVIOUS
<1>3. serving' = Instances!Goes(c, at, note) /\ Moves(serving[c].of, i)
  <2>1. Instances!With(i, c, cs)  BY ONLY cs = Instances!Goes(c, at, note), Instances!With(i, c, Instances!Goes(c, at, note))
  <2>2. serving' = cs /\ Moves(serving[c].of, i)
    BY ONLY <1>1, <2>1, c \in Ongoing, WithMoves
  <2>. QED  BY ONLY <2>2, cs = Instances!Goes(c, at, note)
<1>4. PICK x : /\ DOMAIN x = {"at", "of", "note"} /\ x.at = at /\ x.of = serving[c].of
               /\ serving' = [serving EXCEPT ![c] = x]
  BY ONLY <1>2, <1>3
<1>5. CallTrue(x, i, Version(serving[c].of), KindOf(serving[c].of)) /\ x.at # "idle"
  BY ONLY <1>4, at \in {"running", "saving"} DEF CallTrue
<1>6. FilesTrue' /\ \A p \in DOMAIN packages : /\ files'[p].version = files[p].version
                                               /\ Late(wrongs[p]) => Late(wrongs'[p])
  BY SameFiles
<1>7. x.at = "saving" \/ \A settings : Has(instances[serving[c].of], settings) => Has(i, settings)
  BY ONLY <1>4, at = "saving" \/ \A settings : Has(instances[serving[c].of], settings) => Has(i, settings)
<1>8. UNCHANGED <<packages, disk, app, manager, registered, apart, stuck>>
  OBVIOUS
<1>. QED
  BY ONLY InstancesInv, c \in Ongoing, serving[c].at \notin {"idle", "saving"}, Alone(c),
          Describes(i, Version(serving[c].of), Wrong(serving[c].of)), <1>3, <1>4, <1>5, <1>6, <1>7, <1>8, GoKeeps

\* A call ends with its instance as it is.
LEMMA LeaveKeeps ==
  ASSUME InstancesInv, NEW c \in Ongoing, serving[c].at \notin {"idle", "saving"}, Alone(c),
         Instances!With(instances[serving[c].of], c, Instances!Ends(c)),
         UNCHANGED <<packages, files, disk, app, manager, registered, wrongs, apart, stuck>>
  PROVE  InstancesInv'
<1>. PICK i : i = instances[serving[c].of]  OBVIOUS
<1>1. /\ serving[c].of # Nothing /\ RegistryTrue
      /\ Describes(i, Version(serving[c].of), Wrong(serving[c].of))
  BY Working DEF InstancesInv
<1>2. serving' = Instances!Ends(c) /\ Moves(serving[c].of, i)
  <2>1. Instances!With(i, c, Instances!Ends(c))  OBVIOUS
  <2>. QED  BY ONLY <1>1, <2>1, c \in Ongoing, WithMoves
<1>3. FilesTrue' /\ \A p \in DOMAIN packages : /\ files'[p].version = files[p].version
                                               /\ Late(wrongs[p]) => Late(wrongs'[p])
  BY SameFiles
<1>4. /\ UNCHANGED <<packages, disk, app, manager, registered, apart, stuck>>
      /\ \A settings : Has(instances[serving[c].of], settings) => Has(i, settings)
  OBVIOUS
<1>. QED
  BY ONLY InstancesInv, c \in Ongoing, serving[c].at \notin {"idle", "saving"}, Alone(c), <1>1, <1>2, <1>3, <1>4,
          EndKeeps

LEMMA InstancesStart ==
  ASSUME InstancesInv, NEW c \in Ongoing, Instances!start(c)
  PROVE  InstancesInv'
<1>. DEFINE o == serving[c].of
            i == instances[o]
            engine == serving[c].note.engine
<1>1. /\ serving[c].at = "starting"
      /\ UNCHANGED <<packages, files, disk, app, manager, registered, wrongs, apart, stuck>>
      /\ \/ Instances!With([i EXCEPT !.engine = engine], c, Instances!Goes(c, "running", Nothing))
         \/ Instances!With(i, c, Instances!Ends(c))
  BY DEF Instances!start, Instances!Own
<1>2. /\ Describes(i, Version(o), Wrong(o)) /\ Alone(c) /\ serving[c].at \notin {"idle", "saving"}
      /\ engine.code = i.code \/ i.code # Version(o)
      /\ engine.seed = Instances!settings_all(i)
  BY <1>1, Working DEF CallTrue
<1>. PICK j : j = [i EXCEPT !.engine = engine]  OBVIOUS
<1>3. Describes(j, Version(o), Wrong(o)) /\ \A settings : Has(i, settings) => Has(j, settings)
  <2>1. \A k \in DOMAIN i.stored : k \in DOMAIN engine.seed => engine.seed[k] = i.stored[k]
    BY <1>2 DEF Instances!settings_all, Instances!Over
  <2>. HIDE DEF i, o, engine
  <2>. QED  BY ONLY <1>2, <2>1, j = [i EXCEPT !.engine = engine], StartedIs
<1>4. CASE Instances!With([i EXCEPT !.engine = engine], c, Instances!Goes(c, "running", Nothing))
  <2>. PICK at : at = "running"  OBVIOUS
  <2>1. Instances!With(j, c, Instances!Goes(c, at, Nothing)) /\ at \in {"running", "saving"}
    BY ONLY <1>4, at = "running", j = [i EXCEPT !.engine = engine]
  <2>. QED  BY ONLY InstancesInv, c \in Ongoing, <1>1, <1>2, <1>3, <2>1, RunKeeps
<1>5. CASE Instances!With(i, c, Instances!Ends(c))
  BY ONLY InstancesInv, c \in Ongoing, <1>1, <1>2, <1>5, LeaveKeeps
<1>. QED
  BY ONLY <1>1, <1>4, <1>5

LEMMA BootEngineKeeps ==
  ASSUME InstancesInv, NEW c \in Ongoing, Instances!boot_engine(c)
  PROVE  InstancesInv'
<1>. DEFINE o == serving[c].of
            i == instances[o]
            v == files[PackageOf(o[1])].version
<1>1. /\ serving[c].at = "taken" /\ Alone(c)
      /\ UNCHANGED <<packages, files, disk, app, manager, registered, wrongs, apart, stuck>>
      /\ \/ Instances!With(i, c, Instances!Goes(c, "running", Nothing))
         \/ \E definitions : Instances!With([i EXCEPT !.engine = [code |-> v, next |-> FALSE,
                                               seed |-> Instances!setting_value_to_pref(i, definitions)]],
                                            c, Instances!Goes(c, "running", Nothing))
  BY DEF Instances!boot_engine, Instances!Own, Instances!Free, Instances!File, Alone, PackageOf
<1>2. /\ Describes(i, Version(o), Wrong(o)) /\ serving[c].at \notin {"idle", "saving"} /\ v = Version(o)
      /\ \A settings : Has(i, settings) => Has(i, settings)
  BY <1>1, Working
<1>. PICK at : at = "running"  OBVIOUS
<1>3. at \in {"running", "saving"}
  BY ONLY at = "running"
<1>4. CASE Instances!With(i, c, Instances!Goes(c, "running", Nothing))
  <2>1. Instances!With(i, c, Instances!Goes(c, at, Nothing))  BY ONLY <1>4, at = "running"
  <2>. QED  BY ONLY InstancesInv, c \in Ongoing, <1>1, <1>2, <1>3, <2>1, RunKeeps
<1>5. ASSUME NEW definitions, NEW engine, NEW j, j = [i EXCEPT !.engine = engine],
             engine = [code |-> v, next |-> FALSE, seed |-> Instances!setting_value_to_pref(i, definitions)],
             Instances!With(j, c, Instances!Goes(c, "running", Nothing))
      PROVE  InstancesInv'
  <2>1. engine.code = v /\ engine.seed = Instances!setting_value_to_pref(i, definitions)
    BY ONLY <1>5
  <2>2. \A k \in DOMAIN i.stored : k \in DOMAIN engine.seed => engine.seed[k] = i.stored[k]
    BY ONLY <2>1 DEF Instances!setting_value_to_pref, Instances!settings_all, Instances!Over, Instances!Restrict
  <2>3. Describes(j, Version(o), Wrong(o)) /\ \A settings : Has(i, settings) => Has(j, settings)
    <3>1. engine.code = i.code \/ i.code # Version(o)  BY ONLY <1>2, <2>1
    <3>. HIDE DEF i, o
    <3>. QED  BY ONLY <1>2, <2>2, <3>1, j = [i EXCEPT !.engine = engine], StartedIs
  <2>4. Instances!With(j, c, Instances!Goes(c, at, Nothing))  BY ONLY <1>5, at = "running"
  <2>. QED  BY ONLY InstancesInv, c \in Ongoing, <1>1, <1>2, <1>3, <2>3, <2>4, RunKeeps
<1>. QED
  BY ONLY <1>1, <1>4, <1>5

LEMMA SaveKeeps ==
  ASSUME InstancesInv, NEW c \in Ongoing, Instances!save(c)
  PROVE  InstancesInv'
<1>. DEFINE o == serving[c].of
<1>. PICK i : i = Instances!set(instances[o], "k", 2)  OBVIOUS
<1>1. /\ serving[c].at = "running"
      /\ UNCHANGED <<packages, files, disk, app, manager, registered, wrongs, apart, stuck>>
      /\ Instances!With(i, c, Instances!Goes(c, "saving", i.stored))
  BY DEF Instances!save, Instances!Own
<1>2. /\ Describes(instances[o], Version(o), Wrong(o)) /\ Alone(c) /\ serving[c].at \notin {"idle", "saving"}
  BY <1>1, Working
<1>. PICK key, value : key = "k" /\ value = 2  OBVIOUS
<1>3. Describes(i, Version(o), Wrong(o))
  <2>. PICK was : was = instances[o]  OBVIOUS
  <2>1. i = Instances!set(was, key, value)
    BY ONLY was = instances[o], key = "k" /\ value = 2, i = Instances!set(instances[o], "k", 2)
  <2>2. Describes(was, Version(o), Wrong(o))  BY ONLY <1>2, was = instances[o]
  <2>. QED  BY ONLY <2>1, <2>2, SetIs
<1>. PICK at, note : at = "saving" /\ note = i.stored  OBVIOUS
<1>4. Instances!With(i, c, Instances!Goes(c, at, note)) /\ at \in {"running", "saving"}
  BY ONLY <1>1, at = "saving" /\ note = i.stored
<1>5. at = "saving"  OBVIOUS
<1>. QED
  BY ONLY InstancesInv, c \in Ongoing, <1>1, <1>2, <1>3, <1>4, <1>5, RunKeeps

LEMMA InstancesFinish ==
  ASSUME InstancesInv, NEW c \in Ongoing, Instances!Finish(c)
  PROVE  InstancesInv'
<1>1. /\ serving[c].at = "running" /\ Instances!With(instances[serving[c].of], c, Instances!Ends(c))
      /\ UNCHANGED <<packages, files, disk, app, manager, registered, wrongs, apart, stuck>>
  BY DEF Instances!Finish, Instances!Own
<1>2. Alone(c) /\ serving[c].at \notin {"idle", "saving"}
  BY <1>1, Working
<1>. QED
  BY ONLY InstancesInv, c \in Ongoing, <1>1, <1>2, LeaveKeeps

LEMMA InstancesNext == InstancesInv /\ [Instances!Next]_Instances!vars => InstancesInv'
<1>. SUFFICES ASSUME InstancesInv, [Instances!Next]_Instances!vars PROVE InstancesInv'
  OBVIOUS
<1>1. CASE Instances!Next
  <2>1. ASSUME NEW id \in Instances!Ids, NEW stored, Instances!set_source_stored_settings(id, stored) PROVE InstancesInv'
    BY <2>1, StoredKeeps DEF Ids
  <2>2. CASE Instances!Restart  BY <2>2, InstancesRestart
  <2>3. ASSUME NEW p \in DOMAIN packages, Instances!Install(p) \/ Instances!Overwrite(p) PROVE InstancesInv'
    BY <2>3, InstallKeeps, OverwriteKeeps
  <2>4. ASSUME NEW c \in Ongoing, Instances!Serve(c) PROVE InstancesInv'
    <3>1. ASSUME NEW id \in Instances!Ids, Instances!Take(c, id) PROVE InstancesInv'
      BY <3>1, TakeKeeps DEF Ids
    <3>2. \/ \E id \in Instances!Ids : Instances!Take(c, id)
          \/ Instances!ensure_probed(c) \/ Instances!run_probe(c) \/ Instances!boot(c)
          \/ Instances!ensure_booted(c) \/ Instances!start(c) \/ Instances!boot_engine(c)
          \/ Instances!save(c) \/ Instances!update_source_setting(c) \/ Instances!Finish(c)
      BY <2>4 DEF Instances!Serve
    <3>. QED
      BY <3>1, <3>2, EnsureProbedKeeps, RunProbeKeeps, InstancesBoot, EnsureBootedKeeps, InstancesStart, BootEngineKeeps,
         SaveKeeps, UpdateKeeps, InstancesFinish
  <2>. QED  BY <1>1, <2>1, <2>2, <2>3, <2>4 DEF Instances!Next
<1>2. CASE UNCHANGED Instances!vars
  <2>1. UNCHANGED <<packages, files, disk, app, manager, registered, instances, serving, wrongs, apart, stuck>>
    BY <1>2 DEF Instances!vars
  <2>2. FilesTrue' /\ \A p \in DOMAIN packages : files[p].version <= files'[p].version
    <3>1. \A p \in DOMAIN packages : files[p].version \in Nat  BY DEF InstancesInv, FilesTrue, FileTrue
    <3>2. FilesTrue'  BY <2>1, SameFiles
    <3>. QED  BY ONLY <2>1, <3>1, <3>2
  <2>. QED  BY <2>1, <2>2, AheadKeeps
<1>. QED
  BY <1>1, <1>2

\* The strengthening holds throughout.
THEOREM InstancesInvariance == Instances!Spec => []InstancesInv
<1>1. Instances!Init => InstancesInv  BY InstancesInit
<1>2. InstancesInv /\ [Instances!Next]_Instances!vars => InstancesInv'  BY InstancesNext
<1>. QED  BY <1>1, <1>2, PTL DEF Instances!Spec

\* A registered source describes the code that it runs, unless its package was changed under it
\* or a late probe was filed; the settings stored for it reach it and its engine, unless it is
\* storing one or its package failed to load again; and what is written beside a package keeps
\* where it came from (source/mod.rs, source_manager.rs).
THEOREM InstancesAreTrue == Instances!Spec => []InstancesTrue
<1>1. InstancesInv => InstancesTrue  BY InstancesInvTrue
<1>. QED  BY <1>1, InstancesInvariance, PTL
=============================================================================
