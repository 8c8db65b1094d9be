-------------------------- MODULE GraphEdgesProofs --------------------------
(***************************************************************************)
(* Proofs about GraphEdges, for any notes, pairs and types: the key of an  *)
(* edge is unique, a linked pair keeps an edge, the classifier does not    *)
(* type what only a review may, and edges are examined once, however the   *)
(* writers and the decisions overlap.                                      *)
(***************************************************************************)
EXTENDS GraphEdges, TLAPS

Rows(E) ==
  /\ E \subseteq Edge
  /\ \A e, f \in E : e.pair = f.pair /\ e.rel = f.rel => e = f

(* The classifier has read one row of a pair at most, and a generic row    *)
(* that it has read is not examined before it writes.                      *)
MarksAreSound(E, c) ==
  /\ \A e \in E : e.read =>
       c # None /\ (e.rel = DefaultRel => ~e.examined)
  /\ \A e, f \in E : e.read /\ f.read /\ e.pair = f.pair
                       => e = f

ProposalsAreTyped(E) == \A e \in E : e.proposed # DefaultRel /\ DefaultRel \notin e.open

RowsInv(E, c) == Rows(E) /\ MarksAreSound(E, c) /\ ProposalsAreTyped(E)

LinksWereWritten ==
  \A p \in Pairs : cited[p] # None => note[p[1]] # "new" /\ note[p[2]] # "new"

(* No edge leaves a note that is new, nor is one about to. *)
Old(p) == note[p[1]] # "new" /\ note[p[2]] # "new"

OldPairs ==
  /\ \A e \in edges : Old(e.pair)
  /\ resolver # None => \A p \in resolver : Old(p)
  /\ deriver # None => \A l \in deriver : Old(l[1])

IInv ==
  /\ TypeOK
  /\ RowsInv(edges, classifier)
  /\ LinksWereWritten
  /\ OldPairs
  /\ LinkedPairsHaveAnEdge

(* What the two action properties say of a step. *)
Final(E, F) ==
  \A e \in E : e.rel = DefaultRel /\ e.examined =>
    \A f \in Typed(F, e.pair, DefaultRel) : f.examined

Reviewed ==
  ReviewMode =>
    \A e \in edges' :
      e.rel \in ReviewTypes /\ Typed(edges, e.pair, e.rel) = {} =>
        TypedByOthers(e.pair, e.rel)

Returned ==
  \A e \in edges : \A type \in e.open :
    ComesUp(e.pair, type) =>
      \/ TypedByOthers(e.pair, type)
      \/ \E g \in Between(edges, e.pair) : g.read /\ (g.rel = DefaultRel => ~g.examined)

Good == IInv' /\ Final(edges, edges') /\ Reviewed /\ Returned

Keeps(E, F) == \A p \in Pairs : Between(E, p) # {} => Between(F, p) # {}

(* Rows are added, none is changed. *)
Fresh(x) == ~x.read /\ x.open = {} /\ x.proposed # DefaultRel

Grown(E, F) ==
  /\ Rows(F)
  /\ E \subseteq F
  /\ \A x \in F \ E : Fresh(x)

-----------------------------------------------------------------------------
(* Rows. *)

LEMMA NewEdgeRow ==
  ASSUME NEW p \in Pairs, NEW type \in Types,
         NEW by \in Creators,
         NEW proposed \in Types \cup {None}
  PROVE  LET x == NewEdge(p, type, by, proposed)
         IN  /\ x \in Edge /\ x.pair = p /\ x.rel = type /\ x.by = by
             /\ x.proposed = proposed /\ ~x.read /\ x.open = {}
BY DEF NewEdge, Edge

LEMMA UpsertedGrows ==
  ASSUME NEW E, NEW N, Rows(E), Rows(N),
         \A x \in N : Fresh(x)
  PROVE  /\ Grown(E, Upserted(E, N))
         /\ \A x \in Upserted(E, N) : x \in E \/ x \in N
         /\ \A x \in N : Between(Upserted(E, N), x.pair) # {}
<1> DEFINE U == Upserted(E, N)
<1>1. \A x : x \in U <=> x \in E \/ (x \in N /\ Typed(E, x.pair, x.rel) = {})
      BY DEF Upserted
<1>2. \A x \in N : Typed(E, x.pair, x.rel) = {} <=>
        \A y \in E : ~(y.pair = x.pair /\ y.rel = x.rel)
      BY DEF Typed, Between
<1> HIDE DEF U
<1>3. U \subseteq Edge
      BY <1>1 DEF Rows
<1>4. ASSUME NEW e \in U, NEW f \in U, e.pair = f.pair, e.rel = f.rel
      PROVE  e = f
      BY <1>1, <1>2, <1>4 DEF Rows
<1>5. ASSUME NEW x \in N
      PROVE  Between(U, x.pair) # {}
  <2>1. CASE Typed(E, x.pair, x.rel) = {}
        BY <1>1, <2>1 DEF Between
  <2>2. CASE Typed(E, x.pair, x.rel) # {}
        BY <1>1, <2>2 DEF Between, Typed
  <2>3. QED
        BY <2>1, <2>2
<1>6. Grown(E, U)
      BY <1>1, <1>3, <1>4 DEF Grown, Rows
<1>7. QED
      BY <1>1, <1>5, <1>6 DEF U

LEMMA GrownTwice ==
  ASSUME NEW E, NEW F, NEW G, Grown(E, F), Grown(F, G)
  PROVE  Grown(E, G)
BY DEF Grown

LEMMA GrownKeeps ==
  ASSUME NEW E, NEW F, NEW c, RowsInv(E, c), Grown(E, F)
  PROVE  RowsInv(F, c) /\ Final(E, F) /\ Keeps(E, F)
<1>1. Rows(F) /\ E \subseteq F
      BY DEF Grown
<1>2. \A x \in F : x \in E \/ Fresh(x)
      BY DEF Grown
<1>3. MarksAreSound(F, c)
      BY <1>2 DEF MarksAreSound, RowsInv, Fresh
<1>4. ProposalsAreTyped(F)
      BY <1>2 DEF ProposalsAreTyped, RowsInv, Fresh
<1>5. Final(E, F)
      BY <1>1 DEF Final, Rows, Typed, Between
<1>6. Keeps(E, F)
      BY <1>1 DEF Keeps, Between
<1>7. QED
      BY <1>1, <1>3, <1>4, <1>5, <1>6 DEF RowsInv

LEMMA ShrunkKeeps ==
  ASSUME NEW E, NEW F, NEW c, RowsInv(E, c), F \subseteq E
  PROVE  RowsInv(F, c) /\ Final(E, F)
BY DEF RowsInv, Rows, MarksAreSound, ProposalsAreTyped, Final, Typed, Between

LEMMA RetypedRows ==
  ASSUME NEW E, Rows(E), NEW e \in E, NEW new \in Edge, new.pair = e.pair
  PROVE  /\ Rows(Retyped(E, e, new))
         /\ \A x \in Retyped(E, e, new) : x = new \/ (x \in E /\ x # e)
         /\ \A x \in E : x # e => x \in Retyped(E, e, new)
         /\ \A p : Between(E, p) # {} => Between(Retyped(E, e, new), p) # {}
<1>1. CASE Typed(E \ {e}, e.pair, new.rel) = {}
  <2>1. Retyped(E, e, new) = (E \ {e}) \cup {new}
        BY <1>1 DEF Retyped
  <2>2. \A y \in E : y # e => ~(y.pair = new.pair /\ y.rel = new.rel)
        BY <1>1 DEF Typed, Between
  <2>3. Rows(Retyped(E, e, new))
        BY <2>1, <2>2 DEF Rows
  <2>4. QED
        BY <2>1, <2>3 DEF Between
<1>2. CASE Typed(E \ {e}, e.pair, new.rel) # {}
  <2>1. Retyped(E, e, new) = E \ {e}
        BY <1>2 DEF Retyped
  <2>2. PICK y \in E : y # e /\ y.pair = e.pair
        BY <1>2 DEF Typed, Between
  <2>3. \A p : Between(E, p) # {} => Between(E \ {e}, p) # {}
        BY <2>2 DEF Between
  <2>4. QED
        BY <2>1, <2>3 DEF Rows
<1>3. QED
      BY <1>1, <1>2

-----------------------------------------------------------------------------
(* Steps that leave the notes and what is written in them. *)
LEMMA SameNotes ==
  ASSUME IInv, UNCHANGED <<note, cited>>,
         RowsInv(edges', classifier'), Keeps(edges, edges'),
         \A x \in edges' : Old(x.pair),
         model' \subseteq Pairs \X InfraTypes,
         classifier' \in Notes \cup {None},
         resolver' = None \/ (resolver' \subseteq Pairs /\ \A p \in resolver' : Old(p)),
         deriver' = None \/ (/\ deriver' \subseteq Pairs \X InfraTypes
                             /\ \A l \in deriver' : Old(l[1]))
  PROVE  IInv'
<1>1. TypeOK'
      BY DEF IInv, TypeOK, RowsInv, Rows
<1>2. LinkedPairsHaveAnEdge'
      BY DEF IInv, LinkedPairsHaveAnEdge, LivePairs, Live, Keeps
<1>3. LinksWereWritten' /\ RowsInv(edges, classifier)'
      BY DEF IInv, LinksWereWritten, RowsInv, Rows, MarksAreSound, ProposalsAreTyped
<1>4. OldPairs'
      BY DEF OldPairs, Old
<1>5. QED
      BY <1>1, <1>2, <1>3, <1>4 DEF IInv

(* ... and the jobs too. *)
LEMMA SameJobs ==
  ASSUME IInv, UNCHANGED <<note, cited, model>>,
         RowsInv(edges', classifier'), Keeps(edges, edges'),
         \A x \in edges' : Old(x.pair),
         classifier' \in Notes \cup {None},
         resolver' \in {resolver, None}, deriver' \in {deriver, None}
  PROVE  IInv'
<1>1. resolver' = None \/ (resolver' \subseteq Pairs /\ \A p \in resolver' : Old(p))
      BY DEF IInv, TypeOK, OldPairs
<1>2. deriver' = None \/ (deriver' \subseteq Pairs \X InfraTypes /\ \A l \in deriver' : Old(l[1]))
      BY DEF IInv, TypeOK, OldPairs
<1>3. QED
      BY <1>1, <1>2, SameNotes DEF IInv, TypeOK

(* What a reader marks and unmarks stays the row it is. *)
SameRow(x, e) ==
  /\ x \in Edge /\ x.pair = e.pair /\ x.rel = e.rel
  /\ x.examined = e.examined /\ x.proposed = e.proposed /\ x.open = e.open

LEMMA ReadChanges ==
  ASSUME NEW e \in Edge, NEW b \in BOOLEAN
  PROVE  /\ SameRow([e EXCEPT !.read = b], e)
         /\ [e EXCEPT !.read = b].read = b
BY DEF Edge, SameRow

(* The rows of E are rewritten one by one, by a function. *)
LEMMA Rewritten ==
  ASSUME NEW E, NEW F, NEW g, Rows(E),
         F = {g[e] : e \in E},
         \A e \in E : g[e] \in Edge /\ g[e].pair = e.pair /\ g[e].rel = e.rel
  PROVE  Rows(F) /\ Keeps(E, F)
<1>1. F \subseteq Edge
      OBVIOUS
<1>2. ASSUME NEW x \in F, NEW y \in F, x.pair = y.pair, x.rel = y.rel
      PROVE  x = y
  <2>1. PICK e \in E : x = g[e]
        OBVIOUS
  <2>2. PICK f \in E : y = g[f]
        OBVIOUS
  <2>3. e = f
        BY <1>2, <2>1, <2>2 DEF Rows
  <2>4. QED
        BY <2>1, <2>2, <2>3
<1>3. Keeps(E, F)
      BY DEF Keeps, Between
<1>4. QED
      BY <1>1, <1>2, <1>3 DEF Rows

LEMMA SameRowsAreFinal ==
  ASSUME NEW E, NEW F, Rows(E),
         \A x \in F : \E e \in E : /\ x.pair = e.pair /\ x.rel = e.rel
                                   /\ e.examined => x.examined
  PROVE  Final(E, F)
BY DEF Final, Rows, Typed, Between

(* A row after a step that the properties ask nothing more of: one that    *)
(* was there, a generic one without proposal, one of a pair that had no    *)
(* edge, or one that somebody other than the classifier has typed.         *)
Explained(x) ==
  \/ \E e \in edges : x.pair = e.pair /\ x.rel = e.rel /\ x.proposed \in {e.proposed, None}
  \/ x.rel = DefaultRel /\ x.proposed = None
  \/ Between(edges, x.pair) = {} /\ (x.rel \in ReviewTypes => TypedByOthers(x.pair, x.rel))
  \/ x.rel # DefaultRel /\ TypedByOthers(x.pair, x.rel)

LEMMA ExplainedRows ==
  ASSUME IInv, \A x \in edges' : Explained(x)
  PROVE  Reviewed /\ Returned
<1>1. None \notin Types /\ DefaultRel \notin ReviewTypes
      BY GraphAssumption DEF Types, DefaultRel
<1>2. Reviewed
  <2> SUFFICES ASSUME NEW x \in edges', x.rel \in ReviewTypes, Typed(edges, x.pair, x.rel) = {}
               PROVE  TypedByOthers(x.pair, x.rel)
      BY DEF Reviewed
  <2>1. ~\E e \in edges : x.pair = e.pair /\ x.rel = e.rel
        BY DEF Typed, Between
  <2>2. QED
        BY <1>1, <2>1 DEF Explained
<1>3. Returned
  <2> SUFFICES ASSUME NEW e \in edges, NEW type \in e.open, ComesUp(e.pair, type)
               PROVE  TypedByOthers(e.pair, type)
      BY DEF Returned
  <2>1. type \in Types /\ type # DefaultRel
        BY DEF IInv, RowsInv, Rows, Edge, ProposalsAreTyped
  <2>2. Between(edges, e.pair) # {}
        BY DEF Between
  <2>3. CASE Typed(edges', e.pair, type) # {} /\ Typed(edges, e.pair, type) = {}
    <3>1. PICK x \in edges' : x.pair = e.pair /\ x.rel = type
          BY <2>3 DEF Typed, Between
    <3>2. ~\E y \in edges : x.pair = y.pair /\ x.rel = y.rel
          BY <2>3, <3>1 DEF Typed, Between
    <3>3. QED
          BY <2>1, <2>2, <3>1, <3>2 DEF Explained
  <2>4. ASSUME NEW x \in Typed(edges', e.pair, DefaultRel), x.proposed = type,
               ~\E y \in Typed(edges, e.pair, DefaultRel) : y.proposed = type
        PROVE  FALSE
    <3>1. x \in edges' /\ x.pair = e.pair /\ x.rel = DefaultRel
          BY <2>4 DEF Typed, Between
    <3>2. ~\E y \in edges : x.pair = y.pair /\ x.rel = y.rel /\ x.proposed \in {y.proposed, None}
          BY <1>1, <2>1, <2>4, <3>1 DEF Typed, Between
    <3>3. QED
          BY <1>1, <2>1, <2>2, <2>4, <3>1, <3>2 DEF Explained
  <2>5. QED
        BY <2>3, <2>4 DEF ComesUp
<1>4. QED
      BY <1>2, <1>3

-----------------------------------------------------------------------------
LEMMA InitIInv == Init => IInv
<1> SUFFICES ASSUME Init
             PROVE  IInv
    OBVIOUS
<1>2. TypeOK
      BY DEF Init, TypeOK
<1>3. RowsInv(edges, classifier)
      BY DEF Init, RowsInv, Rows, MarksAreSound, ProposalsAreTyped
<1>4. LinksWereWritten /\ LinkedPairsHaveAnEdge
      BY DEF Init, LinksWereWritten, LinkedPairsHaveAnEdge, LivePairs
<1>5. OldPairs
      BY DEF Init, OldPairs
<1>6. QED
      BY <1>2, <1>3, <1>4, <1>5 DEF IInv

LEMMA Stutter == IInv /\ UNCHANGED vars => Good
<1> SUFFICES ASSUME IInv, UNCHANGED vars
             PROVE  Good
    OBVIOUS
<1>1. RowsInv(edges', classifier') /\ Final(edges, edges') /\ Keeps(edges, edges')
      BY ShrunkKeeps DEF IInv, vars, Keeps
<1>2. IInv'
      BY <1>1, SameJobs DEF vars, IInv, TypeOK, OldPairs
<1>3. Reviewed /\ Returned
      BY ExplainedRows DEF vars, Explained
<1>4. QED
      BY <1>1, <1>2, <1>3 DEF Good

-----------------------------------------------------------------------------
(* Writers of notes. *)

LEMMA LinksAreTyped ==
  ASSUME NEW n \in Notes, NEW links \in Links(n)
  PROVE  /\ DOMAIN links = LinksOf(n) /\ LinksOf(n) \subseteq Pairs
         /\ \A p \in LinksOf(n) : p[1] = n /\ links[p] \in Types \cup {None}
BY DEF Links, LinksOf

(* The rows of a body's links. *)
LEMMA RefsGrow ==
  ASSUME NEW E, Rows(E), NEW n \in Notes, NEW links \in Links(n),
         NEW by \in {"explicit-ref", "autolearn-ref"}
  PROVE  /\ Grown(E, Refs(E, links, by))
         /\ \A x \in Refs(E, links, by) :
              x \in E \/ (/\ x.pair \in LinksOf(n) /\ links[x.pair] = x.rel /\ x.proposed = None
                          /\ links[x.pair] # None /\ Live(x.pair[2]))
         /\ \A p \in LinksOf(n) :
              links[p] # None /\ Live(p[2]) => Between(Refs(E, links, by), p) # {}
<1> DEFINE P == {q \in DOMAIN links : links[q] # None /\ Live(q[2])}
           N == {NewEdge(p, links[p], by, None) : p \in P}
<1>1. \A p \in P : p \in LinksOf(n) /\ p \in Pairs /\ links[p] \in Types
      BY LinksAreTyped
<1>2. ASSUME NEW p \in P
      PROVE  LET x == NewEdge(p, links[p], by, None)
             IN  /\ x \in Edge /\ x.pair = p /\ x.rel = links[p]
                 /\ x.proposed = None /\ ~x.read /\ x.open = {}
      BY <1>1, NewEdgeRow DEF Creators
<1>3. None # DefaultRel
      BY GraphAssumption DEF DefaultRel
<1>4. /\ Rows(N) /\ \A x \in N : /\ Fresh(x) /\ x.proposed = None
                                 /\ x.pair \in P /\ links[x.pair] = x.rel
      BY <1>2, <1>3 DEF Rows, Fresh
<1>5. \A p \in P : \E x \in N : x.pair = p
      BY <1>2
<1>6. Refs(E, links, by) = Upserted(E, N)
      BY DEF Refs
<1> HIDE DEF N
<1>7. /\ Grown(E, Upserted(E, N))
      /\ \A x \in Upserted(E, N) : x \in E \/ x \in N
      /\ \A x \in N : Between(Upserted(E, N), x.pair) # {}
      BY <1>4, UpsertedGrows
<1>8. \A x \in N : /\ x.pair \in LinksOf(n) /\ links[x.pair] = x.rel /\ x.proposed = None
                   /\ links[x.pair] # None /\ Live(x.pair[2])
      BY <1>1, <1>4
<1>9. ASSUME NEW p \in LinksOf(n), links[p] # None, Live(p[2])
      PROVE  Between(Upserted(E, N), p) # {}
  <2>1. p \in P
        BY <1>9, LinksAreTyped
  <2>2. QED
        BY <1>5, <1>7, <2>1
<1>10. QED
       BY <1>6, <1>7, <1>8, <1>9

(* The rows added for some keys, or for some pairs with one type. *)
LEMMA KeyedRows ==
  ASSUME NEW R \in SUBSET (Pairs \X Types), NEW by \in Creators
  PROVE  LET N == {NewEdge(r[1], r[2], by, None) : r \in R}
         IN  /\ Rows(N)
             /\ \A x \in N : Fresh(x) /\ x.proposed = None /\ <<x.pair, x.rel>> \in R
             /\ \A r \in R : \E x \in N : x.pair = r[1] /\ x.rel = r[2]
<1> DEFINE N == {NewEdge(r[1], r[2], by, None) : r \in R}
<1>1. ASSUME NEW r \in R
      PROVE  LET x == NewEdge(r[1], r[2], by, None)
             IN  /\ x \in Edge /\ x.pair = r[1] /\ x.rel = r[2] /\ <<x.pair, x.rel>> \in R
                 /\ x.proposed = None /\ ~x.read /\ x.open = {}
  <2>1. r[1] \in Pairs /\ r[2] \in Types /\ <<r[1], r[2]>> = r /\ None \in Types \cup {None}
        OBVIOUS
  <2>2. QED
        BY <2>1, NewEdgeRow
<1>2. None # DefaultRel
      BY GraphAssumption DEF DefaultRel
<1>3. ASSUME NEW x \in N, NEW y \in N, x.pair = y.pair, x.rel = y.rel
      PROVE  x = y
  <2>1. PICK r \in R : x = NewEdge(r[1], r[2], by, None)
        OBVIOUS
  <2>2. PICK q \in R : y = NewEdge(q[1], q[2], by, None)
        OBVIOUS
  <2>3. r[1] = q[1] /\ r[2] = q[2]
        BY <1>1, <1>3, <2>1, <2>2
  <2>4. QED
        BY <2>1, <2>2, <2>3
<1>4. \A x \in N : x \in Edge /\ Fresh(x) /\ x.proposed = None /\ <<x.pair, x.rel>> \in R
      BY <1>1, <1>2 DEF Fresh
<1>5. QED
      BY <1>1, <1>3, <1>4 DEF Rows

AreRows(N, P, type, near) == N = {NewEdge(p, type, "autolearn-ref", near[p]) : p \in P}

LEMMA PairedRows ==
  ASSUME NEW P \in SUBSET Pairs, NEW type \in Types,
         NEW near \in [P -> (Types \cup {None}) \ {DefaultRel}],
         NEW N, AreRows(N, P, type, near)
  PROVE  /\ Rows(N)
         /\ \A x \in N : Fresh(x) /\ x.pair \in P /\ x.rel = type
<1>0. N = {NewEdge(p, type, "autolearn-ref", near[p]) : p \in P}
      BY DEF AreRows
<1>1. ASSUME NEW p \in P
      PROVE  LET x == NewEdge(p, type, "autolearn-ref", near[p])
             IN  /\ x \in Edge /\ x.pair = p /\ x.rel = type
                 /\ x.proposed = near[p] /\ ~x.read /\ x.open = {}
  <2>1. p \in Pairs /\ near[p] \in Types \cup {None} /\ "autolearn-ref" \in Creators
        BY DEF Creators
  <2>2. QED
        BY <2>1, NewEdgeRow
<1>2. \A x \in N : x \in Edge /\ Fresh(x) /\ x.pair \in P /\ x.rel = type
      BY <1>0, <1>1 DEF Fresh
<1>3. \A x, y \in N : x.pair = y.pair => x = y
      BY <1>0, <1>1
<1>4. QED
      BY <1>2, <1>3 DEF Rows

LEMMA GenericRows ==
  ASSUME NEW P \in SUBSET Pairs
  PROVE  LET N == {NewEdge(p, DefaultRel, "autolearn-ref", None) : p \in P}
         IN  /\ Rows(N)
             /\ \A x \in N : Fresh(x) /\ x.pair \in P /\ x.rel = DefaultRel /\ x.proposed = None
             /\ \A p \in P : \E x \in N : x.pair = p
<1> DEFINE N == {NewEdge(p, DefaultRel, "autolearn-ref", None) : p \in P}
<1>1. ASSUME NEW p \in P
      PROVE  LET x == NewEdge(p, DefaultRel, "autolearn-ref", None)
             IN  /\ x \in Edge /\ x.pair = p /\ x.rel = DefaultRel
                 /\ x.proposed = None /\ ~x.read /\ x.open = {}
  <2>1. p \in Pairs /\ DefaultRel \in Types /\ None \in Types \cup {None} /\ "autolearn-ref" \in Creators
        BY DEF Types, Creators
  <2>2. QED
        BY <2>1, NewEdgeRow
<1>2. None # DefaultRel
      BY GraphAssumption DEF DefaultRel
<1>3. \A x \in N : /\ x \in Edge /\ Fresh(x) /\ x.pair \in P
                   /\ x.rel = DefaultRel /\ x.proposed = None
      BY <1>1, <1>2 DEF Fresh
<1>4. \A x, y \in N : x.pair = y.pair => x = y
      BY <1>1
<1>5. QED
      BY <1>1, <1>3, <1>4 DEF Rows

-----------------------------------------------------------------------------
(* Steps that write a body. *)

NotNewStaysSo ==
  \A m \in Notes : /\ note[m] # "new" => note'[m] # "new"
                   /\ note'[m] = "live" => note[m] # "retired"

(* Only the note n may come to life. *)
LEMMA BodyWritten ==
  ASSUME IInv, NEW n \in Notes, NEW links \in Links(n), NEW F,
         note' \in [Notes -> {"new", "live", "retired"}], note'[n] = "live", note[n] # "retired",
         \A m \in Notes : m # n => note'[m] = note[m] \/ (note[m] = "live" /\ note'[m] = "retired"),
         Cited(n, links),
         UNCHANGED <<model, classifier, resolver, deriver>>,
         edges' = F, RowsInv(F, classifier), Final(edges, F),
         \A x \in F : \/ \E e \in edges : /\ x.pair = e.pair /\ x.rel = e.rel
                                          /\ x.proposed \in {e.proposed, None}
                      \/ /\ x.pair \in LinksOf(n) /\ links[x.pair] = x.rel
                         /\ x.proposed = None /\ Live(x.pair[2])
                      \/ /\ note[n] = "new" /\ x.pair \in KnownLinksOf(n)
                         /\ x.rel \in {DefaultRel, "supersedes"},
         \A p \in Pairs \ LinksOf(n) : Between(edges, p) # {} => Between(F, p) # {},
         \A p \in LinksOf(n) : links[p] # None /\ Live(p[2]) => Between(F, p) # {}
  PROVE  Good
<1>1. \A p \in LinksOf(n) : p \in Pairs /\ p[1] = n /\ p[2] # n /\ p[2] \in Notes
      BY GraphAssumption DEF LinksOf
<1>2. \A p \in Pairs : p[1] \in Notes /\ p[2] \in Notes /\ p[1] # p[2]
      BY GraphAssumption
<1>3. NotNewStaysSo
      BY DEF NotNewStaysSo, IInv, TypeOK
<1>4. \A p \in Pairs : cited'[p] = IF p \in LinksOf(n)
                                   THEN IF Live(p[2]) THEN links[p] ELSE None
                                   ELSE cited[p]
      BY DEF Cited
<1>5. TypeOK'
  <2>1. cited' \in [Pairs -> Types \cup {None}]
        BY LinksAreTyped DEF Cited, IInv, TypeOK
  <2>2. QED
        BY <2>1 DEF IInv, TypeOK, RowsInv, Rows
<1>6. LinksWereWritten'
  <2> SUFFICES ASSUME NEW p \in Pairs, cited'[p] # None
               PROVE  note'[p[1]] # "new" /\ note'[p[2]] # "new"
      BY DEF LinksWereWritten
  <2>1. CASE p \in LinksOf(n)
        BY <1>1, <1>3, <1>4, <2>1 DEF Live, NotNewStaysSo
  <2>2. CASE p \notin LinksOf(n)
        BY <1>2, <1>3, <1>4, <2>2 DEF IInv, LinksWereWritten, NotNewStaysSo
  <2>3. QED
        BY <2>1, <2>2
<1>7. LinkedPairsHaveAnEdge'
  <2> SUFFICES ASSUME NEW p \in Pairs, note'[p[1]] = "live", note'[p[2]] = "live",
                      cited'[p] # None
               PROVE  Between(F, p) # {}
      BY DEF LinkedPairsHaveAnEdge, LivePairs, Live
  <2>1. CASE p \in LinksOf(n)
        BY <1>4, <2>1
  <2>2. CASE p \notin LinksOf(n)
    <3>1. cited[p] # None
          BY <1>4, <2>2
    <3>2. note[p[1]] # "new" /\ note[p[2]] # "new"
          BY <3>1 DEF IInv, LinksWereWritten
    <3>3. note[p[1]] = "live" /\ note[p[2]] = "live"
          BY <1>2, <1>3, <3>2 DEF IInv, TypeOK, NotNewStaysSo
    <3>4. QED
          BY <2>2, <3>1, <3>3 DEF IInv, LinkedPairsHaveAnEdge, LivePairs, Live
  <2>3. QED
        BY <2>1, <2>2
<1>8. RowsInv(edges, classifier)'
      BY DEF RowsInv, Rows, MarksAreSound, ProposalsAreTyped
<1>9. OldPairs'
  <2>1. \A p \in Pairs : Old(p) => note'[p[1]] # "new" /\ note'[p[2]] # "new"
        BY <1>2, <1>3 DEF Old, NotNewStaysSo
  <2>2. ASSUME NEW x \in F
        PROVE  note'[x.pair[1]] # "new" /\ note'[x.pair[2]] # "new"
    <3>1. CASE \E e \in edges : x.pair = e.pair
          BY <2>1, <3>1 DEF IInv, OldPairs, RowsInv, Rows, Edge
    <3>2. CASE x.pair \in LinksOf(n) /\ note[x.pair[2]] # "new"
          BY <1>1, <1>3, <3>2 DEF NotNewStaysSo
    <3>3. QED
          BY <3>1, <3>2 DEF Live, KnownLinksOf
  <2>3. /\ resolver # None => \A p \in resolver : p \in Pairs /\ Old(p)
        /\ deriver # None => \A l \in deriver : l[1] \in Pairs /\ Old(l[1])
        BY DEF IInv, OldPairs, TypeOK
  <2>4. QED
        BY <2>1, <2>2, <2>3 DEF OldPairs, Old
<1>10. IInv'
       BY <1>5, <1>6, <1>7, <1>8, <1>9 DEF IInv
<1>11. "supersedes" \notin ReviewTypes /\ DefaultRel \notin ReviewTypes
       BY GraphAssumption DEF DefaultRel
<1>12. ASSUME NEW x \in edges'
       PROVE  Explained(x)
  <2>1. CASE \E e \in edges : x.pair = e.pair /\ x.rel = e.rel /\ x.proposed \in {e.proposed, None}
        BY <2>1 DEF Explained
  <2>2. CASE x.pair \in LinksOf(n) /\ links[x.pair] = x.rel /\ x.proposed = None /\ Live(x.pair[2])
    <3>1. cited'[x.pair] = x.rel
          BY <1>1, <1>4, <2>2
    <3>2. QED
          BY <2>2, <3>1 DEF Explained, TypedByOthers
  <2>3. CASE note[n] = "new" /\ x.pair \in LinksOf(n) /\ x.rel \in {DefaultRel, "supersedes"}
    <3>1. Between(edges, x.pair) = {}
          BY <1>1, <2>3 DEF Between, IInv, OldPairs, Old
    <3>2. QED
          BY <1>11, <2>3, <3>1 DEF Explained
  <2>4. QED
        BY <2>1, <2>2, <2>3 DEF KnownLinksOf
<1>13. Reviewed /\ Returned
       BY <1>12, ExplainedRows
<1>14. QED
       BY <1>10, <1>13 DEF Good

(* A note is written with its links, then with rows to the notes it knows. *)
LEMMA RowsWritten ==
  ASSUME IInv, NEW n \in Notes, NEW links \in Links(n), NEW N,
         NEW by \in {"explicit-ref", "autolearn-ref"},
         note[n] = "new", note' \in [Notes -> {"new", "live", "retired"}], note'[n] = "live",
         \A m \in Notes : m # n => note'[m] = note[m] \/ (note[m] = "live" /\ note'[m] = "retired"),
         Cited(n, links),
         edges' = Upserted(Refs(edges, links, by), N), Rows(N),
         \A x \in N : /\ Fresh(x) /\ x.pair \in KnownLinksOf(n)
                      /\ x.rel \in {DefaultRel, "supersedes"},
         UNCHANGED <<model, classifier, resolver, deriver>>
  PROVE  Good
<1> DEFINE E == Refs(edges, links, by)
           F == Upserted(E, N)
<1>1. /\ Grown(edges, E)
      /\ \A x \in E : x \in edges \/ (/\ x.pair \in LinksOf(n) /\ links[x.pair] = x.rel
                                      /\ x.proposed = None
                                      /\ links[x.pair] # None /\ Live(x.pair[2]))
      /\ \A p \in LinksOf(n) : links[p] # None /\ Live(p[2]) => Between(E, p) # {}
      BY RefsGrow DEF IInv, RowsInv
<1> HIDE DEF E
<1>2. Grown(E, F) /\ \A x \in F : x \in E \/ x \in N
      BY <1>1, UpsertedGrows DEF Grown
<1>3. edges' = F
      BY DEF E
<1> HIDE DEF F
<1>4. Grown(edges, F)
      BY <1>1, <1>2, GrownTwice
<1>5. RowsInv(F, classifier) /\ Final(edges, F) /\ Keeps(edges, F)
      BY <1>4, GrownKeeps DEF IInv
<1>6. \A x \in F : \/ \E e \in edges : /\ x.pair = e.pair /\ x.rel = e.rel
                                       /\ x.proposed \in {e.proposed, None}
                   \/ /\ x.pair \in LinksOf(n) /\ links[x.pair] = x.rel
                      /\ x.proposed = None /\ Live(x.pair[2])
                   \/ /\ note[n] = "new" /\ x.pair \in KnownLinksOf(n)
                      /\ x.rel \in {DefaultRel, "supersedes"}
      BY <1>1, <1>2
<1>7. \A p \in LinksOf(n) : links[p] # None /\ Live(p[2]) => Between(F, p) # {}
      BY <1>1, <1>2 DEF Grown, Between
<1>8. \A p \in Pairs \ LinksOf(n) : Between(edges, p) # {} => Between(F, p) # {}
      BY <1>5 DEF Keeps
<1>9. note[n] # "retired"
      OBVIOUS
<1>10. QED
       BY <1>3, <1>5, <1>6, <1>7, <1>8, <1>9, BodyWritten

LEMMA WrittenGood ==
  ASSUME IInv, NEW n \in Notes, NEW links \in Links(n),
         NEW by \in {"explicit-ref", "autolearn-ref"},
         NEW Q \in SUBSET KnownLinksOf(n),
         NEW near \in [Q -> AutoTypes \cup InfraTypes \cup {None}],
         NEW prior \in {m \in Notes : Live(m)} \cup {None},
         Written(n, links, by, near, prior)
  PROVE  Good
<1> DEFINE P == Pairs \cap {<<n, prior>>}
           S == {NewEdge(p, "supersedes", "autolearn-ref", None) : p \in P}
           G == {NewEdge(p, DefaultRel, "autolearn-ref", near[p]) : p \in Q}
<1>1. /\ note[n] = "new" /\ Cited(n, links)
      /\ note' = [m \in Notes |-> IF m = n THEN "live" ELSE IF m = prior THEN "retired" ELSE note[m]]
      /\ edges' = Upserted(Refs(edges, links, by), S \cup G)
      /\ UNCHANGED <<model, classifier, resolver, deriver>>
      BY DEF Written
<1>2. /\ note' \in [Notes -> {"new", "live", "retired"}] /\ note'[n] = "live"
      /\ \A m \in Notes : m # n => note'[m] = note[m] \/ (note[m] = "live" /\ note'[m] = "retired")
      BY <1>1, GraphAssumption DEF IInv, TypeOK, Live
<1>3. /\ "supersedes" \in Types /\ DefaultRel \in Types /\ "supersedes" # DefaultRel
      /\ DefaultRel \notin AutoTypes \cup InfraTypes \cup {None}
      /\ AutoTypes \cup InfraTypes \subseteq Types
      BY GraphAssumption DEF Types, DefaultRel
<1>4. \A p \in P : p \in KnownLinksOf(n)
      BY GraphAssumption DEF KnownLinksOf, LinksOf, Live
<1>5. P \in SUBSET Pairs /\ Q \in SUBSET Pairs
      BY DEF KnownLinksOf, LinksOf
<1> HIDE DEF P, G
<1>6. Rows(S) /\ \A x \in S : Fresh(x) /\ x.pair \in P /\ x.rel = "supersedes"
  <2> DEFINE none == [p \in P |-> None]
  <2>1. none \in [P -> (Types \cup {None}) \ {DefaultRel}]
        BY <1>3
  <2>2. AreRows(S, P, "supersedes", none)
        BY DEF AreRows
  <2> HIDE DEF none, S
  <2>3. QED
        BY <1>3, <1>5, <2>1, <2>2, PairedRows
<1> HIDE DEF S
<1>7. Rows(G) /\ \A x \in G : Fresh(x) /\ x.pair \in Q /\ x.rel = DefaultRel
  <2>1. near \in [Q -> (Types \cup {None}) \ {DefaultRel}]
        BY <1>3
  <2>2. AreRows(G, Q, DefaultRel, near)
        BY DEF AreRows, G
  <2>3. QED
        BY <1>3, <1>5, <2>1, <2>2, PairedRows
<1>8. Rows(S \cup G)
      BY <1>3, <1>6, <1>7 DEF Rows
<1>9. \A x \in S \cup G : /\ Fresh(x) /\ x.pair \in KnownLinksOf(n)
                          /\ x.rel \in {DefaultRel, "supersedes"}
      BY <1>4, <1>6, <1>7
<1>10. QED
       BY <1>1, <1>2, <1>8, <1>9, RowsWritten

LEMMA RememberGood ==
  ASSUME IInv, NEW n \in Notes, NEW links \in Links(n), NEW near \in SUBSET KnownLinksOf(n),
         NEW prior \in {m \in Notes : Live(m)} \cup {None}, Remember(n, links, near, prior)
  PROVE  Good
<1> DEFINE none == [p \in near |-> None]
<1>1. Written(n, links, "explicit-ref", none, prior)
      BY DEF Remember
<1>2. none \in [near -> AutoTypes \cup InfraTypes \cup {None}]
      OBVIOUS
<1> HIDE DEF none
<1>3. QED
      BY <1>1, <1>2, WrittenGood

LEMMA LandGood ==
  ASSUME IInv, NEW n \in Notes, NEW links \in Links(n), NEW near \in SUBSET KnownLinksOf(n),
         NEW prior \in {m \in Notes : Live(m)} \cup {None},
         NEW proposed \in Vetted(near), Land(n, links, proposed, prior)
  PROVE  Good
<1>1. proposed \in [near -> AutoTypes \cup InfraTypes \cup {None}]
      BY DEF Vetted
<1>2. QED
      BY <1>1, WrittenGood DEF Land

(* The links that were dropped do not come back in the same step. *)
LEMMA AmendGood ==
  ASSUME IInv, NEW n \in Notes, NEW links \in Links(n), Amend(n, links)
  PROVE  Good
<1> DEFINE dropped == {e \in edges : /\ e.pair \in LinksOf(n)
                                     /\ e.by = "explicit-ref"
                                     /\ links[e.pair] = None}
           E == edges \ dropped
           F == Refs(E, links, "explicit-ref")
<1>1. /\ note[n] = "live" /\ Cited(n, links) /\ edges' = F
      /\ UNCHANGED <<note, model, classifier, resolver, deriver>>
      BY DEF Amend, Live
<1>2. /\ note' \in [Notes -> {"new", "live", "retired"}] /\ note'[n] = "live"
      /\ note[n] # "retired" /\ \A m \in Notes : note'[m] = note[m]
      BY <1>1 DEF IInv, TypeOK
<1>3. \A e \in edges : e \notin E => e.pair \in LinksOf(n) /\ links[e.pair] = None
      OBVIOUS
<1>4. E \subseteq edges
      OBVIOUS
<1> HIDE DEF E
<1>5. RowsInv(E, classifier) /\ Final(edges, E)
      BY <1>4, ShrunkKeeps DEF IInv
<1>6. /\ Grown(E, F)
      /\ \A x \in F : x \in E \/ (/\ x.pair \in LinksOf(n) /\ links[x.pair] = x.rel
                                  /\ x.proposed = None
                                  /\ links[x.pair] # None /\ Live(x.pair[2]))
      /\ \A p \in LinksOf(n) : links[p] # None /\ Live(p[2]) => Between(F, p) # {}
      BY <1>5, RefsGrow DEF RowsInv
<1> HIDE DEF F
<1>7. RowsInv(F, classifier) /\ Final(E, F) /\ Keeps(E, F)
      BY <1>5, <1>6, GrownKeeps
<1>8. Final(edges, F)
  <2> SUFFICES ASSUME NEW e \in edges, e.rel = DefaultRel, e.examined,
                      NEW f \in F, f.pair = e.pair, f.rel = DefaultRel
               PROVE  f.examined
      BY DEF Final, Typed, Between
  <2>1. CASE e \in E
        BY <1>7, <2>1 DEF Final, Typed, Between
  <2>2. CASE e \notin E
    <3>1. links[f.pair] = None
          BY <1>3, <2>2
    <3>2. f \in E
          BY <1>6, <3>1
    <3>3. QED
          BY <1>5, <3>2 DEF Final, Typed, Between
  <2>3. QED
        BY <2>1, <2>2
<1>9. \A x \in F : \/ \E e \in edges : /\ x.pair = e.pair /\ x.rel = e.rel
                                       /\ x.proposed \in {e.proposed, None}
                   \/ /\ x.pair \in LinksOf(n) /\ links[x.pair] = x.rel
                      /\ x.proposed = None /\ Live(x.pair[2])
      BY <1>4, <1>6
<1>10. \A p \in Pairs \ LinksOf(n) : Between(edges, p) # {} => Between(E, p) # {}
       BY <1>3 DEF Between
<1>11. \A p \in Pairs \ LinksOf(n) : Between(edges, p) # {} => Between(F, p) # {}
       BY <1>7, <1>10 DEF Keeps
<1>12. QED
       BY <1>1, <1>2, <1>6, <1>7, <1>8, <1>9, <1>11, BodyWritten

(* Notes retire, and then their rows go. *)
LEMMA RetiresGood ==
  ASSUME IInv, (\E n \in Notes : Retire(n)) \/ PruneEdges
  PROVE  Good
<1>1. edges' \subseteq edges /\ UNCHANGED <<cited, model, classifier, resolver, deriver>>
      BY DEF Retire, PruneEdges
<1>2. RowsInv(edges', classifier) /\ Final(edges, edges')
      BY <1>1, ShrunkKeeps DEF IInv
<1>3. RowsInv(edges, classifier)'
      BY <1>1, <1>2 DEF RowsInv, Rows, MarksAreSound, ProposalsAreTyped
<1>4. /\ note' \in [Notes -> {"new", "live", "retired"}]
      /\ \A n \in Notes : /\ note[n] # "new" => note'[n] # "new"
                          /\ note'[n] = "live" => note[n] = "live"
      BY DEF Retire, PruneEdges, IInv, TypeOK, Live
<1>5. \A p \in Pairs : p[1] \in Notes /\ p[2] \in Notes
      BY GraphAssumption
<1>6. TypeOK'
      BY <1>1, <1>3, <1>4 DEF IInv, TypeOK, RowsInv, Rows
<1>7. LinksWereWritten'
      BY <1>1, <1>4, <1>5 DEF IInv, LinksWereWritten
<1>8. OldPairs'
  <2>1. \A p \in Pairs : Old(p) => note'[p[1]] # "new" /\ note'[p[2]] # "new"
        BY <1>4, <1>5 DEF Old
  <2>2. /\ \A e \in edges' : e.pair \in Pairs /\ Old(e.pair)
        /\ resolver # None => \A p \in resolver : p \in Pairs /\ Old(p)
        /\ deriver # None => \A l \in deriver : l[1] \in Pairs /\ Old(l[1])
        BY <1>1 DEF IInv, OldPairs, TypeOK, RowsInv, Rows, Edge
  <2>3. QED
        BY <1>1, <2>1, <2>2 DEF OldPairs, Old
<1>9. \A p \in Pairs : note'[p[1]] = "live" /\ note'[p[2]] = "live" =>
        (Between(edges, p) # {} => Between(edges', p) # {})
  <2>1. CASE edges' = edges
        BY <2>1
  <2>2. CASE PruneEdges
        BY <2>2 DEF PruneEdges, Dangling, Between
  <2>3. QED
        BY <2>1, <2>2 DEF Retire
<1>10. LinkedPairsHaveAnEdge'
       BY <1>1, <1>4, <1>5, <1>9 DEF IInv, LinkedPairsHaveAnEdge, LivePairs, Live
<1>11. IInv'
       BY <1>1, <1>3, <1>6, <1>7, <1>8, <1>10 DEF IInv
<1>12. Reviewed /\ Returned
       BY <1>1, ExplainedRows DEF Explained
<1>13. QED
       BY <1>2, <1>11, <1>12 DEF Good

-----------------------------------------------------------------------------
(* Rebuilds. *)

LEMMA RebuildSessionGood ==
  ASSUME IInv, NEW N \in SUBSET Notes, NEW relations \in SUBSET (Pairs \X Types),
         RebuildSession(N, relations)
  PROVE  Good
<1> DEFINE R == {NewEdge(r[1], r[2], "autolearn-ref", None) : r \in relations}
<1>1. /\ \A n \in N : note[n] = "new"
      /\ \A r \in relations : {r[1][1], r[1][2]} \subseteq N \cup {n \in Notes : Live(n)}
      /\ note' = [n \in Notes |-> IF n \in N THEN "live" ELSE note[n]]
      /\ edges' = Upserted(edges, R)
      /\ UNCHANGED <<cited, model, classifier, resolver, deriver>>
      BY DEF RebuildSession
<1>2. Rows(R) /\ \A x \in R : Fresh(x) /\ <<x.pair, x.rel>> \in relations
      BY KeyedRows DEF Creators
<1> HIDE DEF R
<1>3. Grown(edges, edges') /\ \A x \in edges' : x \in edges \/ x \in R
      BY <1>1, <1>2, UpsertedGrows DEF IInv, RowsInv
<1>4. RowsInv(edges', classifier) /\ Final(edges, edges') /\ Keeps(edges, edges')
      BY <1>3, GrownKeeps DEF IInv
<1>5. RowsInv(edges, classifier)'
      BY <1>1, <1>4 DEF RowsInv, Rows, MarksAreSound, ProposalsAreTyped
<1>6. /\ note' \in [Notes -> {"new", "live", "retired"}]
      /\ \A n \in Notes : note[n] # "new" => note'[n] = note[n]
      /\ \A n \in N \cup {m \in Notes : Live(m)} : note'[n] = "live"
      BY <1>1 DEF IInv, TypeOK, Live
<1>7. \A p \in Pairs : p[1] \in Notes /\ p[2] \in Notes
      BY GraphAssumption
<1>8. TypeOK'
      BY <1>1, <1>5, <1>6 DEF IInv, TypeOK, RowsInv, Rows
<1>9. LinksWereWritten'
      BY <1>1, <1>6, <1>7 DEF IInv, LinksWereWritten
<1>10. LinkedPairsHaveAnEdge'
  <2> SUFFICES ASSUME NEW p \in Pairs, note'[p[1]] = "live", note'[p[2]] = "live", cited[p] # None
               PROVE  Between(edges', p) # {}
      BY <1>1 DEF LinkedPairsHaveAnEdge, LivePairs, Live
  <2>1. note[p[1]] = "live" /\ note[p[2]] = "live"
        BY <1>6, <1>7 DEF IInv, LinksWereWritten
  <2>2. QED
        BY <1>4, <2>1 DEF IInv, LinkedPairsHaveAnEdge, LivePairs, Live, Keeps
<1>11. OldPairs'
  <2>1. \A p \in Pairs : Old(p) => note'[p[1]] # "new" /\ note'[p[2]] # "new"
        BY <1>6, <1>7 DEF Old
  <2>2. /\ \A e \in edges : e.pair \in Pairs /\ Old(e.pair)
        /\ resolver # None => \A p \in resolver : p \in Pairs /\ Old(p)
        /\ deriver # None => \A l \in deriver : l[1] \in Pairs /\ Old(l[1])
        BY DEF IInv, OldPairs, TypeOK, RowsInv, Rows, Edge
  <2>3. ASSUME NEW x \in R
        PROVE  note'[x.pair[1]] # "new" /\ note'[x.pair[2]] # "new"
    <3>1. PICK r \in relations : r = <<x.pair, x.rel>>
          BY <1>2
    <3>2. {x.pair[1], x.pair[2]} \subseteq N \cup {n \in Notes : Live(n)}
          BY <1>1, <3>1
    <3>3. QED
          BY <1>6, <3>2
  <2>4. QED
        BY <1>1, <1>3, <2>1, <2>2, <2>3 DEF OldPairs, Old
<1>12. IInv'
       BY <1>5, <1>8, <1>9, <1>10, <1>11 DEF IInv
<1>13. \A p, type : TypedByOthers(p, type)
       BY <1>1, <1>3 DEF TypedByOthers, Grown
<1>14. Reviewed /\ Returned
       BY <1>13 DEF Reviewed, Returned
<1>15. QED
       BY <1>4, <1>12, <1>14 DEF Good

LEMMA RebuildLinksGood ==
  ASSUME IInv, NEW near \in SUBSET LivePairs, RebuildLinks(near)
  PROVE  Good
<1> DEFINE P == near \cup {q \in LivePairs : cited[q] # None}
           R == {NewEdge(p, DefaultRel, "autolearn-ref", None) : p \in P}
<1>1. /\ \A e \in edges : ~e.examined
      /\ edges' = R
      /\ UNCHANGED <<note, cited, model, classifier, resolver, deriver>>
      BY DEF RebuildLinks
<1>2. P \in SUBSET Pairs /\ \A p \in P : note[p[1]] = "live" /\ note[p[2]] = "live"
      BY DEF LivePairs, Live
<1>3. \A p \in LivePairs : cited[p] # None => p \in P
      OBVIOUS
<1> HIDE DEF P
<1>4. /\ Rows(R)
      /\ \A x \in R : Fresh(x) /\ x.pair \in P /\ x.rel = DefaultRel /\ x.proposed = None
      /\ \A p \in P : \E x \in R : x.pair = p
      BY <1>2, GenericRows
<1> HIDE DEF R
<1>5. RowsInv(R, classifier)
      BY <1>4 DEF RowsInv, MarksAreSound, ProposalsAreTyped, Fresh
<1>6. RowsInv(edges, classifier)'
      BY <1>1, <1>5 DEF RowsInv, Rows, MarksAreSound, ProposalsAreTyped
<1>7. TypeOK'
      BY <1>1, <1>5 DEF IInv, TypeOK, RowsInv, Rows
<1>8. LinksWereWritten'
      BY <1>1 DEF IInv, LinksWereWritten
<1>9. OldPairs'
      BY <1>1, <1>2, <1>4 DEF IInv, OldPairs, Old
<1>10. LinkedPairsHaveAnEdge'
       BY <1>1, <1>3, <1>4 DEF LinkedPairsHaveAnEdge, LivePairs, Live, Between
<1>11. IInv'
       BY <1>6, <1>7, <1>8, <1>9, <1>10 DEF IInv
<1>12. Final(edges, edges')
       BY <1>1 DEF Final
<1>13. Reviewed /\ Returned
       BY <1>1, <1>4, ExplainedRows DEF Explained
<1>14. QED
       BY <1>11, <1>12, <1>13 DEF Good

-----------------------------------------------------------------------------
(* Jobs. *)

LEMMA EdgesStayGood ==
  ASSUME IInv,
         \/ ResolveBegin \/ RepairBegin \/ DeriveBegin
         \/ \E l \in Pairs \X InfraTypes : EditModel(l)
  PROVE  Good
<1>1. UNCHANGED <<note, cited, edges, classifier>>
      BY DEF ResolveBegin, RepairBegin, DeriveBegin, EditModel
<1>2. RowsInv(edges', classifier') /\ Final(edges, edges') /\ Keeps(edges, edges')
      BY <1>1, ShrunkKeeps DEF IInv, Keeps
<1>3. /\ LivePairs \subseteq Pairs /\ (\A p \in LivePairs : Old(p))
      /\ \A n \in Notes : LinksOf(n) \subseteq Pairs
      BY DEF LivePairs, LinksOf, Live, Old
<1>4. \A x \in edges' : Old(x.pair)
      BY <1>1 DEF IInv, OldPairs
<1>5. /\ model' \subseteq Pairs \X InfraTypes
      /\ resolver' = None \/ (resolver' \subseteq Pairs /\ \A p \in resolver' : Old(p))
      /\ deriver' = None \/ (/\ deriver' \subseteq Pairs \X InfraTypes
                             /\ \A l \in deriver' : Old(l[1]))
  <2>1. CASE ResolveBegin
        BY <1>3, <2>1 DEF ResolveBegin, IInv, TypeOK, OldPairs
  <2>2. CASE RepairBegin
        BY <1>3, <2>2 DEF RepairBegin, IInv, TypeOK, OldPairs
  <2>3. CASE DeriveBegin
        BY <1>3, <2>3 DEF DeriveBegin, IInv, TypeOK, OldPairs
  <2>4. CASE \E l \in Pairs \X InfraTypes : EditModel(l)
        BY <2>4 DEF EditModel, IInv, TypeOK, OldPairs
  <2>5. QED
        BY <2>1, <2>2, <2>3, <2>4
<1>6. IInv'
      BY <1>1, <1>2, <1>4, <1>5, SameNotes DEF IInv, TypeOK
<1>7. Reviewed /\ Returned
      BY <1>1, ExplainedRows DEF Explained
<1>8. QED
      BY <1>2, <1>6, <1>7 DEF Good

(* Generic rows are added, without proposals. *)
LEMMA GenericGood ==
  ASSUME IInv, NEW P \in SUBSET Pairs, \A p \in P : Old(p),
         edges' = Upserted(edges, {NewEdge(p, DefaultRel, "autolearn-ref", None) : p \in P}),
         UNCHANGED <<note, cited, model, classifier, deriver>>,
         resolver' \in {resolver, None}
  PROVE  Good
<1> DEFINE N == {NewEdge(p, DefaultRel, "autolearn-ref", None) : p \in P}
<1>1. Rows(N) /\ \A x \in N : Fresh(x) /\ x.pair \in P /\ x.rel = DefaultRel /\ x.proposed = None
      BY GenericRows
<1>2. edges' = Upserted(edges, N)
      OBVIOUS
<1> HIDE DEF N
<1>3. Grown(edges, edges') /\ \A x \in edges' : x \in edges \/ x \in N
      BY <1>1, <1>2, UpsertedGrows DEF IInv, RowsInv
<1>4. RowsInv(edges', classifier) /\ Final(edges, edges') /\ Keeps(edges, edges')
      BY <1>3, GrownKeeps DEF IInv
<1>5. \A x \in edges' : Old(x.pair)
      BY <1>1, <1>3 DEF IInv, OldPairs
<1>6. IInv'
      BY <1>4, <1>5, SameJobs DEF IInv, TypeOK
<1>7. Reviewed /\ Returned
      BY <1>1, <1>3, ExplainedRows DEF Explained
<1>8. QED
      BY <1>4, <1>6, <1>7 DEF Good

LEMMA ResolveEndGood ==
  ASSUME IInv, ResolveEnd
  PROVE  Good
<1>1. resolver \in SUBSET Pairs /\ \A p \in resolver : Old(p)
      BY DEF ResolveEnd, IInv, TypeOK, OldPairs
<1>2. QED
      BY <1>1, GenericGood DEF ResolveEnd

LEMMA LinkUsageGood ==
  ASSUME IInv, NEW n \in Notes, NEW used \in SUBSET KnownLinksOf(n), LinkUsage(n, used)
  PROVE  Good
<1>1. used \in SUBSET Pairs /\ \A p \in used : Old(p)
      BY DEF LinkUsage, KnownLinksOf, LinksOf, Live, Old
<1>2. QED
      BY <1>1, GenericGood DEF LinkUsage

(* The deriver makes rows its own, replaces the generic ones, adds new ones. *)
LEMMA DeriveEndGood ==
  ASSUME IInv, DeriveEnd
  PROVE  Good
<1> DEFINE pairs == {l[1] : l \in deriver}
           replaced == {e \in edges : e.pair \in pairs /\ e.rel = DefaultRel}
           derived == {e \in edges : <<e.pair, e.rel>> \in deriver}
           owned == {[e EXCEPT !.by = "infra-derive", !.examined = TRUE] : e \in derived}
           E == (edges \ (replaced \cup derived)) \cup owned
           N == {NewEdge(l[1], l[2], "infra-derive", None) : l \in deriver}
<1>1. deriver # None /\ deriver \in SUBSET (Pairs \X InfraTypes)
      BY DEF DeriveEnd, IInv, TypeOK
<1>2. /\ edges' = Upserted(E, N) /\ deriver' = None
      /\ UNCHANGED <<note, cited, model, classifier, resolver>>
      BY DEF DeriveEnd
<1>3. DefaultRel \notin InfraTypes /\ DefaultRel # None
      BY GraphAssumption DEF DefaultRel
<1>4. ASSUME NEW e \in derived
      PROVE  LET x == [e EXCEPT !.by = "infra-derive", !.examined = TRUE]
             IN  /\ x \in Edge /\ x.pair = e.pair /\ x.rel = e.rel /\ x.rel # DefaultRel
                 /\ x.proposed = e.proposed /\ x.read = e.read /\ x.open = e.open
  <2> DEFINE x == [e EXCEPT !.by = "infra-derive", !.examined = TRUE]
  <2>1. e \in Edge /\ e.rel # DefaultRel
        BY <1>1, <1>3 DEF IInv, RowsInv, Rows
  <2>2. x \in Edge
        BY <2>1 DEF Edge, Creators
  <2>3. x.pair = e.pair /\ x.rel = e.rel /\ x.proposed = e.proposed /\ x.read = e.read /\ x.open = e.open
        BY <2>1 DEF Edge
  <2>4. QED
        BY <2>1, <2>2, <2>3
<1>5. ASSUME NEW x \in E
      PROVE  \/ x \in edges
             \/ \E e \in derived : /\ x = [e EXCEPT !.by = "infra-derive", !.examined = TRUE]
                                   /\ x \in Edge /\ x.pair = e.pair /\ x.rel = e.rel
                                   /\ x.rel # DefaultRel
                                   /\ x.proposed = e.proposed /\ x.read = e.read
                                   /\ x.open = e.open
      BY <1>4
<1>6. \A x \in E : x \in edges => x \notin replaced /\ (x \notin derived \/ x \in owned)
      BY <1>3, <1>4
<1>7. \A x \in E : \E e \in edges :
        /\ x \in Edge /\ x.pair = e.pair /\ x.rel = e.rel
        /\ x.proposed = e.proposed /\ x.read = e.read /\ x.open = e.open
        /\ x = e \/ (x.rel # DefaultRel
                     /\ e \in derived /\ x = [e EXCEPT !.by = "infra-derive", !.examined = TRUE])
      BY <1>5 DEF IInv, RowsInv, Rows
<1>8. Rows(E)
  <2>1. ASSUME NEW x \in E, NEW y \in E, x.pair = y.pair, x.rel = y.rel
        PROVE  x = y
    <3>1. PICK e \in edges :
            /\ x.pair = e.pair /\ x.rel = e.rel
            /\ x = e \/ (e \in derived /\ x = [e EXCEPT !.by = "infra-derive", !.examined = TRUE])
          BY <1>7
    <3>2. PICK f \in edges :
            /\ y.pair = f.pair /\ y.rel = f.rel
            /\ y = f \/ (f \in derived /\ y = [f EXCEPT !.by = "infra-derive", !.examined = TRUE])
          BY <1>7
    <3>3. e = f
          BY <2>1, <3>1, <3>2 DEF IInv, RowsInv, Rows
    <3>4. CASE e \in derived
      <4>1. ASSUME NEW z \in E, z = e
            PROVE  z = [e EXCEPT !.by = "infra-derive", !.examined = TRUE]
        <5>1. z \in owned
              BY <3>4, <4>1
        <5>2. PICK d \in derived : z = [d EXCEPT !.by = "infra-derive", !.examined = TRUE]
              BY <5>1
        <5>3. d.pair = e.pair /\ d.rel = e.rel /\ d \in edges
              BY <1>4, <4>1, <5>2
        <5>4. d = e
              BY <5>3 DEF IInv, RowsInv, Rows
        <5>5. QED
              BY <5>2, <5>4
      <4>2. QED
            BY <3>1, <3>2, <3>3, <4>1
    <3>5. CASE e \notin derived
          BY <3>1, <3>2, <3>3, <3>5
    <3>6. QED
          BY <3>4, <3>5
  <2>2. QED
        BY <1>7, <2>1 DEF Rows
<1>9. deriver \in SUBSET (Pairs \X Types) /\ "infra-derive" \in Creators
      BY <1>1 DEF Types, Creators
<1>10. /\ Rows(N)
       /\ \A x \in N : Fresh(x) /\ <<x.pair, x.rel>> \in deriver
       /\ \A l \in deriver : \E x \in N : x.pair = l[1] /\ x.rel = l[2]
       BY <1>9, KeyedRows
<1>11. \A p \in pairs : \E x \in N : x.pair = p
       BY <1>10
<1>12. ASSUME NEW p \in Pairs, Between(edges, p) # {}
       PROVE  p \in pairs \/ Between(E, p) # {}
  <2>1. PICK e \in edges : e.pair = p
        BY <1>12 DEF Between
  <2>2. CASE e \in derived
    <3>1. <<e.pair, e.rel>> \in deriver /\ <<e.pair, e.rel>>[1] = e.pair
          BY <2>2
    <3>2. e.pair \in pairs
          BY <3>1
    <3>3. QED
          BY <2>1, <3>2
  <2>3. CASE e \notin derived /\ e \notin replaced
        BY <2>1, <2>3 DEF Between
  <2>4. CASE e \in replaced
        BY <2>1, <2>4
  <2>5. QED
        BY <2>2, <2>3, <2>4
<1> HIDE DEF N, pairs, E
<1>13. /\ Grown(E, edges') /\ \A x \in edges' : x \in E \/ x \in N
       /\ \A x \in N : Between(edges', x.pair) # {}
  <2>1. \A x \in N : Fresh(x)
        BY <1>10
  <2>2. edges' = Upserted(E, N)
        BY <1>2 DEF E, N
  <2>3. QED
        BY <1>8, <1>10, <2>1, <2>2, UpsertedGrows
<1>14. RowsInv(E, classifier)
  <2>1. MarksAreSound(E, classifier)
    <3>1. ASSUME NEW x \in E, x.read
          PROVE  classifier # None /\ (x.rel = DefaultRel => ~x.examined)
      <4>1. PICK e \in edges : x.rel = e.rel /\ x.read = e.read /\ (x.rel = DefaultRel => x = e)
            BY <1>7
      <4>2. QED
            BY <3>1, <4>1 DEF IInv, RowsInv, MarksAreSound
    <3>2. ASSUME NEW x \in E, NEW y \in E,
                 x.read, y.read, x.pair = y.pair
          PROVE  x = y
      <4>1. x.rel = y.rel
        <5>1. PICK e \in edges : x.pair = e.pair /\ x.rel = e.rel /\ x.read = e.read
              BY <1>7
        <5>2. PICK f \in edges : y.pair = f.pair /\ y.rel = f.rel /\ y.read = f.read
              BY <1>7
        <5>3. QED
              BY <3>2, <5>1, <5>2 DEF IInv, RowsInv, MarksAreSound
      <4>2. QED
            BY <1>8, <3>2, <4>1 DEF Rows
    <3>3. QED
          BY <3>1, <3>2 DEF MarksAreSound
  <2>2. ProposalsAreTyped(E)
        BY <1>7 DEF IInv, RowsInv, ProposalsAreTyped
  <2>3. QED
        BY <1>8, <2>1, <2>2 DEF RowsInv
<1>15. \A x \in E : x.rel = DefaultRel => x \in edges
       BY <1>7
<1>16. \A x \in E : \E e \in edges : x.pair = e.pair /\ x.rel = e.rel /\ x.proposed = e.proposed
       BY <1>7
<1>17. \A x \in N : x.rel # DefaultRel /\ Old(x.pair)
  <2> SUFFICES ASSUME NEW x \in N
               PROVE  x.rel # DefaultRel /\ Old(x.pair)
      OBVIOUS
  <2>1. PICK l \in deriver : l = <<x.pair, x.rel>>
        BY <1>10
  <2>2. l[1] = x.pair /\ l[2] \in InfraTypes /\ l[2] = x.rel
        BY <1>1, <2>1
  <2>3. Old(l[1])
        BY <1>1 DEF IInv, OldPairs
  <2>4. QED
        BY <1>3, <2>2, <2>3
<1>18. RowsInv(edges', classifier) /\ Keeps(E, edges')
       BY <1>13, <1>14, GrownKeeps
<1>19. Keeps(edges, edges')
       BY <1>11, <1>12, <1>13, <1>18 DEF Keeps
<1>20. Final(edges, edges')
  <2>1. ASSUME NEW f \in edges', f.rel = DefaultRel
        PROVE  f \in edges
        BY <1>13, <1>15, <1>17, <2>1
  <2>2. QED
        BY <2>1 DEF Final, Typed, Between, IInv, RowsInv, Rows
<1>21. \A x \in edges' : Old(x.pair)
       BY <1>13, <1>16, <1>17 DEF IInv, OldPairs
<1>22. IInv'
       BY <1>2, <1>18, <1>19, <1>21, SameJobs DEF IInv, TypeOK
<1>23. ASSUME NEW x \in edges'
       PROVE  Explained(x)
  <2>1. CASE x \in E
        BY <1>16, <2>1 DEF Explained
  <2>2. CASE x \in N
        BY <1>1, <1>10, <1>17, <2>2 DEF Explained, TypedByOthers
  <2>3. QED
        BY <1>13, <2>1, <2>2
<1>24. Reviewed /\ Returned
       BY <1>23, ExplainedRows
<1>25. QED
       BY <1>20, <1>22, <1>24 DEF Good

-----------------------------------------------------------------------------
(* The classifier marks rows and takes the marks away. *)

LEMMA MarkRows ==
  ASSUME NEW R, Rows(edges), R \subseteq edges
  PROVE  LET F == (edges \ R) \cup {[e EXCEPT !.read = TRUE] : e \in R}
         IN  /\ Rows(F) /\ Keeps(edges, F)
             /\ \A x \in F : \E e \in edges : SameRow(x, e) /\ (x.read => e.read \/ e \in R)
<1> DEFINE g == [e \in edges |-> IF e \in R THEN [e EXCEPT !.read = TRUE] ELSE e]
           F == (edges \ R) \cup {[e EXCEPT !.read = TRUE] : e \in R}
<1>1. ASSUME NEW e \in edges
      PROVE  SameRow(g[e], e) /\ (g[e].read => e.read \/ e \in R)
  <2>1. e \in Edge
        BY DEF Rows
  <2>2. CASE e \in R
        BY <2>1, <2>2, ReadChanges
  <2>3. CASE e \notin R
        BY <2>1, <2>3 DEF SameRow
  <2>4. QED
        BY <2>2, <2>3
<1>2. F = {g[e] : e \in edges}
      OBVIOUS
<1> HIDE DEF g, F
<1>3. \A e \in edges : g[e] \in Edge /\ g[e].pair = e.pair /\ g[e].rel = e.rel
      BY <1>1 DEF SameRow
<1>4. Rows(F) /\ Keeps(edges, F)
      BY <1>2, <1>3, Rewritten
<1>5. \A x \in F : \E e \in edges : SameRow(x, e) /\ (x.read => e.read \/ e \in R)
      BY <1>1, <1>2
<1>6. QED
      BY <1>4, <1>5 DEF F

LEMMA UnmarkRows ==
  ASSUME Rows(edges)
  PROVE  LET F == {[e EXCEPT !.read = FALSE] : e \in edges}
         IN  /\ Rows(F) /\ Keeps(edges, F)
             /\ \A x \in F : ~x.read /\ \E e \in edges : SameRow(x, e)
<1> DEFINE F == {[e EXCEPT !.read = FALSE] : e \in edges}
           g == [e \in edges |-> [e EXCEPT !.read = FALSE]]
<1>1. ASSUME NEW e \in edges
      PROVE  SameRow(g[e], e) /\ ~g[e].read
      BY ReadChanges DEF Rows
<1>2. F = {g[e] : e \in edges}
      OBVIOUS
<1> HIDE DEF g, F
<1>3. \A e \in edges : g[e] \in Edge /\ g[e].pair = e.pair /\ g[e].rel = e.rel
      BY <1>1 DEF SameRow
<1>4. Rows(F) /\ Keeps(edges, F)
      BY <1>2, <1>3, Rewritten
<1>5. \A x \in F : ~x.read /\ \E e \in edges : SameRow(x, e)
      BY <1>1, <1>2
<1>6. QED
      BY <1>4, <1>5 DEF F

(* A step that changes no row but for its marks. *)
LEMMA MarksGood ==
  ASSUME IInv, Rows(edges'), Keeps(edges, edges'),
         \A x \in edges' : \E e \in edges : SameRow(x, e),
         MarksAreSound(edges', classifier'),
         classifier' \in Notes \cup {None},
         UNCHANGED <<note, cited, model, resolver, deriver>>
  PROVE  Good
<1>1. ProposalsAreTyped(edges')
      BY DEF IInv, RowsInv, ProposalsAreTyped, SameRow
<1>2. \A x \in edges' : Old(x.pair)
      BY DEF IInv, OldPairs, SameRow
<1>3. RowsInv(edges', classifier')
      BY <1>1 DEF RowsInv
<1>4. IInv'
      BY <1>2, <1>3, SameJobs
<1>5. Final(edges, edges')
      BY SameRowsAreFinal DEF IInv, RowsInv, SameRow
<1>6. Reviewed /\ Returned
      BY ExplainedRows DEF Explained, SameRow
<1>7. QED
      BY <1>4, <1>5, <1>6 DEF Good

LEMMA ClassifyBeginGood ==
  ASSUME IInv, NEW n \in Notes, ClassifyBegin(n)
  PROVE  Good
<1> DEFINE R == Pending(n)
<1>1. /\ classifier = None /\ classifier' = n
      /\ edges' = (edges \ R) \cup {[e EXCEPT !.read = TRUE] : e \in R}
      /\ UNCHANGED <<note, cited, model, resolver, deriver>>
      BY DEF ClassifyBegin
<1>2. R \subseteq edges /\ \A e \in R : e.rel = DefaultRel /\ ~e.examined
      BY DEF Pending
<1>3. n # None
      BY GraphAssumption
<1>4. \A e \in edges : ~e.read
      BY <1>1 DEF IInv, RowsInv, MarksAreSound
<1> HIDE DEF R
<1>5. /\ Rows(edges') /\ Keeps(edges, edges')
      /\ \A x \in edges' : \E e \in edges : SameRow(x, e) /\ (x.read => e.read \/ e \in R)
      BY <1>1, <1>2, MarkRows DEF IInv, RowsInv
<1>6. \A x \in edges' : x.read => x.rel = DefaultRel /\ ~x.examined
      BY <1>2, <1>4, <1>5 DEF SameRow
<1>7. MarksAreSound(edges', classifier')
      BY <1>1, <1>3, <1>5, <1>6 DEF MarksAreSound, Rows
<1>8. \A x \in edges' : \E e \in edges : SameRow(x, e)
      BY <1>5
<1>9. QED
      BY <1>1, <1>5, <1>7, <1>8, MarksGood DEF IInv, TypeOK

LEMMA ClassifyFailGood ==
  ASSUME IInv, ClassifyFail
  PROVE  Good
<1>1. /\ classifier' = None /\ edges' = {[e EXCEPT !.read = FALSE] : e \in edges}
      /\ UNCHANGED <<note, cited, model, resolver, deriver>>
      BY DEF ClassifyFail
<1>2. /\ Rows(edges') /\ Keeps(edges, edges')
      /\ \A x \in edges' : ~x.read /\ \E e \in edges : SameRow(x, e)
      BY <1>1, UnmarkRows DEF IInv, RowsInv
<1>3. MarksAreSound(edges', classifier')
      BY <1>2 DEF MarksAreSound
<1>4. QED
      BY <1>1, <1>2, <1>3, MarksGood DEF IInv, TypeOK

-----------------------------------------------------------------------------
(* Decisions. *)

(* One row is updated, or folded into another one. *)
LEMMA RowUpdated ==
  ASSUME IInv, NEW e \in edges, NEW new \in Edge, new.pair = e.pair,
         edges' = Retyped(edges, e, new),
         new.read = e.read, new.proposed # DefaultRel, DefaultRel \notin new.open,
         new.rel = DefaultRel => e.rel = DefaultRel /\ new.examined = e.examined,
         UNCHANGED <<note, cited, model, classifier, resolver, deriver>>,
         Explained(new)
  PROVE  Good
<1>1. /\ Rows(edges')
      /\ \A x \in edges' : x = new \/ (x \in edges /\ x # e)
      /\ \A p : Between(edges, p) # {} => Between(edges', p) # {}
      BY RetypedRows DEF IInv, RowsInv
<1>2. MarksAreSound(edges', classifier)
      BY <1>1 DEF IInv, RowsInv, MarksAreSound
<1>3. ProposalsAreTyped(edges')
      BY <1>1 DEF IInv, RowsInv, ProposalsAreTyped
<1>4. RowsInv(edges', classifier') /\ Keeps(edges, edges')
      BY <1>1, <1>2, <1>3 DEF RowsInv, Keeps
<1>5. \A x \in edges' : Old(x.pair)
      BY <1>1 DEF IInv, OldPairs
<1>6. IInv'
      BY <1>4, <1>5, SameJobs DEF IInv, TypeOK
<1>7. Final(edges, edges')
      BY <1>1 DEF Final, Typed, Between, IInv, RowsInv, Rows
<1>8. \A x \in edges' : Explained(x)
      BY <1>1 DEF Explained
<1>9. QED
      BY <1>6, <1>7, <1>8, ExplainedRows DEF Good

(* A row that keeps its key is in no other's way. *)
LEMMA SameKey ==
  ASSUME NEW E, Rows(E), NEW e \in E, NEW new, new.rel = e.rel
  PROVE  (E \ {e}) \cup {new} = Retyped(E, e, new)
<1>1. Typed(E \ {e}, e.pair, new.rel) = {}
      BY DEF Typed, Between, Rows
<1>2. QED
      BY <1>1 DEF Retyped

LEMMA DecideBeginGood ==
  ASSUME IInv, NEW e \in edges, DecideBegin(e)
  PROVE  Good
<1> DEFINE new == [e EXCEPT !.open = @ \cup {e.proposed}]
<1>1. /\ e.proposed # None /\ edges' = (edges \ {e}) \cup {new}
      /\ UNCHANGED <<note, cited, model, classifier, resolver, deriver>>
      BY DEF DecideBegin
<1>2. /\ e \in Edge /\ e.proposed \in Types /\ e.proposed # DefaultRel
      /\ DefaultRel \notin e.open
      BY <1>1 DEF IInv, RowsInv, Rows, Edge, ProposalsAreTyped
<1>3. /\ new \in Edge /\ new.pair = e.pair /\ new.rel = e.rel
      /\ new.examined = e.examined /\ new.proposed = e.proposed
      /\ new.read = e.read /\ DefaultRel \notin new.open
      BY <1>2 DEF Edge
<1> HIDE DEF new
<1>4. edges' = Retyped(edges, e, new)
      BY <1>1, <1>3, SameKey DEF IInv, RowsInv
<1>5. Explained(new)
      BY <1>3 DEF Explained
<1>6. QED
      BY <1>1, <1>2, <1>3, <1>4, <1>5, RowUpdated

LEMMA DecideEndGood ==
  ASSUME IInv, NEW e \in edges, NEW type \in e.open, DecideEnd(e, type)
  PROVE  Good
<1>1. e \in Edge /\ type \in Types /\ type # DefaultRel /\ DefaultRel \notin e.open
      BY DEF IInv, RowsInv, Rows, Edge, ProposalsAreTyped
<1>2. None # DefaultRel
      BY GraphAssumption DEF DefaultRel
<1>3. UNCHANGED <<note, cited, model, classifier, resolver, deriver>>
      BY DEF DecideEnd
<1>4. CASE edges' = Retyped(edges, e, Approved(e, type))
  <2> DEFINE new == Approved(e, type)
  <2>1. /\ new \in Edge /\ new.pair = e.pair /\ new.rel = type
        /\ new.proposed = None /\ new.read = e.read /\ new.open = e.open
        /\ edges' = Retyped(edges, e, new)
        BY <1>1, <1>4 DEF Approved, Edge
  <2> HIDE DEF new
  <2>2. TypedByOthers(new.pair, new.rel)
        BY <1>3, <2>1 DEF TypedByOthers, Between
  <2>3. Explained(new)
        BY <1>1, <2>1, <2>2 DEF Explained
  <2>4. QED
        BY <1>1, <1>2, <1>3, <2>1, <2>3, RowUpdated
<1>5. CASE edges' = (edges \ {e}) \cup {Rejected(e)}
  <2> DEFINE new == Rejected(e)
  <2>1. /\ new \in Edge /\ new.pair = e.pair /\ new.rel = e.rel
        /\ new.proposed = None /\ new.examined = e.examined
        /\ new.read = e.read /\ new.open = e.open
        BY <1>1 DEF Rejected, Edge
  <2>2. edges' = (edges \ {e}) \cup {new}
        BY <1>5
  <2> HIDE DEF new
  <2>3. edges' = Retyped(edges, e, new)
        BY <2>1, <2>2, SameKey DEF IInv, RowsInv
  <2>4. Explained(new)
        BY <2>1 DEF Explained
  <2>5. QED
        BY <1>1, <1>2, <1>3, <2>1, <2>3, <2>4, RowUpdated
<1>6. QED
      BY <1>4, <1>5 DEF DecideEnd

-----------------------------------------------------------------------------
(* The classifier's verdicts. *)

LEMMA JudgedRow ==
  ASSUME NEW e \in Edge, NEW type \in Verdict
  PROVE  LET x == Judged(e, type)
         IN  /\ x \in Edge /\ x.pair = e.pair /\ ~x.read /\ x.open = e.open
             /\ \/ x.rel = e.rel
                \/ x.rel = type /\ type # DefaultRel /\ ~(type \in ReviewTypes /\ ReviewMode)
             /\ \/ x.proposed = e.proposed
                \/ x.proposed = type /\ type \in ReviewTypes
<1>1. type \in Types
      BY DEF Verdict, Types
<1>2. CASE type \in ReviewTypes /\ ReviewMode
      BY <1>1, <1>2 DEF Judged, Edge
<1>3. CASE ~(type \in ReviewTypes /\ ReviewMode) /\ type = DefaultRel
      BY <1>1, <1>3 DEF Judged, Edge
<1>4. CASE ~(type \in ReviewTypes /\ ReviewMode) /\ type # DefaultRel
      BY <1>1, <1>4 DEF Judged, Edge
<1>5. QED
      BY <1>2, <1>3, <1>4

LEMMA ClassifyEndGood ==
  ASSUME IInv, ClassifyEnd
  PROVE  Good
<1> DEFINE shown == Shown
<1>1. PICK verdict \in [shown -> Verdict] :
        edges' = {e \in edges : \A f \in shown : f.pair # e.pair} \cup
                 UNION {Retyped(Between(edges, e.pair), e, Judged(e, verdict[e])) : e \in shown}
      BY DEF ClassifyEnd
<1>2. classifier' = None /\ UNCHANGED <<note, cited, model, resolver, deriver>>
      BY DEF ClassifyEnd
<1> DEFINE J(e) == Judged(e, verdict[e])
           Part(e) == Retyped(Between(edges, e.pair), e, J(e))
<1>3. /\ \A e \in shown : e \in edges /\ e \in Edge /\ e.read
      /\ \A e \in edges : e.read => e \in shown
      BY DEF Shown, IInv, RowsInv, Rows
<1>4. \A e, f \in shown : e.pair = f.pair => e = f
      BY <1>3 DEF IInv, RowsInv, MarksAreSound
<1>5. \A x : x \in edges' <=>
        \/ x \in edges /\ \A f \in shown : f.pair # x.pair
        \/ \E e \in shown : x \in Part(e)
      BY <1>1
<1>6. ASSUME NEW e \in shown
      PROVE  /\ J(e) \in Edge /\ J(e).pair = e.pair /\ ~J(e).read /\ J(e).open = e.open
             /\ \/ J(e).rel = e.rel
                \/ /\ J(e).rel = verdict[e] /\ verdict[e] # DefaultRel
                   /\ ~(verdict[e] \in ReviewTypes /\ ReviewMode)
             /\ \/ J(e).proposed = e.proposed
                \/ J(e).proposed = verdict[e] /\ verdict[e] \in ReviewTypes
  <2>1. e \in Edge /\ verdict[e] \in Verdict
        BY <1>3
  <2>2. QED
        BY <2>1, JudgedRow
<1> HIDE DEF J, shown
<1>7. ASSUME NEW e \in shown
      PROVE  /\ Rows(Part(e))
             /\ \A x \in Part(e) : \/ x = J(e)
                                   \/ x \in edges /\ x.pair = e.pair /\ x # e
             /\ \A x \in edges : x.pair = e.pair /\ x # e => x \in Part(e)
             /\ Between(Part(e), e.pair) # {}
  <2> DEFINE B == Between(edges, e.pair)
  <2>1. /\ Rows(B) /\ e \in B
        /\ \A x : x \in B <=> x \in edges /\ x.pair = e.pair
        BY <1>3 DEF Between, IInv, RowsInv, Rows
  <2>2. Between(B, e.pair) # {}
        BY <2>1 DEF Between
  <2> HIDE DEF B
  <2>3. /\ Rows(Retyped(B, e, J(e)))
        /\ \A x \in Retyped(B, e, J(e)) : x = J(e) \/ (x \in B /\ x # e)
        /\ \A x \in B : x # e => x \in Retyped(B, e, J(e))
        /\ \A p : Between(B, p) # {} => Between(Retyped(B, e, J(e)), p) # {}
        BY <1>6, <2>1, RetypedRows
  <2>4. QED
        BY <2>1, <2>2, <2>3 DEF B
<1> HIDE DEF Part
<1>8. ASSUME NEW e \in shown, NEW x \in Part(e)
      PROVE  x.pair = e.pair /\ x \in Edge
      BY <1>6, <1>7, <1>8 DEF Rows
<1>9. Rows(edges')
  <2>1. ASSUME NEW x \in edges'
        PROVE  x \in Edge
        BY <1>5, <1>8 DEF IInv, RowsInv, Rows
  <2>2. ASSUME NEW x \in edges', NEW y \in edges', x.pair = y.pair, x.rel = y.rel
        PROVE  x = y
    <3>1. CASE \E e \in shown : e.pair = x.pair
      <4>1. PICK e \in shown : e.pair = x.pair
            BY <3>1
      <4>2. x \in Part(e) /\ y \in Part(e)
            BY <1>4, <1>5, <1>8, <2>2, <4>1
      <4>3. QED
            BY <1>7, <2>2, <4>2 DEF Rows
    <3>2. CASE ~\E e \in shown : e.pair = x.pair
      <4>1. x \in edges /\ y \in edges
            BY <1>5, <1>8, <2>2, <3>2
      <4>2. QED
            BY <2>2, <4>1 DEF IInv, RowsInv, Rows
    <3>3. QED
          BY <3>1, <3>2
  <2>3. QED
        BY <2>1, <2>2 DEF Rows
<1>10. ASSUME NEW x \in edges'
       PROVE  (x \in edges /\ x \notin shown) \/ \E e \in shown : x = J(e)
  <2>1. CASE x \in edges /\ \A f \in shown : f.pair # x.pair
        BY <2>1
  <2>2. CASE \E e \in shown : x \in Part(e)
        BY <1>4, <1>7, <2>2
  <2>3. QED
        BY <1>5, <2>1, <2>2
<1>11. \A x \in edges' : ~x.read
       BY <1>3, <1>6, <1>10
<1>12. DefaultRel \notin ReviewTypes /\ AutoTypes \cap ReviewTypes = {}
       BY GraphAssumption DEF DefaultRel
<1>13. ProposalsAreTyped(edges')
       BY <1>3, <1>6, <1>10, <1>12 DEF IInv, RowsInv, ProposalsAreTyped
<1>14. RowsInv(edges', classifier')
       BY <1>9, <1>11, <1>13 DEF RowsInv, MarksAreSound
<1>15. Keeps(edges, edges')
  <2> SUFFICES ASSUME NEW p \in Pairs, NEW x \in edges, x.pair = p
               PROVE  Between(edges', p) # {}
      BY DEF Keeps, Between
  <2>1. CASE \E e \in shown : e.pair = p
        BY <1>5, <1>7, <2>1 DEF Between
  <2>2. CASE ~\E e \in shown : e.pair = p
        BY <1>5, <2>2 DEF Between
  <2>3. QED
        BY <2>1, <2>2
<1>16. IInv'
  <2>1. \A x \in edges' : Old(x.pair)
        BY <1>3, <1>6, <1>10 DEF IInv, OldPairs
  <2>2. QED
        BY <1>2, <1>14, <1>15, <2>1, SameJobs
<1>17. Final(edges, edges')
  <2> SUFFICES ASSUME NEW e \in edges, e.rel = DefaultRel, e.examined,
                      NEW f \in edges', f.pair = e.pair, f.rel = DefaultRel
               PROVE  f = e
      BY DEF Final, Typed, Between
  <2>1. CASE f \in edges
        BY <2>1 DEF IInv, RowsInv, Rows
  <2>2. ASSUME NEW h \in shown, f = J(h)
        PROVE  f = e
    <3>1. h \in edges /\ h.pair = e.pair /\ h.rel = DefaultRel
          BY <1>3, <1>6, <2>2
    <3>2. h = e
          BY <3>1 DEF IInv, RowsInv, Rows
    <3>3. ~e.examined
          BY <1>3, <3>2 DEF IInv, RowsInv, MarksAreSound
    <3>4. QED
          BY <3>3
  <2>3. QED
        BY <1>10, <2>1, <2>2
<1>18. Reviewed
  <2>1. ASSUME ReviewMode, NEW x \in edges', x.rel \in ReviewTypes
        PROVE  \E e \in edges : x.pair = e.pair /\ x.rel = e.rel
    <3>1. CASE x \in edges
          BY <3>1
    <3>2. ASSUME NEW h \in shown, x = J(h)
          PROVE  \E e \in edges : x.pair = e.pair /\ x.rel = e.rel
          BY <1>3, <1>6, <2>1, <3>2
    <3>3. QED
          BY <1>10, <3>1, <3>2
  <2>2. QED
        BY <2>1 DEF Reviewed, Typed, Between
<1>19. Returned
  <2> SUFFICES ASSUME NEW e \in edges, NEW type \in e.open, ComesUp(e.pair, type)
               PROVE  \E g \in Between(edges, e.pair) : g.read /\ (g.rel = DefaultRel => ~g.examined)
      BY DEF Returned
  <2>1. PICK x \in edges' : x.pair = e.pair /\ x \notin edges
        BY DEF ComesUp, Typed, Between
  <2>2. PICK h \in shown : x = J(h)
        BY <1>10, <2>1
  <2>3. h \in edges /\ h.pair = e.pair /\ h.read
        BY <1>3, <1>6, <2>1, <2>2
  <2>4. h.rel = DefaultRel => ~h.examined
        BY <2>3 DEF IInv, RowsInv, MarksAreSound
  <2>5. QED
        BY <2>3, <2>4 DEF Between
<1>20. QED
       BY <1>16, <1>17, <1>18, <1>19 DEF Good

-----------------------------------------------------------------------------
LEMMA NextGood == IInv /\ [Next]_vars => Good
<1> SUFFICES ASSUME IInv, [Next]_vars
             PROVE  Good
    OBVIOUS
<1>1. ASSUME NEW n \in Notes, NEW links \in Links(n), NEW near \in SUBSET KnownLinksOf(n),
             NEW prior \in {m \in Notes : Live(m)} \cup {None},
             \/ Remember(n, links, near, prior)
             \/ \E proposed \in Vetted(near) : Land(n, links, proposed, prior)
      PROVE  Good
      BY <1>1, RememberGood, LandGood
<1>2. ASSUME NEW n \in Notes,
             \/ \E links \in Links(n) : Amend(n, links)
             \/ \E used \in SUBSET KnownLinksOf(n) : LinkUsage(n, used)
             \/ Retire(n)
             \/ ClassifyBegin(n)
      PROVE  Good
      BY <1>2, AmendGood, LinkUsageGood, RetiresGood, ClassifyBeginGood
<1>3. CASE PruneEdges
      BY <1>3, RetiresGood
<1>4. CASE \/ ResolveBegin \/ RepairBegin \/ DeriveBegin
           \/ \E l \in Pairs \X InfraTypes : EditModel(l)
      BY <1>4, EdgesStayGood
<1>5. CASE ResolveEnd \/ DeriveEnd
      BY <1>5, ResolveEndGood, DeriveEndGood
<1>6. CASE ClassifyEnd \/ ClassifyFail
      BY <1>6, ClassifyEndGood, ClassifyFailGood
<1>7. CASE \E e \in edges : DecideBegin(e) \/ \E type \in e.open : DecideEnd(e, type)
      BY <1>7, DecideBeginGood, DecideEndGood
<1>8. CASE \E N \in SUBSET Notes, relations \in SUBSET (Pairs \X Types) :
             RebuildSession(N, relations)
      BY <1>8, RebuildSessionGood
<1>9. CASE \E near \in SUBSET LivePairs : RebuildLinks(near)
      BY <1>9, RebuildLinksGood
<1>10. CASE UNCHANGED vars
       BY <1>10, Stutter
<1>11. QED
       BY <1>1, <1>2, <1>3, <1>4, <1>5, <1>6, <1>7, <1>8, <1>9, <1>10 DEF Next

LEMMA Invariance == Spec => []IInv
<1>1. Init => IInv
      BY InitIInv
<1>2. IInv /\ [Next]_vars => IInv'
      BY NextGood DEF Good
<1>3. QED
      BY <1>1, <1>2, PTL DEF Spec

(* Every variable of the graph keeps its type, and no two edges have the   *)
(* same source, target and type.                                           *)
THEOREM TypeCorrectness == Spec => []TypeOK
<1>1. IInv => TypeOK
      BY DEF IInv
<1>2. QED
      BY <1>1, Invariance, PTL

(* A pair of live notes of which one links to the other has an edge,       *)
(* through every resync, merge, rebuild, derivation and decision.          *)
THEOREM LinkedPairsKeepAnEdge == Spec => []LinkedPairsHaveAnEdge
<1>1. IInv => LinkedPairsHaveAnEdge
      BY DEF IInv
<1>2. QED
      BY <1>1, Invariance, PTL

(* An edge is examined once, and a type that a manager's request has read  *)
(* as its proposal comes up for its pair again only with the first         *)
(* examination of an edge or by a writer other than the classifier.        *)
THEOREM RejectionsOutlast == Spec => RejectionsOutliveExamination
<1> DEFINE Fine ==
             /\ \A e \in edges : e.rel = DefaultRel /\ e.examined =>
                  \A f \in Typed(edges', e.pair, DefaultRel) : f.examined
             /\ \A e \in edges : \A type \in e.open :
                  ComesUp(e.pair, type) =>
                    \/ TypedByOthers(e.pair, type)
                    \/ \E g \in Between(edges, e.pair) :
                         g.read /\ (g.rel = DefaultRel => ~g.examined)
<1>1. IInv /\ [Next]_vars => Fine
      BY NextGood DEF Good, Final, Returned
<1> HIDE DEF Fine
<1>2. Spec => [][Fine]_vars
      BY <1>1, Invariance, PTL DEF Spec
<1>3. QED
      BY <1>2 DEF RejectionsOutliveExamination, Fine

(* With the review on, the classifier gives no edge a review-gated type:   *)
(* its author's link or a capture's, the infrastructure model, a manager's *)
(* approval or a rebuild of a session does.                                *)
THEOREM TypesWereReviewed == Spec => ReviewTypesWereReviewed
<1>1. IInv /\ [Next]_vars => Reviewed
      BY NextGood DEF Good
<1>2. Spec => [][Reviewed]_vars
      BY <1>1, Invariance, PTL DEF Spec
<1>3. QED
      BY <1>2 DEF ReviewTypesWereReviewed, Reviewed

=============================================================================
