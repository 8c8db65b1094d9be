----------------------------- MODULE GraphEdges -----------------------------
(***************************************************************************)
(* The knowledge graph: the table memory_relation, whose edges are written *)
(* by the authors' [[links]], by captures, by the mention resolver, by the *)
(* rebuild of a session, by the infrastructure model and by the LLM        *)
(* classifier, and typed by managers.                                      *)
(*                                                                         *)
(* An edge is unique by its source, target and type.  The classifier and   *)
(* the deciding managers read rows and update them later, by id: a row     *)
(* carries the marks of who has read it, which it keeps when it is retyped *)
(* and takes with it when it is deleted.  The resolver and the deriver     *)
(* read the tables at one time and write at another; the rest is one step  *)
(* per transaction.  Weights, quotes and sensitivities are left out.       *)
(***************************************************************************)
EXTENDS FiniteSets

CONSTANTS
  Notes,
  Pairs,        \* the pairs of notes that may come to be linked
  AutoTypes,    \* classifier.autopromote_types of graph.yaml
  ReviewTypes,  \* classifier.review_types
  InfraTypes,   \* the types derive_infra_edges.py derives
  ReviewMode,   \* classifier.review_mode
  None

ASSUME GraphAssumption ==
  /\ Pairs \subseteq {p \in Notes \X Notes : p[1] # p[2]}
  /\ AutoTypes \cap ReviewTypes = {}
  /\ ReviewMode \in BOOLEAN
  /\ "supersedes" \in AutoTypes
  /\ "relates_to" \notin AutoTypes \cup ReviewTypes \cup InfraTypes
  /\ None \notin Notes
  /\ None \notin AutoTypes \cup ReviewTypes \cup InfraTypes \cup {"relates_to"}

VARIABLES
  note,        \* new, live or retired
  cited,       \* history: the links of a note's body to live notes, when they were last written
  edges,       \* the table memory_relation
  model,       \* the typed links the tables infra_* amount to
  classifier,  \* the note whose links the LLM is shown, or None
  resolver,    \* the pairs resolve_mentions.py or repair_orphans.py is about to link, or None
  deriver      \* the links a run of derive_infra_edges.py has read, or None

vars == <<note, cited, edges, model, classifier, resolver, deriver>>

DefaultRel == "relates_to"
Types == {DefaultRel} \cup AutoTypes \cup ReviewTypes \cup InfraTypes

(* Who created an edge: only the resync asks, so that the writers that are *)
(* neither an author's links nor the deriver count as one.                 *)
Creators == {"explicit-ref", "autolearn-ref", "infra-derive"}

(* An edge is read while the classifier is busy with it, and open for the  *)
(* types that managers' requests have read as its proposal: one more of    *)
(* them may always be under way.                                           *)
Edge == [pair : Pairs, rel : Types, by : Creators,
         examined : BOOLEAN, proposed : Types \cup {None},
         read : BOOLEAN, open : SUBSET Types]

TypeOK ==
  /\ note \in [Notes -> {"new", "live", "retired"}]
  /\ cited \in [Pairs -> Types \cup {None}]
  /\ edges \subseteq Edge
  /\ \A e, f \in edges : e.pair = f.pair /\ e.rel = f.rel => e = f
  /\ model \subseteq Pairs \X InfraTypes
  /\ classifier \in Notes \cup {None}
  /\ resolver \in (SUBSET Pairs) \cup {None}
  /\ deriver \in (SUBSET (Pairs \X InfraTypes)) \cup {None}

Init ==
  /\ note = [n \in Notes |-> "new"]
  /\ cited = [p \in Pairs |-> None]
  /\ edges = {}
  /\ model = {}
  /\ classifier = None
  /\ resolver = None
  /\ deriver = None

-----------------------------------------------------------------------------
(* Rows. *)

Live(n) == note[n] = "live"
LivePairs == {p \in Pairs : Live(p[1]) /\ Live(p[2])}
LinksOf(n) == {p \in Pairs : p[1] = n}

Between(E, p) == {e \in E : e.pair = p}
Typed(E, p, type) == {e \in Between(E, p) : e.rel = type}
Shown == {e \in edges : e.read}

NewEdge(p, type, by, proposed) ==
  [pair |-> p, rel |-> type, by |-> by, examined |-> by = "infra-derive",
   proposed |-> proposed, read |-> FALSE, open |-> {}]

(* Of the rows N, those with a new key are inserted; the other ones add    *)
(* weight to the row that is there, or do nothing.                         *)
Upserted(E, N) == E \cup {e \in N : Typed(E, e.pair, e.rel) = {}}

(* Mutant: the merge deletes the edges of the pair instead of the row. *)
RetypedOverPair(E, e, new) ==
  IF Typed(E \ {e}, e.pair, new.rel) = {} THEN (E \ {e}) \cup {new} ELSE E \ Between(E, e.pair)

(* e is updated to new; if that violates the unique key, e is deleted and  *)
(* its weight goes to the row that is there.                               *)
Retyped(E, e, new) ==
  IF Typed(E \ {e}, e.pair, new.rel) = {} THEN (E \ {e}) \cup {new} ELSE E \ {e}

-----------------------------------------------------------------------------
(* Writers of notes. *)

(* link_explicit_refs: links[p] is the type of the [[link]] to the note,   *)
(* DefaultRel when it has none, None when the body has no such link.       *)
Refs(E, links, by) ==
  Upserted(E, {NewEdge(p, links[p], by, None) :
                 p \in {q \in DOMAIN links : links[q] # None /\ Live(q[2])}})

Cited(n, links) ==
  cited' = [p \in Pairs |->
              IF p \in LinksOf(n) THEN IF Live(p[2]) THEN links[p] ELSE None
                                  ELSE cited[p]]

Links(n) == [LinksOf(n) -> Types \cup {None}]

(* A new note with the links of its body and the edges to the notes near;  *)
(* the note prior, of the same name, is retired by it: no link finds it.   *)
Written(n, links, by, near, prior) ==
  /\ note[n] = "new"
  /\ <<n, prior>> \in Pairs => links[<<n, prior>>] = None
  /\ note' = [m \in Notes |-> IF m = n THEN "live"
                              ELSE IF m = prior THEN "retired" ELSE note[m]]
  /\ Cited(n, links)
  /\ edges' = Upserted(Refs(edges, links, by),
                       {NewEdge(p, "supersedes", "autolearn-ref", None) :
                          p \in Pairs \cap {<<n, prior>>}} \cup
                       {NewEdge(p, DefaultRel, "autolearn-ref", near[p]) : p \in DOMAIN near})
  /\ UNCHANGED <<model, classifier, resolver, deriver>>

(* The notes a session has recalled, or found near, which may have been    *)
(* retired since.                                                          *)
KnownLinksOf(n) == {p \in LinksOf(n) : note[p[2]] # "new"}

(* personal_write, and the approval of a proposal, which may supersede.    *)
Remember(n, links, near, prior) ==
  Written(n, links, "explicit-ref", [p \in near |-> None], prior)

(* _vet_neighbor_links: the LLM picks neighbours, and proposes a stronger  *)
(* type for some of them.                                                  *)
Vetted(near) == [near -> AutoTypes \cup InfraTypes \cup {None}]

(* autolearn_ingest: the same for a capture, whose neighbours the LLM has  *)
(* vetted.                                                                 *)
Land(n, links, near, prior) == Written(n, links, "autolearn-ref", near, prior)

(* link_usage, when a capture turns out to be the note n again.            *)
LinkUsage(n, used) ==
  /\ Live(n)
  /\ edges' = Upserted(edges, {NewEdge(p, DefaultRel, "autolearn-ref", None) : p \in used})
  /\ UNCHANGED <<note, cited, model, classifier, resolver, deriver>>

(* rebuild_session.py: the LLM reads notes N out of a transcript, and      *)
(* relations of whatever type between them and notes that are there.  The  *)
(* links in their bodies are not parsed.                                   *)
RebuildSession(N, relations) ==
  /\ \A n \in N : note[n] = "new"
  /\ \A r \in relations : {r[1][1], r[1][2]} \subseteq N \cup {n \in Notes : Live(n)}
  /\ note' = [n \in Notes |-> IF n \in N THEN "live" ELSE note[n]]
  /\ edges' = Upserted(edges, {NewEdge(r[1], r[2], "autolearn-ref", None) : r \in relations})
  /\ UNCHANGED <<cited, model, classifier, resolver, deriver>>

(* rebuild_links.py: every edge goes, those of the bodies' links and of    *)
(* the notes nearest to an orphan come back as generic ones.  It asks for  *)
(* nothing, and would forget all decisions; it is run once, for the edges  *)
(* of the import, before any edge is examined.                             *)
RebuildLinks(near) ==
  /\ classifier = None /\ resolver = None /\ deriver = None
  /\ \A e \in edges : ~e.examined
  /\ edges' = {NewEdge(p, DefaultRel, "autolearn-ref", None) :
                 p \in near \cup {q \in LivePairs : cited[q] # None}}
  /\ UNCHANGED <<note, cited, model, classifier, resolver, deriver>>

(* resync_explicit_refs, with an edit or an amendment of the body. *)
Amend(n, links) ==
  LET dropped == {e \in edges : /\ e.pair \in LinksOf(n)
                                /\ e.by = "explicit-ref"
                                /\ links[e.pair] = None}
  IN  /\ Live(n)
      /\ Cited(n, links)
      /\ edges' = Refs(edges \ dropped, links, "explicit-ref")
      /\ UNCHANGED <<note, model, classifier, resolver, deriver>>

Retire(n) ==
  /\ Live(n)
  /\ note' = [note EXCEPT ![n] = "retired"]
  /\ UNCHANGED <<cited, edges, model, classifier, resolver, deriver>>

(* prune_retention.py. *)
Dangling == {e \in edges : note[e.pair[1]] = "retired" \/ note[e.pair[2]] = "retired"}

PruneEdges ==
  /\ Dangling # {}
  /\ edges' = edges \ Dangling
  /\ UNCHANGED <<note, cited, model, classifier, resolver, deriver>>

-----------------------------------------------------------------------------
(* resolve_mentions.py: the notes and edges are read first, the LLM is     *)
(* asked about the ambiguous mentions, and the new edges are written last. *)
ResolveBegin ==
  /\ resolver = None
  /\ \E P \in SUBSET {p \in LivePairs : Between(edges, p) = {}} :
       P # {} /\ resolver' = P
  /\ UNCHANGED <<note, cited, edges, model, classifier, deriver>>

(* repair_orphans.py does the same for the notes that have no edge at all. *)
RepairBegin ==
  /\ resolver = None
  /\ \E n \in {m \in Notes : Live(m) /\ \A e \in edges : m # e.pair[1] /\ m # e.pair[2]} :
       \E P \in SUBSET (LinksOf(n) \cap LivePairs) :
         P # {} /\ resolver' = P
  /\ UNCHANGED <<note, cited, edges, model, classifier, deriver>>

ResolveEnd ==
  /\ resolver # None
  /\ edges' = Upserted(edges, {NewEdge(p, DefaultRel, "autolearn-ref", None) : p \in resolver})
  /\ resolver' = None
  /\ UNCHANGED <<note, cited, model, classifier, deriver>>

-----------------------------------------------------------------------------
(* derive_infra_edges.py. *)

(* infra_upsert and infra_delete of a host, service or link with anchors.  *)
EditModel(l) ==
  /\ model' = (model \ {l}) \cup ({l} \ model)
  /\ UNCHANGED <<note, cited, edges, classifier, resolver, deriver>>

DeriveBegin ==
  /\ deriver = None
  /\ deriver' = {l \in model : l[1] \in LivePairs}
  /\ deriver' # {}
  /\ UNCHANGED <<note, cited, edges, model, classifier, resolver>>

(* upsert_typed_edge: the typed edge is the deriver's from now on, and the *)
(* generic edge of the pair is folded into it.                             *)
DeriveEnd ==
  LET pairs == {l[1] : l \in deriver}
      replaced == {e \in edges : e.pair \in pairs /\ e.rel = DefaultRel}
      derived == {e \in edges : <<e.pair, e.rel>> \in deriver}
      owned == {[e EXCEPT !.by = "infra-derive", !.examined = TRUE] : e \in derived}
  IN  /\ deriver # None
      /\ edges' = Upserted((edges \ (replaced \cup derived)) \cup owned,
                           {NewEdge(l[1], l[2], "infra-derive", None) : l \in deriver})
      /\ deriver' = None
      /\ UNCHANGED <<note, cited, model, classifier, resolver>>

-----------------------------------------------------------------------------
(* classify_edges.py: the unexamined edges of a note are read, the LLM is  *)
(* asked about them, and they are updated together.                        *)

(* Mutant: the scan does not ask whether an edge was examined. *)
PendingAgain(n) ==
  {e \in edges : e.pair \in LinksOf(n) \cap LivePairs /\ e.rel = DefaultRel}

Pending(n) ==
  {e \in edges : e.pair \in LinksOf(n) \cap LivePairs /\ e.rel = DefaultRel /\ ~e.examined}

ClassifyBegin(n) ==
  /\ classifier = None
  /\ Pending(n) # {}
  /\ classifier' = n
  /\ edges' = (edges \ Pending(n)) \cup {[e EXCEPT !.read = TRUE] : e \in Pending(n)}
  /\ UNCHANGED <<note, cited, model, resolver, deriver>>

(* What decide and verify_edge leave of the LLM's label: a type to apply   *)
(* or to propose, or DefaultRel.                                           *)
Verdict == {DefaultRel} \cup AutoTypes \cup ReviewTypes

(* Mutant: the review gate is left out. *)
JudgedUnreviewed(e, type) == [e EXCEPT !.rel = IF type = DefaultRel THEN @ ELSE type,
                                       !.examined = TRUE, !.read = FALSE]

(* Mutant: a generic verdict leaves the edge pending. *)
JudgedUnstamped(e, type) ==
  IF type \in ReviewTypes /\ ReviewMode
  THEN [e EXCEPT !.proposed = type, !.examined = TRUE, !.read = FALSE]
  ELSE [e EXCEPT !.rel = IF type = DefaultRel THEN @ ELSE type,
                 !.examined = type # DefaultRel, !.read = FALSE]

(* propose_edge_type, or promote. *)
Judged(e, type) ==
  IF type \in ReviewTypes /\ ReviewMode
  THEN [e EXCEPT !.proposed = type, !.examined = TRUE, !.read = FALSE]
  ELSE [e EXCEPT !.rel = IF type = DefaultRel THEN @ ELSE type,
                 !.examined = TRUE, !.read = FALSE]

(* The rows of one read have different targets: none is in another's way.  *)
ClassifyEnd ==
  /\ classifier # None
  /\ \E verdict \in [Shown -> Verdict] :
       edges' = {e \in edges : \A f \in Shown : f.pair # e.pair} \cup
                UNION {Retyped(Between(edges, e.pair), e, Judged(e, verdict[e])) : e \in Shown}
  /\ classifier' = None
  /\ UNCHANGED <<note, cited, model, resolver, deriver>>

(* The LLM fails: the edges are left for the next run. *)
ClassifyFail ==
  /\ classifier # None
  /\ classifier' = None
  /\ edges' = {[e EXCEPT !.read = FALSE] : e \in edges}
  /\ UNCHANGED <<note, cited, model, resolver, deriver>>

-----------------------------------------------------------------------------
(* edge_proposal_decide: a request reads the row with its proposal, and    *)
(* then updates it by id, whatever it has become; any number of them at a  *)
(* time.  One whose row is gone changes nothing.                           *)

DecideBegin(e) ==
  /\ e.proposed # None
  /\ e.rel = DefaultRel
  /\ edges' = (edges \ {e}) \cup {[e EXCEPT !.open = @ \cup {e.proposed}]}
  /\ UNCHANGED <<note, cited, model, classifier, resolver, deriver>>

Rejected(e) == [e EXCEPT !.proposed = None]
Approved(e, type) == [e EXCEPT !.proposed = None, !.rel = type]

DecideEnd(e, type) ==
  /\ type \in e.open
  /\ \/ edges' = Retyped(edges, e, Approved(e, type))
     \/ edges' = (edges \ {e}) \cup {Rejected(e)}
  /\ UNCHANGED <<note, cited, model, classifier, resolver, deriver>>

-----------------------------------------------------------------------------
Next ==
  \/ \E n \in Notes :
       \/ \E links \in Links(n), near \in SUBSET KnownLinksOf(n),
             prior \in {m \in Notes : Live(m)} \cup {None} :
            \/ Remember(n, links, near, prior)
            \/ \E proposed \in Vetted(near) : Land(n, links, proposed, prior)
       \/ \E links \in Links(n) : Amend(n, links)
       \/ \E used \in SUBSET KnownLinksOf(n) : LinkUsage(n, used)
       \/ Retire(n)
       \/ ClassifyBegin(n)
  \/ \E N \in SUBSET Notes, relations \in SUBSET (Pairs \X Types) : RebuildSession(N, relations)
  \/ \E near \in SUBSET LivePairs : RebuildLinks(near)
  \/ PruneEdges
  \/ ResolveBegin \/ RepairBegin \/ ResolveEnd
  \/ \E l \in Pairs \X InfraTypes : EditModel(l)
  \/ DeriveBegin \/ DeriveEnd
  \/ ClassifyEnd \/ ClassifyFail
  \/ \E e \in edges :
       \/ DecideBegin(e)
       \/ \E type \in e.open : DecideEnd(e, type)

Spec == Init /\ [][Next]_vars

(* The timers start the classifier, which serves every note; the LLM does  *)
(* not fail on the same note for ever.                                     *)
Fairness ==
  /\ WF_vars(ClassifyEnd \/ ClassifyFail)
  /\ \A n \in Notes : SF_vars(ClassifyBegin(n)) /\ SF_vars(classifier = n /\ ClassifyEnd)

FairSpec == Spec /\ Fairness

-----------------------------------------------------------------------------
(* A note that links to another one has an edge to it as long as both live: *)
(* resyncs, promotions, merges, derivations and decisions that overlap may  *)
(* retype the edge or fold it into another, and never lose the pair.        *)
LinkedPairsHaveAnEdge ==
  \A p \in LivePairs : cited[p] # None => Between(edges, p) # {}

(* The writers that type an edge without the classifier: its author's link *)
(* (which may be a capture's), the infrastructure model, a manager who     *)
(* approves the type, and a rebuild of a session, which adds edges and     *)
(* changes none.                                                           *)
TypedByOthers(p, type) ==
  \/ cited'[p] = type
  \/ deriver # None /\ <<p, type>> \in deriver
  \/ UNCHANGED classifier /\ \E e \in Between(edges, p) : type \in e.open
  \/ edges \subseteq edges' /\ UNCHANGED cited

(* What only a review may type, the classifier does not: an edge comes to  *)
(* have a review-gated type by somebody else, a rebuild included, which    *)
(* asks nobody.                                                            *)
ReviewTypesWereReviewed ==
  [][ReviewMode =>
       \A e \in edges' :
         e.rel \in ReviewTypes /\ Typed(edges, e.pair, e.rel) = {} =>
           TypedByOthers(e.pair, e.rel)]_vars

(* A step proposes the type for the pair, or makes it one of its types. *)
ComesUp(p, type) ==
  LET Proposes(E) == \E e \in Typed(E, p, DefaultRel) : e.proposed = type
  IN  \/ Proposes(edges') /\ ~Proposes(edges)
      \/ Typed(edges', p, type) # {} /\ Typed(edges, p, type) = {}

(* An edge is examined once.  What a manager has rejected for an edge is   *)
(* proposed for the pair again, or typed, only by the first examination of *)
(* an edge (the rejected proposal came with a capture, before the          *)
(* classifier) or by the writers above, an approval that overlapped the    *)
(* rejection among them.                                                   *)
RejectionsOutliveExamination ==
  [][/\ \A e \in edges : e.rel = DefaultRel /\ e.examined =>
          \A f \in Typed(edges', e.pair, DefaultRel) : f.examined
     /\ \A e \in edges : \A type \in e.open :
          ComesUp(e.pair, type) =>
            \/ TypedByOthers(e.pair, type)
            \/ \E g \in Between(edges, e.pair) :
                 g.read /\ (g.rel = DefaultRel => ~g.examined)]_vars

(* Every edge of live notes is examined in the end, unless it is gone.     *)
EdgesAreExamined ==
  \A n \in Notes, p \in Pairs :
    (\E e \in Pending(n) : e.pair = p) ~> ~\E e \in Pending(n) : e.pair = p

(* What two texts say, and TLC refutes.  Migration 0023: an edge keeps its *)
(* generic type while a proposal is pending.                               *)
ProposalsKeepTheGenericType ==
  \A e \in edges : e.proposed # None => e.rel = DefaultRel

(* api.py:5159: a rejected edge is not proposed again, as it stays         *)
(* classified; a capture's proposal is on an edge that never was.          *)
RejectedEdgesLeaveTheBacklog ==
  \A n \in Notes : \A e \in Pending(n) : e.open # {} => e.proposed # None
=============================================================================
