--------------------------- MODULE CandidateMerge ---------------------------
(***************************************************************************)
(* extract_session: a transcript is cut into windows, the model answers    *)
(* for each of them with candidates, a candidate gets its trust and its    *)
(* evidence from the spans it cites, and the candidates that are siblings  *)
(* are merged into notes.                                                  *)
(*                                                                         *)
(* A span has the number of its line, its channel, the fact its text       *)
(* states and a rendered size; a candidate has a name (its tokens), states *)
(* one fact and cites positions of its window, in their order.  Two texts  *)
(* share enough tokens (for a spoof, or to be siblings) if they state the  *)
(* same fact.  Descriptions, types and the session, which the candidates   *)
(* of a call share, are left out.                                          *)
(***************************************************************************)
EXTENDS Integers, SequencesExt

CONSTANTS
  Transcripts,    \* non-empty sequences of spans
  Names,          \* sequences of tokens
  Facts,
  MaxChars,       \* EXTRACT_MAX_PROMPT_CHARS
  MinPrefix,      \* _MERGE_MIN_PREFIX
  MaxCandidates   \* bound: the candidates of one call

Span == [idx : Int, channel : STRING, text : Facts, size : Nat]

ASSUME MergeAssumption ==
  /\ Transcripts \subseteq Seq(Span) \ {<<>>}
  /\ MaxChars \in Nat /\ MinPrefix \in Nat

VARIABLES
  transcript,  \* the spans
  windows,     \* what chunk_spans made of them
  at,          \* the windows the model has answered for
  heard,       \* history: its candidates, the dropped ones too
  proposals,   \* the candidates kept, with their verdicts
  notes        \* what merge_siblings made of them

mergeVars == <<transcript, windows, at, heard, proposals, notes>>

FirstParty == {"human-input", "agent-reasoning"}

Verdicts == {"trusted", "quarantined"}

Proposal == [name : Names, body : Facts, trust : Verdicts, evidence : SUBSET Span,
             window : Nat, cites : SUBSET Nat]

MergeTypeOK ==
  /\ transcript \in Transcripts /\ windows \in Seq(Seq(Span))
  /\ at \in 0 .. Len(windows)
  /\ heard \subseteq Proposal
  /\ proposals \in Seq(Proposal)
  /\ \A p \in Range(proposals) :
       /\ p.window \in DOMAIN windows /\ p.cites \subseteq DOMAIN windows[p.window]
       /\ p.evidence \subseteq Range(windows[p.window])
  /\ \A n \in Range(notes) :
       /\ n.name \in Names \/ Len(n.name) >= MinPrefix
       /\ n.body \in Seq(Facts) /\ n.trust \in Verdicts
       /\ n.evidence \subseteq Range(transcript) /\ n.of \subseteq DOMAIN proposals

-----------------------------------------------------------------------------
(* chunk_spans *)

Size(window) == FoldLeft(LAMBDA n, s : n + s.size, 0, window)

(* Mutant: the span that no longer fits is lost at the cut. *)
PackedCutting(chunks, s) ==
  IF chunks = <<>> THEN <<<<s>>>>
  ELSE IF Last(chunks) # <<>> /\ Size(Last(chunks)) + s.size > MaxChars THEN Append(chunks, <<>>)
  ELSE Append(Front(chunks), Append(Last(chunks), s))

Packed(chunks, s) ==
  IF chunks = <<>> THEN <<<<s>>>>
  ELSE IF Size(Last(chunks)) + s.size > MaxChars THEN Append(chunks, <<s>>)
  ELSE Append(Front(chunks), Append(Last(chunks), s))

Chunks(ss) == FoldLeft(Packed, <<>>, ss)

-----------------------------------------------------------------------------
(* assess, cited_spans_for *)

Cited(c, window) == {i \in c.cites : i \in DOMAIN window}

Foreign(window) == {s \in Range(window) : s.channel \notin FirstParty}

(* A fact laundered through first-party citations is quarantined. *)
Assessed(c, window) ==
  LET channels == {window[i].channel : i \in Cited(c, window)}
  IN  IF /\ channels # {} /\ channels \subseteq FirstParty
         /\ \A s \in Foreign(window) : s.text # c.body
      THEN "trusted" ELSE "quarantined"

(* The spans are told apart by their lines: the first one cited stands for *)
(* its line.                                                               *)
Evidence(c, window) ==
  {window[i] : i \in {j \in Cited(c, window) :
                        \A k \in Cited(c, window) : k < j => window[k].idx # window[j].idx}}

Proposed(c, n) ==
  [name |-> c.name, body |-> c.body, trust |-> Assessed(c, windows[n]),
   evidence |-> Evidence(c, windows[n]), window |-> n, cites |-> Cited(c, windows[n])]

-----------------------------------------------------------------------------
(* merge_siblings *)

Siblings(p, q) ==
  \/ /\ Len(p.name) >= MinPrefix /\ Len(q.name) >= MinPrefix
     /\ SubSeq(p.name, 1, MinPrefix) = SubSeq(q.name, 1, MinPrefix)
  \/ p.body = q.body

Root(parent) ==
  LET root[i \in DOMAIN parent] == IF parent[i] = i THEN i ELSE root[parent[i]]
  IN  root

(* Mutant: the members are joined, not the roots of their trees. *)
JoinedDirectly(parent, i, j) == [parent EXCEPT ![j] = i]

Joined(parent, i, j) ==
  LET ri == Root(parent)[i]
      rj == Root(parent)[j]
  IN  IF ri <= rj THEN [parent EXCEPT ![rj] = ri] ELSE [parent EXCEPT ![ri] = rj]

(* The pairs in which i comes first. *)
JoinedWithLater(ps, parent, i) ==
  FoldLeftDomain(LAMBDA p, j : IF i < j /\ Siblings(ps[i], ps[j]) THEN Joined(p, i, j) ELSE p,
                 parent, ps)

Forest(ps) ==
  FoldLeftDomain(LAMBDA parent, i : JoinedWithLater(ps, parent, i), [i \in DOMAIN ps |-> i], ps)

Cluster(parent, i) == {j \in DOMAIN parent : Root(parent)[j] = Root(parent)[i]}

(* A cluster takes the place of its first member. *)
WithCluster(groups, parent, i) ==
  IF \E k \in DOMAIN groups : i \in groups[k] THEN groups ELSE Append(groups, Cluster(parent, i))

Clusters(ps) ==
  LET parent == Forest(ps)
  IN  FoldLeftDomain(LAMBDA groups, i : WithCluster(groups, parent, i), <<>>, ps)

(* _merge_cluster: the members of a cluster, in the order of the proposals. *)

CommonName(members) == LongestCommonPrefix({m.name : m \in members})

NameOf(ps, cluster) ==
  LET first == ps[Min(cluster)]
      common == CommonName({ps[i] : i \in cluster})
  IN  IF Cardinality(cluster) > 1 /\ Len(common) >= MinPrefix THEN common ELSE first.name

(* Mutant: one trusted member makes the note trusted. *)
LeastTrustAny(members) ==
  IF \E m \in members : m.trust = "trusted" THEN "trusted" ELSE "quarantined"

LeastTrust(members) ==
  IF \A m \in members : m.trust = "trusted" THEN "trusted" ELSE "quarantined"

(* One piece of evidence for a line: the first. *)
WithEvidence(E, F) == E \cup {s \in F : \A t \in E : t.idx # s.idx}

United(ps, cluster) ==
  FoldLeftDomain(LAMBDA E, i : IF i \in cluster THEN WithEvidence(E, ps[i].evidence) ELSE E,
                 {}, ps)

Paragraphs(ps, cluster) ==
  FoldLeftDomain(LAMBDA b, i : IF i \in cluster /\ ~Contains(b, ps[i].body)
                               THEN Append(b, ps[i].body) ELSE b,
                 <<>>, ps)

(* A cluster of one is left as it is. *)
Merged(ps, cluster) ==
  [name |-> NameOf(ps, cluster), body |-> Paragraphs(ps, cluster),
   trust |-> LeastTrust({ps[i] : i \in cluster}),
   evidence |-> United(ps, cluster), of |-> cluster]

MergedSiblings(ps) ==
  LET clusters == Clusters(ps)
  IN  [k \in DOMAIN clusters |-> Merged(ps, clusters[k])]

-----------------------------------------------------------------------------
(* extract_session *)

MergeInit ==
  /\ transcript \in Transcripts
  /\ windows = Chunks(transcript)
  /\ at = 0
  /\ heard = {}
  /\ proposals = <<>>
  /\ notes = <<>>

(* Mutant: a candidate is known by its name. *)
SameName(p, q) == p.name = q.name
Same(p, q) == p.name = q.name /\ p.body = q.body

(* A fact repeated in two windows lands once; a single window is not       *)
(* looked through.                                                         *)
Kept(ps, p) ==
  IF Len(windows) > 1 /\ \E i \in DOMAIN ps : Same(ps[i], p) THEN ps ELSE Append(ps, p)

(* The citations may be of spans that are not there. *)
Candidate(window) ==
  [name : Names, body : Facts, cites : {{Len(window) + 1}} \cup SUBSET DOMAIN window]

(* The model answers with one more candidate for the window it is shown. *)
Propose(c) ==
  /\ at < Len(windows) /\ notes = <<>>
  /\ Len(proposals) < MaxCandidates /\ Cardinality(heard) < MaxCandidates
  /\ heard' = heard \cup {Proposed(c, at + 1)}
  /\ proposals' = Kept(proposals, Proposed(c, at + 1))
  /\ UNCHANGED <<transcript, windows, at, notes>>

NextWindow ==
  /\ at < Len(windows)
  /\ at' = at + 1
  /\ UNCHANGED <<transcript, windows, heard, proposals, notes>>

Merge ==
  /\ at = Len(windows) /\ notes = <<>> /\ proposals # <<>>
  /\ notes' = MergedSiblings(proposals)
  /\ UNCHANGED <<transcript, windows, at, heard, proposals>>

MergeNext ==
  \/ at < Len(windows) /\ \E c \in Candidate(windows[at + 1]) : Propose(c)
  \/ NextWindow
  \/ Merge

MergeSpec == MergeInit /\ [][MergeNext]_mergeVars

-----------------------------------------------------------------------------
Merges == notes # <<>>

(* Every span is shown to the model, once and in order, and no window is   *)
(* larger than the prompt allows unless it is a single span.               *)
WindowsCoverTheTranscript ==
  /\ FlattenSeq(windows) = transcript
  /\ \A n \in DOMAIN windows : windows[n] # <<>> /\ (Size(windows[n]) <= MaxChars \/ Len(windows[n]) = 1)

(* The notes are the connected components of the sibling relation, a chain *)
(* of siblings in one note, in the order of their first members.           *)
Connected(i, j) ==
  \A S \in SUBSET DOMAIN proposals :
    i \in S /\ (\A k \in S, l \in DOMAIN proposals : Siblings(proposals[k], proposals[l]) => l \in S)
      => j \in S

NotesAreTheComponents ==
  Merges =>
    /\ \A i \in DOMAIN proposals : \E k \in DOMAIN notes : i \in notes[k].of
    /\ \A k \in DOMAIN notes : \A i \in notes[k].of, j \in DOMAIN proposals :
         j \in notes[k].of <=> Connected(i, j)
    /\ \A k, l \in DOMAIN notes : k < l => \E i \in notes[k].of : \A j \in notes[l].of : i < j

(* No fact the model has stated is lost to windows, duplicates and merges  *)
(* ("a merge CONCATENATES bodies: no information is ever dropped").  The    *)
(* lines cited for it are evidence of its note too, except that, where     *)
(* there are several windows, a candidate with the name and the fact of an *)
(* earlier one loses its own lines to the earlier one's.  A note has one   *)
(* piece of evidence for a line, as the key of memory_provenance demands.  *)
CitedLines(p) == {windows[p.window][c].idx : c \in p.cites}

Grounds(n, p) == Contains(n.body, p.body) /\ CitedLines(p) \subseteq {s.idx : s \in n.evidence}

OnlyRepeatedLinesAreLost ==
  Merges =>
    /\ \A p \in heard : \E k \in DOMAIN notes :
         \/ Grounds(notes[k], p)
         \/ /\ Len(windows) > 1
            /\ \E i \in notes[k].of : /\ proposals[i].name = p.name /\ proposals[i].body = p.body
                                     /\ Grounds(notes[k], proposals[i])
    /\ \A k \in DOMAIN notes :
         /\ {s.idx : s \in notes[k].evidence} = UNION {CitedLines(proposals[i]) : i \in notes[k].of}
         /\ \A s, t \in notes[k].evidence : s.idx = t.idx => s = t

(* A note is trusted only if each of the candidates merged into it cites   *)
(* first-party spans and nothing else, and repeats nothing foreign that    *)
(* its window shows: a merge launders no quarantined sibling.              *)
TrustSurvivesOnlyIfEarnedByAll ==
  \A k \in DOMAIN notes : notes[k].trust = "trusted" =>
    \A i \in notes[k].of :
      LET p == proposals[i]
          w == windows[p.window]
      IN  /\ p.cites # {}
          /\ \A c \in p.cites : w[c].channel \in FirstParty
          /\ \A s \in Foreign(w) : s.text # p.body

(* What cited_spans_for says, and TLC refutes where several spans share a  *)
(* line: there is evidence for each distinct cited span.                   *)
EveryCitedSpanIsEvidence ==
  \A k \in DOMAIN notes : \A i \in notes[k].of : \A c \in proposals[i].cites :
    windows[proposals[i].window][c] \in notes[k].evidence
=============================================================================
