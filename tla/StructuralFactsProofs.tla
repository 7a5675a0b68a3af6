----------------------- MODULE StructuralFactsProofs -----------------------
(***************************************************************************)
(* Proofs that the facts of a file are those of the content its hash names *)
(* (FactsMatchHash), and its calls too (CallsMatchCaller), and that        *)
(* compiles of a quiet disk converge (Converges), for any instance of      *)
(* StructuralCompile.                                                      *)
(*                                                                         *)
(* The properties are about the committed graph; the transaction's graph   *)
(* has them too, with the transaction's own account of what could not be   *)
(* retired.  They are inductive only together with what makes an id mean   *)
(* one file: no two nodes have an id, and no defines edge is left of a     *)
(* file that went.  The identity cascade keeps the former because the best *)
(* rename candidate is ahead of every other by a margin, so that a file    *)
(* has at most one.  Call edges may be left of a file that went; what they *)
(* say is in the id.                                                       *)
(***************************************************************************)
EXTENDS StructuralCompileProofs, FiniteSetTheorems

OwnIds(g)  == \A n, m \in g.files : n.id = m.id => n = m
OwnDefs(g) == \A e \in g.edges : e[1] = "defines" => e[2] \in Ids(g) /\ e[3] \in SymbolId

FactsOf(g, n, unk) ==
  /\ SymbolsOf(n.id, n.hash) \subseteq g.syms
  /\ DefinesOf(n.id, n.hash) \subseteq g.edges
  /\ n.id \notin unk =>
       /\ \A s \in g.syms : FileOf(s) = n.id => s \in SymbolsOf(n.id, n.hash)
       /\ \A e \in g.edges : e[1] = "defines" /\ e[2] = n.id => e \in DefinesOf(n.id, n.hash)

Facts(g, unk) == OwnIds(g) /\ OwnDefs(g) /\ \A n \in g.files : FactsOf(g, n, unk)

FactsInv == Inv /\ Facts(graph, unkept) /\ Facts(txn.g, txn.unkept)

-----------------------------------------------------------------------------
(* A file has at most one rename. *)

(* Similarities are fractions. *)
Fraction == Nat \X (Nat \ {0})

LEMMA JaccardFraction ==
  ASSUME NEW A, NEW B, IsFiniteSet(A), IsFiniteSet(B)
  PROVE  Jaccard(A, B) \in Fraction
<1>1. CASE A \cup B = {}
  BY <1>1 DEF Jaccard, Fraction
<1>2. CASE A \cup B # {}
  <2>1. IsFiniteSet(A \cup B) /\ IsFiniteSet(A \cap B)
    BY FS_Union, FS_Intersection
  <2>2. Cardinality(A \cup B) \in Nat /\ Cardinality(A \cap B) \in Nat
    BY <2>1, FS_CardinalityType
  <2>3. Cardinality(A \cup B) # 0
    BY <1>2, <2>1, FS_EmptySet
  <2> QED
    BY <1>2, <2>2, <2>3 DEF Jaccard, Fraction
<1> QED
  BY <1>1, <1>2

LEMMA SymbolSetFinite ==
  ASSUME NEW g, OwnDefs(g), NEW id
  PROVE  IsFiniteSet(SymbolSet(g, id))
<1>1. \A s \in SymbolId : s[3] \in Name
  <2> SUFFICES ASSUME NEW f \in FileId, NEW d \in Decl PROVE d[1] \in Name
    BY DEF SymbolId
  <2>1. PICK c \in Content : d \in Decls[c]
    BY DEF Decl
  <2> QED
    BY <2>1 DEF Name, Names
<1>2. SymbolSet(g, id) \subseteq Name
  BY <1>1 DEF SymbolSet, OwnDefs
<1> QED
  BY <1>2, ContentAssumption, FS_Subset

LEMMA RenameScoreFraction ==
  ASSUME NEW g, OwnDefs(g), NEW n, NEW m, n.hash \in Content, m.hash \in Content
  PROVE  RenameScore(g, n, m) \in Fraction
<1> DEFINE A == SymbolSet(g, n.id)
           B == SymbolSet(g, m.id)
<1>1. /\ Jaccard(A, B) \in Fraction
      /\ Jaccard(Sample[n.hash], Sample[m.hash]) \in Fraction
      /\ NoMatch \in Fraction
  BY SymbolSetFinite, ContentAssumption, JaccardFraction DEF NoMatch, Fraction
<1> HIDE DEF A, B
<1>2. RenameScore(g, n, m) \in {Jaccard(A, B), Jaccard(Sample[n.hash], Sample[m.hash]), NoMatch}
  BY DEF RenameScore, Larger, A, B
<1> QED
  BY <1>1, <1>2

LEMMA NotBothLead ==
  ASSUME NEW s \in Fraction, NEW t \in Fraction, Leads(s, t), Leads(t, s)
  PROVE  FALSE
<1>1. \A a, c \in Nat : \A b, d \in Nat \ {0} :
        ~(/\ 100 * (a * d - c * b) >= 15 * b * d
          /\ 100 * (c * b - a * d) >= 15 * d * b)
  <2> SUFFICES ASSUME NEW a \in Nat, NEW c \in Nat, NEW b \in Nat \ {0}, NEW d \in Nat \ {0},
                      100 * (a * d - c * b) >= 15 * b * d,
                      100 * (c * b - a * d) >= 15 * d * b
               PROVE  FALSE
    OBVIOUS
  <2>1. \A x, y, z \in Int : 100 * (x - y) >= z /\ 100 * (y - x) >= z => z <= 0
    OBVIOUS
  <2>2. a * d \in Int /\ c * b \in Int /\ 15 * b * d \in Int /\ 15 * d * b = 15 * b * d
    OBVIOUS
  <2>3. 15 * b * d > 0
    OBVIOUS
  <2> QED
    BY <2>1, <2>2, <2>3
<1> QED
  BY <1>1 DEF Leads, Fraction

LEMMA OneRename ==
  ASSUME NEW g, g \in Graph, OwnDefs(g), NEW n \in g.files,
         NEW m \in RenameTo(g, n), NEW k \in RenameTo(g, n)
  PROVE  m = k
<1> SUFFICES ASSUME m # k PROVE FALSE
  OBVIOUS
<1>1. m \in NewFiles(g) /\ k \in NewFiles(g)
  BY DEF RenameTo
<1>2. n.hash \in Content /\ m.hash \in Content /\ k.hash \in Content
  BY <1>1 DEF NewFiles, Graph, FileNode
<1>3. Leads(RenameScore(g, n, m), RenameScore(g, n, k)) /\ Leads(RenameScore(g, n, k), RenameScore(g, n, m))
  BY DEF RenameTo
<1> QED
  BY <1>2, <1>3, RenameScoreFraction, NotBothLead

(* Nor does git know of a file that was renamed. *)
LEMMA OneMove ==
  ASSUME NEW g, g \in Graph, OwnIds(g), OwnDefs(g),
         NEW git \in [{n.id : n \in Unresolved(g)} -> {n.path : n \in NewFiles(g)} \cup {None}],
         NEW a \in MovesOf(g, git), NEW b \in MovesOf(g, git), a[1].id = b[1].id
  PROVE  a = b
<1> DEFINE A == UNION {{<<n, m.path, 0>> : m \in RenameTo(g, n)} : n \in Disappeared(g)}
           B == {<<n, git[n.id], 1>> : n \in {k \in Unresolved(g) : git[k.id] # None}}
<1>1. MovesOf(g, git) = A \cup B
  BY DEF MovesOf
<1>2. OwnIds(g) /\ OwnDefs(g) /\ Disappeared(g) \subseteq g.files /\ Unresolved(g) \subseteq g.files
  BY DEF Disappeared, Unresolved, OldLeft
<1>3. ASSUME NEW x \in A
      PROVE  /\ x[1] \in g.files /\ RenameTo(g, x[1]) # {}
             /\ \E m \in RenameTo(g, x[1]) : x = <<x[1], m.path, 0>>
  <2>1. PICK n \in Disappeared(g) : x \in {<<n, m.path, 0>> : m \in RenameTo(g, n)}
    OBVIOUS
  <2>2. PICK m \in RenameTo(g, n) : x = <<n, m.path, 0>>
    BY <2>1
  <2>3. x[1] = n
    BY <2>2
  <2> QED
    BY <1>2, <2>2, <2>3
<1>4. ASSUME NEW x \in B
      PROVE  x[1] \in g.files /\ RenameTo(g, x[1]) = {} /\ x = <<x[1], git[x[1].id], 1>>
  <2>1. PICK n \in Unresolved(g) : x = <<n, git[n.id], 1>>
    OBVIOUS
  <2>2. x[1] = n
    BY <2>1
  <2> QED
    BY <1>2, <2>1, <2>2 DEF Unresolved, OldLeft
<1>5. a \in A \cup B /\ b \in A \cup B
  BY <1>1
<1> HIDE DEF A, B
<1>6. a[1] = b[1]
  BY <1>2, <1>3, <1>4, <1>5 DEF OwnIds
<1>7. CASE RenameTo(g, a[1]) = {}
  BY <1>3, <1>4, <1>5, <1>6, <1>7
<1>8. CASE RenameTo(g, a[1]) # {}
  <2>1. a \in A /\ b \in A
    BY <1>4, <1>5, <1>6, <1>8
  <2>2. PICK m \in RenameTo(g, a[1]) : a = <<a[1], m.path, 0>>
    BY <1>3, <2>1
  <2>3. PICK k \in RenameTo(g, a[1]) : b = <<a[1], k.path, 0>>
    BY <1>3, <1>6, <2>1
  <2>4. a[1] \in g.files
    BY <1>3, <2>1
  <2>5. m = k
    BY <1>2, <2>4, OneRename
  <2> QED
    BY <2>2, <2>3, <2>5
<1> QED
  BY <1>7, <1>8

-----------------------------------------------------------------------------
(* The operations of the store keep the facts. *)

(* Ids of files, symbols and concepts are never the same. *)
LEMMA IdsDiffer ==
  /\ \A f \in FileId : f \notin SymbolId /\ f \notin ConceptId /\ FileOf(f) = f
  /\ \A s \in SymbolId : s \notin ConceptId
  BY DEF FileId, SymbolId, ConceptId, FileOf

LEMMA FilesTyped ==
  ASSUME NEW g, g \in Graph, NEW n \in g.files
  PROVE  n.id \in FileId /\ n.path \in Path /\ n.hash \in Content
  BY DEF Graph, FileNode

LEMMA InsertEdgesFacts ==
  ASSUME NEW g, g \in Graph, NEW unk, Facts(g, unk), NEW E, \A e \in E : e[1] # "defines"
  PROVE  Facts(InsertEdges(g, E), unk)
<1>1. /\ InsertEdges(g, E).files = g.files /\ InsertEdges(g, E).syms = g.syms
      /\ InsertEdges(g, E).edges = g.edges \cup E
  BY DEF InsertEdges, Graph
<1> QED
  BY <1>1 DEF Facts, FactsOf, OwnIds, OwnDefs, Ids

(* Edges may be taken away, as long as they are not those of the facts. *)
LEMMA FewerEdgesFacts ==
  ASSUME NEW g, g \in Graph, NEW unk, Facts(g, unk), NEW h,
         h.files = g.files, h.syms = g.syms, h.edges \subseteq g.edges,
         \A n \in g.files : DefinesOf(n.id, n.hash) \subseteq h.edges
  PROVE  Facts(h, unk)
  BY DEF Facts, FactsOf, OwnIds, OwnDefs, Ids

LEMMA DeleteConceptsFacts ==
  ASSUME NEW g, g \in Graph, NEW unk, Facts(g, unk), NEW K, K \subseteq ConceptId
  PROVE  Facts(DeleteConcepts(g, K), unk)
<1> DEFINE h == DeleteConcepts(g, K)
<1>1. h.files = g.files /\ h.syms = g.syms /\ h.edges = {e \in g.edges : ~Touches(e, K)}
  BY DEF DeleteConcepts, Graph
<1>2. ASSUME NEW n \in g.files, NEW e \in DefinesOf(n.id, n.hash) PROVE e \in h.edges
  <2>1. n.id \in FileId /\ n.hash \in Content
    BY FilesTyped
  <2>2. e \in g.edges
    BY DEF Facts, FactsOf
  <2>3. e[2] = n.id /\ e[3] \in SymbolId
    BY <2>1, SymbolsOfFile DEF DefinesOf
  <2> QED
    BY <1>1, <2>1, <2>2, <2>3, IdsDiffer DEF Touches
<1> HIDE DEF h
<1>3. Facts(h, unk)
  BY <1>1, <1>2, FewerEdgesFacts
<1> QED
  BY <1>3 DEF h

LEMMA CompactedFacts ==
  ASSUME NEW g, NEW r \in Nat, Good(g, r), NEW unk, Facts(g, unk), NEW s, NEW done \in 0..3
  PROVE  Facts(Compacted(g, s, done), unk)
<1> DEFINE h == Compacted(g, s, done)
           gone == OldSyms(g, s)
<1>1. g \in Graph /\ Retired(g, r)
  BY DEF Good
<1>2. Compaction(g, h, s)
  BY <1>1, CompactedShape
<1>3. \A x \in gone : x \in SymbolId /\ x \notin g.syms
  BY <1>1 DEF OldSyms, OlderThan, Graph, Retired
<1> HIDE DEF h, gone
<1>4. ASSUME NEW n \in g.files, NEW e \in DefinesOf(n.id, n.hash) PROVE e \in h.edges
  <2>1. n.id \in FileId
    BY <1>1, FilesTyped
  <2>2. e \in g.edges /\ SymbolsOf(n.id, n.hash) \subseteq g.syms
    BY DEF Facts, FactsOf
  <2>3. e[2] = n.id /\ e[3] \in SymbolsOf(n.id, n.hash)
    BY DEF DefinesOf
  <2>4. ~Touches(e, gone)
    BY <1>3, <2>1, <2>2, <2>3, IdsDiffer DEF Touches
  <2> QED
    BY <1>2, <2>2, <2>4 DEF Compaction, gone
<1>5. Facts(h, unk)
  BY <1>1, <1>2, <1>4, FewerEdgesFacts DEF Compaction
<1> QED
  BY <1>5 DEF h

LEMMA DeleteFilesFacts ==
  ASSUME NEW g, g \in Graph, NEW unk, Facts(g, unk), NEW F, F \subseteq FileId
  PROVE  Facts(DeleteFiles(g, F), unk)
<1> DEFINE h == DeleteFiles(g, F)
<1>1. PICK gone : /\ F \subseteq gone
                  /\ \A x \in gone : x \in F \/ FileOf(x) \in F
                  /\ h = [g EXCEPT !.files = {n \in @ : n.id \notin F},
                                   !.syms = @ \ gone,
                                   !.deadSyms = {d \in @ : d[1] \notin gone},
                                   !.edges = {e \in @ : ~Touches(e, gone)},
                                   !.deadEdges = {d \in @ : ~Touches(d[1], gone)}]
  BY DEF DeleteFiles
<1>2. /\ h.files = {n \in g.files : n.id \notin F} /\ h.syms = g.syms \ gone
      /\ h.edges = {e \in g.edges : ~Touches(e, gone)}
  BY <1>1 DEF Graph
<1> HIDE DEF h
<1>3. \A x : x \notin F /\ FileOf(x) \notin F => x \notin gone
  BY <1>1
<1>4. OwnIds(h)
  BY <1>2 DEF Facts, OwnIds
<1>5. OwnDefs(h)
  BY <1>1, <1>2 DEF Facts, OwnDefs, Ids, Touches
<1>6. ASSUME NEW n \in h.files PROVE FactsOf(h, n, unk)
  <2>1. n \in g.files /\ n.id \notin F /\ n.id \in FileId /\ n.hash \in Content
    BY <1>2, FilesTyped
  <2>2. FactsOf(g, n, unk)
    BY <2>1 DEF Facts
  <2>3. \A s \in SymbolsOf(n.id, n.hash) : s \in SymbolId /\ FileOf(s) = n.id
    BY <2>1, SymbolsOfFile
  <2>4. \A s \in SymbolsOf(n.id, n.hash) : s \notin gone
    BY <1>3, <2>1, <2>3, IdsDiffer
  <2>5. n.id \notin gone
    BY <1>3, <2>1, IdsDiffer
  <2>6. DefinesOf(n.id, n.hash) \subseteq h.edges
    BY <1>2, <2>2, <2>4, <2>5 DEF DefinesOf, FactsOf, Touches
  <2> QED
    BY <1>2, <2>2, <2>4, <2>6 DEF FactsOf
<1> QED
  BY <1>4, <1>5, <1>6 DEF Facts, h

-----------------------------------------------------------------------------
(* A file that is read. *)

(* What the graph is after a file was renewed. *)
LEMMA RenewShape ==
  ASSUME Inv, NEW p \in Path, NEW c \in Content, NEW id, id = IdFor(p, c), NEW h, h = Renew(txn.g, p, c),
         NEW S, S = SymbolsOf(id, c), NEW D, D = DefinesOf(id, c)
  PROVE  /\ h.files = {m \in txn.g.files : m.id # id} \cup {[id |-> id, path |-> p, hash |-> c]}
         /\ IF IsContentChange(p, c) /\ txn.rev # None
            THEN /\ h.syms = {s \in txn.g.syms : FileOf(s) # id} \cup S
                 /\ h.edges = (txn.g.edges \ Owned(txn.g, id)) \cup D
            ELSE h.syms = txn.g.syms \cup S /\ h.edges = txn.g.edges \cup D
<1> DEFINE n  == [id |-> id, path |-> p, hash |-> c]
           g1 == InsertEdges(UpsertSymbols(UpsertFile(txn.g, n), S), D)
<1>1. txn.g \in Graph /\ id \in FileId
  BY IdForFile DEF Inv, Good
<1>2. /\ g1.files = {m \in txn.g.files : m.id # id} \cup {n}
      /\ g1.syms = txn.g.syms \cup S /\ g1.edges = txn.g.edges \cup D
  BY <1>1 DEF Graph, UpsertFile, UpsertSymbols, InsertEdges
<1>3. \A s \in S : FileOf(s) = id
  BY <1>1, SymbolsOfFile
<1>4. Renew(txn.g, p, c) = IF IsContentChange(p, c) /\ txn.rev # None
                           THEN RetireUnseen(g1, id, c, txn.rev) ELSE g1
  BY DEF Renew
<1>5. /\ RetireUnseen(g1, id, c, txn.rev).files = g1.files
      /\ RetireUnseen(g1, id, c, txn.rev).syms = g1.syms \ ({s \in g1.syms : FileOf(s) = id} \ S)
      /\ RetireUnseen(g1, id, c, txn.rev).edges = g1.edges \ (Owned(g1, id) \ D)
  <2> DEFINE W == [files : {g1.files}, concepts : {g1.concepts}, syms : {g1.syms}, edges : {g1.edges},
                   deadSyms : {g1.deadSyms}, deadEdges : {g1.deadEdges}]
  <2>1. g1 \in W
    BY <1>1 DEF Graph, UpsertFile, UpsertSymbols, InsertEdges
  <2> HIDE DEF g1
  <2> QED
    BY <2>1 DEF RetireUnseen, RetireSymbols, RetireEdges
<1> HIDE DEF g1
<1>6. Owned(g1, id) \ D = Owned(txn.g, id) \ D
  BY <1>2 DEF Owned
<1>7. CASE IsContentChange(p, c) /\ txn.rev # None
  <2>1. h = RetireUnseen(g1, id, c, txn.rev)
    BY <1>4, <1>7
  <2>2. h.syms = {s \in txn.g.syms : FileOf(s) # id} \cup S
    BY <1>2, <1>3, <1>5, <2>1
  <2>3. h.edges = (txn.g.edges \ Owned(txn.g, id)) \cup D
    BY <1>2, <1>5, <1>6, <2>1
  <2> QED
    BY <1>2, <1>5, <1>7, <2>1, <2>2, <2>3
<1>8. CASE ~(IsContentChange(p, c) /\ txn.rev # None)
  BY <1>2, <1>4, <1>8
<1> QED
  BY <1>7, <1>8

(* Its facts are those of the content that was read, unless older ones could *)
(* not be retired; other files have theirs as before.                        *)
LEMMA RenewFacts ==
  ASSUME Inv, Facts(txn.g, txn.unkept), NEW p \in Path, NEW c \in Content
  PROVE  Facts(Renew(txn.g, p, c), UnkeptAfter(p, c))
<1> DEFINE id == IdFor(p, c)
           n == [id |-> id, path |-> p, hash |-> c]
           h == Renew(txn.g, p, c)
           unk == UnkeptAfter(p, c)
           S == SymbolsOf(id, c)
           D == DefinesOf(id, c)
           retire == IsContentChange(p, c) /\ txn.rev # None
<1>1. id \in FileId /\ txn.g \in Graph /\ OwnFiles(txn.g)
  BY IdForFile DEF Inv, Good
<1>2. /\ h.files = {m \in txn.g.files : m.id # id} \cup {n}
      /\ IF retire
         THEN /\ h.syms = {s \in txn.g.syms : FileOf(s) # id} \cup S
              /\ h.edges = (txn.g.edges \ Owned(txn.g, id)) \cup D
         ELSE h.syms = txn.g.syms \cup S /\ h.edges = txn.g.edges \cup D
  BY RenewShape
<1>3. \A s \in S : FileOf(s) = id /\ s \in SymbolId
  BY <1>1, SymbolsOfFile
<1>4. \A e \in D : e[1] = "defines" /\ e[2] = id /\ e[3] \in S
  BY DEF DefinesOf
<1>5. \A m : m # id => (m \in unk <=> m \in txn.unkept)
  BY DEF UnkeptAfter
<1>6. ASSUME id \notin unk, ~retire, NEW m \in txn.g.files, m.id = id
      PROVE  m.hash = c /\ id \notin txn.unkept
  <2>1. ~IsContentChange(p, c)
    BY <1>6 DEF UnkeptAfter
  <2>2. ~(m.path # p /\ m.hash # c) /\ id \notin txn.unkept
    BY <1>6, <2>1 DEF UnkeptAfter
  <2>3. m.path = p => m.hash = c
    BY <2>1 DEF IsContentChange, At
  <2> QED
    BY <2>2, <2>3
<1> HIDE DEF id, h, unk, S, D, retire
<1>7. n.id = id /\ n.hash = c
  OBVIOUS
<1>8. OwnIds(h)
  BY <1>2, <1>7 DEF Facts, OwnIds
<1>9. OwnDefs(h)
  <2>1. id \in Ids(h) /\ Ids(txn.g) \subseteq Ids(h)
    BY <1>2, <1>7 DEF Ids
  <2>2. h.edges \subseteq txn.g.edges \cup D
    BY <1>2
  <2> QED
    BY <1>3, <1>4, <2>1, <2>2 DEF Facts, OwnDefs
<1>10. ASSUME NEW m \in txn.g.files, m.id # id PROVE FactsOf(h, m, unk)
  <2>1. FactsOf(txn.g, m, txn.unkept) /\ m.id \in FileId /\ m.hash \in Content
    BY <1>1, FilesTyped DEF Facts
  <2>2. \A s \in SymbolsOf(m.id, m.hash) : FileOf(s) = m.id
    BY <2>1, SymbolsOfFile
  <2>3. \A e \in DefinesOf(m.id, m.hash) : e[2] = m.id
    BY DEF DefinesOf
  <2>4. SymbolsOf(m.id, m.hash) \subseteq h.syms
    BY <1>2, <1>10, <2>1, <2>2 DEF FactsOf
  <2>5. DefinesOf(m.id, m.hash) \subseteq h.edges
    BY <1>2, <1>10, <2>1, <2>3 DEF FactsOf, Owned
  <2>6. \A s \in h.syms : FileOf(s) = m.id => s \in txn.g.syms
    BY <1>2, <1>3, <1>10
  <2>7. \A e \in h.edges : e[2] = m.id => e \in txn.g.edges
    BY <1>2, <1>4, <1>10
  <2> QED
    BY <1>5, <1>10, <2>1, <2>4, <2>5, <2>6, <2>7 DEF FactsOf
<1>11. FactsOf(h, n, unk)
  <2>1. S \subseteq h.syms /\ D \subseteq h.edges
    BY <1>2
  <2>2. ASSUME id \notin unk, retire
        PROVE  /\ \A s \in h.syms : FileOf(s) = id => s \in S
               /\ \A e \in h.edges : e[1] = "defines" /\ e[2] = id => e \in D
    BY <1>2, <2>2 DEF Owned
  <2>3. ASSUME id \notin unk, ~retire, NEW m \in txn.g.files, m.id = id
        PROVE  /\ \A s \in h.syms : FileOf(s) = id => s \in S
               /\ \A e \in h.edges : e[1] = "defines" /\ e[2] = id => e \in D
    <3>1. FactsOf(txn.g, m, txn.unkept) /\ m.hash = c /\ id \notin txn.unkept
      BY <1>6, <2>3 DEF Facts
    <3>2. S = SymbolsOf(m.id, m.hash) /\ D = DefinesOf(m.id, m.hash)
      BY <2>3, <3>1 DEF S, D
    <3> QED
      BY <1>2, <2>3, <3>1, <3>2 DEF FactsOf
  <2>4. ASSUME ~retire, \A m \in txn.g.files : m.id # id
        PROVE  /\ \A s \in h.syms : FileOf(s) = id => s \in S
               /\ \A e \in h.edges : e[1] = "defines" /\ e[2] = id => e \in D
    <3>1. id \notin Ids(txn.g)
      BY <2>4 DEF Ids
    <3> QED
      BY <1>1, <1>2, <2>4, <3>1 DEF OwnFiles, Facts, OwnDefs
  <2>5. S = SymbolsOf(n.id, n.hash) /\ D = DefinesOf(n.id, n.hash)
    BY <1>7 DEF S, D
  <2>6. id \notin unk => /\ \A s \in h.syms : FileOf(s) = id => s \in S
                         /\ \A e \in h.edges : e[1] = "defines" /\ e[2] = id => e \in D
    BY <2>2, <2>3, <2>4
  <2> QED
    BY <1>7, <2>1, <2>5, <2>6 DEF FactsOf
<1>12. \A m \in h.files : FactsOf(h, m, unk)
  BY <1>2, <1>10, <1>11
<1> QED
  BY <1>8, <1>9, <1>12 DEF Facts, h, unk

-----------------------------------------------------------------------------
(* Stages 6 and 4. *)

(* A file that is moved is not among those deleted, and keeps its id and its *)
(* hash.                                                                     *)
LEMMA PersistMovesFacts ==
  ASSUME NEW g, g \in Graph, NEW unk, Facts(g, unk), NEW moves, moves \subseteq Moves(g),
         \A a, b \in moves : a[1].id = b[1].id => a = b
  PROVE  Facts(PersistMoves(g, moves), unk)
<1> DEFINE Moved(a) == [a[1] EXCEPT !.path = a[2]]
           last == {a \in moves : \A b \in moves : b[2] = a[2] => b = a \/ Precedes(b, a)}
           lost == {a[1].id : a \in moves \ last}
           dups == {n.id : n \in {k \in g.files : \E a \in last : k.path = a[2]}}
                     \ {a[1].id : a \in last}
           g1   == DeleteFiles(g, lost \cup dups)
           here == {Moved(a) : a \in last}
           rest == {n \in g1.files : \A a \in last : n.id # a[1].id}
           h    == [g1 EXCEPT !.files = rest \cup here]
<1>1. PersistMoves(g, moves) = h
  BY DEF PersistMoves
<1>2. \A a \in moves : a[1] \in g.files /\ a[1] \in FileNode
  BY DEF Moves
<1>3. lost \cup dups \subseteq FileId
  BY <1>2, FilesTyped DEF FileNode
<1>4. last \subseteq moves
  OBVIOUS
<1> HIDE DEF last
<1>5. \A a \in last : a[1].id \notin lost \cup dups
  BY <1>4
<1> HIDE DEF lost, dups
<1>6. Facts(g1, unk) /\ g1 \in Graph /\ g1.files = {n \in g.files : n.id \notin lost \cup dups}
  <2>1. DeleteFiles(g, lost \cup dups) \in Graph
    BY DEF DeleteFiles, Graph
  <2>2. DeleteFiles(g, lost \cup dups).files = {n \in g.files : n.id \notin lost \cup dups}
    BY DEF DeleteFiles, Graph
  <2> QED
    BY <1>3, <2>1, <2>2, DeleteFilesFacts
<1> HIDE DEF g1
<1>7. \A a \in last : a[1] \in g1.files /\ Moved(a).id = a[1].id /\ Moved(a).hash = a[1].hash
  BY <1>2, <1>4, <1>5, <1>6 DEF FileNode
<1>8. h.files = rest \cup here /\ h.syms = g1.syms /\ h.edges = g1.edges
  BY <1>6 DEF Graph
<1> HIDE DEF h, Moved
<1>9. OwnIds(h)
  <2>1. \A n, m \in rest : n.id = m.id => n = m
    BY <1>6 DEF Facts, OwnIds
  <2>2. \A n \in rest, m \in here : n.id # m.id
    BY <1>7
  <2>3. ASSUME NEW a \in last, NEW b \in last, Moved(a).id = Moved(b).id
        PROVE  Moved(a) = Moved(b)
    BY <1>4, <1>7, <2>3
  <2>4. \A n, m \in here : n.id = m.id => n = m
    BY <2>3
  <2> QED
    BY <1>8, <2>1, <2>2, <2>4 DEF OwnIds
<1>10. OwnDefs(h)
  <2>1. ASSUME NEW n \in g1.files PROVE \E m \in rest \cup here : m.id = n.id
    <3>1. CASE \A a \in last : n.id # a[1].id
      BY <3>1
    <3>2. ASSUME NEW a \in last, n.id = a[1].id
          PROVE  \E m \in rest \cup here : m.id = n.id
      <4>1. Moved(a) \in here
        OBVIOUS
      <4> QED
        BY <1>7, <3>2, <4>1
    <3> QED
      BY <3>1, <3>2
  <2>2. Ids(g1) \subseteq Ids(h)
    BY <1>8, <2>1 DEF Ids
  <2> QED
    BY <1>6, <1>8, <2>2 DEF Facts, OwnDefs
<1>11. ASSUME NEW n \in rest \cup here PROVE FactsOf(h, n, unk)
  <2>1. PICK m \in g1.files : m.id = n.id /\ m.hash = n.hash
    <3>1. CASE n \in rest
      BY <3>1
    <3>2. CASE n \in here
      <4>1. PICK a \in last : n = Moved(a)
        BY <3>2
      <4> QED
        BY <1>7, <4>1
    <3> QED
      BY <3>1, <3>2
  <2>2. FactsOf(g1, m, unk)
    BY <1>6 DEF Facts
  <2> QED
    BY <1>8, <2>1, <2>2 DEF FactsOf
<1> QED
  BY <1>1, <1>8, <1>9, <1>10, <1>11 DEF Facts

LEMMA SettleFacts ==
  ASSUME Inv, Facts(txn.g, txn.unkept),
         NEW git \in [{n.id : n \in Unresolved(txn.g)} -> {n.path : n \in NewFiles(txn.g)} \cup {None}]
  PROVE  LET moves == MovesOf(txn.g, git)
             g1 == DeleteMissing(PersistMoves(txn.g, moves),
                                 txn.matched \cup {a[1].path : a \in moves})
             new == UNION {ResolvedEdges(g1, q[1], q[2]) : q \in txn.pending}
         IN  Facts(InsertEdges(g1, new), txn.unkept)
<1> DEFINE moves == MovesOf(txn.g, git)
           g0  == PersistMoves(txn.g, moves)
           kept == txn.matched \cup {a[1].path : a \in moves}
           gone == {n.id : n \in {k \in graph.files : k.path \notin txn.disc /\ k.path \notin kept}}
           g1  == DeleteMissing(g0, kept)
           new == UNION {ResolvedEdges(g1, q[1], q[2]) : q \in txn.pending}
<1>1. rev \in Nat /\ txn.g \in Graph /\ graph \in Graph /\ Good(txn.g, rev)
  BY BoundAssumption DEF Inv, Base, Good
<1>2. moves \subseteq Moves(txn.g)
  BY <1>1, MovesTyped
<1>3. \A a, b \in moves : a[1].id = b[1].id => a = b
  <2> SUFFICES ASSUME NEW a \in MovesOf(txn.g, git), NEW b \in MovesOf(txn.g, git), a[1].id = b[1].id
               PROVE  a = b
    OBVIOUS
  <2>1. OwnIds(txn.g) /\ OwnDefs(txn.g)
    BY DEF Facts
  <2> QED
    BY <1>1, <2>1, OneMove
<1> HIDE DEF moves
<1>4. Good(g0, rev)
  BY <1>1, <1>2, PersistMovesGood
<1>5. Facts(g0, txn.unkept)
  BY <1>1, <1>2, <1>3, PersistMovesFacts
<1>6. gone \subseteq FileId
  BY <1>1, FilesTyped
<1>7. g1 = DeleteFiles(g0, gone)
  BY DEF DeleteMissing
<1> HIDE DEF g0, gone, g1
<1>8. Facts(g1, txn.unkept) /\ Good(g1, rev)
  BY <1>1, <1>4, <1>5, <1>6, <1>7, DeleteFilesFacts, DeleteFilesGood DEF Good
<1>9. \A e \in new : e[1] # "defines"
  <2> SUFFICES ASSUME NEW q \in txn.pending, NEW e \in ResolvedEdges(g1, q[1], q[2])
               PROVE  e[1] # "defines"
    OBVIOUS
  <2> QED
    BY DEF ResolvedEdges
<1> HIDE DEF new
<1>10. Facts(InsertEdges(g1, new), txn.unkept)
  BY <1>8, <1>9, InsertEdgesFacts DEF Good
<1> QED
  BY <1>10 DEF moves, g0, g1, new, kept

-----------------------------------------------------------------------------
(* The whole. *)

LEMMA EmptyFacts == Facts(Empty, {}) /\ Idle.g = Empty /\ Idle.unkept = {}
  BY DEF Empty, Idle, Facts, OwnIds, OwnDefs, Ids

LEMMA InitFacts == Init => FactsInv
  BY InitInv, EmptyFacts DEF Init, FactsInv

(* Only what is counted as not retired for a file of the graph matters. *)
LEMMA UnkeptOfFiles ==
  ASSUME NEW g, NEW unk, Facts(g, unk)
  PROVE  Facts(g, unk \cap Ids(g))
  BY DEF Facts, FactsOf, Ids

LEMMA StepFacts == FactsInv /\ [Next]_vars => FactsInv'
<1> SUFFICES ASSUME FactsInv, [Next]_vars PROVE Facts(graph, unkept)' /\ Facts(txn.g, txn.unkept)'
  BY StepInv DEF FactsInv
<1>1. /\ Inv /\ txn \in Txn /\ rev \in Nat /\ Good(graph, rev) /\ Good(txn.g, rev)
      /\ graph \in Graph /\ txn.g \in Graph
      /\ Facts(graph, unkept) /\ Facts(txn.g, txn.unkept)
  BY BoundAssumption DEF FactsInv, Inv, Base, Good
<1>2. ASSUME UNCHANGED <<graph, unkept>>, txn'.g = txn.g, txn'.unkept = txn.unkept
      PROVE  Facts(graph, unkept)' /\ Facts(txn.g, txn.unkept)'
  BY <1>1, <1>2
<1>3. ASSUME Change PROVE Facts(graph, unkept)' /\ Facts(txn.g, txn.unkept)'
  <2>1. txn'.g = txn.g /\ txn'.unkept = txn.unkept
    BY <1>1, <1>3 DEF Change, Txn
  <2> QED
    BY <1>2, <1>3, <2>1 DEF Change
<1>4. ASSUME \/ \E p \in Path, c \in Content \cup {None} : Save(p, c)
             \/ \E p, q \in Path : Move(p, q)
             \/ \E d \in Doc, governed \in {None} \cup Governed : Declare(d, governed)
      PROVE  Facts(graph, unkept)' /\ Facts(txn.g, txn.unkept)'
  BY <1>3, <1>4 DEF Save, Move, Declare
<1>5. CASE Discover
  <2> DEFINE K == {k \in graph.concepts : doc[k[1]] = None}
             g == DeleteConcepts(graph, K)
  <2>1. K \subseteq ConceptId
    BY <1>1 DEF Graph
  <2>2. Facts(g, unkept)
    BY <1>1, <2>1, DeleteConceptsFacts
  <2> DEFINE found == {p \in Path : disk[p] # None}
             concepts == {d \in Doc : doc[d] # None}
             map == {<<n.path, n.id>> : n \in graph.files}
  <2>3. PICK r \in {rev + 1, None} :
          txn' = [Idle EXCEPT !.pc = "files", !.rev = r, !.steady = TRUE, !.unkept = unkept,
                              !.disc = found, !.todo = found, !.docs = concepts, !.map = map, !.g = g]
    BY <1>5 DEF Discover
  <2> HIDE DEF g, K, found, concepts, map
  <2>4. txn'.g = g /\ txn'.unkept = unkept
    BY <2>3, IdleTyped DEF Txn
  <2> QED
    BY <1>1, <1>5, <2>2, <2>4 DEF Discover
<1>6. CASE SkipFile \/ SkipDoc
  <2>1. \/ txn' = [txn EXCEPT !.todo = @ \ {NextFile}, !.steady = FALSE]
        \/ txn' = [txn EXCEPT !.docs = @ \ {MinOf(txn.docs)}, !.steady = FALSE]
    BY <1>6 DEF SkipFile, SkipDoc
  <2>2. txn'.g = txn.g /\ txn'.unkept = txn.unkept
    <3>1. CASE txn' = [txn EXCEPT !.todo = @ \ {NextFile}, !.steady = FALSE]
      BY <1>1, <3>1 DEF Txn
    <3>2. CASE txn' = [txn EXCEPT !.docs = @ \ {MinOf(txn.docs)}, !.steady = FALSE]
      BY <1>1, <3>2 DEF Txn
    <3> QED
      BY <2>1, <3>1, <3>2
  <2> QED
    BY <1>2, <1>6, <2>2 DEF SkipFile, SkipDoc
<1>7. CASE ReadFile
  <2> DEFINE p == NextFile
             c == disk[p]
             id == IdFor(p, c)
             g == Renew(txn.g, p, c)
             map == {m \in txn.map : m[1] # p} \cup {<<p, id>>}
             matched == IF At(txn.g, p) # {} THEN txn.matched
                        ELSE txn.matched \cup {n.path : n \in VanishedWith(c)}
             pending == IF p \in Code /\ (Calls[c] # {} \/ Imports[c] # {})
                        THEN txn.pending \cup {<<id, c>>} ELSE txn.pending
             unk == UnkeptAfter(p, c)
  <2>1. p \in Path /\ c \in Content
    <3>1. txn.todo # {} /\ txn.todo \subseteq Path /\ c # None
      BY <1>1, <1>7 DEF ReadFile, Txn
    <3>2. p \in txn.todo
      <4>1. CASE txn.todo \cap Code # {}
        BY <3>1, <4>1, LeastOf, PathAssumption DEF NextFile
      <4>2. CASE txn.todo \cap Code = {}
        BY <3>1, <4>2, LeastOf, PathAssumption DEF NextFile
      <4> QED
        BY <4>1, <4>2
    <3> HIDE DEF p
    <3> QED
      BY <1>1, <3>1, <3>2 DEF Inv, Base
  <2>2. Facts(g, unk)
    BY <1>1, <2>1, RenewFacts
  <2>3. \/ txn' = [txn EXCEPT !.todo = @ \ {p}]
        \/ txn' = [txn EXCEPT !.todo = @ \ {p}, !.g = g, !.map = map, !.matched = matched,
                              !.pending = pending, !.unkept = unk]
    BY <1>7 DEF ReadFile
  <2>4. UNCHANGED <<graph, unkept>>
    BY <1>7 DEF ReadFile
  <2> HIDE DEF p, c, id, g, map, matched, pending, unk
  <2>5. CASE txn' = [txn EXCEPT !.todo = @ \ {p}]
    <3>1. txn'.g = txn.g /\ txn'.unkept = txn.unkept
      BY <1>1, <2>5 DEF Txn
    <3> QED
      BY <1>2, <2>4, <3>1
  <2>6. CASE txn' = [txn EXCEPT !.todo = @ \ {p}, !.g = g, !.map = map, !.matched = matched,
                              !.pending = pending, !.unkept = unk]
    <3>1. txn'.g = g /\ txn'.unkept = unk
      BY <1>1, <2>6 DEF Txn
    <3> QED
      BY <1>1, <2>2, <2>4, <3>1
  <2> QED
    BY <2>3, <2>5, <2>6
<1>8. CASE ReadDoc
  <2> DEFINE d == MinOf(txn.docs)
             E == {<<"governs", <<d>>, m[2]>> : m \in {m \in txn.map : m[1] \in doc[d]}}
             g0 == UpsertConcept(txn.g, d)
             g == InsertEdges(g0, E)
  <2>1. d \in Doc
    BY <1>1, <1>8, LeastOf, PathAssumption DEF ReadDoc, Txn
  <2>2. txn' = [txn EXCEPT !.docs = @ \ {d}, !.g = g] /\ UNCHANGED <<graph, unkept>>
    BY <1>8 DEF ReadDoc
  <2>3. \A e \in E : e[1] # "defines"
    OBVIOUS
  <2> HIDE DEF d, E
  <2>4. g0 \in Graph
    BY <1>1, <2>1 DEF UpsertConcept, Graph, ConceptId
  <2>5. g0.files = txn.g.files /\ g0.syms = txn.g.syms /\ g0.edges = txn.g.edges
    BY <1>1 DEF UpsertConcept, Graph
  <2> HIDE DEF g0
  <2>6. Facts(g0, txn.unkept)
    BY <1>1, <2>5 DEF Facts, FactsOf, OwnIds, OwnDefs, Ids
  <2>7. Facts(g, txn.unkept)
    BY <2>3, <2>4, <2>6, InsertEdgesFacts
  <2> HIDE DEF g
  <2>8. txn'.g = g /\ txn'.unkept = txn.unkept
    BY <1>1, <2>2 DEF Txn
  <2> QED
    BY <1>1, <2>2, <2>7, <2>8
<1>9. CASE Settle
  <2>1. PICK g : /\ Facts(g, txn.unkept)
                  /\ txn' = [Idle EXCEPT !.pc = "commit", !.rev = txn.rev, !.steady = txn.steady,
                                         !.unkept = txn.unkept, !.g = g]
    BY <1>1, <1>9, SettleFacts DEF Settle
  <2>2. txn'.g = g /\ txn'.unkept = txn.unkept
    BY <1>1, <2>1, IdleTyped DEF Txn
  <2> QED
    BY <1>1, <1>9, <2>1, <2>2 DEF Settle
<1>10. CASE Commit
  <2>1. graph' = txn.g /\ unkept' = txn.unkept \cap Ids(txn.g) /\ txn' = Idle
    BY <1>10 DEF Commit
  <2> QED
    BY <1>1, <2>1, UnkeptOfFiles, EmptyFacts
<1>11. CASE Fail \/ Crash
  <2>1. UNCHANGED <<graph, unkept>> /\ txn' = Idle
    BY <1>11 DEF Fail, Crash
  <2> QED
    BY <1>1, <2>1, EmptyFacts
<1>12. CASE Compact
  <2>1. UNCHANGED <<unkept, txn>>
    BY <1>12 DEF Compact
  <2>2. ASSUME NEW done \in 0..3, graph' = Compacted(graph, rev' - Retain, done)
        PROVE  Facts(graph', unkept)
    BY <1>1, <2>2, CompactedFacts
  <2>3. Facts(graph', unkept)
    BY <1>1, <1>12, <2>2 DEF Compact
  <2> QED
    BY <1>1, <2>1, <2>3
<1>13. CASE UNCHANGED vars
  BY <1>2, <1>13 DEF vars
<1> QED
  BY <1>4, <1>5, <1>6, <1>7, <1>8, <1>9, <1>10, <1>11, <1>12, <1>13 DEF Next

(* The active facts of a file are those of the content that its hash names,  *)
(* with whatever edits, renames, splits, merges, failures and crashes; more  *)
(* of them where facts could not be retired (RetireUnseen, IdFor, Settle).   *)
THEOREM FactsAreOfTheContent == Spec => []FactsMatchHash
<1>1. FactsInv => FactsMatchHash
  <2> SUFFICES ASSUME FactsInv, NEW n \in graph.files
               PROVE  LET S == {s \in graph.syms : FileOf(s) = n.id}
                          D == {e \in graph.edges : e[1] = "defines" /\ e[2] = n.id}
                      IN  /\ SymbolsOf(n.id, n.hash) \subseteq S /\ DefinesOf(n.id, n.hash) \subseteq D
                          /\ n.id \in unkept \/ (S = SymbolsOf(n.id, n.hash) /\ D = DefinesOf(n.id, n.hash))
    BY DEF FactsMatchHash
  <2>1. FactsOf(graph, n, unkept) /\ n.id \in FileId /\ n.hash \in Content
    BY FilesTyped DEF FactsInv, Facts, Inv, Good
  <2>2. \A s \in SymbolsOf(n.id, n.hash) : FileOf(s) = n.id
    BY <2>1, SymbolsOfFile
  <2>3. \A e \in DefinesOf(n.id, n.hash) : e[1] = "defines" /\ e[2] = n.id
    BY DEF DefinesOf
  <2> QED
    BY <2>1, <2>2, <2>3 DEF FactsOf
<1> QED
  BY <1>1, InitFacts, StepFacts, PTL DEF Spec

-----------------------------------------------------------------------------
(* Calls.  The calls of a file are resolved at the end of the compile, for   *)
(* the content that was read (pending), while the identity cascade may       *)
(* delete the node they are for: then edges of a node that is not there are  *)
(* left, and the file that takes that id later has the content they were     *)
(* resolved for, because it is in the id.                                    *)

CallsOf(g, unk) ==
  \A e \in g.edges : e[1] = "calls" =>
    /\ \A n \in g.files : e[2] = n.id /\ n.id \notin unk => e[3][3] \in Calls[n.hash]
    /\ e[2] \notin Ids(g) => e[3][3] \in Calls[e[2][2]]

(* Where a file of the graph (its nodes are F) was found again: at its path, *)
(* or by its content.                                                        *)
Found(t, F, id) == \E k \in F : k.id = id /\ k.path \in t.disc \cup t.matched

(* The nodes at the paths still to be read are those of the graph. *)
Reading(t, F) ==
  t.pc = "files" =>
    /\ t.todo \subseteq t.disc
    /\ \A k \in F : k.id \in Ids(t.g)
    /\ \A n \in t.g.files : n.path \in t.todo => n \in F

(* The calls to be resolved are those of the node's content, and a node that *)
(* may yet be deleted has its content in its id.                             *)
Pending(t, F) ==
  \A q \in t.pending :
    /\ q[1] \in Ids(t.g)
    /\ q[2] = q[1][2] \/ Found(t, F, q[1])
    /\ \A n \in t.g.files : n.id = q[1] =>
         n.path \notin t.todo /\ (n.id \notin t.unkept => n.hash = q[2])

CallsInv ==
  /\ CallsOf(graph, unkept) /\ CallsOf(txn.g, txn.unkept)
  /\ Reading(txn, graph.files) /\ Pending(txn, graph.files)

LEMMA SameCalls ==
  ASSUME NEW g, NEW h, NEW unk, CallsOf(g, unk), \A e \in h.edges : e[1] = "calls" => e \in g.edges,
         \A n \in h.files : \E m \in g.files : m.id = n.id /\ m.hash = n.hash,
         Ids(g) \subseteq Ids(h)
  PROVE  CallsOf(h, unk)
  BY DEF CallsOf

LEMMA DeleteFilesCalls ==
  ASSUME NEW g, g \in Graph, NEW unk, CallsOf(g, unk), NEW F
  PROVE  CallsOf(DeleteFiles(g, F), unk) /\ Ids(DeleteFiles(g, F)) = Ids(g) \ F
<1> DEFINE h == DeleteFiles(g, F)
<1>1. PICK gone : /\ F \subseteq gone
                  /\ h = [g EXCEPT !.files = {n \in @ : n.id \notin F},
                                   !.syms = @ \ gone,
                                   !.deadSyms = {d \in @ : d[1] \notin gone},
                                   !.edges = {e \in @ : ~Touches(e, gone)},
                                   !.deadEdges = {d \in @ : ~Touches(d[1], gone)}]
  BY DEF DeleteFiles
<1>2. h.files = {n \in g.files : n.id \notin F} /\ h.edges = {e \in g.edges : ~Touches(e, gone)}
  BY <1>1 DEF Graph
<1> HIDE DEF h
<1>3. Ids(h) = Ids(g) \ F
  BY <1>2 DEF Ids
<1>4. \A e \in h.edges : e \in g.edges /\ e[2] \notin F
  BY <1>1, <1>2 DEF Touches
<1>5. CallsOf(h, unk)
  BY <1>2, <1>3, <1>4 DEF CallsOf
<1> QED
  BY <1>3, <1>5 DEF h

-----------------------------------------------------------------------------
(* A file that is read. *)

(* An id is the one of the node at the path, of a file that vanished with    *)
(* the content, or a new one with the content in it.                         *)
LEMMA IdForOrigin ==
  ASSUME Inv, NEW p \in Path, NEW c \in Content
  PROVE  \/ \E n \in At(txn.g, p) : n.id = IdFor(p, c)
         \/ At(txn.g, p) = {} /\ \E n \in VanishedWith(c) : n.id = IdFor(p, c)
         \/ IdFor(p, c) = <<p, c>>
<1>1. CASE At(txn.g, p) # {}
  BY <1>1 DEF IdFor
<1>2. CASE At(txn.g, p) = {} /\ VanishedWith(c) # {}
  BY <1>2 DEF IdFor
<1>3. CASE At(txn.g, p) = {} /\ VanishedWith(c) = {}
  BY <1>3 DEF IdFor
<1> QED
  BY <1>1, <1>2, <1>3

(* An id that keeps its account had the content before, if it had any. *)
LEMMA UnkeptAccount ==
  ASSUME NEW p, NEW c, NEW unk, unk = UnkeptAfter(p, c), NEW id, id = IdFor(p, c)
  PROVE  /\ \A x : x # id => (x \in unk <=> x \in txn.unkept)
         /\ id \notin unk /\ ~(IsContentChange(p, c) /\ txn.rev # None) =>
              /\ id \notin txn.unkept
              /\ \A m \in txn.g.files : m.id = id => m.hash = c
<1>1. \A x : x # id => (x \in unk <=> x \in txn.unkept)
  BY DEF UnkeptAfter
<1>2. ASSUME id \notin unk, ~(IsContentChange(p, c) /\ txn.rev # None)
      PROVE  /\ id \notin txn.unkept
             /\ \A m \in txn.g.files : m.id = id => m.hash = c
  <2>1. ~IsContentChange(p, c)
    BY <1>2 DEF UnkeptAfter
  <2>2. id \notin txn.unkept /\ \A m \in txn.g.files : ~(m.id = id /\ m.path # p /\ m.hash # c)
    BY <1>2, <2>1 DEF UnkeptAfter
  <2> QED
    BY <2>1, <2>2 DEF IsContentChange, At
<1> QED
  BY <1>1, <1>2

LEMMA RenewCalls ==
  ASSUME Inv, CallsInv, txn.pc = "files", NEW p \in Path, NEW c \in Content
  PROVE  CallsOf(Renew(txn.g, p, c), UnkeptAfter(p, c))
<1> DEFINE id == IdFor(p, c)
           n == [id |-> id, path |-> p, hash |-> c]
           h == Renew(txn.g, p, c)
           unk == UnkeptAfter(p, c)
           D == DefinesOf(id, c)
           retire == IsContentChange(p, c) /\ txn.rev # None
<1>1. /\ h.files = {m \in txn.g.files : m.id # id} \cup {n}
      /\ IF retire THEN h.edges = (txn.g.edges \ Owned(txn.g, id)) \cup D
                   ELSE h.edges = txn.g.edges \cup D
  BY RenewShape
<1>2. /\ \A x : x # id => (x \in unk <=> x \in txn.unkept)
      /\ id \notin unk /\ ~retire =>
           id \notin txn.unkept /\ \A m \in txn.g.files : m.id = id => m.hash = c
  BY UnkeptAccount
<1>3. ASSUME id \notin Ids(txn.g) PROVE id[2] = c
  <2>1. \A k \in VanishedWith(c) : k.id \in Ids(txn.g)
    BY DEF VanishedWith, CallsInv, Reading
  <2>2. \A k \in At(txn.g, p) : k.id \in Ids(txn.g)
    BY DEF At, Ids
  <2>3. id = <<p, c>>
    BY <1>3, <2>1, <2>2, IdForOrigin
  <2> QED
    BY <2>3
<1>4. \A e \in D : e[1] = "defines"
  BY DEF DefinesOf
<1>5. n.id = id /\ n.hash = c
  OBVIOUS
<1> HIDE DEF id, h, unk, D, retire
<1>6. Ids(txn.g) \subseteq Ids(h)
  BY <1>1, <1>5 DEF Ids
<1>7. CallsOf(txn.g, txn.unkept)
  BY DEF CallsInv
<1>8. ASSUME NEW e \in h.edges, e[1] = "calls"
      PROVE  e \in txn.g.edges /\ (retire => e[2] # id)
  BY <1>1, <1>4, <1>8 DEF Owned
<1>9. ASSUME NEW e \in h.edges, e[1] = "calls", e[2] = id, id \notin unk PROVE e[3][3] \in Calls[c]
  <2>1. ~retire /\ e \in txn.g.edges
    BY <1>8, <1>9
  <2>2. CASE id \in Ids(txn.g)
    <3>1. PICK m \in txn.g.files : m.id = id
      BY <2>2 DEF Ids
    <3> QED
      BY <1>2, <1>7, <1>9, <2>1, <3>1 DEF CallsOf
  <2>3. CASE id \notin Ids(txn.g)
    BY <1>3, <1>7, <1>9, <2>1, <2>3 DEF CallsOf
  <2> QED
    BY <2>2, <2>3
<1>10. ASSUME NEW e \in h.edges, e[1] = "calls", NEW m \in h.files, e[2] = m.id, m.id \notin unk
       PROVE  e[3][3] \in Calls[m.hash]
  <2>1. CASE m.id = id
    <3>1. m = n
      BY <1>1, <2>1
    <3> QED
      BY <1>5, <1>9, <1>10, <3>1
  <2>2. CASE m.id # id
    <3>1. m \in txn.g.files
      BY <1>1, <1>5, <2>2
    <3> QED
      BY <1>2, <1>7, <1>8, <1>10, <2>2, <3>1 DEF CallsOf
  <2> QED
    BY <2>1, <2>2
<1>11. ASSUME NEW e \in h.edges, e[1] = "calls", e[2] \notin Ids(h) PROVE e[3][3] \in Calls[e[2][2]]
  BY <1>6, <1>7, <1>8, <1>11 DEF CallsOf
<1>12. CallsOf(h, unk)
  BY <1>10, <1>11 DEF CallsOf
<1> QED
  BY <1>12 DEF h, unk

(* The account of what was read goes on. *)
LEMMA RenewAccount ==
  ASSUME FactsInv, CallsInv, txn.pc = "files", NEW p \in txn.todo, p \in Path, NEW c \in Content,
         NEW t, t.pc = "files", t.disc = txn.disc, t.todo = txn.todo \ {p},
         t.g = Renew(txn.g, p, c), t.unkept = UnkeptAfter(p, c),
         t.pending \in {txn.pending, txn.pending \cup {<<IdFor(p, c), c>>}},
         t.matched = IF At(txn.g, p) # {} THEN txn.matched
                     ELSE txn.matched \cup {n.path : n \in VanishedWith(c)}
  PROVE  Reading(t, graph.files) /\ Pending(t, graph.files)
<1> DEFINE id == IdFor(p, c)
           n == [id |-> id, path |-> p, hash |-> c]
           h == Renew(txn.g, p, c)
           unk == UnkeptAfter(p, c)
<1>1. Inv /\ Reading(txn, graph.files) /\ Pending(txn, graph.files) /\ OwnIds(txn.g)
  BY DEF FactsInv, CallsInv, Facts
<1>2. h.files = {m \in txn.g.files : m.id # id} \cup {n}
  BY <1>1, RenewShape
<1>3. /\ \A x : x # id => (x \in unk <=> x \in txn.unkept)
      /\ id \notin unk /\ ~(IsContentChange(p, c) /\ txn.rev # None) =>
           id \notin txn.unkept /\ \A m \in txn.g.files : m.id = id => m.hash = c
  BY UnkeptAccount
<1>4. id = <<p, c>> \/ Found(t, graph.files, id)
  <2>1. ASSUME NEW m \in At(txn.g, p), m.id = id PROVE Found(t, graph.files, id)
    <3>1. m \in graph.files /\ m.path \in t.disc
      BY <1>1, <2>1 DEF At, Reading
    <3> QED
      BY <2>1, <3>1 DEF Found
  <2>2. ASSUME At(txn.g, p) = {}, NEW m \in VanishedWith(c), m.id = id PROVE Found(t, graph.files, id)
    <3>1. m \in graph.files /\ m.path \in t.matched
      BY <2>2 DEF VanishedWith
    <3> QED
      BY <2>2, <3>1 DEF Found
  <2> QED
    BY <1>1, <2>1, <2>2, IdForOrigin
<1>5. \A m \in At(txn.g, p) : m.id = id
  BY <1>1, IdForFile
<1>6. n.id = id /\ n.hash = c /\ n.path = p /\ t.g = h /\ t.unkept = unk
  OBVIOUS
<1>7. txn.matched \subseteq t.matched
  BY DEF VanishedWith
<1>8. t.pending \subseteq txn.pending \cup {<<id, c>>}
  OBVIOUS
<1>9. <<id, c>>[1] = id /\ <<id, c>>[2] = c /\ (id = <<p, c>> => id[2] = c)
  OBVIOUS
<1> HIDE DEF id, h, unk, n
<1>10. Ids(txn.g) \subseteq Ids(h) /\ id \in Ids(h)
  BY <1>2, <1>6 DEF Ids
<1>11. Reading(t, graph.files)
  <2>1. ASSUME NEW m \in h.files, m.path \in t.todo PROVE m \in graph.files
    <3>1. m # n /\ m.path \in txn.todo
      BY <1>6, <2>1
    <3> QED
      BY <1>1, <1>2, <3>1 DEF Reading
  <2> QED
    BY <1>1, <1>6, <1>10, <2>1 DEF Reading
<1>12. ASSUME NEW q \in txn.pending
       PROVE  /\ q[1] \in Ids(h) /\ (q[2] = q[1][2] \/ Found(t, graph.files, q[1]))
              /\ \A m \in h.files : m.id = q[1] =>
                   m.path \notin t.todo /\ (m.id \notin unk => m.hash = q[2])
  <2>1. q[1] \in Ids(txn.g) /\ (q[2] = q[1][2] \/ Found(txn, graph.files, q[1]))
    BY <1>1 DEF Pending
  <2>2. Found(txn, graph.files, q[1]) => Found(t, graph.files, q[1])
    BY <1>7 DEF Found
  <2>3. ASSUME NEW m \in h.files, m.id = q[1], m.id = id
        PROVE  m.path \notin t.todo /\ (m.id \notin unk => m.hash = q[2])
    <3>1. m = n
      BY <1>2, <2>3
    <3>2. PICK k \in txn.g.files : k.id = q[1]
      BY <2>1 DEF Ids
    <3>3. k.path \notin txn.todo /\ (k.id \notin txn.unkept => k.hash = q[2])
      BY <1>1, <3>2 DEF Pending
    <3>4. At(txn.g, p) = {}
      <4>1. ASSUME NEW a \in At(txn.g, p) PROVE FALSE
        <5>1. a \in txn.g.files /\ a.path = p /\ a.id = id
          BY <1>5 DEF At
        <5>2. a = k
          BY <1>1, <2>3, <3>2, <5>1 DEF OwnIds
        <5> QED
          BY <3>3, <5>1, <5>2
      <4> QED
        BY <4>1
    <3>5. ~IsContentChange(p, c)
      BY <3>4 DEF IsContentChange
    <3>6. id \notin unk => k.hash = c /\ k.hash = q[2]
      BY <1>3, <2>3, <3>2, <3>3, <3>5
    <3> QED
      BY <1>6, <2>3, <3>1, <3>6
  <2>4. ASSUME NEW m \in h.files, m.id = q[1], m.id # id
        PROVE  m.path \notin t.todo /\ (m.id \notin unk => m.hash = q[2])
    <3>1. m \in txn.g.files
      BY <1>2, <1>6, <2>4
    <3> QED
      BY <1>1, <1>3, <2>4, <3>1 DEF Pending
  <2> QED
    BY <1>10, <2>1, <2>2, <2>3, <2>4
<1>13. ASSUME NEW m \in h.files, m.id = id PROVE m.path \notin t.todo /\ m.hash = c
  BY <1>2, <1>6, <1>13
<1>14. Pending(t, graph.files)
  <2> SUFFICES ASSUME NEW q \in t.pending
               PROVE  /\ q[1] \in Ids(h) /\ (q[2] = q[1][2] \/ Found(t, graph.files, q[1]))
                      /\ \A m \in h.files : m.id = q[1] =>
                           m.path \notin t.todo /\ (m.id \notin unk => m.hash = q[2])
    BY <1>6 DEF Pending
  <2>1. CASE q \in txn.pending
    BY <1>12, <2>1
  <2>2. CASE q = <<id, c>>
    <3>1. q[1] = id /\ q[2] = c
      BY <1>9, <2>2
    <3> QED
      BY <1>4, <1>9, <1>10, <1>13, <3>1
  <2> QED
    BY <1>8, <2>1, <2>2
<1> QED
  BY <1>11, <1>14


-----------------------------------------------------------------------------
(* Stages 6 and 4. *)

(* What moves had disappeared, and it moves to where a new file is. *)
LEMMA MovesFrom ==
  ASSUME NEW g,
         NEW git \in [{n.id : n \in Unresolved(g)} -> {n.path : n \in NewFiles(g)} \cup {None}],
         NEW a \in MovesOf(g, git)
  PROVE  a[1] \in Disappeared(g) /\ \E m \in NewFiles(g) : a[2] = m.path
<1> DEFINE A == UNION {{<<n, m.path, 0>> : m \in RenameTo(g, n)} : n \in Disappeared(g)}
           B == {<<n, git[n.id], 1>> : n \in {k \in Unresolved(g) : git[k.id] # None}}
<1>1. CASE a \in A
  <2>1. PICK n \in Disappeared(g) : a \in {<<n, m.path, 0>> : m \in RenameTo(g, n)}
    BY <1>1
  <2>2. PICK m \in RenameTo(g, n) : a = <<n, m.path, 0>>
    BY <2>1
  <2>3. m \in NewFiles(g) /\ a[1] = n /\ a[2] = m.path
    BY <2>2 DEF RenameTo
  <2> QED
    BY <2>3
<1>2. CASE a \in B
  <2>1. PICK n \in Unresolved(g) : git[n.id] # None /\ a = <<n, git[n.id], 1>>
    BY <1>2
  <2>2. n \in Disappeared(g) /\ git[n.id] \in {k.path : k \in NewFiles(g)}
    BY <2>1 DEF Unresolved, OldLeft
  <2>3. a[1] = n /\ a[2] = git[n.id]
    BY <2>1
  <2> QED
    BY <2>2, <2>3
<1>3. a \in A \cup B
  BY DEF MovesOf
<1> HIDE DEF A, B
<1> QED
  BY <1>1, <1>2, <1>3

(* Moves delete nodes that lost or gave way to a move; the others keep their *)
(* ids and their content.                                                    *)
LEMMA PersistMovesCalls ==
  ASSUME NEW g, g \in Graph, NEW unk, CallsOf(g, unk), NEW moves, moves \subseteq Moves(g)
  PROVE  LET h == PersistMoves(g, moves)
         IN  /\ CallsOf(h, unk)
             /\ \A n \in h.files : \E m \in g.files : m.id = n.id /\ m.hash = n.hash
             /\ \A x \in Ids(g) \ Ids(h) :
                  \/ \E a \in moves : a[1].id = x
                  \/ \E k \in g.files, a \in moves : k.path = a[2] /\ k.id = x
<1> DEFINE Moved(a) == [a[1] EXCEPT !.path = a[2]]
           last == {a \in moves : \A b \in moves : b[2] = a[2] => b = a \/ Precedes(b, a)}
           lost == {a[1].id : a \in moves \ last}
           dups == {n.id : n \in {k \in g.files : \E a \in last : k.path = a[2]}}
                     \ {a[1].id : a \in last}
           F    == lost \cup dups
           g1   == DeleteFiles(g, F)
           here == {Moved(a) : a \in last}
           rest == {n \in g1.files : \A a \in last : n.id # a[1].id}
           h    == [g1 EXCEPT !.files = rest \cup here]
<1>1. PersistMoves(g, moves) = h
  BY DEF PersistMoves
<1>2. \A a \in moves : a[1] \in g.files /\ a[1] \in FileNode
  BY DEF Moves
<1>3. last \subseteq moves
  OBVIOUS
<1>4. \A x \in F : \/ \E a \in moves : a[1].id = x
                   \/ \E k \in g.files, a \in moves : k.path = a[2] /\ k.id = x
  <2>1. ASSUME NEW x \in lost PROVE \E a \in moves : a[1].id = x
    BY <2>1
  <2>2. ASSUME NEW x \in dups PROVE \E k \in g.files, a \in moves : k.path = a[2] /\ k.id = x
    BY <1>3, <2>2
  <2> QED
    BY <2>1, <2>2
<1> HIDE DEF last, F
<1>5. CallsOf(g1, unk) /\ Ids(g1) = Ids(g) \ F
  BY DeleteFilesCalls
<1>6. g1.files \subseteq g.files /\ h.files = rest \cup here /\ h.edges = g1.edges
  <2>1. g1 = [g1 EXCEPT !.files = {n \in g.files : n.id \notin F}] /\ g1 \in Graph
    BY DEF DeleteFiles, Graph
  <2> QED
    BY <2>1 DEF Graph
<1> HIDE DEF g1, h
<1>7. \A a \in last : Moved(a).id = a[1].id /\ Moved(a).hash = a[1].hash
  BY <1>2, <1>3 DEF FileNode
<1> HIDE DEF Moved
<1>8. ASSUME NEW n \in h.files PROVE \E m \in g.files : m.id = n.id /\ m.hash = n.hash
  <2>1. CASE n \in rest
    BY <1>6, <2>1
  <2>2. CASE n \in here
    <3>1. PICK a \in last : n = Moved(a)
      BY <2>2
    <3> QED
      BY <1>2, <1>3, <1>7, <3>1
  <2> QED
    BY <1>6, <2>1, <2>2
<1>9. Ids(g1) \subseteq Ids(h)
  <2> SUFFICES ASSUME NEW n \in g1.files PROVE \E m \in rest \cup here : m.id = n.id
    BY <1>6 DEF Ids
  <2>1. CASE \A a \in last : n.id # a[1].id
    BY <2>1
  <2>2. ASSUME NEW a \in last, n.id = a[1].id
        PROVE  \E m \in rest \cup here : m.id = n.id
    <3>1. Moved(a) \in here
      OBVIOUS
    <3> QED
      BY <1>7, <2>2, <3>1
  <2> QED
    BY <2>1, <2>2
<1>10. \A e \in h.edges : e \in g.edges /\ e[2] \notin F
  <2>1. \A e \in g1.edges : e \in g.edges /\ ~(e[2] \in F)
    BY DEF g1, DeleteFiles, Graph, Touches
  <2> QED
    BY <1>6, <2>1
<1>11. CallsOf(h, unk)
  <2>1. \A e \in h.edges : e[2] \notin Ids(h) => e[2] \notin Ids(g)
    BY <1>5, <1>9, <1>10
  <2> QED
    BY <1>8, <1>10, <2>1 DEF CallsOf
<1> QED
  BY <1>1, <1>4, <1>5, <1>8, <1>9, <1>11

(* Calls are resolved by the names of the content they are of. *)
LEMMA ResolvedCalls ==
  ASSUME NEW g, NEW id, NEW c, NEW e \in ResolvedEdges(g, id, c), e[1] = "calls"
  PROVE  e[2] = id /\ e[3][3] \in Calls[c]
<1> DEFINE imported == ImportsOf(g, id, c)
           A == {<<"imports", id, t>> : t \in imported}
           S == UNION {Callees(g, name, id, imported) : name \in Calls[c]}
           B == {<<"calls", id, s>> : s \in S}
<1>1. ResolvedEdges(g, id, c) = A \cup B
  BY DEF ResolvedEdges
<1>2. \A x \in A : x[1] = "imports"
  OBVIOUS
<1> HIDE DEF A, imported
<1>3. e \in B
  BY <1>1, <1>2
<1>4. PICK s \in S : e = <<"calls", id, s>>
  BY <1>3
<1>5. PICK name \in Calls[c] : s \in Callees(g, name, id, imported)
  BY <1>4
<1>6. s[3] = name
  BY <1>5 DEF Callees
<1>7. e[2] = id /\ e[3] = s
  BY <1>4
<1> HIDE DEF S, B
<1> QED
  BY <1>5, <1>6, <1>7

(* A file that was found again neither moves nor gives way to a move, and its *)
(* path at the start is not one of those whose files are deleted.             *)
LEMMA FoundStays ==
  ASSUME Inv, OwnIds(graph), NEW id, Found(txn, graph.files, id),
         NEW git \in [{n.id : n \in Unresolved(txn.g)} -> {n.path : n \in NewFiles(txn.g)} \cup {None}]
  PROVE  /\ \A a \in MovesOf(txn.g, git) :
              a[1].id # id /\ \A n \in txn.g.files : n.path = a[2] => n.id # id
         /\ \A n \in graph.files : n.id = id => n.path \in txn.disc \cup txn.matched
<1>1. PICK k \in graph.files : k.id = id /\ k.path \in txn.disc \cup txn.matched
  BY DEF Found
<1>2. \A n \in graph.files : n.id = id => n = k
  BY <1>1 DEF OwnIds
<1>3. ASSUME NEW a \in MovesOf(txn.g, git), a[1].id = id PROVE FALSE
  <2>1. a[1] \in Disappeared(txn.g)
    BY MovesFrom
  <2>2. StartOf(a[1]) = k
    BY <1>1, <1>2, <1>3 DEF StartOf
  <2> QED
    BY <1>1, <2>1, <2>2 DEF Disappeared
<1>4. ASSUME NEW a \in MovesOf(txn.g, git), NEW n \in txn.g.files, n.path = a[2], n.id = id PROVE FALSE
  <2>1. PICK m \in NewFiles(txn.g) : a[2] = m.path
    BY MovesFrom
  <2>2. m \in txn.g.files /\ m.id \notin Ids(graph)
    BY DEF NewFiles
  <2>3. m = n
    BY <1>4, <2>1, <2>2 DEF Inv, Good, OwnPaths
  <2> QED
    BY <1>1, <1>4, <2>2, <2>3 DEF Ids
<1> QED
  BY <1>1, <1>2, <1>3, <1>4

LEMMA SettleCalls ==
  ASSUME FactsInv, CallsInv,
         NEW git \in [{n.id : n \in Unresolved(txn.g)} -> {n.path : n \in NewFiles(txn.g)} \cup {None}]
  PROVE  LET moves == MovesOf(txn.g, git)
             g1 == DeleteMissing(PersistMoves(txn.g, moves),
                                 txn.matched \cup {a[1].path : a \in moves})
             new == UNION {ResolvedEdges(g1, q[1], q[2]) : q \in txn.pending}
         IN  CallsOf(InsertEdges(g1, new), txn.unkept)
<1> DEFINE moves == MovesOf(txn.g, git)
           g0  == PersistMoves(txn.g, moves)
           kept == txn.matched \cup {a[1].path : a \in moves}
           gone == {n.id : n \in {k \in graph.files : k.path \notin txn.disc /\ k.path \notin kept}}
           g1  == DeleteMissing(g0, kept)
           new == UNION {ResolvedEdges(g1, q[1], q[2]) : q \in txn.pending}
           h   == InsertEdges(g1, new)
<1>1. /\ Inv /\ OwnIds(graph) /\ CallsOf(txn.g, txn.unkept) /\ Pending(txn, graph.files)
      /\ txn.g \in Graph /\ rev \in Nat /\ Good(txn.g, rev)
  BY BoundAssumption DEF FactsInv, CallsInv, Facts, Inv, Base, Good
<1>2. moves \subseteq Moves(txn.g)
  BY <1>1, MovesTyped
<1>3. Good(g0, rev)
  <2> HIDE DEF moves
  <2> QED
    BY <1>1, <1>2, PersistMovesGood
<1>4. /\ CallsOf(g0, txn.unkept)
      /\ \A n \in g0.files : \E m \in txn.g.files : m.id = n.id /\ m.hash = n.hash
      /\ \A x \in Ids(txn.g) \ Ids(g0) :
           \/ \E a \in moves : a[1].id = x
           \/ \E k \in txn.g.files, a \in moves : k.path = a[2] /\ k.id = x
  <2> HIDE DEF moves
  <2> QED
    BY <1>1, <1>2, PersistMovesCalls
<1>5. \A id \in Ids(txn.g) : Found(txn, graph.files, id) => id \in Ids(g0) /\ id \notin gone
  <2> SUFFICES ASSUME NEW id \in Ids(txn.g), Found(txn, graph.files, id)
               PROVE  id \in Ids(g0) /\ id \notin gone
    OBVIOUS
  <2>1. /\ \A a \in moves : a[1].id # id /\ \A n \in txn.g.files : n.path = a[2] => n.id # id
        /\ \A n \in graph.files : n.id = id => n.path \in txn.disc \cup txn.matched
    BY <1>1, FoundStays
  <2>2. txn.matched \subseteq kept
    OBVIOUS
  <2> HIDE DEF kept, g0, moves
  <2> QED
    BY <1>4, <2>1, <2>2
<1>6. g1 = DeleteFiles(g0, gone)
  BY DEF DeleteMissing
<1> HIDE DEF moves, g0, kept, gone, g1
<1>7. /\ CallsOf(g1, txn.unkept) /\ Ids(g1) = Ids(g0) \ gone /\ g1 \in Graph
      /\ g1.files \subseteq g0.files
  BY <1>1, <1>3, <1>4, <1>6, DeleteFilesCalls, DeleteFilesGood DEF Good
<1>8. h.files = g1.files /\ h.edges = g1.edges \cup new
  <2> HIDE DEF new
  <2> QED
    BY <1>7 DEF InsertEdges, Graph
<1>9. ASSUME NEW e \in new, e[1] = "calls"
      PROVE  /\ \A n \in g1.files : e[2] = n.id /\ n.id \notin txn.unkept => e[3][3] \in Calls[n.hash]
             /\ e[2] \notin Ids(g1) => e[3][3] \in Calls[e[2][2]]
  <2>1. PICK q \in txn.pending : e \in ResolvedEdges(g1, q[1], q[2])
    BY <1>9
  <2>2. e[2] = q[1] /\ e[3][3] \in Calls[q[2]]
    BY <1>9, <2>1, ResolvedCalls
  <2>3. \A n \in g1.files : \E m \in txn.g.files : m.id = n.id /\ m.hash = n.hash
    BY <1>4, <1>7
  <2>4. \A n \in g1.files : n.id = q[1] /\ n.id \notin txn.unkept => n.hash = q[2]
    BY <1>1, <2>3 DEF Pending
  <2>5. q[1] \notin Ids(g1) => q[2] = q[1][2]
    BY <1>1, <1>5, <1>7 DEF Pending
  <2> QED
    BY <2>2, <2>4, <2>5
<1> HIDE DEF new, h
<1>10. Ids(h) = Ids(g1)
  BY <1>8 DEF Ids
<1>11. CallsOf(h, txn.unkept)
  BY <1>7, <1>8, <1>9, <1>10 DEF CallsOf
<1> QED
  BY <1>11 DEF h, new, g1, kept, g0, moves


-----------------------------------------------------------------------------
(* The whole, for calls. *)

LEMMA IdleCalls ==
  /\ CallsOf(Empty, {}) /\ Idle.g = Empty /\ Idle.unkept = {}
  /\ \A F : Reading(Idle, F) /\ Pending(Idle, F)
  BY DEF Empty, Idle, CallsOf, Reading, Pending, Ids

(* Reading less, and what is not read, does no harm. *)
LEMMA SameAccount ==
  ASSUME NEW F, NEW t, NEW u, Reading(t, F), Pending(t, F), u.pc = t.pc, u.disc = t.disc,
         u.todo \subseteq t.todo, u.matched = t.matched, u.pending = t.pending,
         u.g.files = t.g.files, u.unkept = t.unkept
  PROVE  Reading(u, F) /\ Pending(u, F)
  BY DEF Reading, Pending, Found, Ids

LEMMA StepCalls == FactsInv /\ CallsInv /\ [Next]_vars => CallsInv'
<1> SUFFICES ASSUME FactsInv, CallsInv, [Next]_vars PROVE CallsInv'
  OBVIOUS
<1> DEFINE Goal == /\ CallsOf(graph', unkept') /\ CallsOf(txn'.g, txn'.unkept)
                   /\ Reading(txn', graph'.files) /\ Pending(txn', graph'.files)
<1> SUFFICES Goal
  BY DEF CallsInv
<1>1. /\ Inv /\ txn \in Txn /\ rev \in Nat /\ graph \in Graph /\ txn.g \in Graph
      /\ CallsOf(graph, unkept) /\ CallsOf(txn.g, txn.unkept)
      /\ Reading(txn, graph.files) /\ Pending(txn, graph.files)
  BY BoundAssumption DEF FactsInv, CallsInv, Inv, Base, Good
<1>2. ASSUME UNCHANGED <<graph, unkept>>, txn'.pc = txn.pc, txn'.disc = txn.disc,
             txn'.todo \subseteq txn.todo, txn'.matched = txn.matched,
             txn'.pending = txn.pending, txn'.g = txn.g, txn'.unkept = txn.unkept
      PROVE  Goal
  BY <1>1, <1>2, SameAccount
<1>3. ASSUME Change PROVE Goal
  <2>1. txn' = [txn EXCEPT !.steady = FALSE] /\ UNCHANGED <<graph, unkept>>
    BY <1>3 DEF Change
  <2>2. /\ txn'.pc = txn.pc /\ txn'.disc = txn.disc /\ txn'.todo = txn.todo
        /\ txn'.matched = txn.matched /\ txn'.pending = txn.pending /\ txn'.g = txn.g
        /\ txn'.unkept = txn.unkept
    BY <1>1, <2>1 DEF Txn
  <2> QED
    BY <1>2, <2>1, <2>2
<1>4. ASSUME \/ \E p \in Path, c \in Content \cup {None} : Save(p, c)
             \/ \E p, q \in Path : Move(p, q)
             \/ \E d \in Doc, governed \in {None} \cup Governed : Declare(d, governed)
      PROVE  Goal
  BY <1>3, <1>4 DEF Save, Move, Declare
<1>5. CASE Discover
  <2> DEFINE K == {k \in graph.concepts : doc[k[1]] = None}
             g == DeleteConcepts(graph, K)
             found == {p \in Path : disk[p] # None}
             concepts == {d \in Doc : doc[d] # None}
             map == {<<n.path, n.id>> : n \in graph.files}
  <2>1. PICK r \in {rev + 1, None} :
          txn' = [Idle EXCEPT !.pc = "files", !.rev = r, !.steady = TRUE, !.unkept = unkept,
                              !.disc = found, !.todo = found, !.docs = concepts, !.map = map, !.g = g]
    BY <1>5 DEF Discover
  <2>2. g.files = graph.files /\ g.edges \subseteq graph.edges
    BY <1>1 DEF DeleteConcepts, Graph
  <2> HIDE DEF g, found, concepts, map
  <2>3. /\ txn'.pc = "files" /\ txn'.disc = found /\ txn'.todo = found
        /\ txn'.pending = {} /\ txn'.g = g /\ txn'.unkept = unkept
    BY <2>1 DEF Idle
  <2>4. CallsOf(g, unkept)
    <3>1. Ids(g) = Ids(graph)
      BY <2>2 DEF Ids
    <3> QED
      BY <1>1, <2>2, <3>1 DEF CallsOf
  <2>5. Reading(txn', graph.files) /\ Pending(txn', graph.files)
    BY <2>2, <2>3 DEF Reading, Pending, Ids
  <2> QED
    BY <1>1, <1>5, <2>3, <2>4, <2>5 DEF Discover
<1>6. CASE SkipFile \/ SkipDoc
  <2>1. /\ UNCHANGED <<graph, unkept>>
        /\ \/ txn' = [txn EXCEPT !.todo = @ \ {NextFile}, !.steady = FALSE]
           \/ txn' = [txn EXCEPT !.docs = @ \ {MinOf(txn.docs)}, !.steady = FALSE]
    BY <1>6 DEF SkipFile, SkipDoc
  <2>2. /\ txn'.pc = txn.pc /\ txn'.disc = txn.disc /\ txn'.todo \subseteq txn.todo
        /\ txn'.matched = txn.matched /\ txn'.pending = txn.pending /\ txn'.g = txn.g
        /\ txn'.unkept = txn.unkept
    <3>1. CASE txn' = [txn EXCEPT !.todo = @ \ {NextFile}, !.steady = FALSE]
      BY <1>1, <3>1 DEF Txn
    <3>2. CASE txn' = [txn EXCEPT !.docs = @ \ {MinOf(txn.docs)}, !.steady = FALSE]
      BY <1>1, <3>2 DEF Txn
    <3> QED
      BY <2>1, <3>1, <3>2
  <2> QED
    BY <1>2, <2>1, <2>2
<1>7. CASE ReadFile
  <2> DEFINE p == NextFile
             c == disk[p]
             id == IdFor(p, c)
             g == Renew(txn.g, p, c)
             map == {m \in txn.map : m[1] # p} \cup {<<p, id>>}
             matched == IF At(txn.g, p) # {} THEN txn.matched
                        ELSE txn.matched \cup {n.path : n \in VanishedWith(c)}
             pending == IF p \in Code /\ (Calls[c] # {} \/ Imports[c] # {})
                        THEN txn.pending \cup {<<id, c>>} ELSE txn.pending
             unk == UnkeptAfter(p, c)
             todo == txn.todo \ {p}
  <2>1. p \in txn.todo /\ p \in Path /\ c \in Content
    <3>1. txn.todo # {} /\ txn.todo \subseteq Path /\ c # None
      BY <1>1, <1>7 DEF ReadFile, Txn
    <3>2. p \in txn.todo
      <4>1. CASE txn.todo \cap Code # {}
        BY <3>1, <4>1, LeastOf, PathAssumption DEF NextFile
      <4>2. CASE txn.todo \cap Code = {}
        BY <3>1, <4>2, LeastOf, PathAssumption DEF NextFile
      <4> QED
        BY <4>1, <4>2
    <3> HIDE DEF p
    <3> QED
      BY <1>1, <3>1, <3>2 DEF Inv, Base
  <2>2. UNCHANGED <<graph, unkept>> /\ txn.pc = "files"
    BY <1>7 DEF ReadFile
  <2>3. \/ txn' = [txn EXCEPT !.todo = todo]
        \/ txn' = [txn EXCEPT !.todo = todo, !.g = g, !.map = map, !.matched = matched,
                              !.pending = pending, !.unkept = unk]
    BY <1>7 DEF ReadFile
  <2>4. CallsOf(g, unk)
    <3> HIDE DEF p, c
    <3> QED
      BY <1>1, <2>1, <2>2, RenewCalls
  <2>5. pending \in {txn.pending, txn.pending \cup {<<id, c>>}}
    OBVIOUS
  <2>6. CASE txn' = [txn EXCEPT !.todo = todo]
    <3>1. todo \subseteq txn.todo
      OBVIOUS
    <3> HIDE DEF todo
    <3>2. /\ txn'.pc = txn.pc /\ txn'.disc = txn.disc /\ txn'.todo = todo
          /\ txn'.matched = txn.matched /\ txn'.pending = txn.pending /\ txn'.g = txn.g
          /\ txn'.unkept = txn.unkept
      BY <1>1, <2>6 DEF Txn
    <3> QED
      BY <1>2, <2>2, <3>1, <3>2
  <2>7. CASE txn' = [txn EXCEPT !.todo = todo, !.g = g, !.map = map, !.matched = matched,
                                !.pending = pending, !.unkept = unk]
    <3>1. /\ txn'.pc = "files" /\ txn'.disc = txn.disc /\ txn'.todo = todo
          /\ txn'.matched = matched /\ txn'.pending = pending /\ txn'.g = g
          /\ txn'.unkept = unk
      <4> HIDE DEF p, c, id, g, map, matched, pending, unk, todo
      <4> QED
        BY <1>1, <2>2, <2>7 DEF Txn
    <3>2. Reading(txn', graph.files) /\ Pending(txn', graph.files)
      <4> HIDE DEF p, c
      <4> QED
        BY <2>1, <2>2, <2>5, <3>1, RenewAccount
    <3> QED
      BY <1>1, <2>2, <2>4, <3>1, <3>2
  <2> QED
    BY <2>3, <2>6, <2>7
<1>8. CASE ReadDoc
  <2> DEFINE d == MinOf(txn.docs)
             E == {<<"governs", <<d>>, m[2]>> : m \in {m \in txn.map : m[1] \in doc[d]}}
             g == InsertEdges(UpsertConcept(txn.g, d), E)
  <2>1. txn' = [txn EXCEPT !.docs = @ \ {d}, !.g = g] /\ UNCHANGED <<graph, unkept>>
    BY <1>8 DEF ReadDoc
  <2>2. \A e \in E : e[1] = "governs"
    OBVIOUS
  <2> HIDE DEF d, E
  <2>3. g.files = txn.g.files /\ g.edges = txn.g.edges \cup E
    BY <1>1 DEF UpsertConcept, InsertEdges, Graph
  <2> HIDE DEF g
  <2>4. CallsOf(g, txn.unkept)
    <3>1. Ids(g) = Ids(txn.g)
      BY <2>3 DEF Ids
    <3> QED
      BY <1>1, <2>2, <2>3, <3>1 DEF CallsOf
  <2>5. /\ txn'.pc = txn.pc /\ txn'.disc = txn.disc /\ txn'.todo = txn.todo
        /\ txn'.matched = txn.matched /\ txn'.pending = txn.pending /\ txn'.g = g
        /\ txn'.unkept = txn.unkept
    BY <1>1, <2>1 DEF Txn
  <2>6. Reading(txn', graph.files) /\ Pending(txn', graph.files)
    BY <1>1, <2>3, <2>5, SameAccount
  <2> QED
    BY <1>1, <2>1, <2>4, <2>5, <2>6
<1>9. CASE Settle
  <2>1. PICK g : /\ CallsOf(g, txn.unkept)
                  /\ txn' = [Idle EXCEPT !.pc = "commit", !.rev = txn.rev, !.steady = txn.steady,
                                         !.unkept = txn.unkept, !.g = g]
    BY <1>9, SettleCalls DEF Settle
  <2>2. txn'.g = g /\ txn'.unkept = txn.unkept /\ txn'.pc = "commit" /\ txn'.pending = {}
    BY <2>1 DEF Idle
  <2>3. Reading(txn', graph.files) /\ Pending(txn', graph.files)
    BY <2>2 DEF Reading, Pending
  <2> QED
    BY <1>1, <1>9, <2>1, <2>2, <2>3 DEF Settle
<1>10. CASE Commit
  <2>1. graph' = txn.g /\ unkept' = txn.unkept \cap Ids(txn.g) /\ txn' = Idle
    BY <1>10 DEF Commit
  <2>2. CallsOf(graph', unkept')
    BY <1>1, <2>1 DEF CallsOf, Ids
  <2> QED
    BY <2>1, <2>2, IdleCalls
<1>11. CASE Fail \/ Crash
  <2>1. UNCHANGED <<graph, unkept>> /\ txn' = Idle
    BY <1>11 DEF Fail, Crash
  <2> QED
    BY <1>1, <2>1, IdleCalls
<1>12. CASE Compact
  <2>1. UNCHANGED <<unkept, txn>>
    BY <1>12 DEF Compact
  <2>2. graph'.files = graph.files /\ graph'.edges \subseteq graph.edges
    BY <1>1, <1>12, CompactedShape DEF Compact, Compaction
  <2>3. CallsOf(graph', unkept)
    <3>1. Ids(graph') = Ids(graph)
      BY <2>2 DEF Ids
    <3> QED
      BY <1>1, <2>2, <3>1 DEF CallsOf
  <2> QED
    BY <1>1, <2>1, <2>2, <2>3
<1>13. CASE UNCHANGED vars
  BY <1>2, <1>13 DEF vars
<1> QED
  BY <1>4, <1>5, <1>6, <1>7, <1>8, <1>9, <1>10, <1>11, <1>12, <1>13 DEF Next

(* A file is only said to call what its recorded content calls: a call of an *)
(* earlier content is retired with it, and the calls that are resolved at    *)
(* the end are those of the content that was read, whatever was moved,       *)
(* merged or deleted in between (RetireUnseen, Settle).                      *)
THEOREM CallsAreOfTheContent == Spec => []CallsMatchCaller
<1>1. Init => CallsInv
  <2> SUFFICES ASSUME Init PROVE CallsInv
    OBVIOUS
  <2> QED
    BY IdleCalls DEF Init, CallsInv
<1>2. CallsInv => CallsMatchCaller
  BY DEF CallsInv, CallsOf, CallsMatchCaller
<1> QED
  BY <1>1, <1>2, InitFacts, StepFacts, StepCalls, PTL DEF Spec

-----------------------------------------------------------------------------
(* Settling.  Once a complete compile has run and the disk stays as it is,   *)
(* nothing vanishes any more: a file that is read keeps the id of the node   *)
(* at its path, or takes the one derived from its path and content.  That    *)
(* one may be the id of a node that was moved to another path, which is then *)
(* without a node until the next compile: this is why two compiles are not   *)
(* enough in general.  But a path's own id is never taken from it, so the    *)
(* paths whose node has an inherited id only get fewer, and each complete    *)
(* compile that leaves a path without a node has one less of them.           *)

Present(F, D)  == \A n \in F : D[n.path] # None
Has(F, p)      == \E n \in F : n.path = p
Wanted(D)      == {p \in Path : D[p] # None /\ (p \in Code \/ Decls[D[p]] # {})}
Complete(F, D) == \A p \in Wanted(D) : Has(F, p)
Fresh(F, D)    == \A n \in F : n.path \in Code => n.hash = D[n.path]
Inherited(F)   == {p \in Path : \E n \in F : n.path = p /\ n.id[1] # p}

Reaches(g, d, paths) == \A n \in g.files : n.path \in paths => <<"governs", <<d>>, n.id>> \in g.edges
Governs(g, K)        == \A d \in Doc : K[d] # None => Reaches(g, d, K[d])

(* The content and the concepts of the graph can only be expected from the   *)
(* second compile on: the first one may move a file, with its old content.   *)
Settled(g, k, D, K) == Complete(g.files, D) /\ (k >= 2 => Fresh(g.files, D) /\ Governs(g, K))

SamePlaces(F, G) ==
  /\ \A n \in F : \E m \in G : m.path = n.path /\ m.id = n.id
  /\ \A m \in G : \E n \in F : m.path = n.path /\ m.id = n.id

(* In any compile: a node that is not at a discovered path is one of the     *)
(* graph that was not found again, and the file map knows every node.        *)
Traced(t, F) ==
  /\ \A n \in t.g.files : n.path \notin t.disc => n \in F /\ n.path \notin t.matched
  /\ \A n \in t.g.files : <<n.path, n.id>> \in t.map

(* In a compile of a disk that a complete compile has seen: what was settled *)
(* stays so, and what is read settles.                                       *)
Calm(t, g, D, K) ==
  /\ Inherited(t.g.files) \subseteq Inherited(g.files)
  /\ Complete(g.files, D) => SamePlaces(t.g.files, g.files)
  /\ Fresh(g.files, D) => Fresh(t.g.files, D)
  /\ Complete(g.files, D) /\ Governs(g, K) => Governs(t.g, K)
  /\ t.steady =>
       /\ \A n \in t.g.files : n.path \in Code \ t.todo => n.hash = D[n.path]
       /\ \A p \in Wanted(D) \ t.todo :
            Has(t.g.files, p) \/ Inherited(t.g.files) # Inherited(g.files)
       /\ \A d \in Doc \ t.docs : K[d] # None => t.todo = {} /\ Reaches(t.g, d, K[d])

OnDisk(D)  == {p \in Path : D[p] # None}
Live(t, k) == t.steady \/ k >= 1

(* The disk is still what was discovered. *)
Following(t, k, D) ==
  /\ t.pc = "files" /\ Live(t, k) => t.disc = OnDisk(D)
  /\ t.pc = "commit" => t.todo = {} /\ t.docs = {}
  /\ t.pc = "commit" /\ Live(t, k) => Present(t.g.files, D)

Progress(g, k, D, K) ==
  k >= 1 => /\ Present(g.files, D)
            /\ \/ Settled(g, k, D, K)
               \/ Cardinality(Inherited(g.files)) + k < Cardinality(Path)

(* A path that was read and has no node lost it to another that took back    *)
(* its own id.                                                               *)
Others(t, D) ==
  t.steady => \A p \in Wanted(D) \ t.todo :
                Has(t.g.files, p) \/ \E q \in Path \ {p} : q \notin Inherited(t.g.files)

SettlingInv ==
  /\ txn.pc = "files" => Traced(txn, graph.files)
  /\ Following(txn, quiet, disk)
  /\ txn.pc # "idle" /\ quiet >= 1 => Calm(txn, graph, disk, doc)
  /\ txn.pc # "idle" /\ OnDisk(disk) = Path => Others(txn, disk)
  /\ Progress(graph, quiet, disk, doc)

(* Of two sets of paths, one within the other. *)
LEMMA FewerPaths ==
  ASSUME NEW A, NEW B, A \subseteq B, B \subseteq Path
  PROVE  /\ Cardinality(A) \in Nat /\ Cardinality(B) \in Nat /\ Cardinality(Path) \in Nat
         /\ Cardinality(A) <= Cardinality(B)
         /\ A # B => Cardinality(A) + 1 <= Cardinality(B)
<1>1. IsFiniteSet(B)
  BY SettlingAssumption, FS_Subset
<1>2. IsFiniteSet(A) /\ Cardinality(A) <= Cardinality(B) /\ (Cardinality(A) = Cardinality(B) => A = B)
  BY <1>1, FS_Subset
<1>3. Cardinality(A) \in Nat /\ Cardinality(B) \in Nat /\ Cardinality(Path) \in Nat
  BY <1>1, <1>2, SettlingAssumption, FS_CardinalityType
<1> QED
  BY <1>2, <1>3

(* Nothing vanishes from a graph whose files are all on the disk. *)
LEMMA NothingVanishes ==
  ASSUME Inv, Present(graph.files, disk), txn.disc = OnDisk(disk)
  PROVE  /\ \A c : VanishedWith(c) = {}
         /\ \A g : Disappeared(g) = {}
<1>1. \A n \in graph.files : n.path \in txn.disc
  BY FilesTyped DEF Inv, Good, Present, OnDisk
<1>2. ASSUME NEW c PROVE VanishedWith(c) = {}
  BY <1>1 DEF VanishedWith
<1>3. ASSUME NEW g, NEW n \in Disappeared(g) PROVE FALSE
  <2>1. PICK m \in graph.files : m.id = n.id
    BY DEF Disappeared, Ids
  <2>2. StartOf(n) \in graph.files
    BY <2>1 DEF StartOf
  <2> QED
    BY <1>1, <2>2 DEF Disappeared
<1> QED
  BY <1>2, <1>3

-----------------------------------------------------------------------------
(* A file that is read. *)

(* The file map and the discovered paths go on accounting for every node. *)
LEMMA RenewTraced ==
  ASSUME FactsInv, Traced(txn, graph.files), NEW p \in Path, p \in txn.disc, NEW c \in Content,
         NEW t, t.disc = txn.disc, t.g = Renew(txn.g, p, c),
         t.map = {m \in txn.map : m[1] # p} \cup {<<p, IdFor(p, c)>>},
         t.matched = IF At(txn.g, p) # {} THEN txn.matched
                     ELSE txn.matched \cup {n.path : n \in VanishedWith(c)}
  PROVE  Traced(t, graph.files)
<1> DEFINE id == IdFor(p, c)
           n == [id |-> id, path |-> p, hash |-> c]
<1>1. t.g.files = {m \in txn.g.files : m.id # id} \cup {n}
  BY RenewShape DEF FactsInv
<1>2. OwnPaths(graph) /\ OwnPaths(txn.g) /\ graph.files \subseteq FileNode
  BY DEF FactsInv, Inv, Good, Graph
<1>3. \A m \in At(txn.g, p) : m.id = id
  BY IdForFile DEF FactsInv
<1>4. ASSUME At(txn.g, p) = {}, NEW v \in VanishedWith(c) PROVE v.id = id
  <2>1. IdFor(p, c) = (CHOOSE m \in VanishedWith(c) : TRUE).id
    BY <1>4 DEF IdFor
  <2>2. PICK u \in VanishedWith(c) : u = (CHOOSE m \in VanishedWith(c) : TRUE)
    OBVIOUS
  <2>3. /\ u \in graph.files /\ v \in graph.files /\ u.path \in Nat /\ v.path \in Nat
        /\ u.path <= v.path /\ v.path <= u.path
    BY <1>2, PathAssumption DEF VanishedWith, FileNode
  <2>4. u = v
    BY <1>2, <2>3 DEF OwnPaths
  <2> QED
    BY <2>1, <2>2, <2>4
<1> HIDE DEF id
<1>5. n.path = p /\ n.id = id
  OBVIOUS
<1>6. ASSUME NEW m \in t.g.files, m.path \notin t.disc PROVE m \in graph.files /\ m.path \notin t.matched
  <2>1. m \in txn.g.files /\ m.id # id
    BY <1>1, <1>5, <1>6
  <2>2. m \in graph.files /\ m.path \notin txn.matched
    BY <1>6, <2>1 DEF Traced
  <2>3. ASSUME At(txn.g, p) = {}, NEW v \in VanishedWith(c), v.path = m.path PROVE FALSE
    <3>1. v = m
      BY <1>2, <2>2, <2>3 DEF VanishedWith, OwnPaths
    <3> QED
      BY <1>4, <2>1, <2>3, <3>1
  <2> QED
    BY <2>2, <2>3
<1>7. ASSUME NEW m \in t.g.files PROVE <<m.path, m.id>> \in t.map
  <2>1. CASE m = n
    BY <1>5, <2>1 DEF id
  <2>2. CASE m # n
    <3>1. m \in txn.g.files /\ m.id # id
      BY <1>1, <2>2
    <3>2. m.path # p
      BY <1>3, <3>1 DEF At
    <3>3. <<m.path, m.id>> \in txn.map /\ <<m.path, m.id>>[1] # p
      BY <3>1, <3>2 DEF Traced
    <3> QED
      BY <3>3
  <2> QED
    BY <2>1, <2>2
<1> QED
  BY <1>6, <1>7 DEF Traced

(* It keeps its place or takes its own id, and a node it takes the id from   *)
(* had an inherited one.                                                     *)
LEMMA RenewPlaces ==
  ASSUME FactsInv, Present(graph.files, disk), txn.disc = OnDisk(disk),
         NEW p \in Path, NEW c \in Content,
         NEW id, id = IdFor(p, c), NEW n, n = [id |-> id, path |-> p, hash |-> c],
         NEW F, F = txn.g.files, NEW h, h = Renew(txn.g, p, c), NEW H, H = h.files
  PROVE  /\ H = {m \in F : m.id # id} \cup {n}
         /\ \A e \in txn.g.edges : e[1] = "governs" => e \in h.edges
         /\ \A m \in F : m.path = p => m.id = id
         /\ ~Has(F, p) => id = <<p, c>>
         /\ n.id = id /\ n.path = p /\ n.hash = c /\ n \in H
         /\ \A m, k \in F : m.id = k.id => m = k
         /\ Inherited(H) \subseteq Inherited(F)
         /\ \A q \in Path : Has(F, q) /\ ~Has(H, q) =>
              q # p /\ Inherited(H) # Inherited(F) /\ p \notin Inherited(H)
<1>1. /\ H = {m \in F : m.id # id} \cup {n}
      /\ \A e \in txn.g.edges : e[1] = "governs" => e \in h.edges
  BY RenewShape DEF FactsInv, Owned
<1>2. /\ \A m \in F : m.path = p => m.id = id
      /\ ~Has(F, p) => id = <<p, c>>
  <2>1. Inv /\ VanishedWith(c) = {}
    BY NothingVanishes DEF FactsInv
  <2>2. \A m \in At(txn.g, p) : m.id = id
    BY <2>1, IdForFile
  <2>3. At(txn.g, p) = {} => id = <<p, c>>
    BY <2>1 DEF IdFor
  <2> QED
    BY <2>2, <2>3 DEF At, Has
<1>3. n.id = id /\ n.path = p /\ n.hash = c /\ n \in H /\ <<p, c>>[1] = p
  BY <1>1
<1>4. \A m, k \in F : m.id = k.id => m = k
  BY DEF FactsInv, Facts, OwnIds
<1>5. Inherited(H) \subseteq Inherited(F)
  <2> SUFFICES ASSUME NEW q \in Path, NEW m \in H, m.path = q, m.id[1] # q
               PROVE  \E k \in F : k.path = q /\ k.id[1] # q
    BY DEF Inherited
  <2>1. CASE m = n
    BY <1>2, <1>3, <2>1 DEF Has
  <2>2. CASE m # n
    BY <1>1, <2>2
  <2> QED
    BY <2>1, <2>2
<1>6. ASSUME NEW q \in Path, Has(F, q), ~Has(H, q)
      PROVE  q # p /\ Inherited(H) # Inherited(F) /\ p \notin Inherited(H)
  <2>1. PICK m \in F : m.path = q
    BY <1>6 DEF Has
  <2>2. m.id = id /\ q # p
    BY <1>1, <1>3, <1>6, <2>1 DEF Has
  <2>3. ~Has(F, p)
    BY <1>2, <1>4, <2>1, <2>2 DEF Has
  <2>4. m.id[1] # q
    BY <1>2, <1>3, <2>2, <2>3
  <2>5. q \in Inherited(F) /\ q \notin Inherited(H)
    BY <1>6, <2>1, <2>4 DEF Inherited, Has
  <2>6. \A k \in H : k.path = p => k.id[1] = p
    BY <1>1, <1>2, <1>3, <2>3 DEF Has
  <2> QED
    BY <2>2, <2>5, <2>6 DEF Inherited
<1> QED
  BY <1>1, <1>2, <1>3, <1>4, <1>5, <1>6

LEMMA RenewOthers ==
  ASSUME FactsInv, Present(graph.files, disk), txn.disc = OnDisk(disk), Others(txn, disk),
         NEW p \in Path, NEW c \in Content,
         NEW t, t.g = Renew(txn.g, p, c), t.todo = txn.todo \ {p}, t.steady = txn.steady
  PROVE  Others(t, disk)
<1> SUFFICES ASSUME t.steady, NEW q \in Wanted(disk) \ t.todo, ~Has(t.g.files, q)
             PROVE  \E r \in Path \ {q} : r \notin Inherited(t.g.files)
  BY DEF Others
<1>1. /\ Has(t.g.files, p)
      /\ Inherited(t.g.files) \subseteq Inherited(txn.g.files)
      /\ q \in Path /\ Has(txn.g.files, q) => q # p /\ p \notin Inherited(t.g.files)
  <2> DEFINE n == [id |-> IdFor(p, c), path |-> p, hash |-> c]
  <2>1. /\ n.path = p /\ n \in t.g.files
        /\ Inherited(t.g.files) \subseteq Inherited(txn.g.files)
        /\ \A r \in Path : Has(txn.g.files, r) /\ ~Has(t.g.files, r) =>
             r # p /\ p \notin Inherited(t.g.files)
    BY RenewPlaces
  <2> QED
    BY <2>1 DEF Has
<1>2. q \in Path /\ q # p
  BY <1>1 DEF Wanted
<1>3. CASE Has(txn.g.files, q)
  BY <1>1, <1>2, <1>3
<1>4. CASE ~Has(txn.g.files, q)
  BY <1>1, <1>2, <1>4 DEF Others
<1> QED
  BY <1>3, <1>4

LEMMA RenewCalm ==
  ASSUME FactsInv, Present(graph.files, disk), txn.disc = OnDisk(disk), Calm(txn, graph, disk, doc),
         NEW p \in txn.todo, p \in Wanted(disk), NEW c \in Content, c = disk[p],
         NEW t, t.g = Renew(txn.g, p, c), t.todo = txn.todo \ {p}, t.docs = txn.docs,
         t.steady = txn.steady
  PROVE  Calm(t, graph, disk, doc)
<1> DEFINE id == IdFor(p, c)
           n == [id |-> id, path |-> p, hash |-> c]
           F == txn.g.files
           H == t.g.files
           G == graph.files
<1>0. p \in Path
  BY DEF Wanted
<1>1. /\ H = {m \in F : m.id # id} \cup {n}
      /\ \A e \in txn.g.edges : e[1] = "governs" => e \in t.g.edges
      /\ \A m \in F : m.path = p => m.id = id
      /\ ~Has(F, p) => id = <<p, c>>
      /\ n.id = id /\ n.path = p /\ n.hash = c /\ n \in H
      /\ \A m, k \in F : m.id = k.id => m = k
      /\ Inherited(H) \subseteq Inherited(F)
      /\ \A q \in Path : Has(F, q) /\ ~Has(H, q) => Inherited(H) # Inherited(F)
  BY <1>0, RenewPlaces
<1> HIDE DEF id, n
<1>2. /\ \A m \in F : m.path = p => m.id = id
      /\ ~Has(F, p) => id = <<p, c>>
  BY <1>1
<1>3. n.id = id /\ n.path = p /\ n.hash = c /\ n \in H /\ p \in Path /\ <<p, c>>[1] = p
  BY <1>0, <1>1
<1>4. \A m, k \in F : m.id = k.id => m = k
  BY <1>1
<1>5. Inherited(H) \subseteq Inherited(F)
  BY <1>1
<1>6. ASSUME NEW q \in Path, Has(F, q), ~Has(H, q) PROVE Inherited(H) # Inherited(F)
  BY <1>1, <1>6
<1>7. ASSUME Complete(G, disk) PROVE SamePlaces(H, F) /\ SamePlaces(H, G)
  <2>1. SamePlaces(F, G)
    BY <1>7 DEF Calm
  <2>2. PICK k \in F : k.path = p
    BY <1>7, <2>1 DEF Complete, Has, SamePlaces
  <2>3. k.id = id
    BY <1>2, <2>2
  <2>4. SamePlaces(H, F)
    <3>1. ASSUME NEW m \in H PROVE \E l \in F : m.path = l.path /\ m.id = l.id
      BY <1>1, <1>3, <2>2, <2>3
    <3>2. ASSUME NEW l \in F PROVE \E m \in H : m.path = l.path /\ m.id = l.id
      <4>1. CASE l.id = id
        BY <1>3, <1>4, <2>2, <2>3, <4>1
      <4>2. CASE l.id # id
        BY <1>1, <4>2
      <4> QED
        BY <4>1, <4>2
    <3> QED
      BY <3>1, <3>2 DEF SamePlaces
  <2> QED
    BY <2>1, <2>4 DEF SamePlaces
<1>8. Inherited(H) \subseteq Inherited(G)
  BY <1>5 DEF Calm
<1>9. ASSUME Fresh(G, disk) PROVE Fresh(H, disk)
  BY <1>1, <1>3, <1>9 DEF Calm, Fresh
<1>10. ASSUME Complete(G, disk), Governs(graph, doc) PROVE Governs(t.g, doc)
  <2> SUFFICES ASSUME NEW d \in Doc, doc[d] # None, NEW m \in H, m.path \in doc[d]
               PROVE  <<"governs", <<d>>, m.id>> \in t.g.edges
    BY DEF Governs, Reaches
  <2>1. PICK l \in F : l.path = m.path /\ l.id = m.id
    BY <1>7, <1>10 DEF SamePlaces
  <2>2. Governs(txn.g, doc)
    BY <1>10 DEF Calm
  <2>3. <<"governs", <<d>>, l.id>> \in txn.g.edges
    BY <2>1, <2>2 DEF Governs, Reaches
  <2> QED
    BY <1>1, <2>1, <2>3
<1>11. ASSUME t.steady
       PROVE  /\ \A m \in H : m.path \in Code \ t.todo => m.hash = disk[m.path]
              /\ \A q \in Wanted(disk) \ t.todo : Has(H, q) \/ Inherited(H) # Inherited(G)
              /\ \A d \in Doc \ t.docs : doc[d] # None => t.todo = {} /\ Reaches(t.g, d, doc[d])
  <2>1. txn.steady
    BY <1>11
  <2>2. ASSUME NEW m \in H, m.path \in Code \ t.todo PROVE m.hash = disk[m.path]
    <3>1. CASE m = n
      BY <1>3, <3>1
    <3>2. CASE m # n
      <4>1. m \in F /\ m.id # id
        BY <1>1, <3>2
      <4>2. m.path \in Code \ txn.todo
        BY <1>2, <2>2, <4>1
      <4> QED
        BY <2>1, <4>1, <4>2 DEF Calm
    <3> QED
      BY <3>1, <3>2
  <2>3. ASSUME NEW q \in Wanted(disk) \ t.todo, ~Has(H, q) PROVE Inherited(H) # Inherited(G)
    <3>1. q # p /\ q \in Wanted(disk) \ txn.todo /\ q \in Path
      BY <1>3, <2>3 DEF Has, Wanted
    <3>2. CASE Has(F, q)
      BY <1>5, <1>6, <2>3, <3>1, <3>2 DEF Calm
    <3>3. CASE ~Has(F, q)
      <4>1. Inherited(F) # Inherited(G) /\ Inherited(F) \subseteq Inherited(G)
        BY <2>1, <3>1, <3>3 DEF Calm
      <4> QED
        BY <1>5, <4>1
    <3> QED
      BY <3>2, <3>3
  <2>4. \A d \in Doc \ txn.docs : doc[d] = None
    BY <2>1 DEF Calm
  <2> QED
    BY <2>2, <2>3, <2>4
<1> QED
  BY <1>7, <1>8, <1>9, <1>10, <1>11 DEF Calm

(* A file that is known, or has nothing to tell, is left alone. *)
LEMMA KnownCalm ==
  ASSUME FactsInv, Calm(txn, graph, disk, doc), NEW p \in txn.todo, p \in Path,
         IsKnown(p, disk[p]) \/ (p \notin Wanted(disk) /\ p \notin Code),
         NEW t, t.g = txn.g, t.todo = txn.todo \ {p}, t.docs = txn.docs, t.steady = txn.steady
  PROVE  Calm(t, graph, disk, doc)
<1>1. ASSUME NEW n \in txn.g.files, n.path = p, n.path \in Code PROVE n.hash = disk[p]
  <2>1. PICK m \in At(txn.g, p) : m.hash = disk[p]
    BY <1>1 DEF IsKnown
  <2>2. m = n
    BY <1>1, <2>1 DEF At, FactsInv, Inv, Good, OwnPaths
  <2> QED
    BY <2>1, <2>2
<1>2. p \in Wanted(disk) => Has(txn.g.files, p)
  BY DEF IsKnown, At, Has, Wanted
<1> QED
  BY <1>1, <1>2 DEF Calm

-----------------------------------------------------------------------------
(* Stages 6 and 4. *)

(* A node is where it was and does not move, or where a move ends. *)
LEMMA PersistMovesPlaces ==
  ASSUME NEW g, g \in Graph, NEW moves, moves \subseteq Moves(g),
         NEW n \in PersistMoves(g, moves).files
  PROVE  \/ n \in g.files /\ \A a \in moves : n.id # a[1].id
         \/ \E a \in moves : n.path = a[2]
<1> DEFINE Moved(a) == [a[1] EXCEPT !.path = a[2]]
           last == {a \in moves : \A b \in moves : b[2] = a[2] => b = a \/ Precedes(b, a)}
           lost == {a[1].id : a \in moves \ last}
           dups == {k.id : k \in {k \in g.files : \E a \in last : k.path = a[2]}}
                     \ {a[1].id : a \in last}
           F    == lost \cup dups
           g1   == DeleteFiles(g, F)
           here == {Moved(a) : a \in last}
           rest == {k \in g1.files : \A a \in last : k.id # a[1].id}
           h    == [g1 EXCEPT !.files = rest \cup here]
<1>1. PersistMoves(g, moves) = h
  BY DEF PersistMoves
<1>2. \A a \in moves : a[1] \in FileNode
  BY DEF Moves
<1>3. last \subseteq moves
  OBVIOUS
<1>4. \A a \in moves \ last : a[1].id \in F
  OBVIOUS
<1> HIDE DEF last, F
<1>5. h.files = rest \cup here /\ g1.files = {k \in g.files : k.id \notin F}
  <2>1. g1 = [g1 EXCEPT !.files = {k \in g.files : k.id \notin F}] /\ g1 \in Graph
    BY DEF DeleteFiles, Graph
  <2> QED
    BY <2>1 DEF Graph
<1> HIDE DEF g1, h
<1>6. \A a \in last : Moved(a).path = a[2]
  BY <1>2, <1>3 DEF FileNode
<1> HIDE DEF Moved
<1>7. CASE n \in rest
  BY <1>4, <1>5, <1>7
<1>8. CASE n \in here
  BY <1>3, <1>6, <1>8
<1> QED
  BY <1>1, <1>5, <1>7, <1>8

(* A graph where nothing moves or goes stays as it is. *)
LEMMA NoDeletes ==
  ASSUME NEW g, g \in Graph, NEW F, F = {}
  PROVE  DeleteFiles(g, F).files = g.files /\ DeleteFiles(g, F).edges = g.edges
<1> DEFINE gone == F \cup {s \in g.syms : FileOf(s) \in F}
                     \cup {s \in {d[1] : d \in g.deadSyms} : FileOf(s) \in F}
<1>1. \A x : x \notin gone
  OBVIOUS
<1>2. /\ DeleteFiles(g, F).files = {n \in g.files : n.id \notin F}
      /\ DeleteFiles(g, F).edges = {e \in g.edges : ~Touches(e, gone)}
  BY DEF DeleteFiles, Graph
<1> HIDE DEF gone
<1> QED
  BY <1>1, <1>2 DEF Touches

LEMMA NoMoves ==
  ASSUME NEW g, g \in Graph, NEW moves, moves = {}
  PROVE  PersistMoves(g, moves).files = g.files /\ PersistMoves(g, moves).edges = g.edges
<1> DEFINE last == {a \in moves : \A b \in moves : b[2] = a[2] => b = a \/ Precedes(b, a)}
           lost == {a[1].id : a \in moves \ last}
           dups == {n.id : n \in {k \in g.files : \E a \in last : k.path = a[2]}}
                     \ {a[1].id : a \in last}
           F    == lost \cup dups
           g1   == DeleteFiles(g, F)
           here == {[a[1] EXCEPT !.path = a[2]] : a \in last}
           rest == {n \in g1.files : \A a \in last : n.id # a[1].id}
<1>1. PersistMoves(g, moves) = [g1 EXCEPT !.files = rest \cup here]
  BY DEF PersistMoves
<1>2. last = {} /\ F = {}
  OBVIOUS
<1>3. rest = g1.files /\ here = {}
  OBVIOUS
<1> HIDE DEF last, F, here, rest
<1>4. g1.files = g.files /\ g1.edges = g.edges /\ g1 = [g1 EXCEPT !.files = g1.files]
  <2>1. g1 \in Graph
    BY DEF DeleteFiles, Graph
  <2>2. g1.files = g.files /\ g1.edges = g.edges
    BY <1>2, NoDeletes
  <2> QED
    BY <2>1, <2>2 DEF Graph
<1>5. rest \cup here = g1.files
  BY <1>3
<1> HIDE DEF g1
<1> QED
  BY <1>1, <1>4, <1>5

(* What was not found again moves to a discovered path or goes; where nothing *)
(* disappeared, nothing does.                                                 *)
LEMMA SettlePlaces ==
  ASSUME FactsInv, Traced(txn, graph.files),
         NEW git \in [{n.id : n \in Unresolved(txn.g)} -> {n.path : n \in NewFiles(txn.g)} \cup {None}]
  PROVE  LET moves == MovesOf(txn.g, git)
             g1 == DeleteMissing(PersistMoves(txn.g, moves),
                                 txn.matched \cup {a[1].path : a \in moves})
             new == UNION {ResolvedEdges(g1, q[1], q[2]) : q \in txn.pending}
             h == InsertEdges(g1, new)
         IN  /\ \A n \in h.files : n.path \in txn.disc
             /\ Present(graph.files, disk) /\ txn.disc = OnDisk(disk) =>
                  h.files = txn.g.files /\ txn.g.edges \subseteq h.edges
<1> DEFINE moves == MovesOf(txn.g, git)
           g0  == PersistMoves(txn.g, moves)
           kept == txn.matched \cup {a[1].path : a \in moves}
           gone == {n.id : n \in {k \in graph.files : k.path \notin txn.disc /\ k.path \notin kept}}
           g1  == DeleteMissing(g0, kept)
           new == UNION {ResolvedEdges(g1, q[1], q[2]) : q \in txn.pending}
           h   == InsertEdges(g1, new)
<1>1. /\ Inv /\ txn.g \in Graph /\ graph \in Graph /\ rev \in Nat /\ Good(txn.g, rev)
      /\ OwnPaths(graph)
  BY BoundAssumption DEF FactsInv, Inv, Base, Good
<1>2. moves \subseteq Moves(txn.g)
  BY <1>1, MovesTyped
<1>3. \A a \in moves : a[2] \in txn.disc
  <2> SUFFICES ASSUME NEW a \in moves PROVE a[2] \in txn.disc
    OBVIOUS
  <2>1. PICK m \in NewFiles(txn.g) : a[2] = m.path
    BY MovesFrom
  <2> QED
    BY <2>1 DEF NewFiles
<1>5. Present(graph.files, disk) /\ txn.disc = OnDisk(disk) => moves = {}
  <2> SUFFICES ASSUME Present(graph.files, disk), txn.disc = OnDisk(disk), NEW a \in moves PROVE FALSE
    OBVIOUS
  <2>1. Disappeared(txn.g) = {}
    BY <1>1, NothingVanishes
  <2> QED
    BY <2>1, MovesFrom
<1> HIDE DEF moves
<1>6. /\ \A n \in g0.files : \/ n \in txn.g.files /\ \A a \in moves : n.id # a[1].id
                            \/ \E a \in moves : n.path = a[2]
      /\ moves = {} => g0.files = txn.g.files /\ g0.edges = txn.g.edges
      /\ g0 \in Graph
  BY <1>1, <1>2, PersistMovesPlaces, PersistMovesGood, NoMoves DEF Good
<1>7. Present(graph.files, disk) /\ txn.disc = OnDisk(disk) => gone = {}
  BY <1>1, FilesTyped DEF Present, OnDisk
<1>8. g1 = DeleteFiles(g0, gone)
  BY DEF DeleteMissing
<1> HIDE DEF g0
<1>9. ASSUME NEW n \in g0.files, n.id \notin gone PROVE n.path \in txn.disc
  <2> SUFFICES ASSUME n.path \notin txn.disc PROVE FALSE
    OBVIOUS
  <2>1. n \in txn.g.files /\ \A a \in moves : n.id # a[1].id
    BY <1>3, <1>6
  <2>2. n \in graph.files /\ n.path \notin txn.matched
    BY <2>1 DEF Traced
  <2>3. PICK a \in moves : n.path = a[1].path
    BY <1>9, <2>2
  <2>4. n = a[1]
    BY <1>1, <1>2, <2>1, <2>3 DEF Moves, Good, OwnPaths
  <2> QED
    BY <2>1, <2>4
<1> HIDE DEF gone, kept, g1
<1>10. /\ g1.files = {n \in g0.files : n.id \notin gone} /\ g1 \in Graph
       /\ gone = {} => g1.files = g0.files /\ g1.edges = g0.edges
  <2>1. DeleteFiles(g0, gone).files = {n \in g0.files : n.id \notin gone}
    BY <1>6 DEF DeleteFiles, Graph
  <2>2. DeleteFiles(g0, gone) \in Graph
    BY <1>6 DEF DeleteFiles, Graph
  <2> QED
    BY <1>6, <1>8, <2>1, <2>2, NoDeletes
<1> HIDE DEF new
<1>11. h.files = g1.files /\ h.edges = g1.edges \cup new
  BY <1>10 DEF InsertEdges, Graph
<1> HIDE DEF h
<1>12. \A n \in h.files : n.path \in txn.disc
  BY <1>9, <1>10, <1>11
<1>13. Present(graph.files, disk) /\ txn.disc = OnDisk(disk) =>
         h.files = txn.g.files /\ txn.g.edges \subseteq h.edges
  BY <1>5, <1>6, <1>7, <1>10, <1>11
<1> QED
  BY <1>12, <1>13 DEF h, new, g1, kept, g0, moves

-----------------------------------------------------------------------------
(* The whole, for settling. *)

(* What is the same about nodes is the same about everything but their edges. *)
LEMMA SameNodes ==
  ASSUME NEW t, NEW u, NEW g, NEW D, NEW K, Calm(t, g, D, K), u.g.files = t.g.files,
         \A d \in Doc : K[d] # None => (Reaches(t.g, d, K[d]) => Reaches(u.g, d, K[d])),
         u.steady => /\ t.steady /\ u.todo = t.todo
                     /\ \A d \in Doc \ u.docs : K[d] # None /\ d \in t.docs =>
                          u.todo = {} /\ Reaches(u.g, d, K[d])
  PROVE  Calm(u, g, D, K)
<1>1. Governs(t.g, K) => Governs(u.g, K)
  BY DEF Governs
<1> QED
  BY <1>1 DEF Calm

(* Of a graph, the edges of concepts that are still declared stay when other *)
(* concepts, or retired symbols, go.                                         *)
LEMMA ReachesKept ==
  ASSUME NEW g, g \in Graph, NEW h, h.files = g.files, NEW gone,
         {e \in g.edges : ~Touches(e, gone)} \subseteq h.edges,
         gone \cap FileId = {}, NEW d, <<d>> \notin gone, NEW paths, Reaches(g, d, paths)
  PROVE  Reaches(h, d, paths)
<1> SUFFICES ASSUME NEW n \in g.files, n.path \in paths
             PROVE  <<"governs", <<d>>, n.id>> \in h.edges
  BY DEF Reaches
<1> DEFINE e == <<"governs", <<d>>, n.id>>
<1>1. e \in g.edges /\ n.id \in FileId
  BY FilesTyped DEF Reaches
<1>2. e[2] = <<d>> /\ e[3] = n.id
  OBVIOUS
<1> HIDE DEF e
<1>3. ~Touches(e, gone)
  BY <1>1, <1>2 DEF Touches
<1> QED
  BY <1>1, <1>3 DEF e

(* A complete compile that leaves a path without a node has one inherited id *)
(* less; one that leaves none, or finds the graph settled, settles it.       *)
LEMMA CommitProgress ==
  ASSUME FactsInv, SettlingInv, txn.pc = "commit",
         NEW k, k = IF txn.steady /\ quiet < Settling THEN quiet + 1 ELSE quiet
  PROVE  Progress(txn.g, k, disk, doc)
<1> DEFINE F == txn.g.files
           G == graph.files
           A == Inherited(F)
           B == Inherited(G)
<1>1. quiet \in Nat /\ Settling \in Nat /\ F \subseteq FileNode /\ G \subseteq FileNode
  BY BoundAssumption DEF FactsInv, Inv, Base, Good, Graph
<1>2. quiet < Settling \/ quiet >= 1
  <2>1. Cardinality(Path) \in Nat
    BY SettlingAssumption, FS_CardinalityType
  <2> QED
    BY <1>1, <2>1, SettlingAssumption
<1> SUFFICES ASSUME k >= 1
             PROVE  /\ Present(F, disk)
                    /\ Settled(txn.g, k, disk, doc) \/ Cardinality(A) + k < Cardinality(Path)
  BY DEF Progress
<1>3. txn.todo = {} /\ txn.docs = {} /\ Live(txn, quiet) /\ Present(F, disk)
  <2>1. txn.steady \/ quiet >= 1
    BY <1>1
  <2> QED
    BY <2>1 DEF SettlingInv, Following, Live
<1>4. A \subseteq Path /\ B \subseteq Path
  BY DEF Inherited
<1>5. CASE quiet = 0
  <2>1. k = 1
    BY <1>1, <1>2, <1>5
  <2>2. CASE Complete(F, disk)
    BY <1>3, <2>1, <2>2 DEF Settled
  <2>3. CASE ~Complete(F, disk)
    <3>1. PICK p \in Wanted(disk) : ~Has(F, p)
      BY <2>3 DEF Complete
    <3>2. p \in OnDisk(disk) /\ p \notin A
      BY <3>1 DEF Wanted, OnDisk, Has, Inherited
    <3>3. PICK q \in Path \ {p} : q \notin A
      <4>1. CASE OnDisk(disk) = Path
        <5>1. txn.steady /\ Others(txn, disk)
          BY <1>5, <4>1 DEF SettlingInv
        <5> QED
          BY <1>3, <3>1, <5>1 DEF Others
      <4>2. CASE OnDisk(disk) # Path
        <5>1. PICK q \in Path : disk[q] = None
          BY <4>2 DEF OnDisk
        <5>2. q \notin A
          BY <1>3, <5>1 DEF Present, Inherited
        <5> QED
          BY <3>2, <5>1, <5>2 DEF OnDisk
      <4> QED
        BY <4>1, <4>2
    <3>4. p \in Path
      BY <3>2 DEF OnDisk
    <3> HIDE DEF A
    <3> DEFINE B1 == A \cup {q}
    <3>5. A \subseteq B1 /\ A # B1 /\ B1 \subseteq Path /\ B1 # Path
      BY <1>4, <3>2, <3>3, <3>4
    <3> HIDE DEF B1
    <3>6. /\ Cardinality(A) \in Nat /\ Cardinality(B1) \in Nat /\ Cardinality(Path) \in Nat
          /\ Cardinality(A) + 1 <= Cardinality(B1) /\ Cardinality(B1) + 1 <= Cardinality(Path)
      BY <3>5, FewerPaths
    <3> QED
      BY <1>3, <2>1, <3>6
  <2> QED
    BY <2>2, <2>3
<1>6. CASE quiet >= 1
  <2>1. Calm(txn, graph, disk, doc)
    BY <1>6 DEF SettlingInv
  <2>2. Settled(graph, quiet, disk, doc) \/ Cardinality(B) + quiet < Cardinality(Path)
    BY <1>6 DEF SettlingInv, Progress
  <2>3. A \subseteq B /\ (Complete(G, disk) => Complete(F, disk))
    BY <2>1 DEF Calm, Complete, SamePlaces, Has
  <2>4. /\ Cardinality(A) \in Nat /\ Cardinality(B) \in Nat /\ Cardinality(Path) \in Nat
        /\ Cardinality(A) <= Cardinality(B)
        /\ A # B => Cardinality(A) + 1 <= Cardinality(B)
    <3> HIDE DEF A, B
    <3> QED
      BY <1>4, <2>3, FewerPaths
  <2>5. CASE txn.steady
    <3>1. Fresh(F, disk) /\ Governs(txn.g, doc)
      BY <1>3, <2>1, <2>5 DEF Calm, Fresh, Governs
    <3>2. CASE Complete(F, disk)
      BY <1>3, <3>1, <3>2 DEF Settled
    <3>3. CASE ~Complete(F, disk)
      <4>1. A # B
        BY <1>3, <2>1, <2>5, <3>3 DEF Calm, Complete
      <4>2. ~Settled(graph, quiet, disk, doc)
        BY <2>3, <3>3 DEF Settled
      <4> HIDE DEF A, B
      <4>3. Cardinality(A) + k < Cardinality(Path)
        BY <1>1, <2>2, <2>4, <4>1, <4>2
      <4> QED
        BY <1>3, <4>3
    <3> QED
      BY <3>2, <3>3
  <2>6. CASE ~txn.steady
    <3>1. k = quiet
      BY <2>6
    <3>2. Settled(graph, quiet, disk, doc) => Settled(txn.g, k, disk, doc)
      BY <2>1, <2>3, <3>1 DEF Settled, Calm
    <3> HIDE DEF A, B
    <3>3. CASE ~Settled(graph, quiet, disk, doc)
      BY <1>1, <1>3, <2>2, <2>4, <3>1, <3>3
    <3> QED
      BY <1>3, <3>2, <3>3
  <2> QED
    BY <2>5, <2>6
<1> QED
  BY <1>1, <1>5, <1>6

LEMMA StepSettling == FactsInv /\ CallsInv /\ SettlingInv /\ [Next]_vars => SettlingInv'
<1> SUFFICES ASSUME FactsInv, CallsInv, SettlingInv, [Next]_vars PROVE SettlingInv'
  OBVIOUS
<1> DEFINE Goal == /\ txn'.pc = "files" => Traced(txn', graph'.files)
                   /\ Following(txn', quiet', disk')
                   /\ txn'.pc # "idle" /\ quiet' >= 1 => Calm(txn', graph', disk', doc')
                   /\ txn'.pc # "idle" /\ OnDisk(disk') = Path => Others(txn', disk')
                   /\ Progress(graph', quiet', disk', doc')
           Still == UNCHANGED <<graph, disk, doc, quiet>>
<1> SUFFICES Goal
  BY DEF SettlingInv
<1>1. /\ Inv /\ txn \in Txn /\ rev \in Nat /\ graph \in Graph /\ txn.g \in Graph
      /\ quiet \in Nat /\ Reading(txn, graph.files)
  BY BoundAssumption DEF FactsInv, CallsInv, Inv, Base, Good
<1>2. /\ txn.pc = "files" => Traced(txn, graph.files)
      /\ Following(txn, quiet, disk)
      /\ txn.pc # "idle" /\ quiet >= 1 => Calm(txn, graph, disk, doc)
      /\ txn.pc # "idle" /\ OnDisk(disk) = Path => Others(txn, disk)
      /\ Progress(graph, quiet, disk, doc)
  BY DEF SettlingInv
<1>3. ASSUME Still, txn'.pc = "files", Traced(txn', graph.files),
             txn'.disc = txn.disc, txn.pc = "files", txn'.steady => txn.steady,
             quiet >= 1 => Calm(txn', graph, disk, doc),
             OnDisk(disk) = Path => Others(txn', disk)
      PROVE  Goal
  BY <1>2, <1>3 DEF Following, Live
<1>4. ASSUME Still, txn'.pc = "idle" PROVE Goal
  BY <1>2, <1>4 DEF Following
<1>5. ASSUME Change PROVE Goal
  <2>1. txn' = [txn EXCEPT !.steady = FALSE] /\ graph' = graph /\ quiet' = 0
    BY <1>5 DEF Change
  <2>2. /\ txn'.pc = txn.pc /\ txn'.disc = txn.disc /\ txn'.todo = txn.todo /\ txn'.docs = txn.docs
        /\ txn'.matched = txn.matched /\ txn'.map = txn.map /\ txn'.g = txn.g /\ ~txn'.steady
    BY <1>1, <2>1 DEF Txn
  <2> QED
    BY <1>2, <2>1, <2>2 DEF Traced, Following, Live, Progress, Others
<1>6. ASSUME \/ \E p \in Path, c \in Content \cup {None} : Save(p, c)
             \/ \E p, q \in Path : Move(p, q)
             \/ \E d \in Doc, governed \in {None} \cup Governed : Declare(d, governed)
      PROVE  Goal
  BY <1>5, <1>6 DEF Save, Move, Declare
<1>7. CASE Discover
  <2> DEFINE K == {k \in graph.concepts : doc[k[1]] = None}
             g == DeleteConcepts(graph, K)
             concepts == {d \in Doc : doc[d] # None}
             map == {<<n.path, n.id>> : n \in graph.files}
  <2>1. PICK r \in {rev + 1, None} :
          txn' = [Idle EXCEPT !.pc = "files", !.rev = r, !.steady = TRUE, !.unkept = unkept,
                              !.disc = OnDisk(disk), !.todo = OnDisk(disk), !.docs = concepts,
                              !.map = map, !.g = g]
    BY <1>7 DEF Discover, OnDisk
  <2>2. g.files = graph.files /\ {e \in graph.edges : ~Touches(e, K)} \subseteq g.edges
    BY <1>1 DEF DeleteConcepts, Graph
  <2>3. K \cap FileId = {} /\ \A d \in Doc : doc[d] # None => <<d>> \notin K
    BY <1>1, IdsDiffer DEF Graph
  <2>4. \A n \in graph.files : <<n.path, n.id>> \in map
    OBVIOUS
  <2>5. Still
    BY <1>7 DEF Discover
  <2> HIDE DEF g, K, map
  <2>6. ASSUME NEW d \in Doc, doc[d] # None, Reaches(graph, d, doc[d]) PROVE Reaches(g, d, doc[d])
    BY <1>1, <2>2, <2>3, <2>6, ReachesKept
  <2> HIDE DEF concepts
  <2>7. /\ txn'.pc = "files" /\ txn'.disc = OnDisk(disk) /\ txn'.todo = OnDisk(disk)
        /\ txn'.docs = concepts /\ txn'.map = map /\ txn'.matched = {} /\ txn'.g = g
    BY <2>1 DEF Idle
  <2>8. Traced(txn', graph.files)
    BY <2>2, <2>4, <2>7 DEF Traced
  <2>9. ASSUME quiet >= 1 PROVE Calm(txn', graph, disk, doc)
    <3>1. \A n \in graph.files : n.path \in OnDisk(disk)
      BY <1>1, <1>2, <2>9, FilesTyped DEF Progress, Present, OnDisk
    <3>2. \A p \in Wanted(disk) : p \in OnDisk(disk)
      BY DEF Wanted, OnDisk
    <3>3. \A d \in Doc \ concepts : doc[d] = None
      BY DEF concepts
    <3>4. SamePlaces(graph.files, graph.files)
      BY DEF SamePlaces
    <3>5. Governs(graph, doc) => Governs(g, doc)
      BY <2>6 DEF Governs
    <3> QED
      BY <2>2, <2>7, <3>1, <3>2, <3>3, <3>4, <3>5 DEF Calm
  <2>10. Others(txn', disk)
    BY <2>7 DEF Others, Wanted, OnDisk
  <2> QED
    BY <1>2, <2>5, <2>7, <2>8, <2>9, <2>10 DEF Following
<1>8. CASE SkipFile \/ SkipDoc
  <2>1. /\ Still /\ txn.pc = "files"
        /\ \/ txn' = [txn EXCEPT !.todo = @ \ {NextFile}, !.steady = FALSE]
           \/ txn' = [txn EXCEPT !.docs = @ \ {MinOf(txn.docs)}, !.steady = FALSE]
    BY <1>8 DEF SkipFile, SkipDoc
  <2>2. /\ txn'.pc = txn.pc /\ txn'.disc = txn.disc /\ txn'.matched = txn.matched
        /\ txn'.map = txn.map /\ txn'.g = txn.g /\ ~txn'.steady
    <3>1. CASE txn' = [txn EXCEPT !.todo = @ \ {NextFile}, !.steady = FALSE]
      BY <1>1, <3>1 DEF Txn
    <3>2. CASE txn' = [txn EXCEPT !.docs = @ \ {MinOf(txn.docs)}, !.steady = FALSE]
      BY <1>1, <3>2 DEF Txn
    <3> QED
      BY <2>1, <3>1, <3>2
  <2>3. Traced(txn', graph.files)
    BY <1>2, <2>1, <2>2 DEF Traced
  <2>4. quiet >= 1 => Calm(txn', graph, disk, doc)
    BY <1>2, <2>1, <2>2, SameNodes
  <2>5. Others(txn', disk)
    BY <2>2 DEF Others
  <2> HIDE DEF Goal
  <2> QED
    BY <1>3, <2>1, <2>2, <2>3, <2>4, <2>5
<1>9. CASE ReadFile
  <2> DEFINE p == NextFile
             c == disk[p]
             id == IdFor(p, c)
             g == Renew(txn.g, p, c)
             map == {m \in txn.map : m[1] # p} \cup {<<p, id>>}
             matched == IF At(txn.g, p) # {} THEN txn.matched
                        ELSE txn.matched \cup {n.path : n \in VanishedWith(c)}
             pending == IF p \in Code /\ (Calls[c] # {} \/ Imports[c] # {})
                        THEN txn.pending \cup {<<id, c>>} ELSE txn.pending
             unk == UnkeptAfter(p, c)
             todo == txn.todo \ {p}
             known == IsKnown(p, c) \/ (p \notin Code /\ Decls[c] = {})
  <2>1. p \in txn.todo /\ p \in Path /\ c \in Content
    <3>1. txn.todo # {} /\ txn.todo \subseteq Path /\ c # None
      BY <1>1, <1>9 DEF ReadFile, Txn
    <3>2. p \in txn.todo
      <4>1. CASE txn.todo \cap Code # {}
        BY <3>1, <4>1, LeastOf, PathAssumption DEF NextFile
      <4>2. CASE txn.todo \cap Code = {}
        BY <3>1, <4>2, LeastOf, PathAssumption DEF NextFile
      <4> QED
        BY <4>1, <4>2
    <3> HIDE DEF p
    <3> QED
      BY <1>1, <3>1, <3>2 DEF Inv, Base
  <2>2. Still /\ txn.pc = "files" /\ Traced(txn, graph.files)
    BY <1>2, <1>9 DEF ReadFile
  <2>3. \/ known /\ txn' = [txn EXCEPT !.todo = todo]
        \/ ~known /\ txn' = [txn EXCEPT !.todo = todo, !.g = g, !.map = map, !.matched = matched,
                                        !.pending = pending, !.unkept = unk]
    BY <1>9 DEF ReadFile
  <2>4. ~known => p \in Wanted(disk)
    BY <2>1, NoneAssumption DEF Wanted
  <2>5. known => IsKnown(p, disk[p]) \/ (p \notin Wanted(disk) /\ p \notin Code)
    BY DEF Wanted
  <2>6. quiet >= 1 => /\ Calm(txn, graph, disk, doc) /\ Present(graph.files, disk)
                      /\ txn.disc = OnDisk(disk)
    BY <1>2, <2>2 DEF Following, Live, Progress
  <2>7. p \in txn.disc
    BY <1>1, <2>1, <2>2 DEF Reading
  <2>8. c = disk[p] /\ todo = txn.todo \ {p}
    OBVIOUS
  <2>9. CASE known /\ txn' = [txn EXCEPT !.todo = todo]
    <3> HIDE DEF p, c, todo, known
    <3>1. /\ txn'.pc = txn.pc /\ txn'.disc = txn.disc /\ txn'.todo = todo /\ txn'.docs = txn.docs
          /\ txn'.matched = txn.matched /\ txn'.map = txn.map /\ txn'.g = txn.g
          /\ txn'.steady = txn.steady
      BY <1>1, <2>9 DEF Txn
    <3>2. Traced(txn', graph.files)
      BY <2>2, <3>1 DEF Traced
    <3>3. quiet >= 1 => Calm(txn', graph, disk, doc)
      BY <2>1, <2>5, <2>6, <2>8, <2>9, <3>1, KnownCalm
    <3>4. OnDisk(disk) = Path => Others(txn', disk)
      <4>1. p \in Wanted(disk) => Has(txn.g.files, p)
        BY <2>5, <2>9 DEF IsKnown, At, Has
      <4> QED
        BY <1>2, <2>2, <2>8, <3>1, <4>1 DEF Others
    <3> HIDE DEF Goal
    <3> QED
      BY <1>3, <2>2, <3>1, <3>2, <3>3, <3>4
  <2>10. CASE ~known /\ txn' = [txn EXCEPT !.todo = todo, !.g = g, !.map = map, !.matched = matched,
                                           !.pending = pending, !.unkept = unk]
    <3>1. /\ txn'.pc = "files" /\ txn'.disc = txn.disc /\ txn'.todo = todo /\ txn'.docs = txn.docs
          /\ txn'.matched = matched /\ txn'.map = map /\ txn'.g = g /\ txn'.steady = txn.steady
      <4> HIDE DEF p, c, id, g, map, matched, pending, unk, todo, known
      <4> QED
        BY <1>1, <2>2, <2>10 DEF Txn
    <3>2. Traced(txn', graph.files)
      <4> HIDE DEF p, c, known, Goal
      <4> QED
        BY <2>1, <2>2, <2>7, <3>1, RenewTraced
    <3>3. quiet >= 1 => Calm(txn', graph, disk, doc)
      <4> HIDE DEF p, c, known, Goal
      <4> QED
        BY <2>1, <2>4, <2>6, <2>8, <2>10, <3>1, RenewCalm
    <3>4. OnDisk(disk) = Path => Others(txn', disk)
      <4>1. CASE ~txn.steady
        <5> HIDE DEF p, c, id, g, map, matched, pending, unk, todo, known, Goal
        <5> QED
          BY <3>1, <4>1 DEF Others
      <4>2. CASE txn.steady /\ OnDisk(disk) = Path
        <5>1. txn.disc = OnDisk(disk) /\ Present(graph.files, disk)
          BY <1>1, <1>2, <2>2, <4>2, FilesTyped DEF Following, Live, Present, OnDisk
        <5> HIDE DEF p, c, known, Goal
        <5> QED
          BY <1>2, <2>1, <2>2, <3>1, <4>2, <5>1, RenewOthers
      <4> QED
        BY <4>1, <4>2
    <3> HIDE DEF Goal, p, c, id, g, map, matched, pending, unk, todo, known
    <3> QED
      BY <1>3, <2>2, <3>1, <3>2, <3>3, <3>4
  <2> QED
    BY <2>3, <2>9, <2>10
<1>10. CASE ReadDoc
  <2> DEFINE d == MinOf(txn.docs)
             E == {<<"governs", <<d>>, m[2]>> : m \in {m \in txn.map : m[1] \in doc[d]}}
             g == InsertEdges(UpsertConcept(txn.g, d), E)
  <2>1. /\ txn' = [txn EXCEPT !.docs = @ \ {d}, !.g = g] /\ Still /\ txn.todo = {}
        /\ txn.pc = "files"
    BY <1>10 DEF ReadDoc
  <2>2. \A m \in txn.map : m[1] \in doc[d] => <<"governs", <<d>>, m[2]>> \in E
    OBVIOUS
  <2> HIDE DEF d, E
  <2>3. g.files = txn.g.files /\ g.edges = txn.g.edges \cup E
    BY <1>1 DEF UpsertConcept, InsertEdges, Graph
  <2> HIDE DEF g
  <2>4. /\ txn'.pc = txn.pc /\ txn'.disc = txn.disc /\ txn'.todo = txn.todo
        /\ txn'.docs = txn.docs \ {d} /\ txn'.matched = txn.matched /\ txn'.map = txn.map
        /\ txn'.g = g /\ txn'.steady = txn.steady
    BY <1>1, <2>1 DEF Txn
  <2>5. Traced(txn', graph.files)
    BY <1>2, <2>1, <2>3, <2>4 DEF Traced
  <2>6. Reaches(g, d, doc[d])
    <3> SUFFICES ASSUME NEW n \in txn.g.files, n.path \in doc[d]
                 PROVE  <<"governs", <<d>>, n.id>> \in g.edges
      BY <2>3 DEF Reaches
    <3>1. <<n.path, n.id>> \in txn.map
      BY <1>2, <2>1 DEF Traced
    <3>2. <<n.path, n.id>>[1] = n.path /\ <<n.path, n.id>>[2] = n.id
      OBVIOUS
    <3>3. <<"governs", <<d>>, n.id>> \in E
      BY <2>2, <3>1, <3>2
    <3> QED
      BY <2>3, <3>3
  <2>7. \A b, paths : Reaches(txn.g, b, paths) => Reaches(g, b, paths)
    BY <2>3 DEF Reaches
  <2>8. ASSUME quiet >= 1 PROVE Calm(txn', graph, disk, doc)
    <3>1. Calm(txn, graph, disk, doc)
      BY <1>2, <2>1, <2>8
    <3>2. ASSUME NEW b \in Doc \ txn'.docs, doc[b] # None, b \in txn.docs
          PROVE  txn'.todo = {} /\ Reaches(g, b, doc[b])
      BY <2>1, <2>4, <2>6, <3>2
    <3> QED
      BY <2>3, <2>4, <2>7, <3>1, <3>2, SameNodes
  <2>9. OnDisk(disk) = Path => Others(txn', disk)
    BY <1>2, <2>1, <2>3, <2>4 DEF Others
  <2> HIDE DEF Goal
  <2> QED
    BY <1>3, <2>1, <2>4, <2>5, <2>8, <2>9
<1>11. CASE Settle
  <2>1. /\ Still /\ txn.pc = "files" /\ txn.todo = {} /\ txn.docs = {} /\ Traced(txn, graph.files)
    BY <1>2, <1>11 DEF Settle
  <2>2. PICK h : /\ \A n \in h.files : n.path \in txn.disc
                 /\ Present(graph.files, disk) /\ txn.disc = OnDisk(disk) =>
                      h.files = txn.g.files /\ txn.g.edges \subseteq h.edges
                 /\ txn' = [Idle EXCEPT !.pc = "commit", !.rev = txn.rev, !.steady = txn.steady,
                                        !.unkept = txn.unkept, !.g = h]
    BY <1>11, <2>1, SettlePlaces DEF Settle
  <2>3. /\ txn'.pc = "commit" /\ txn'.todo = {} /\ txn'.docs = {} /\ txn'.g = h
        /\ txn'.steady = txn.steady
    BY <2>2 DEF Idle
  <2>4. Live(txn, quiet) => txn.disc = OnDisk(disk)
    BY <1>2, <2>1 DEF Following
  <2>5. Live(txn', quiet) => Present(h.files, disk)
    BY <2>2, <2>3, <2>4 DEF Live, Present, OnDisk
  <2>6. ASSUME quiet >= 1 PROVE Calm(txn', graph, disk, doc)
    <3>1. Calm(txn, graph, disk, doc) /\ Present(graph.files, disk) /\ txn.disc = OnDisk(disk)
      BY <1>2, <2>1, <2>4, <2>6 DEF Live, Progress
    <3>2. h.files = txn.g.files /\ txn.g.edges \subseteq h.edges
      BY <2>2, <3>1
    <3>3. \A b, paths : Reaches(txn.g, b, paths) => Reaches(h, b, paths)
      BY <3>2 DEF Reaches
    <3> QED
      BY <2>1, <2>3, <3>1, <3>2, <3>3, SameNodes
  <2>7. ASSUME OnDisk(disk) = Path, txn.steady PROVE Others(txn', disk)
    <3>1. Present(graph.files, disk) /\ txn.disc = OnDisk(disk) /\ Others(txn, disk)
      BY <1>1, <1>2, <2>1, <2>4, <2>7, FilesTyped DEF Live, Present, OnDisk
    <3>2. h.files = txn.g.files
      BY <2>2, <3>1
    <3> QED
      BY <2>1, <2>3, <3>1, <3>2 DEF Others
  <2>8. OnDisk(disk) = Path => Others(txn', disk)
    BY <2>3, <2>7 DEF Others
  <2> QED
    BY <1>2, <2>1, <2>3, <2>5, <2>6, <2>8 DEF Following
<1>12. CASE Commit
  <2>1. /\ txn.pc = "commit" /\ graph' = txn.g /\ disk' = disk /\ doc' = doc /\ txn' = Idle
        /\ quiet' = IF txn.steady /\ quiet < Settling THEN quiet + 1 ELSE quiet
    BY <1>12 DEF Commit
  <2>2. Progress(txn.g, quiet', disk, doc)
    BY <2>1, CommitProgress
  <2>3. txn'.pc = "idle"
    BY <2>1 DEF Idle
  <2> QED
    BY <2>1, <2>2, <2>3 DEF Following
<1>13. CASE Fail \/ Crash
  <2>1. Still /\ txn' = Idle
    BY <1>13 DEF Fail, Crash
  <2>2. txn'.pc = "idle"
    BY <2>1 DEF Idle
  <2> HIDE DEF Goal
  <2> QED
    BY <1>4, <2>1, <2>2
<1>14. CASE Compact
  <2>1. txn.pc = "idle" /\ UNCHANGED <<txn, disk, doc, quiet>>
    BY <1>14 DEF Compact
  <2> DEFINE gone == OldSyms(graph, rev' - Retain)
  <2>2. /\ graph'.files = graph.files /\ gone \subseteq SymbolId
        /\ {e \in graph.edges : ~Touches(e, gone)} \subseteq graph'.edges
    <3>1. gone \subseteq SymbolId
      BY <1>1 DEF OldSyms, OlderThan, Graph
    <3>2. CASE graph' = graph
      BY <3>1, <3>2
    <3>3. ASSUME NEW done \in 0..3, graph' = Compacted(graph, rev' - Retain, done)
          PROVE  /\ graph'.files = graph.files
                 /\ {e \in graph.edges : ~Touches(e, gone)} \subseteq graph'.edges
      <4>1. Compaction(graph, graph', rev' - Retain)
        BY <1>1, <3>3, CompactedShape
      <4> QED
        BY <4>1 DEF Compaction
    <3> HIDE DEF gone
    <3> QED
      BY <1>14, <3>1, <3>2, <3>3 DEF Compact
  <2>3. graph'.files = graph.files
    BY <2>2
  <2> HIDE DEF gone
  <2>4. gone \cap FileId = {} /\ \A d \in Doc : <<d>> \notin gone
    BY <2>2, IdsDiffer DEF ConceptId
  <2>5. Governs(graph, doc) => Governs(graph', doc)
    BY <1>1, <2>2, <2>3, <2>4, ReachesKept DEF Governs
  <2>6. Progress(graph', quiet, disk, doc)
    BY <1>2, <2>3, <2>5 DEF Progress, Settled
  <2> QED
    BY <1>2, <2>1, <2>6
<1>15. CASE UNCHANGED vars
  BY <1>2, <1>15 DEF vars
<1> QED
  BY <1>6, <1>7, <1>8, <1>9, <1>10, <1>11, <1>12, <1>13, <1>14, <1>15 DEF Next

(* A disk that is left alone is taken over by as many complete compiles as   *)
(* there are paths (two for a single one), also where files that cannot be   *)
(* read, failures, crashes and compactions come between them: the code files *)
(* of the graph are those of the disk, with their content, and the concepts  *)
(* reach the files they govern (ReadFile, IdFor, Settle, Commit).            *)
THEOREM CompilesConverge == Spec => []Converges
<1>1. Init => CallsInv /\ SettlingInv
  <2> SUFFICES ASSUME Init PROVE CallsInv /\ SettlingInv
    OBVIOUS
  <2>1. CallsInv
    BY IdleCalls DEF Init, CallsInv
  <2>2. quiet = 0 /\ txn.pc = "idle"
    BY DEF Init, Idle
  <2> QED
    BY <2>1, <2>2 DEF SettlingInv, Following, Progress
<1>2. FactsInv /\ SettlingInv => Converges
  <2> SUFFICES ASSUME FactsInv, SettlingInv, quiet = Settling
               PROVE  /\ {<<n.path, n.hash>> : n \in {k \in graph.files : k.path \in Code}}
                           = {<<p, disk[p]>> : p \in {q \in Code : disk[q] # None}}
                      /\ \A d \in Doc : doc[d] # None =>
                           \A n \in graph.files : n.path \in doc[d] =>
                             <<"governs", <<d>>, n.id>> \in graph.edges
    BY DEF Converges
  <2>1. graph.files \subseteq FileNode /\ Settling \in Nat /\ Cardinality(Path) \in Nat
    BY BoundAssumption, SettlingAssumption, FS_CardinalityType DEF FactsInv, Inv, Good, Graph
  <2>2. Settling >= 1
    BY <2>1, SettlingAssumption
  <2>3. Cardinality(Inherited(graph.files)) \in Nat
    BY FewerPaths DEF Inherited
  <2>4. Present(graph.files, disk) /\ Settled(graph, Settling, disk, doc)
    <3>1. ~(Cardinality(Inherited(graph.files)) + Settling < Cardinality(Path))
      BY <2>1, <2>3, SettlingAssumption
    <3> QED
      BY <2>2, <3>1 DEF SettlingInv, Progress
  <2>5. Fresh(graph.files, disk) /\ Governs(graph, doc)
    BY <2>1, <2>4, SettlingAssumption DEF Settled
  <2>6. ASSUME NEW n \in graph.files, n.path \in Code
        PROVE  disk[n.path] # None /\ n.hash = disk[n.path]
    BY <2>4, <2>5, <2>6 DEF Present, Fresh
  <2>7. ASSUME NEW p \in Code, disk[p] # None
        PROVE  \E n \in graph.files : n.path = p /\ n.hash = disk[p]
    <3>1. p \in Wanted(disk)
      BY <2>7, PathAssumption DEF Wanted
    <3> QED
      BY <2>4, <2>5, <3>1 DEF Settled, Complete, Has, Fresh
  <2>8. {<<n.path, n.hash>> : n \in {k \in graph.files : k.path \in Code}}
          = {<<p, disk[p]>> : p \in {q \in Code : disk[q] # None}}
    BY <2>6, <2>7
  <2> QED
    BY <2>5, <2>8 DEF Governs, Reaches
<1> QED
  BY <1>1, <1>2, InitFacts, StepFacts, StepCalls, StepSettling, PTL DEF Spec
=============================================================================
