---------------------- MODULE StructuralCompileProofs ----------------------
(***************************************************************************)
(* Proofs about StructuralCompile, for any paths, contents, declarations,  *)
(* retention and number of revisions.                                      *)
(*                                                                         *)
(* Good is what every graph is, the committed one and that of the          *)
(* transaction: typed, one node per path, no symbol without its file.  The *)
(* proofs have a lemma for each operation of the store, and put them       *)
(* together as the stages of a compile do.                                 *)
(***************************************************************************)
EXTENDS StructuralCompile, WellFoundedInduction, TLAPS

ConceptId == {<<d>> : d \in Doc}
Node      == FileId \cup SymbolId \cup ConceptId
Edge      == {"defines", "calls", "imports", "governs"} \X Node \X Node

Graph == [files : SUBSET FileNode, concepts : SUBSET ConceptId, syms : SUBSET SymbolId,
          edges : SUBSET Edge, deadSyms : SUBSET (SymbolId \X Nat),
          deadEdges : SUBSET (Edge \X Nat)]

(* What was retired, at revisions up to r, is not active. *)
Retired(g, r) ==
  /\ \A d \in g.deadSyms : d[1] \notin g.syms /\ d[2] \in 1..r
  /\ \A d \in g.deadEdges : d[1] \notin g.edges /\ d[2] \in 1..r

OwnFiles(g) == \A s \in g.syms : FileOf(s) \in Ids(g)
OwnPaths(g) == \A n, m \in g.files : n.path = m.path => n = m

Good(g, r) == g \in Graph /\ Retired(g, r) /\ OwnFiles(g) /\ OwnPaths(g)

(* A revision that was allocated later is no harm. *)
LEMMA LaterRevision ==
  ASSUME NEW g, NEW r \in Nat, NEW s \in Nat, r <= s, Good(g, r)
  PROVE  Good(g, s)
  BY DEF Good, Retired

(* The symbols of a content belong to the file they are made for. *)
LEMMA SymbolsOfFile ==
  ASSUME NEW id \in FileId, NEW c \in Content
  PROVE  /\ SymbolsOf(id, c) \subseteq SymbolId
         /\ \A s \in SymbolsOf(id, c) : FileOf(s) = id
<1>1. ASSUME NEW d \in Decls[c]
      PROVE  SymbolOf(id, d) \in SymbolId /\ FileOf(SymbolOf(id, d)) = id
  <2>1. d \in Decl
    BY DEF Decl
  <2>2. SymbolOf(id, d) \in SymbolId
    BY <2>1 DEF SymbolOf, SymbolId
  <2>3. id = <<id[1], id[2]>>
    BY DEF FileId
  <2> QED
    BY <2>2, <2>3 DEF SymbolOf, FileOf
<1> QED
  BY <1>1 DEF SymbolsOf

-----------------------------------------------------------------------------
(* The operations of the store keep a graph good. *)

LEMMA InsertEdgesGood ==
  ASSUME NEW g, NEW r \in Nat, NEW E, E \subseteq Edge, Good(g, r)
  PROVE  Good(InsertEdges(g, E), r) /\ Ids(InsertEdges(g, E)) = Ids(g)
  BY DEF Good, Graph, Retired, OwnFiles, OwnPaths, Ids, InsertEdges

LEMMA RetireEdgesGood ==
  ASSUME NEW g, NEW r \in Nat, NEW E, E \subseteq g.edges, NEW s \in 1..r, Good(g, r)
  PROVE  Good(RetireEdges(g, E, s), r)
<1> DEFINE h == RetireEdges(g, E, s)
<1>1. g \in Graph /\ Retired(g, r)
  BY DEF Good
<1>2. /\ h.files = g.files /\ h.concepts = g.concepts /\ h.syms = g.syms
      /\ h.edges = g.edges \ E /\ h.deadSyms = g.deadSyms
      /\ h.deadEdges = g.deadEdges \cup {<<e, s>> : e \in E}
  BY <1>1 DEF Graph, RetireEdges
<1>3. {<<e, s>> : e \in E} \subseteq Edge \X Nat
  BY <1>1 DEF Graph
<1>4. h \in Graph
  BY <1>1, <1>3 DEF Graph, RetireEdges
<1>5. Retired(h, r)
  BY <1>1, <1>2 DEF Retired
<1> QED
  BY <1>2, <1>4, <1>5 DEF Good, OwnFiles, OwnPaths, Ids

LEMMA RetireSymbolsGood ==
  ASSUME NEW g, NEW r \in Nat, NEW S, S \subseteq g.syms, NEW s \in 1..r, Good(g, r)
  PROVE  Good(RetireSymbols(g, S, s), r) /\ RetireSymbols(g, S, s).edges = g.edges
<1> DEFINE h == RetireSymbols(g, S, s)
<1>1. g \in Graph /\ Retired(g, r)
  BY DEF Good
<1>2. /\ h.files = g.files /\ h.concepts = g.concepts /\ h.syms = g.syms \ S
      /\ h.edges = g.edges /\ h.deadEdges = g.deadEdges
      /\ h.deadSyms = g.deadSyms \cup {<<d, s>> : d \in S}
  BY <1>1 DEF Graph, RetireSymbols
<1>3. {<<d, s>> : d \in S} \subseteq SymbolId \X Nat
  BY <1>1 DEF Graph
<1>4. h \in Graph
  BY <1>1, <1>3 DEF Graph, RetireSymbols
<1>5. Retired(h, r)
  BY <1>1, <1>2 DEF Retired
<1> QED
  BY <1>2, <1>4, <1>5 DEF Good, OwnFiles, OwnPaths, Ids

LEMMA UpsertSymbolsGood ==
  ASSUME NEW g, NEW r \in Nat, NEW S, S \subseteq SymbolId, Good(g, r),
         \A s \in S : FileOf(s) \in Ids(g)
  PROVE  Good(UpsertSymbols(g, S), r) /\ Ids(UpsertSymbols(g, S)) = Ids(g)
  BY DEF Good, Graph, Retired, OwnFiles, OwnPaths, Ids, UpsertSymbols

LEMMA DeleteConceptsGood ==
  ASSUME NEW g, NEW r \in Nat, NEW K, Good(g, r)
  PROVE  Good(DeleteConcepts(g, K), r)
  BY DEF Good, Graph, Retired, OwnFiles, OwnPaths, Ids, DeleteConcepts

(* The node of a path may be replaced, if it is the one of that id. *)
LEMMA UpsertFileGood ==
  ASSUME NEW g, NEW r \in Nat, NEW n \in FileNode, Good(g, r),
         \A m \in At(g, n.path) : m.id = n.id
  PROVE  Good(UpsertFile(g, n), r) /\ n.id \in Ids(UpsertFile(g, n))
  BY DEF Good, Graph, Retired, OwnFiles, OwnPaths, Ids, UpsertFile, At

LEMMA DeleteFilesGood ==
  ASSUME NEW g, NEW r \in Nat, NEW F, Good(g, r)
  PROVE  /\ Good(DeleteFiles(g, F), r)
         /\ DeleteFiles(g, F).files = {n \in g.files : n.id \notin F}
<1> DEFINE h == DeleteFiles(g, F)
<1>1. g \in Graph /\ Retired(g, r)
  BY DEF Good
<1>2. PICK gone : /\ {s \in g.syms : FileOf(s) \in F} \subseteq gone
                  /\ h = [g EXCEPT !.files = {n \in @ : n.id \notin F},
                                   !.syms = @ \ gone,
                                   !.deadSyms = {d \in @ : d[1] \notin gone},
                                   !.edges = {e \in @ : ~Touches(e, gone)},
                                   !.deadEdges = {d \in @ : ~Touches(d[1], gone)}]
  BY DEF DeleteFiles
<1>3. /\ h.files = {n \in g.files : n.id \notin F} /\ h.syms = g.syms \ gone
      /\ h.deadSyms = {d \in g.deadSyms : d[1] \notin gone}
      /\ h.edges = {e \in g.edges : ~Touches(e, gone)}
      /\ h.deadEdges = {d \in g.deadEdges : ~Touches(d[1], gone)}
  BY <1>1, <1>2 DEF Graph
<1>4. h \in Graph
  BY <1>1, <1>2 DEF Graph
<1>5. Retired(h, r)
  BY <1>1, <1>3 DEF Retired
<1>6. OwnFiles(h)
  BY <1>2, <1>3 DEF Good, OwnFiles, Ids
<1> QED
  BY <1>3, <1>4, <1>5, <1>6 DEF Good, OwnPaths

(* The symbols a compaction is to remove. *)
OldSyms(g, r) == {d[1] : d \in OlderThan(g.deadSyms, r)}

(* What a compaction may leave of g, whatever statements were executed: what *)
(* is active, but for edges of the symbols that go, and of what is retired   *)
(* all that is not older.                                                    *)
Compaction(g, h, r) ==
  /\ h \in Graph /\ h.files = g.files /\ h.concepts = g.concepts /\ h.syms = g.syms
  /\ h.edges \subseteq g.edges
  /\ \A e \in g.edges : ~Touches(e, OldSyms(g, r)) => e \in h.edges
  /\ h.deadSyms \subseteq g.deadSyms /\ h.deadEdges \subseteq g.deadEdges
  /\ \A d \in g.deadSyms : d \in h.deadSyms \/ d \in OlderThan(g.deadSyms, r)

LEMMA CompactedShape ==
  ASSUME NEW g \in Graph, NEW r, NEW done \in 0..3
  PROVE  Compaction(g, Compacted(g, r, done), r)
<1> DEFINE gone == OldSyms(g, r)
           h == Compacted(g, r, done)
           cut == [g EXCEPT !.edges = {e \in @ : ~Touches(e, gone)},
                           !.deadEdges = {d \in @ : ~Touches(d[1], gone)}]
           gc  == [cut EXCEPT !.deadSyms = @ \ OlderThan(@, r)]
           all == [gc EXCEPT !.deadEdges = @ \ OlderThan(@, r)]
<1>1. /\ cut \in Graph /\ cut.files = g.files /\ cut.concepts = g.concepts /\ cut.syms = g.syms
      /\ cut.edges = {e \in g.edges : ~Touches(e, gone)} /\ cut.deadSyms = g.deadSyms
      /\ cut.deadEdges \subseteq g.deadEdges
  BY DEF Graph
<1>2. h = g \/ h = cut \/ h = gc \/ h = all
  <2>1. CASE done = 0
    BY <2>1 DEF Compacted, OldSyms
  <2>2. CASE done = 1
    BY <2>2 DEF Compacted, OldSyms
  <2>3. CASE done = 2
    BY <2>3 DEF Compacted, OldSyms
  <2>4. CASE done = 3
    BY <2>4 DEF Compacted, OldSyms
  <2> QED
    BY <2>1, <2>2, <2>3, <2>4
<1> HIDE DEF cut, h
<1>3. /\ gc \in Graph /\ gc.files = g.files /\ gc.concepts = g.concepts /\ gc.syms = g.syms
      /\ gc.edges = cut.edges /\ gc.deadSyms = g.deadSyms \ OlderThan(g.deadSyms, r)
      /\ gc.deadEdges \subseteq g.deadEdges
  BY <1>1 DEF Graph
<1> HIDE DEF gc
<1>4. /\ all \in Graph /\ all.files = g.files /\ all.concepts = g.concepts /\ all.syms = g.syms
      /\ all.edges = cut.edges /\ all.deadSyms = g.deadSyms \ OlderThan(g.deadSyms, r)
      /\ all.deadEdges \subseteq g.deadEdges
  BY <1>3 DEF Graph
<1> HIDE DEF all
<1> QED
  BY <1>1, <1>2, <1>3, <1>4 DEF Compaction, h

LEMMA CompactedGood ==
  ASSUME NEW g, NEW r \in Nat, NEW s, NEW done \in 0..3, Good(g, r)
  PROVE  Good(Compacted(g, s, done), r)
<1> DEFINE h == Compacted(g, s, done)
<1>1. Compaction(g, h, s)
  BY CompactedShape DEF Good
<1> HIDE DEF h
<1>2. Good(h, r)
  BY <1>1 DEF Compaction, Good, Retired, OwnFiles, OwnPaths, Ids
<1> QED
  BY <1>2 DEF h

-----------------------------------------------------------------------------
(* Stages 1 to 3. *)

(* What a compile under way keeps: where its parts come from. *)
Txn == [pc : {"idle", "files", "commit"}, rev : Nat \cup {None}, disc : SUBSET Path,
        todo : SUBSET Path, docs : SUBSET Doc, map : SUBSET (Path \X FileId),
        matched : SUBSET Path, pending : SUBSET (FileId \X Content), g : Graph,
        steady : BOOLEAN, unkept : SUBSET FileId]

Base ==
  /\ disk \in [Path -> Content \cup {None}]
  /\ doc \in [Doc -> {None} \cup Governed]
  /\ rev \in 0..MaxRev /\ edits \in 0..MaxEdits /\ blind \in 0..MaxBlind /\ quiet \in 0..Settling
  /\ unkept \subseteq FileId

Inv ==
  /\ Base
  /\ txn \in Txn
  /\ txn.rev \in {None} \cup 1..rev
  /\ Good(graph, rev) /\ Good(txn.g, rev)

LEMMA IdForFile ==
  ASSUME Inv, NEW p \in Path, NEW c \in Content
  PROVE  /\ IdFor(p, c) \in FileId
         /\ \A m \in At(txn.g, p) : m.id = IdFor(p, c)
<1>1. txn.g.files \subseteq FileNode /\ graph.files \subseteq FileNode
  BY DEF Inv, Good, Graph
<1>2. CASE At(txn.g, p) # {}
  <2>1. PICK n \in At(txn.g, p) : n = (CHOOSE m \in At(txn.g, p) : TRUE)
    BY <1>2
  <2>2. IdFor(p, c) = n.id
    BY <1>2, <2>1 DEF IdFor
  <2>3. \A m \in At(txn.g, p) : m = n
    BY <2>1 DEF At, Inv, Good, OwnPaths
  <2> QED
    BY <1>1, <2>1, <2>2, <2>3 DEF At, FileNode
<1>3. CASE At(txn.g, p) = {} /\ VanishedWith(c) # {}
  <2>1. IdFor(p, c) = (CHOOSE n \in VanishedWith(c) : TRUE).id
    BY <1>3 DEF IdFor
  <2>2. (CHOOSE n \in VanishedWith(c) : TRUE) \in graph.files
    BY <1>3 DEF VanishedWith
  <2> QED
    BY <1>1, <1>3, <2>1, <2>2 DEF FileNode
<1>4. CASE At(txn.g, p) = {} /\ VanishedWith(c) = {}
  BY <1>4 DEF IdFor, FileId
<1> QED
  BY <1>2, <1>3, <1>4

LEMMA DefinesTyped ==
  ASSUME NEW id \in FileId, NEW c \in Content
  PROVE  DefinesOf(id, c) \subseteq Edge
  BY SymbolsOfFile DEF DefinesOf, Edge, Node

(* A file that is read: its node, its facts, and what it no longer declares. *)
LEMMA RenewGood ==
  ASSUME Inv, NEW p \in Path, NEW c \in Content
  PROVE  Good(Renew(txn.g, p, c), rev)
<1> DEFINE id == IdFor(p, c)
           n  == [id |-> id, path |-> p, hash |-> c]
           ga == UpsertFile(txn.g, n)
           gb == UpsertSymbols(ga, SymbolsOf(id, c))
           gc == InsertEdges(gb, DefinesOf(id, c))
<1>1. rev \in Nat /\ Good(txn.g, rev)
  BY BoundAssumption DEF Inv, Base
<1>2. id \in FileId /\ \A m \in At(txn.g, p) : m.id = id
  BY IdForFile
<1>3. n \in FileNode
  BY <1>2 DEF FileNode
<1>4. Good(ga, rev) /\ id \in Ids(ga)
  <2>1. n.path = p /\ n.id = id
    OBVIOUS
  <2> QED
    BY <1>1, <1>2, <1>3, <2>1, UpsertFileGood
<1>5. Good(gb, rev)
  <2>1. SymbolsOf(id, c) \subseteq SymbolId /\ \A s \in SymbolsOf(id, c) : FileOf(s) \in Ids(ga)
    BY <1>2, <1>4, SymbolsOfFile
  <2> HIDE DEF ga, id
  <2> QED
    BY <1>1, <1>4, <2>1, UpsertSymbolsGood
<1>6. Good(gc, rev)
  <2>1. DefinesOf(id, c) \subseteq Edge
    BY <1>2, DefinesTyped
  <2> HIDE DEF gb, id
  <2> QED
    BY <1>1, <1>5, <2>1, InsertEdgesGood
<1>7. CASE ~(IsContentChange(p, c) /\ txn.rev # None)
  BY <1>6, <1>7 DEF Renew
<1>8. CASE IsContentChange(p, c) /\ txn.rev # None
  <2> DEFINE gone == {s \in gc.syms : FileOf(s) = id} \ SymbolsOf(id, c)
             gd == RetireSymbols(gc, gone, txn.rev)
  <2>1. txn.rev \in 1..rev
    BY <1>8 DEF Inv
  <2>2. Renew(txn.g, p, c) = RetireUnseen(gc, id, c, txn.rev)
    BY <1>8 DEF Renew
  <2>3. RetireUnseen(gc, id, c, txn.rev)
          = RetireEdges(gd, Owned(gc, id) \ DefinesOf(id, c), txn.rev)
    BY DEF RetireUnseen
  <2> HIDE DEF gc
  <2>4. gone \subseteq gc.syms
    OBVIOUS
  <2> HIDE DEF gone
  <2>5. Good(gd, rev) /\ gd.edges = gc.edges
    BY <1>1, <1>6, <2>1, <2>4, RetireSymbolsGood
  <2>6. Owned(gc, id) \ DefinesOf(id, c) \subseteq gd.edges
    BY <2>5 DEF Owned
  <2>7. gd.edges \subseteq Edge
    BY <2>5 DEF Good, Graph
  <2> HIDE DEF gd
  <2> QED
    BY <1>1, <2>1, <2>2, <2>3, <2>5, <2>6, <2>7, RetireEdgesGood
<1> QED
  BY <1>7, <1>8

(* The next file and the next concept file are among those left. *)
LEMMA LeastOf ==
  ASSUME NEW S, S \subseteq Nat, S # {}
  PROVE  MinOf(S) \in S
<1>1. PICK x \in S : \A y \in S : ~(<<y, x>> \in OpToRel(<, Nat))
  BY NatLessThanWellFounded, WFMin
<1>2. ASSUME NEW y \in S, y < x PROVE FALSE
  <2>1. <<y, x>> \in {ss \in Nat \X Nat : ss[1] < ss[2]}
    BY <1>2
  <2>2. <<y, x>> \in OpToRel(<, Nat)
    BY <2>1 DEF OpToRel
  <2> QED
    BY <1>1, <2>2
<1>3. \A y \in S : x <= y
  BY <1>2
<1> QED
  BY <1>3 DEF MinOf

-----------------------------------------------------------------------------
(* Stages 6 and 4. *)

Moves(g) == {a \in FileNode \X Path \X {0, 1} : a[1] \in g.files /\ a[1].id \in Ids(graph)}

LEMMA MovesTyped ==
  ASSUME Inv, NEW g, g \in Graph,
         NEW git \in [{n.id : n \in Unresolved(g)} -> {n.path : n \in NewFiles(g)} \cup {None}]
  PROVE  MovesOf(g, git) \subseteq Moves(g)
<1>1. g.files \subseteq FileNode
  BY DEF Graph
<1>2. NewFiles(g) \subseteq g.files /\ \A m \in NewFiles(g) : m.path \in Path
  BY <1>1 DEF NewFiles, FileNode
<1>3. \A n \in Disappeared(g) : n \in g.files /\ n.id \in Ids(graph)
  BY DEF Disappeared
<1>4. ASSUME NEW n \in Disappeared(g), NEW m \in RenameTo(g, n)
      PROVE  <<n, m.path, 0>> \in Moves(g)
  <2>1. m \in NewFiles(g)
    BY DEF RenameTo
  <2> QED
    BY <1>1, <1>2, <1>3, <2>1 DEF Moves
<1>5. ASSUME NEW n \in Unresolved(g), git[n.id] # None
      PROVE  <<n, git[n.id], 1>> \in Moves(g)
  <2>1. n \in Disappeared(g)
    BY DEF Unresolved, OldLeft
  <2>2. git[n.id] \in Path
    BY <1>2, <1>5
  <2> QED
    BY <1>1, <1>3, <2>1, <2>2 DEF Moves
<1> QED
  <2> SUFFICES ASSUME NEW a \in MovesOf(g, git) PROVE a \in Moves(g)
    OBVIOUS
  <2> DEFINE A == UNION {{<<n, m.path, 0>> : m \in RenameTo(g, n)} : n \in Disappeared(g)}
             B == {<<n, git[n.id], 1>> : n \in {k \in Unresolved(g) : git[k.id] # None}}
  <2>1. CASE a \in A
    <3>1. PICK n \in Disappeared(g) : a \in {<<n, m.path, 0>> : m \in RenameTo(g, n)}
      BY <2>1
    <3>2. PICK m \in RenameTo(g, n) : a = <<n, m.path, 0>>
      BY <3>1
    <3> QED
      BY <1>4, <3>2
  <2>2. CASE a \in B
    <3>1. PICK n \in Unresolved(g) : git[n.id] # None /\ a = <<n, git[n.id], 1>>
      BY <2>2
    <3> QED
      BY <1>5, <3>1
  <2>3. MovesOf(g, git) = A \cup B
    BY DEF MovesOf
  <2> HIDE DEF A, B
  <2> QED
    BY <2>1, <2>2, <2>3

(* A node that is moved takes the path over from the node made there, and of *)
(* several that move to one path the last one in a total order stays.        *)
LEMMA PersistMovesGood ==
  ASSUME Inv, NEW g, Good(g, rev), NEW moves, moves \subseteq Moves(g)
  PROVE  Good(PersistMoves(g, moves), rev)
<1> DEFINE Moved(a) == [a[1] EXCEPT !.path = a[2]]
           last == {a \in moves : \A b \in moves : b[2] = a[2] => b = a \/ Precedes(b, a)}
           lost == {a[1].id : a \in moves \ last}
           dups == {n.id : n \in {k \in g.files : \E a \in last : k.path = a[2]}}
                     \ {a[1].id : a \in last}
           g1   == DeleteFiles(g, lost \cup dups)
           here == {Moved(a) : a \in last}
           rest == {n \in g1.files : \A a \in last : n.id # a[1].id}
           h    == [g1 EXCEPT !.files = rest \cup here]
<1>1. PersistMoves(g, moves) = h
  BY DEF PersistMoves
<1>2. rev \in Nat
  BY BoundAssumption DEF Inv, Base
<1>3. Good(g1, rev) /\ g1.files = {n \in g.files : n.id \notin lost \cup dups}
  BY <1>2, DeleteFilesGood
<1>4. \A a \in moves : StartOf(a[1]).path \in Nat
  <2> SUFFICES ASSUME NEW a \in moves PROVE StartOf(a[1]).path \in Nat
    OBVIOUS
  <2>1. PICK n \in graph.files : n.id = a[1].id
    BY DEF Moves, Ids
  <2>2. StartOf(a[1]) \in graph.files
    BY <2>1 DEF StartOf
  <2> QED
    BY <2>2, PathAssumption DEF Inv, Good, Graph, FileNode
<1>5. \A a, b \in last : a[2] = b[2] => a = b
  <2> SUFFICES ASSUME NEW a \in last, NEW b \in last, a[2] = b[2], a # b PROVE FALSE
    OBVIOUS
  <2>1. Precedes(a, b) /\ Precedes(b, a)
    OBVIOUS
  <2>2. a[3] \in {0, 1} /\ b[3] \in {0, 1}
    BY DEF Moves
  <2> QED
    BY <1>4, <2>1, <2>2 DEF Precedes
<1>6. \A a \in last : /\ Moved(a) \in FileNode
                       /\ Moved(a).path = a[2]
                       /\ Moved(a).id = a[1].id
  BY DEF Moves, FileNode
<1>7. \A n \in rest : n \in g.files /\ \A a \in last : n.path # a[2]
  BY <1>3
<1> HIDE DEF last, lost, dups, g1, Moved
<1>8. h \in Graph
  BY <1>3, <1>6 DEF Good, Graph
<1>9. /\ h.files = rest \cup here
      /\ h.syms = g1.syms /\ h.edges = g1.edges
      /\ h.deadSyms = g1.deadSyms /\ h.deadEdges = g1.deadEdges
  BY <1>3 DEF Good, Graph
<1> HIDE DEF h
<1>10. Retired(h, rev)
  BY <1>3, <1>9 DEF Good, Retired
<1>11. Ids(g1) \subseteq Ids(h)
  <2> SUFFICES ASSUME NEW n \in g1.files PROVE \E m \in rest \cup here : m.id = n.id
    BY <1>9 DEF Ids
  <2>1. CASE \A a \in last : n.id # a[1].id
    BY <2>1
  <2>2. ASSUME NEW a \in last, n.id = a[1].id
        PROVE  \E m \in rest \cup here : m.id = n.id
    <3>1. Moved(a) \in here
      OBVIOUS
    <3> QED
      BY <1>6, <2>2, <3>1
  <2> QED
    BY <2>1, <2>2
<1>12. OwnFiles(h)
  BY <1>3, <1>9, <1>11 DEF Good, OwnFiles
<1>13. \A n, m \in rest : n.path = m.path => n = m
  BY <1>7 DEF Good, OwnPaths
<1>14. \A n \in rest, m \in here : n.path # m.path
  <2> SUFFICES ASSUME NEW n \in rest, NEW a \in last
               PROVE  n.path # Moved(a).path
    OBVIOUS
  <2> HIDE DEF rest
  <2> QED
    BY <1>6, <1>7
<1>15. \A n, m \in here : n.path = m.path => n = m
  <2> SUFFICES ASSUME NEW a \in last, NEW b \in last,
                      Moved(a).path = Moved(b).path
               PROVE  a = b
    OBVIOUS
  <2>1. a[2] = b[2]
    BY <1>6
  <2> QED
    BY <1>5, <2>1
<1>16. OwnPaths(h)
  BY <1>9, <1>13, <1>14, <1>15 DEF OwnPaths
<1> QED
  BY <1>1, <1>8, <1>10, <1>12, <1>16 DEF Good

(* The calls and imports of a renewed file lead to nodes. *)
LEMMA ResolvedTyped ==
  ASSUME NEW g, g \in Graph, NEW id \in FileId, NEW c \in Content
  PROVE  ResolvedEdges(g, id, c) \subseteq Edge
<1>1. ImportsOf(g, id, c) \subseteq FileId
  BY DEF ImportsOf, Graph, FileNode
<1>2. \A name : Callees(g, name, id, ImportsOf(g, id, c)) \subseteq SymbolId
  BY DEF Callees, Graph
<1>3. {<<"imports", id, t>> : t \in ImportsOf(g, id, c)} \subseteq Edge
  BY <1>1 DEF Edge, Node
<1>4. ASSUME NEW name \in Calls[c], NEW s \in Callees(g, name, id, ImportsOf(g, id, c))
      PROVE  <<"calls", id, s>> \in Edge
  BY <1>2 DEF Edge, Node
<1> QED
  BY <1>3, <1>4 DEF ResolvedEdges

LEMMA SettleGood ==
  ASSUME Inv, NEW git \in [{n.id : n \in Unresolved(txn.g)} ->
                            {n.path : n \in NewFiles(txn.g)} \cup {None}]
  PROVE  LET moves == MovesOf(txn.g, git)
             g1 == DeleteMissing(PersistMoves(txn.g, moves),
                                 txn.matched \cup {a[1].path : a \in moves})
             new == UNION {ResolvedEdges(g1, q[1], q[2]) : q \in txn.pending}
         IN  Good(InsertEdges(g1, new), rev)
<1> DEFINE moves == MovesOf(txn.g, git)
           g0  == PersistMoves(txn.g, moves)
           g1  == DeleteMissing(g0, txn.matched \cup {a[1].path : a \in moves})
           new == UNION {ResolvedEdges(g1, q[1], q[2]) : q \in txn.pending}
<1>1. rev \in Nat /\ Good(txn.g, rev) /\ txn.g \in Graph
  BY BoundAssumption DEF Inv, Base, Good
<1>2. moves \subseteq Moves(txn.g)
  BY <1>1, MovesTyped
<1> HIDE DEF moves
<1>3. Good(g0, rev)
  BY <1>1, <1>2, PersistMovesGood
<1> HIDE DEF g0
<1>4. Good(g1, rev)
  BY <1>1, <1>3, DeleteFilesGood DEF DeleteMissing
<1> HIDE DEF g1
<1>5. ASSUME NEW q \in txn.pending PROVE ResolvedEdges(g1, q[1], q[2]) \subseteq Edge
  <2>1. q[1] \in FileId /\ q[2] \in Content
    BY DEF Inv, Txn
  <2> QED
    BY <1>4, <2>1, ResolvedTyped DEF Good
<1>6. new \subseteq Edge
  BY <1>5
<1> HIDE DEF new
<1>7. Good(InsertEdges(g1, new), rev)
  BY <1>1, <1>4, <1>6, InsertEdgesGood
<1> QED
  BY <1>7 DEF moves, g0, g1, new

-----------------------------------------------------------------------------
(* The whole. *)

LEMMA EmptyGood == \A r \in Nat : Good(Empty, r)
  BY DEF Empty, Good, Graph, Retired, OwnFiles, OwnPaths, Ids

LEMMA IdleTyped == Idle \in Txn /\ Idle.g = Empty /\ Idle.rev = None
  BY EmptyGood DEF Idle, Txn, Good

LEMMA InitInv == Init => Inv
<1> SUFFICES ASSUME Init PROVE Inv
  OBVIOUS
<1>1. Base
  BY BeginAssumption, BoundAssumption DEF Init, Base
<1> QED
  BY <1>1, EmptyGood, IdleTyped DEF Init, Inv

(* Where the disk changes, the graphs stay. *)
LEMMA ChangeInv ==
  ASSUME Inv, Change, disk' \in [Path -> Content \cup {None}],
         doc' \in [Doc -> {None} \cup Governed]
  PROVE  Inv'
<1>1. /\ txn' \in Txn /\ txn'.g = txn.g /\ txn'.rev = txn.rev
      /\ graph' = graph /\ rev' = rev
  BY DEF Inv, Change, Txn
<1>2. Base'
  BY BoundAssumption DEF Inv, Base, Change
<1> QED
  BY <1>1, <1>2 DEF Inv

(* Where the transaction goes on, the rest stays. *)
LEMMA TxnInv ==
  ASSUME Inv, UNCHANGED <<disk, doc, graph, rev, edits, blind, quiet, unkept>>,
         txn' \in Txn, txn'.rev \in {None} \cup 1..rev, Good(txn'.g, rev)
  PROVE  Inv'
  BY DEF Inv, Base

LEMMA StepInv == Inv /\ [Next]_vars => Inv'
<1> SUFFICES ASSUME Inv, [Next]_vars PROVE Inv'
  OBVIOUS
<1>1. rev \in Nat /\ Good(graph, rev) /\ Good(txn.g, rev) /\ txn \in Txn /\ MaxRev \in Nat
      /\ blind \in Nat
  BY BoundAssumption DEF Inv, Base
<1>2. ASSUME NEW p \in Path, NEW c \in Content \cup {None}, Save(p, c) PROVE Inv'
  BY <1>2, ChangeInv DEF Save, Inv, Base
<1>3. ASSUME NEW p \in Path, NEW q \in Path, Move(p, q) PROVE Inv'
  BY <1>3, ChangeInv DEF Move, Inv, Base
<1>4. ASSUME NEW d \in Doc, NEW governed \in {None} \cup Governed, Declare(d, governed) PROVE Inv'
  BY <1>4, ChangeInv DEF Declare, Inv, Base
<1>5. CASE Discover
  <2>1. PICK r \in {rev + 1, None} :
          /\ rev' = IF r = None THEN rev ELSE r
          /\ r = None => blind < MaxBlind
          /\ blind' = IF r = None THEN blind + 1 ELSE blind
          /\ txn' = [Idle EXCEPT
               !.pc = "files", !.rev = r, !.steady = TRUE, !.unkept = unkept,
               !.disc = {p \in Path : disk[p] # None},
               !.todo = {p \in Path : disk[p] # None},
               !.docs = {d \in Doc : doc[d] # None},
               !.map = {<<n.path, n.id>> : n \in graph.files},
               !.g = DeleteConcepts(graph, {k \in graph.concepts : doc[k[1]] = None})]
    BY <1>5 DEF Discover
  <2>2. rev < MaxRev /\ UNCHANGED <<disk, doc, graph, edits, quiet, unkept>>
    BY <1>1, <1>5 DEF Discover
  <2>3. rev' \in Nat /\ rev <= rev' /\ rev' \in 0..MaxRev /\ r \in {None} \cup 1..rev'
    BY <1>1, <2>1, <2>2 DEF Inv, Base
  <2> DEFINE g == DeleteConcepts(graph, {k \in graph.concepts : doc[k[1]] = None})
             map == {<<n.path, n.id>> : n \in graph.files}
  <2>4. Good(graph, rev') /\ Good(g, rev')
    BY <1>1, <2>3, LaterRevision, DeleteConceptsGood
  <2>5. map \subseteq Path \X FileId
    BY <1>1 DEF Good, Graph, FileNode
  <2>6. unkept \subseteq FileId
    BY DEF Inv, Base
  <2>7. g \in Graph
    BY <2>4 DEF Good
  <2> DEFINE found == {p \in Path : disk[p] # None}
             concepts == {d \in Doc : doc[d] # None}
  <2>8. found \subseteq Path /\ concepts \subseteq Doc
    OBVIOUS
  <2>11. txn' = [Idle EXCEPT !.pc = "files", !.rev = r, !.steady = TRUE, !.unkept = unkept,
                            !.disc = found, !.todo = found, !.docs = concepts, !.map = map, !.g = g]
    BY <2>1
  <2> HIDE DEF g, map, found, concepts
  <2>12. r \in Nat \cup {None}
    BY <2>3
  <2>9. txn' \in Txn /\ txn'.g = g /\ txn'.rev = r
    BY <2>5, <2>6, <2>7, <2>8, <2>11, <2>12, IdleTyped DEF Txn
  <2>10. Base'
    BY <2>1, <2>2, <2>3, BoundAssumption DEF Inv, Base
  <2> QED
    BY <2>2, <2>3, <2>4, <2>9, <2>10 DEF Inv
<1>6. CASE SkipFile \/ SkipDoc
  <2>1. /\ UNCHANGED <<disk, doc, graph, rev, edits, blind, quiet, unkept>>
        /\ \/ txn' = [txn EXCEPT !.todo = @ \ {NextFile}, !.steady = FALSE]
           \/ txn' = [txn EXCEPT !.docs = @ \ {MinOf(txn.docs)}, !.steady = FALSE]
    BY <1>6 DEF SkipFile, SkipDoc
  <2>2. txn' \in Txn /\ txn'.g = txn.g /\ txn'.rev = txn.rev
    <3>1. CASE txn' = [txn EXCEPT !.todo = @ \ {NextFile}, !.steady = FALSE]
      BY <1>1, <3>1 DEF Txn
    <3>2. CASE txn' = [txn EXCEPT !.docs = @ \ {MinOf(txn.docs)}, !.steady = FALSE]
      BY <1>1, <3>2 DEF Txn
    <3> QED
      BY <2>1, <3>1, <3>2
  <2> QED
    BY <1>1, <2>1, <2>2, TxnInv DEF Inv
<1>7. CASE ReadFile
  <2> DEFINE p == NextFile
             c == disk[p]
             id == IdFor(p, c)
             g == Renew(txn.g, p, c)
  <2>1. p \in Path /\ c \in Content
    <3>1. txn.todo # {} /\ txn.todo \subseteq Path /\ c # None
      BY <1>1, <1>7 DEF ReadFile, Txn
    <3>2. p \in txn.todo
      <4>1. CASE txn.todo \cap Code # {}
        BY <3>1, <4>1, LeastOf, PathAssumption DEF NextFile
      <4>2. CASE txn.todo \cap Code = {}
        BY <3>1, <4>2, LeastOf, PathAssumption DEF NextFile
      <4> QED
        BY <4>1, <4>2
    <3> HIDE DEF p
    <3> QED
      BY <3>1, <3>2 DEF Inv, Base
  <2>2. id \in FileId /\ Good(g, rev) /\ g \in Graph
    BY <2>1, IdForFile, RenewGood DEF Good
  <2>3. UnkeptAfter(p, c) \subseteq FileId
    BY <1>1, <2>2 DEF UnkeptAfter, Txn
  <2>4. \A n \in VanishedWith(c) : n.path \in Path
    BY <1>1 DEF VanishedWith, Good, Graph, FileNode
  <2>5. UNCHANGED <<disk, doc, graph, rev, edits, blind, quiet, unkept>>
    BY <1>7 DEF ReadFile
  <2> DEFINE map == {m \in txn.map : m[1] # p} \cup {<<p, id>>}
             matched == IF At(txn.g, p) # {} THEN txn.matched
                        ELSE txn.matched \cup {n.path : n \in VanishedWith(c)}
             pending == IF p \in Code /\ (Calls[c] # {} \/ Imports[c] # {})
                        THEN txn.pending \cup {<<id, c>>} ELSE txn.pending
  <2>6. map \subseteq Path \X FileId /\ matched \subseteq Path /\ pending \subseteq FileId \X Content
    BY <1>1, <2>1, <2>2, <2>4 DEF Txn
  <2>7. \/ txn' = [txn EXCEPT !.todo = @ \ {p}]
        \/ txn' = [txn EXCEPT !.todo = @ \ {p}, !.g = g, !.map = map, !.matched = matched,
                              !.pending = pending, !.unkept = UnkeptAfter(p, c)]
    BY <1>7 DEF ReadFile
  <2> HIDE DEF p, c, id, g, map, matched, pending
  <2>8. CASE txn' = [txn EXCEPT !.todo = @ \ {p}]
    <3>1. txn' \in Txn /\ txn'.rev = txn.rev /\ txn'.g = txn.g
      BY <1>1, <2>8 DEF Txn
    <3> QED
      BY <1>1, <2>5, <3>1, TxnInv DEF Inv
  <2>9. CASE txn' = [txn EXCEPT !.todo = @ \ {p}, !.g = g, !.map = map, !.matched = matched,
                              !.pending = pending, !.unkept = UnkeptAfter(p, c)]
    <3>1. txn' \in Txn
      BY <1>1, <2>2, <2>3, <2>6, <2>9 DEF Txn
    <3>2. txn'.rev = txn.rev /\ txn'.g = g
      BY <1>1, <2>9 DEF Txn
    <3> QED
      BY <1>1, <2>2, <2>5, <3>1, <3>2, TxnInv DEF Inv
  <2> QED
    BY <2>7, <2>8, <2>9
<1>8. CASE ReadDoc
  <2> DEFINE d == MinOf(txn.docs)
             governs == {<<"governs", <<d>>, m[2]>> : m \in {m \in txn.map : m[1] \in doc[d]}}
             g0 == UpsertConcept(txn.g, d)
             g == InsertEdges(g0, governs)
  <2>1. d \in txn.docs /\ d \in Doc
    BY <1>1, <1>8, LeastOf, PathAssumption DEF ReadDoc, Txn
  <2>2. governs \subseteq Edge
    <3>1. \A m \in txn.map : m[2] \in FileId
      BY <1>1 DEF Txn
    <3> HIDE DEF d
    <3> QED
      BY <2>1, <3>1 DEF Edge, Node, ConceptId
  <2>3. Good(g0, rev)
    <3> HIDE DEF d
    <3> QED
      BY <1>1, <2>1 DEF Good, Graph, ConceptId, Retired, OwnFiles, OwnPaths, Ids, UpsertConcept
  <2>5. txn' = [txn EXCEPT !.docs = @ \ {d}, !.g = g]
    BY <1>8 DEF ReadDoc
  <2> HIDE DEF g0, governs
  <2>4. Good(g, rev) /\ g \in Graph
    BY <1>1, <2>2, <2>3, InsertEdgesGood DEF Good
  <2> HIDE DEF g, d
  <2>6. txn' \in Txn /\ txn'.g = g /\ txn'.rev = txn.rev
    BY <1>1, <2>4, <2>5 DEF Txn
  <2> QED
    BY <1>8, <2>4, <2>6, TxnInv DEF ReadDoc, Inv
<1>9. CASE Settle
  <2>1. PICK g : /\ Good(g, rev)
                  /\ txn' = [Idle EXCEPT !.pc = "commit", !.rev = txn.rev, !.steady = txn.steady,
                                         !.unkept = txn.unkept, !.g = g]
    BY <1>9, SettleGood DEF Settle
  <2>2. txn' \in Txn /\ txn'.g = g /\ txn'.rev = txn.rev
    BY <1>1, <2>1, IdleTyped DEF Txn, Good
  <2> QED
    BY <1>9, <2>1, <2>2, TxnInv DEF Settle, Inv
<1>10. CASE Commit
  <2>1. unkept' \subseteq FileId /\ quiet' \in 0..Settling
    BY <1>1, <1>10, BoundAssumption DEF Commit, Txn, Inv, Base
  <2> QED
    BY <1>1, <1>10, <2>1, IdleTyped, EmptyGood DEF Commit, Inv, Base
<1>11. CASE Fail \/ Crash
  BY <1>1, <1>11, IdleTyped, EmptyGood, TxnInv DEF Fail, Crash
<1>12. CASE Compact
  <2>1. rev' = rev + 1 /\ rev' \in Nat /\ rev' \in 0..MaxRev /\ txn' = txn
    BY <1>1, <1>12 DEF Compact
  <2>2. Good(graph, rev') /\ Good(txn.g, rev')
    BY <1>1, <2>1, LaterRevision
  <2>3. Good(graph', rev')
    <3>1. CASE graph' = graph
      BY <2>2, <3>1
    <3>2. ASSUME NEW done \in 0..3, graph' = Compacted(graph, rev' - Retain, done)
          PROVE  Good(graph', rev')
      BY <2>1, <2>2, <3>2, CompactedGood
    <3> QED
      BY <1>12, <3>1, <3>2 DEF Compact
  <2>4. Base' /\ txn'.rev \in {None} \cup 1..rev'
    BY <1>1, <1>12, <2>1 DEF Compact, Inv, Base
  <2> QED
    BY <1>1, <2>1, <2>2, <2>3, <2>4 DEF Inv
<1>13. CASE UNCHANGED vars
  BY <1>13 DEF vars, Inv, Base
<1> QED
  BY <1>2, <1>3, <1>4, <1>5, <1>6, <1>7, <1>8, <1>9, <1>10, <1>11, <1>12, <1>13 DEF Next

LEMMA Invariant == Spec => []Inv
  BY InitInv, StepInv, PTL DEF Spec

(* Every graph is typed; what is retired was retired at a revision that was  *)
(* allocated, and is not active as well (retire_bulk_impl and the upserts).  *)
THEOREM TypeCorrect == Spec => []TypeOK
<1>1. Inv => TypeOK
  <2> SUFFICES ASSUME Inv PROVE TypeOK
    OBVIOUS
  <2>1. GraphOK(graph) /\ GraphOK(txn.g)
    BY DEF Inv, Good, Graph, ConceptId, Retired, GraphOK
  <2> QED
    BY <2>1 DEF Inv, Base, Txn, TypeOK
<1> QED
  BY <1>1, Invariant, PTL

(* Renames, splits, merges and moves onto a path that is taken never leave   *)
(* two file nodes on a path, committed or not (files' UNIQUE constraint).    *)
THEOREM PathIsUnique == Spec => []OneNodePerPath
  BY Invariant, PTL DEF Inv, Good, OwnPaths, OneNodePerPath

(* No active symbol is without the node of its file.                         *)
THEOREM SymbolsHaveFiles == Spec => []NoOrphanSymbol
  BY Invariant, PTL DEF Inv, Good, OwnFiles, NoOrphanSymbol

(* Compaction forgets nothing that was retired within the last Retain        *)
(* revisions, and no active symbol (compact_retired).                        *)
THEOREM CompactionKeeps == Spec => RetentionKept
<1>1. ASSUME Inv, [Next]_vars, rev' # rev, graph' # graph
      PROVE  /\ graph'.syms = graph.syms
             /\ \A d \in graph.deadSyms : d[2] >= rev' - Retain => d \in graph'.deadSyms
  <2>1. Compact
    BY <1>1 DEF Next, vars, Save, Move, Declare, Change, Discover, SkipFile, ReadFile, SkipDoc,
                ReadDoc, Settle, Commit, Fail, Crash
  <2>2. PICK done \in 0..3 : graph' = Compacted(graph, rev' - Retain, done)
    BY <1>1, <2>1 DEF Compact
  <2>3. graph \in Graph /\ rev \in Nat /\ rev' \in Nat
    BY <1>1, <2>1, BoundAssumption DEF Inv, Base, Good, Compact
  <2>4. /\ graph'.syms = graph.syms
        /\ \A d \in graph.deadSyms :
             d \in graph'.deadSyms \/ d \in OlderThan(graph.deadSyms, rev' - Retain)
    BY <2>2, <2>3, CompactedShape DEF Compaction
  <2>5. \A d \in graph.deadSyms : d[2] \in Nat
    BY <2>3 DEF Graph
  <2> QED
    BY <2>3, <2>4, <2>5, BoundAssumption DEF OlderThan
<1> QED
  BY <1>1, Invariant, PTL DEF Spec, RetentionKept
=============================================================================
