------------------------- MODULE StructuralCompile -------------------------
(***************************************************************************)
(* A structural compile: what is on disk becomes nodes and edges of the    *)
(* graph.                                                                  *)
(*                                                                         *)
(* One transaction reads the discovered files one after the other, diffs   *)
(* the facts of a changed file (what is not seen again is retired), moves  *)
(* the identity of files that disappeared to files that appeared, deletes  *)
(* the rest and resolves calls and imports.  The writer lock makes         *)
(* compiles exclude each other (WriterLock); the disk changes whenever its *)
(* owner likes.                                                            *)
(*                                                                         *)
(* Nodes are tuples: a concept <<path>>, a file <<path, content>> (its id  *)
(* is derived from where and with what it was first seen), a symbol        *)
(* <<path, content, name, body>> (id of its file, name, body hash).        *)
(***************************************************************************)
EXTENDS Integers, FiniteSets

CONSTANTS
  Path,      \* paths below the root, numbered in their order
  Code,      \* the paths of supported code; routes are read from the others
  Doc,       \* paths of concept files
  Governed,  \* the sets of paths that a concept may name
  Content,   \* contents of a file
  Decls,     \* [Content -> the <<name, body>> pairs it declares]
  Calls,     \* [Content -> names it calls]
  Imports,   \* [Content -> paths it imports]
  Sample,    \* [Content -> sampled shingles, none for a short file]
  Visible,   \* [name -> "Public", "Crate" or "Private"]
  Retain,    \* retain_retired_revisions
  Begin,     \* what may be on disk before the first compile
  MaxEdits,  \* changes of the disk (bound for checking)
  MaxRev,    \* compiles and compactions, with a revision or without (bound for checking)
  MaxBlind,  \* those that get no revision (bound for checking)
  Settling,  \* how many complete compiles are counted while the disk is quiet
  None       \* no file, no revision

Names(c)  == {d[1] : d \in Decls[c]}
Name      == UNION {Names(c) : c \in Content}
Decl      == UNION {Decls[c] : c \in Content}
FileId    == Path \X Content
SymbolId  == {<<f[1], f[2], d[1], d[2]>> : f \in FileId, d \in Decl}
FileNode  == [id : FileId, path : Path, hash : Content]

ASSUME PathAssumption    == /\ Path \cup Doc \subseteq Nat /\ Code \subseteq Path
                            /\ Governed \subseteq SUBSET Path
ASSUME ContentAssumption == /\ Decls \in [Content -> SUBSET (Name \X {d[2] : d \in Decl})]
                            /\ Imports \in [Content -> SUBSET Path]
                            /\ IsFiniteSet(Name) /\ \A c \in Content : IsFiniteSet(Sample[c])
ASSUME BeginAssumption   == Begin \subseteq [Path -> Content \cup {None}]
ASSUME BoundAssumption   == {Retain, MaxEdits, MaxRev, MaxBlind, Settling} \subseteq Nat
ASSUME NoneAssumption    == None \notin Content \cup Nat
ASSUME SettlingAssumption == IsFiniteSet(Path) /\ Settling >= 2 /\ Settling >= Cardinality(Path)

VARIABLES
  disk,    \* [Path -> content, or None]
  doc,     \* [Doc -> the paths its front matter governs, or None]
  graph,   \* the committed graph
  rev,     \* the last compile revision
  txn,     \* the compile under way
  edits,   \* changes of the disk so far
  blind,   \* compiles without a revision so far
  quiet,   \* history: complete compiles since the disk changed, up to Settling
  unkept   \* history: files whose older facts could not be retired

vars == <<disk, doc, graph, rev, txn, edits, blind, quiet, unkept>>

(* syms and edges are the active ones; dead holds the retired symbols and  *)
(* edges with the revision that retired them.                              *)
Empty == [files |-> {}, concepts |-> {}, syms |-> {}, edges |-> {},
          deadSyms |-> {}, deadEdges |-> {}]

Idle == [pc |-> "idle", rev |-> None, disc |-> {}, todo |-> {}, docs |-> {},
         map |-> {}, matched |-> {}, pending |-> {}, g |-> Empty,
         steady |-> FALSE, unkept |-> {}]

Init ==
  /\ disk \in Begin
  /\ doc = [d \in Doc |-> None]
  /\ graph = Empty
  /\ rev = 0
  /\ txn = Idle
  /\ edits = 0
  /\ blind = 0
  /\ quiet = 0
  /\ unkept = {}

-----------------------------------------------------------------------------
(* The graph store. *)

MinOf(S)       == CHOOSE x \in S : \A y \in S : x <= y
FileOf(s)      == <<s[1], s[2]>>
SymbolOf(f, d) == <<f[1], f[2], d[1], d[2]>>
SymbolsOf(f, c) == {SymbolOf(f, d) : d \in Decls[c]}
DefinesOf(f, c) == {<<"defines", f, s>> : s \in SymbolsOf(f, c)}

At(g, p)  == {n \in g.files : n.path = p}
Ids(g)    == {n.id : n \in g.files}
Owned(g, f) == {e \in g.edges : e[1] \in {"defines", "calls", "imports"} /\ e[2] = f}

(* upsert_file: by id. *)
UpsertFile(g, n) == [g EXCEPT !.files = {m \in @ : m.id # n.id} \cup {n}]

(* Mutant: a retired symbol that is seen again stays retired. *)
UpsertSymbols_StaysRetired(g, S) == [g EXCEPT !.syms = @ \cup S]

UpsertConcept(g, d) == [g EXCEPT !.concepts = @ \cup {<<d>>}]

(* upsert_symbol and insert_edge: a retired one is active again. *)
UpsertSymbols(g, S) ==
  [g EXCEPT !.syms = @ \cup S, !.deadSyms = {d \in @ : d[1] \notin S}]

InsertEdges(g, E) ==
  [g EXCEPT !.edges = @ \cup E, !.deadEdges = {d \in @ : d[1] \notin E}]

RetireSymbols(g, S, r) ==
  [g EXCEPT !.syms = @ \ S, !.deadSyms = @ \cup {<<s, r>> : s \in S}]

RetireEdges(g, E, r) ==
  [g EXCEPT !.edges = @ \ E, !.deadEdges = @ \cup {<<e, r>> : e \in E}]

Touches(e, nodes) == e[2] \in nodes \/ e[3] \in nodes

(* Mutant: the symbols of the file are not looked for. *)
DeleteFiles_KeepSymbols(g, F) ==
  [g EXCEPT !.files = {n \in @ : n.id \notin F},
            !.edges = {e \in @ : ~Touches(e, F)},
            !.deadEdges = {d \in @ : ~Touches(d[1], F)}]

(* delete_node of files: their symbols go, and every edge of either. *)
DeleteFiles(g, F) ==
  LET gone == F \cup {s \in g.syms : FileOf(s) \in F}
                \cup {s \in {d[1] : d \in g.deadSyms} : FileOf(s) \in F}
  IN  [g EXCEPT !.files = {n \in @ : n.id \notin F},
                !.syms = @ \ gone,
                !.deadSyms = {d \in @ : d[1] \notin gone},
                !.edges = {e \in @ : ~Touches(e, gone)},
                !.deadEdges = {d \in @ : ~Touches(d[1], gone)}]

DeleteConcepts(g, K) ==
  [g EXCEPT !.concepts = @ \ K, !.edges = {e \in @ : ~Touches(e, K)}]

-----------------------------------------------------------------------------
(* The owner of the disk. *)

(* A change during a compile means that the compile saw neither state. *)
Change ==
  /\ edits < MaxEdits
  /\ edits' = edits + 1
  /\ quiet' = 0
  /\ txn' = [txn EXCEPT !.steady = FALSE]
  /\ UNCHANGED <<graph, rev, blind, unkept>>

Save(p, c) ==
  /\ c # disk[p]
  /\ disk' = [disk EXCEPT ![p] = c]
  /\ UNCHANGED doc
  /\ Change

Move(p, q) ==
  /\ p # q /\ disk[p] # None
  /\ disk' = [disk EXCEPT ![p] = None, ![q] = disk[p]]
  /\ UNCHANGED doc
  /\ Change

Declare(d, governed) ==
  /\ doc[d] # governed
  /\ doc' = [doc EXCEPT ![d] = governed]
  /\ UNCHANGED disk
  /\ Change

-----------------------------------------------------------------------------
(* Stages 1 to 3: a transaction reads what it discovered. *)

(* The revision is allocated before the transaction; a failure to get one is *)
(* taken for a store without revisions.  Missing concepts go first.          *)
Discover ==
  /\ txn.pc = "idle" /\ rev + blind < MaxRev
  /\ \E r \in {rev + 1, None} :
       /\ r = None => blind < MaxBlind
       /\ rev' = IF r = None THEN rev ELSE r
       /\ blind' = IF r = None THEN blind + 1 ELSE blind
       /\ txn' = [Idle EXCEPT
            !.pc = "files", !.rev = r, !.steady = TRUE, !.unkept = unkept,
            !.disc = {p \in Path : disk[p] # None},
            !.todo = {p \in Path : disk[p] # None},
            !.docs = {d \in Doc : doc[d] # None},
            !.map = {<<n.path, n.id>> : n \in graph.files},
            !.g = DeleteConcepts(graph, {k \in graph.concepts : doc[k[1]] = None})]
  /\ UNCHANGED <<disk, doc, graph, edits, quiet, unkept>>

(* disappeared_by_hash: of several with the content, the first in path order. *)
VanishedWith(c) ==
  LET S == {n \in graph.files : n.path \notin txn.disc /\ n.hash = c}
  IN  {n \in S : \A m \in S : n.path <= m.path}

(* resolve_file_id *)
IdFor(p, c) ==
  CASE At(txn.g, p) # {}     -> (CHOOSE n \in At(txn.g, p) : TRUE).id
    [] At(txn.g, p) = {} /\ VanishedWith(c) # {} -> (CHOOSE n \in VanishedWith(c) : TRUE).id
    [] OTHER                 -> <<p, c>>

IsContentChange(p, c) == \E n \in At(txn.g, p) : n.hash # c

(* Mutant: the size of a file stands for its content. *)
IsKnown_SameSize(p, c) ==
  \E n \in At(txn.g, p) : Cardinality(Decls[n.hash]) = Cardinality(Decls[c])

(* A text file is renewed too when a route of it is missing. *)
IsKnown(p, c) ==
  \E n \in At(txn.g, p) :
    n.hash = c /\ (p \notin Code => SymbolsOf(n.id, c) \subseteq txn.g.syms)

(* Mutants: edges are left alone; only defines edges are retired. *)
RetireUnseen_SymbolsOnly(g, id, c, r) ==
  RetireSymbols(g, {s \in g.syms : FileOf(s) = id} \ SymbolsOf(id, c), r)

RetireUnseen_DefinesOnly(g, id, c, r) ==
  RetireEdges(RetireUnseen_SymbolsOnly(g, id, c, r),
              {e \in Owned(g, id) : e[1] = "defines"} \ DefinesOf(id, c), r)

(* Facts are retired only when the content of a known file changed, and only *)
(* with a revision to retire them at; calls and imports come back in stage 4. *)
RetireUnseen(g, id, c, r) ==
  RetireEdges(RetireSymbols(g, {s \in g.syms : FileOf(s) = id} \ SymbolsOf(id, c), r),
              Owned(g, id) \ DefinesOf(id, c), r)

Renew(g, p, c) ==
  LET id == IdFor(p, c)
      g1 == InsertEdges(UpsertSymbols(UpsertFile(g, [id |-> id, path |-> p, hash |-> c]),
                                      SymbolsOf(id, c)),
                        DefinesOf(id, c))
  IN  IF IsContentChange(p, c) /\ txn.rev # None
      THEN RetireUnseen(g1, id, c, txn.rev) ELSE g1

(* History: an id whose facts of another content stay active. *)
UnkeptAfter(p, c) ==
  LET id == IdFor(p, c)
      elsewhere == \E n \in txn.g.files : n.id = id /\ n.path # p /\ n.hash # c
  IN  CASE IsContentChange(p, c) /\ txn.rev # None -> txn.unkept \ {id}
        [] IsContentChange(p, c) /\ txn.rev = None -> txn.unkept \cup {id}
        [] ~IsContentChange(p, c) -> IF elsewhere THEN txn.unkept \cup {id} ELSE txn.unkept

(* Supported code in path order, then the other files. *)
NextFile == MinOf(IF txn.todo \cap Code # {} THEN txn.todo \cap Code ELSE txn.todo)

(* It cannot be read, or is no longer there. *)
SkipFile ==
  /\ txn.pc = "files" /\ txn.todo # {}
  /\ txn' = [txn EXCEPT !.todo = @ \ {NextFile}, !.steady = FALSE]
  /\ UNCHANGED <<disk, doc, graph, rev, edits, blind, quiet, unkept>>

(* The content is read now, not when the file was discovered. *)
ReadFile ==
  /\ txn.pc = "files" /\ txn.todo # {}
  /\ LET p == NextFile
         c == disk[p]
     IN  /\ c # None
         /\ txn' =
              IF IsKnown(p, c) \/ (p \notin Code /\ Decls[c] = {})
              THEN [txn EXCEPT !.todo = @ \ {p}]
              ELSE [txn EXCEPT
                     !.todo = @ \ {p},
                     !.g = Renew(@, p, c),
                     !.map = {m \in @ : m[1] # p} \cup {<<p, IdFor(p, c)>>},
                     !.matched = IF At(txn.g, p) # {} THEN @
                                 ELSE @ \cup {n.path : n \in VanishedWith(c)},
                     !.pending = IF p \in Code /\ (Calls[c] # {} \/ Imports[c] # {})
                                 THEN @ \cup {<<IdFor(p, c), c>>} ELSE @,
                     !.unkept = UnkeptAfter(p, c)]
  /\ UNCHANGED <<disk, doc, graph, rev, edits, blind, quiet, unkept>>

(* process_markdown_concepts: each time, for every concept file; an edge is  *)
(* made to the id the file map holds for a governed path.                    *)
ReadDoc ==
  /\ txn.pc = "files" /\ txn.todo = {} /\ txn.docs # {}
  /\ LET d == MinOf(txn.docs)
         governed == {m \in txn.map : m[1] \in doc[d]}
     IN  /\ doc[d] # None
         /\ txn' = [txn EXCEPT
                     !.docs = @ \ {d},
                     !.g = InsertEdges(UpsertConcept(@, d),
                                       {<<"governs", <<d>>, m[2]>> : m \in governed})]
  /\ UNCHANGED <<disk, doc, graph, rev, edits, blind, quiet, unkept>>

SkipDoc ==
  /\ txn.pc = "files" /\ txn.todo = {} /\ txn.docs # {}
  /\ txn' = [txn EXCEPT !.docs = @ \ {MinOf(txn.docs)}, !.steady = FALSE]
  /\ UNCHANGED <<disk, doc, graph, rev, edits, blind, quiet, unkept>>

-----------------------------------------------------------------------------
(* Stage 6: what became of the files that disappeared.  Similarities are     *)
(* fractions <<numerator, denominator>>.                                     *)

AtLeast(s, percent) == 100 * s[1] >= percent * s[2]
Leads(s, t)         == 100 * (s[1] * t[2] - t[1] * s[2]) >= 15 * s[2] * t[2]

Jaccard(A, B) == IF A \cup B = {} THEN <<1, 1>>
                 ELSE <<Cardinality(A \cap B), Cardinality(A \cup B)>>

NoMatch == <<0, 1>>
Larger(s, t) == IF s[1] * t[2] >= t[1] * s[2] THEN s ELSE t

SymbolSet(g, id) == {e[3][3] : e \in {x \in g.edges : x[1] = "defines" /\ x[2] = id}}

(* A file with at most one symbol may be known by a sample of its content. *)
IsPoor(A) == Cardinality(A) <= 1

RenameScore(g, n, m) ==
  LET A == SymbolSet(g, n.id)
      B == SymbolSet(g, m.id)
      weak   == IF A = {} \/ B = {} THEN NoMatch ELSE Jaccard(A, B)
      sample == IF Sample[n.hash] = {} \/ Sample[m.hash] = {} THEN NoMatch
                ELSE Jaccard(Sample[n.hash], Sample[m.hash])
  IN  IF IsPoor(A) \/ IsPoor(B) THEN Larger(weak, sample) ELSE Jaccard(A, B)

RenameThreshold(g, n, m) ==
  IF IsPoor(SymbolSet(g, n.id)) \/ IsPoor(SymbolSet(g, m.id)) THEN 72 ELSE 80

StartOf(n) == CHOOSE m \in graph.files : m.id = n.id

Disappeared(g) ==
  {n \in g.files : n.id \in Ids(graph) /\ StartOf(n).path \notin txn.disc \cup txn.matched}

NewFiles(g) == {n \in g.files : n.path \in txn.disc /\ n.id \notin Ids(graph)}

(* detect_rename: over the threshold and ahead of every other candidate.     *)
RenameTo(g, n) ==
  LET C == {m \in NewFiles(g) : AtLeast(RenameScore(g, n, m), RenameThreshold(g, n, m))}
  IN  {m \in C : /\ Leads(RenameScore(g, n, m), NoMatch)
                 /\ \A k \in C \ {m} : Leads(RenameScore(g, n, m), RenameScore(g, n, k))}

Similar(g, n, m, percent) ==
  /\ SymbolSet(g, n.id) # {} /\ SymbolSet(g, m.id) # {}
  /\ AtLeast(Jaccard(SymbolSet(g, n.id), SymbolSet(g, m.id)), percent)

SplitInto(g, n) ==
  LET S == {m \in NewFiles(g) : Similar(g, n, m, 40)}
  IN  IF RenameTo(g, n) = {} /\ Cardinality(S) >= 2 THEN S ELSE {}

(* The files that neither rename nor split consumed. *)
OldLeft(g) == {n \in Disappeared(g) : RenameTo(g, n) = {} /\ SplitInto(g, n) = {}}
NewLeft(g) == NewFiles(g) \ UNION {RenameTo(g, n) \cup SplitInto(g, n) : n \in Disappeared(g)}

MergedInto(g, m) ==
  LET S == {n \in OldLeft(g) : Similar(g, n, m, 50)}
  IN  IF Cardinality(S) >= 2 THEN S ELSE {}

(* Left for git: git names a new path for some of these. *)
Unresolved(g) == OldLeft(g) \ UNION {MergedInto(g, m) : m \in NewLeft(g)}

(* A file keeps its old id and its old hash at the new path; the node made   *)
(* there is deleted.  Of several moved to one path the last one stays: git's *)
(* come after the others, else the order is that of the old paths.           *)
MovesOf(g, git) ==
  (UNION {{<<n, m.path, 0>> : m \in RenameTo(g, n)} : n \in Disappeared(g)})
  \cup {<<n, git[n.id], 1>> : n \in {k \in Unresolved(g) : git[k.id] # None}}

Precedes(a, b) == a[3] < b[3] \/ (a[3] = b[3] /\ StartOf(a[1]).path < StartOf(b[1]).path)

(* Mutant: the node made at the new path is not deleted. *)
PersistMoves_KeepDup(g, moves) ==
  [g EXCEPT !.files = {n \in @ : \A a \in moves : n.id # a[1].id}
                        \cup {[a[1] EXCEPT !.path = a[2]] : a \in moves}]

PersistMoves(g, moves) ==
  LET last == {a \in moves : \A b \in moves : b[2] = a[2] => b = a \/ Precedes(b, a)}
      lost == {a[1].id : a \in moves \ last}
      dups == {n.id : n \in {k \in g.files : \E a \in last : k.path = a[2]}}
                \ {a[1].id : a \in last}
      g1   == DeleteFiles(g, lost \cup dups)
  IN  [g1 EXCEPT !.files = {n \in @ : \A a \in last : n.id # a[1].id}
                             \cup {[a[1] EXCEPT !.path = a[2]] : a \in last}]

(* delete_missing_files: by the paths the graph had at the start; edges that *)
(* tell of a split or a merge go with their old file.                        *)
DeleteMissing(g, protected) ==
  DeleteFiles(g, {n.id : n \in {k \in graph.files :
                                 k.path \notin txn.disc /\ k.path \notin protected}})

-----------------------------------------------------------------------------
(* Stage 4: calls and imports of the files that were renewed. *)

ImportsOf(g, id, c) == {n.id : n \in {k \in g.files : k.path \in Imports[c]}} \ {id}

Score(s, id, imported) ==
  30 + (IF FileOf(s) = id THEN 100 ELSE IF FileOf(s) \in imported THEN 50 ELSE 0)
     + (CASE Visible[s[3]] = "Public"  -> 20
          [] Visible[s[3]] = "Crate"   -> 10
          [] Visible[s[3]] = "Private" -> IF FileOf(s) = id THEN 0 ELSE -100)

(* All the best ones, unless they tie at a low score. *)
Callees(g, name, id, imported) ==
  LET C == {s \in g.syms : s[3] = name /\ FileOf(s) \in Ids(g)}
      best == {s \in C : \A t \in C : Score(s, id, imported) >= Score(t, id, imported)}
  IN  {s \in best : /\ Score(s, id, imported) > 0
                    /\ Cardinality(best) > 1 => Score(s, id, imported) >= 50}

ResolvedEdges(g, id, c) ==
  {<<"imports", id, t>> : t \in ImportsOf(g, id, c)} \cup
  {<<"calls", id, s>> : s \in UNION {Callees(g, name, id, ImportsOf(g, id, c)) : name \in Calls[c]}}

(* Stages 6 and 4 read nothing from the disk. *)
Settle ==
  /\ txn.pc = "files" /\ txn.todo = {} /\ txn.docs = {}
  /\ \E git \in [{n.id : n \in Unresolved(txn.g)} -> {n.path : n \in NewFiles(txn.g)} \cup {None}] :
       LET moves == MovesOf(txn.g, git)
           g1 == DeleteMissing(PersistMoves(txn.g, moves),
                               txn.matched \cup {a[1].path : a \in moves})
           new == UNION {ResolvedEdges(g1, q[1], q[2]) : q \in txn.pending}
       IN  txn' = [Idle EXCEPT !.pc = "commit", !.rev = txn.rev, !.steady = txn.steady,
                                  !.unkept = txn.unkept, !.g = InsertEdges(g1, new)]
  /\ UNCHANGED <<disk, doc, graph, rev, edits, blind, quiet, unkept>>

Commit ==
  /\ txn.pc = "commit"
  /\ graph' = txn.g
  /\ unkept' = txn.unkept \cap Ids(txn.g)
  /\ quiet' = IF txn.steady /\ quiet < Settling THEN quiet + 1 ELSE quiet
  /\ txn' = Idle
  /\ UNCHANGED <<disk, doc, rev, edits, blind>>

(* An error in any stage up to the commit rolls the transaction back. *)
Fail ==
  /\ txn.pc \in {"files", "commit"}
  /\ txn' = Idle
  /\ UNCHANGED <<disk, doc, graph, rev, edits, blind, quiet, unkept>>

Crash ==
  /\ txn # Idle
  /\ txn' = Idle
  /\ UNCHANGED <<disk, doc, graph, rev, edits, blind, quiet, unkept>>

-----------------------------------------------------------------------------
(* compact_retired: takes a revision of its own. *)

(* Mutant: the threshold itself counts as older. *)
OlderThan_Inclusive(D, r) == {d \in D : d[2] <= r}

OlderThan(D, r) == {d \in D : d[2] < r}

(* Its first `done` statements, each committed on its own: the edges of the  *)
(* symbols that go, these symbols, the retired edges.                        *)
Compacted(g, r, done) ==
  LET gone == {d[1] : d \in OlderThan(g.deadSyms, r)}
      cut  == [g EXCEPT !.edges = {e \in @ : ~Touches(e, gone)},
                        !.deadEdges = {d \in @ : ~Touches(d[1], gone)}]
      gc   == [cut EXCEPT !.deadSyms = @ \ OlderThan(@, r)]
  IN  CASE done = 0 -> g
        [] done = 1 -> cut
        [] done = 2 -> gc
        [] done = 3 -> [gc EXCEPT !.deadEdges = @ \ OlderThan(@, r)]

(* A statement that fails, or a crash, ends it where it is. *)
Compact ==
  /\ txn.pc = "idle" /\ rev + blind < MaxRev
  /\ rev' = rev + 1
  /\ IF rev' <= Retain THEN graph' = graph
     ELSE \E done \in 0..3 : graph' = Compacted(graph, rev' - Retain, done)
  /\ UNCHANGED <<disk, doc, txn, edits, blind, quiet, unkept>>

-----------------------------------------------------------------------------
Next ==
  \/ \E p \in Path, c \in Content \cup {None} : Save(p, c)
  \/ \E p, q \in Path : Move(p, q)
  \/ \E d \in Doc, governed \in {None} \cup Governed : Declare(d, governed)
  \/ Discover \/ SkipFile \/ ReadFile \/ SkipDoc \/ ReadDoc
  \/ Settle \/ Commit \/ Fail \/ Crash
  \/ Compact

Spec == Init /\ [][Next]_vars

-----------------------------------------------------------------------------
(* Properties *)

GraphOK(g) ==
  /\ g.files \subseteq FileNode
  /\ g.concepts \subseteq {<<d>> : d \in Doc}
  /\ g.syms \subseteq SymbolId
  /\ \A d \in g.deadSyms : d[1] \in SymbolId \ g.syms /\ d[2] \in 1..rev
  /\ \A d \in g.deadEdges : d[1] \notin g.edges /\ d[2] \in 1..rev

(* Types, and: a symbol or an edge is active or retired, never both, and is  *)
(* retired at a revision that was allocated (retire_bulk_impl, upserts).     *)
TypeOK ==
  /\ disk \in [Path -> Content \cup {None}]
  /\ doc \in [Doc -> {None} \cup Governed]
  /\ rev \in 0..MaxRev /\ edits \in 0..MaxEdits /\ blind \in 0..MaxBlind /\ quiet \in 0..Settling
  /\ txn.pc \in {"idle", "files", "commit"}
  /\ txn.rev \in {None} \cup 1..rev
  /\ unkept \subseteq FileId
  /\ GraphOK(graph) /\ GraphOK(txn.g)

(* Two file nodes never share a path, not even inside the transaction, where *)
(* the UNIQUE (root_id, path) of the files table would end the compile.      *)
OneNodePerPath ==
  /\ \A n, m \in graph.files : n.path = m.path => n = m
  /\ \A n, m \in txn.g.files : n.path = m.path => n = m

(* The active symbols of a file node and its defines edges are those of the  *)
(* content its hash names, through edits, renames of every kind and retired  *)
(* facts that come back; where facts could not be retired there may be more. *)
FactsMatchHash ==
  \A n \in graph.files :
    LET S == {s \in graph.syms : FileOf(s) = n.id}
        D == {e \in graph.edges : e[1] = "defines" /\ e[2] = n.id}
    IN  /\ SymbolsOf(n.id, n.hash) \subseteq S /\ DefinesOf(n.id, n.hash) \subseteq D
        /\ n.id \in unkept \/ (S = SymbolsOf(n.id, n.hash) /\ D = DefinesOf(n.id, n.hash))

(* No active symbol outlives its file (delete_node, identity cascade).       *)
NoOrphanSymbol == \A s \in graph.syms : FileOf(s) \in Ids(graph)

(* A file is only said to call what its recorded content calls: no call of   *)
(* an earlier content stays, although calls are retired and resolved again.  *)
CallsMatchCaller ==
  \A n \in graph.files, e \in graph.edges :
    e[1] = "calls" /\ e[2] = n.id /\ n.id \notin unkept => e[3][3] \in Calls[n.hash]

(* Once the disk is left alone, as many complete compiles as there are paths *)
(* (two for a single one) bring every code file into the graph with its      *)
(* content and drop what is gone, whatever was renamed, split, merged or     *)
(* interrupted before; and the governs edges reach the files they name.      *)
Converges ==
  quiet = Settling =>
    /\ {<<n.path, n.hash>> : n \in {k \in graph.files : k.path \in Code}}
         = {<<p, disk[p]>> : p \in {q \in Code : disk[q] # None}}
    /\ \A d \in Doc : doc[d] # None =>
         \A n \in graph.files : n.path \in doc[d] => <<"governs", <<d>>, n.id>> \in graph.edges

(* Compaction forgets no fact that was retired in the last Retain revisions, *)
(* and no active symbol.                                                     *)
RetentionKept ==
  [][rev' # rev /\ graph' # graph =>
       /\ graph'.syms = graph.syms
       /\ \A d \in graph.deadSyms : d[2] >= rev' - Retain => d \in graph'.deadSyms]_vars
=============================================================================
