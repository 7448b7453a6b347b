-------------------------------- MODULE Symbols --------------------------------
(***************************************************************************)
(* The symbol table that all link operations of a compilation share        *)
(* (linker.Symbols), with the tree of Handlers its users report to.  Link   *)
(* and Import are sequences of critical sections, one per package lock;    *)
(* the steps of several goroutines interleave between them.                *)
(*                                                                         *)
(* A name is the sequence of its components.  The table of package p has   *)
(* an entry for every name declared by the files of p and for the packages *)
(* right below p.                                                          *)
(***************************************************************************)
EXTENDS Integers, Sequences, FiniteSets

CONSTANTS Files,
          Names,   \* full names, of packages too: sequences of components
          Tags,    \* extension numbers
          Descs,   \* the sets of files to consider: [Files -> Desc]
          Sources, \* the files that are linked from source, the others are only imported
          Actors,  \* goroutines
          Reporters, \* whether the reporter returns the errors it is given: the cases to consider
          MaxOps   \* bound: operations begun

Packages == Names \cup {<<>>}
Exts == Packages \X Names \X Tags   \* package of the extendee, extendee, number

Desc == [pkg : Packages, syms : SUBSET Names, dup : BOOLEAN,
         exts : Seq(Exts), imports : Seq(Files)]

Prefix(n, i) == SubSeq(n, 1, i)

\* What a file descriptor is like: names are inside of the package, and the
\* scopes they are nested in are names of the file too.
WellFormed(d) ==
  \A n \in d.syms :
    /\ Len(n) > Len(d.pkg) /\ Prefix(n, Len(d.pkg)) = d.pkg
    /\ \A i \in Len(d.pkg) + 1..Len(n) : Prefix(n, i) \in d.syms

\* The files of a set that has the imports of its members.
Closed(ds, S) == \A f \in S : \A i \in DOMAIN ds[f].imports : ds[f].imports[i] \in S

\* What the files of a compilation are like together: a message that a file
\* extends is in a file it imports, directly or through others, or in itself,
\* and a descriptor that was not linked from source imports only such ones.
Linkable(ds) ==
  \A f \in Files :
    /\ \A i \in DOMAIN ds[f].exts : \A S \in SUBSET Files :
         f \in S /\ Closed(ds, S) => \E g \in S : ds[g].pkg = ds[f].exts[i][1]
    /\ f \notin Sources => \A i \in DOMAIN ds[f].imports : ds[f].imports[i] \notin Sources

None == "none"
Pkg == "package"

ASSUME NamesAssumption ==
  Names \subseteq Seq(STRING) /\ \A n \in Names : n # <<>> /\ \A i \in 1..Len(n) : Prefix(n, i) \in Names
ASSUME DescsAssumption ==
  Descs \subseteq [Files -> Desc] /\ \A ds \in Descs : Linkable(ds) /\ \A f \in Files : WellFormed(ds[f])
ASSUME OtherAssumption ==
  /\ None \notin Files /\ Pkg \notin Files
  /\ Sources \subseteq Files /\ Reporters \subseteq BOOLEAN /\ MaxOps \in Nat

VARIABLES
  desc,     \* the files
  strict,   \* whether the reporter returns errors
  symbols,  \* symbols[p][n]: packageSymbols.symbols, the file that declares n or Pkg
  files,    \* files[p]: packageSymbols.files
  exts,     \* exts[p][e]: packageSymbols.exts, the file that registered e
  parent,   \* the Handler shared by all
  child,    \* the SubHandler of each goroutine
  stack,    \* the calls of each goroutine
  ops,      \* operations begun
  outcome   \* what became of Link, or of the last Import, for each file

vars == <<desc, strict, symbols, files, exts, parent, child, stack, ops, outcome>>

Handler == [errsReported |-> FALSE, err |-> FALSE]

Init ==
  /\ desc \in Descs /\ strict \in Reporters
  /\ symbols = [p \in Packages |-> [n \in Names |-> None]]
  /\ files = [p \in Packages |-> {}]
  /\ exts = [p \in Packages |-> [e \in Names \X Tags |-> None]]
  /\ parent = Handler
  /\ child = [a \in Actors |-> Handler]
  /\ stack = [a \in Actors |-> <<>>]
  /\ ops = 0
  /\ outcome = [f \in Files |-> "no"]

-----------------------------------------------------------------------------
(* The Handler.                                                            *)

\* HandleError of the parent: an error is reported unless the reporter has
\* aborted before, and what the reporter returns is kept and returned.
Handled == IF parent.err THEN parent ELSE [errsReported |-> TRUE, err |-> strict]

\* HandleError of a child passes it on and keeps what came back.
HandleError(a) ==
  /\ parent' = Handled
  /\ child' = [child EXCEPT ![a] = [errsReported |-> TRUE, err |-> Handled.err]]

\* Handler.Error is not nil.
Failed(h) == h.errsReported \/ h.err

-----------------------------------------------------------------------------
(* Calls.                                                                  *)

Top(a) == stack[a][Len(stack[a])]
File(a) == desc[Top(a).file]
Below(a) == SubSeq(stack[a], 1, Len(stack[a]) - 1)
At(a, pc) == stack[a] # <<>> /\ Top(a).pc = pc

Frame(op, f) == [op |-> op, file |-> f, pc |-> IF op = "link" THEN "imports" ELSE "packages", i |-> 1]

Goto(a, pc, i) == stack' = [stack EXCEPT ![a][Len(stack[a])].pc = pc, ![a][Len(stack[a])].i = i]

\* A call returns.  An error goes through all callers; the end of Link turns
\* into an error what was reported to its handler.
Return(a, err, h) ==
  LET left == IF err THEN <<>> ELSE Below(a)
      first == stack[a][1]
  IN  /\ stack' = [stack EXCEPT ![a] = left]
      /\ outcome' = IF left # <<>> THEN outcome
                    ELSE [outcome EXCEPT ![first.file] =
                            IF err \/ (first.op = "link" /\ Failed(h)) THEN "failed" ELSE "ok"]

\* Link and Import begin.  Link gets the linked results of its dependencies.
Begin(a) ==
  /\ stack[a] = <<>> /\ ops < MaxOps /\ ops' = ops + 1
  /\ \E f \in Files :
       \/ /\ f \in Sources /\ outcome[f] = "no"
          /\ \A i \in DOMAIN desc[f].imports :
               desc[f].imports[i] \in Sources => outcome[desc[f].imports[i]] = "ok"
          /\ outcome' = [outcome EXCEPT ![f] = "busy"]
          /\ stack' = [stack EXCEPT ![a] = <<Frame("link", f)>>]
       \/ /\ f \notin Sources
          /\ stack' = [stack EXCEPT ![a] = <<Frame("import", f)>>]
          /\ UNCHANGED outcome
  /\ child' = [child EXCEPT ![a] = Handler]
  /\ UNCHANGED <<desc, strict, symbols, files, exts, parent>>

\* Import each dependency.
Imports(a) ==
  /\ At(a, "imports") /\ Top(a).i <= Len(File(a).imports)
  /\ stack' = [stack EXCEPT ![a] = Append([stack[a] EXCEPT ![Len(stack[a])].i = Top(a).i + 1],
                                          Frame("import", File(a).imports[Top(a).i]))]
  /\ UNCHANGED <<desc, strict, symbols, files, exts, parent, child, ops, outcome>>

ImportsDone(a) ==
  /\ At(a, "imports") /\ Top(a).i > Len(File(a).imports)
  /\ Goto(a, IF Top(a).op = "link" THEN "packages" ELSE "commit", 1)
  /\ UNCHANGED <<desc, strict, symbols, files, exts, parent, child, ops, outcome>>

-----------------------------------------------------------------------------
(* importPackages: one package after the other, from the root.             *)

Outer(a) == Prefix(File(a).pkg, Top(a).i - 1)
Inner(a) == Prefix(File(a).pkg, Top(a).i)

PackagesDone(a) ==
  /\ At(a, "packages") /\ Top(a).i > Len(File(a).pkg)
  /\ Goto(a, IF Top(a).op = "link" THEN "commit" ELSE "seen", 1)
  /\ UNCHANGED <<desc, strict, symbols, files, exts, parent, child, ops, outcome>>

\* Mutant: takes any entry of that name for the package.
PackageReadAny(a) ==
  /\ At(a, "packages") /\ Top(a).i <= Len(File(a).pkg)
  /\ IF symbols[Outer(a)][Inner(a)] # None THEN Goto(a, "packages", Top(a).i + 1) ELSE Goto(a, "package", Top(a).i)
  /\ UNCHANGED <<desc, strict, symbols, files, exts, parent, child, ops, outcome>>

\* importPackage with the read lock.
PackageRead(a) ==
  /\ At(a, "packages") /\ Top(a).i <= Len(File(a).pkg)
  /\ symbols[Outer(a)][Inner(a)] \in {None, Pkg}
  /\ IF symbols[Outer(a)][Inner(a)] = Pkg THEN Goto(a, "packages", Top(a).i + 1) ELSE Goto(a, "package", Top(a).i)
  /\ UNCHANGED <<desc, strict, symbols, files, exts, parent, child, ops, outcome>>

\* importPackage with the write lock, which looks again.
PackageWrite(a) ==
  /\ At(a, "package") /\ symbols[Outer(a)][Inner(a)] \in {None, Pkg}
  /\ symbols' = [symbols EXCEPT ![Outer(a)][Inner(a)] = Pkg]
  /\ Goto(a, "packages", Top(a).i + 1)
  /\ UNCHANGED <<desc, strict, files, exts, parent, child, ops, outcome>>

\* The name of the package is taken: an error, or no package to go on with,
\* which ends an Import and makes Link skip the table.
PackageCollides(a) ==
  /\ (At(a, "packages") /\ Top(a).i <= Len(File(a).pkg)) \/ At(a, "package")
  /\ symbols[Outer(a)][Inner(a)] \in Files
  /\ HandleError(a)
  /\ IF Top(a).op = "link" /\ ~Handled.err
     THEN Goto(a, "extensions", 1) /\ UNCHANGED outcome
     ELSE Return(a, Handled.err, child'[a])
  /\ UNCHANGED <<desc, strict, symbols, files, exts, ops>>

-----------------------------------------------------------------------------
(* The file.                                                               *)

\* The check for a file imported before, with the read lock.
Seen(a) ==
  /\ At(a, "seen")
  /\ IF Top(a).file \in files[File(a).pkg]
     THEN Return(a, FALSE, child[a])
     ELSE Goto(a, "imports", 1) /\ UNCHANGED outcome
  /\ UNCHANGED <<desc, strict, symbols, files, exts, parent, child, ops>>

\* A name of the file is in the table, or is declared twice by the file.
Collides(a) ==
  \/ \E n \in File(a).syms : symbols[File(a).pkg][n] # None
  \/ Top(a).op = "link" /\ File(a).dup

\* importFile and importResult of packageSymbols, with the write lock.
CommitTwice(a) ==
  /\ At(a, "commit") /\ Top(a).file \in files[File(a).pkg]
  /\ IF Top(a).op = "link" THEN Goto(a, "extensions", 1) /\ UNCHANGED outcome ELSE Return(a, FALSE, child[a])
  /\ UNCHANGED <<desc, strict, symbols, files, exts, parent, child, ops>>

\* Mutant: without the second look at the files.
CommitCollidesUnchecked(a) ==
  /\ At(a, "commit") /\ Collides(a)
  /\ HandleError(a)
  /\ Return(a, TRUE, child'[a])
  /\ UNCHANGED <<desc, strict, symbols, files, exts, ops>>

CommitCollides(a) ==
  /\ At(a, "commit") /\ Top(a).file \notin files[File(a).pkg] /\ Collides(a)
  /\ HandleError(a)
  /\ Return(a, TRUE, child'[a])
  /\ UNCHANGED <<desc, strict, symbols, files, exts, ops>>

\* Errors reported before, for another file, stop it too.
CommitAfterErrors(a) ==
  /\ At(a, "commit") /\ Top(a).file \notin files[File(a).pkg] /\ ~Collides(a) /\ Failed(child[a])
  /\ Return(a, TRUE, child[a])
  /\ UNCHANGED <<desc, strict, symbols, files, exts, parent, child, ops>>

Commit(a) ==
  /\ At(a, "commit") /\ Top(a).file \notin files[File(a).pkg] /\ ~Collides(a) /\ ~Failed(child[a])
  /\ symbols' = [symbols EXCEPT ![File(a).pkg] =
                   [n \in Names |-> IF n \in File(a).syms THEN Top(a).file ELSE @[n]]]
  /\ files' = [files EXCEPT ![File(a).pkg] = @ \cup {Top(a).file}]
  /\ Goto(a, "extensions", 1)
  /\ UNCHANGED <<desc, strict, exts, parent, child, ops, outcome>>

-----------------------------------------------------------------------------
(* AddExtension, for each extension of the file.                           *)

Ext(a) == File(a).exts[Top(a).i]

\* getPackage finds the package when each package on the way is a child of
\* the one before.
HasPackage(p) == \A i \in 1..Len(p) : symbols[Prefix(p, i - 1)][Prefix(p, i)] = Pkg

ExtensionFree(a) == HasPackage(Ext(a)[1]) /\ exts[Ext(a)[1]][<<Ext(a)[2], Ext(a)[3]>>] = None

AddExtension(a) ==
  /\ At(a, "extensions") /\ Top(a).i <= Len(File(a).exts) /\ ExtensionFree(a)
  /\ exts' = [exts EXCEPT ![Ext(a)[1]][<<Ext(a)[2], Ext(a)[3]>>] = Top(a).file]
  /\ Goto(a, "extensions", Top(a).i + 1)
  /\ UNCHANGED <<desc, strict, symbols, files, parent, child, ops, outcome>>

\* No package, or a number that is taken.
ExtensionError(a) ==
  /\ At(a, "extensions") /\ Top(a).i <= Len(File(a).exts) /\ ~ExtensionFree(a)
  /\ HandleError(a)
  /\ IF Handled.err THEN Return(a, TRUE, child'[a]) ELSE Goto(a, "extensions", Top(a).i + 1) /\ UNCHANGED outcome
  /\ UNCHANGED <<desc, strict, symbols, files, exts, ops>>

\* Mutant: leaves out the last extension.
ExtensionsDoneEarly(a) ==
  /\ At(a, "extensions") /\ Top(a).i >= Len(File(a).exts)
  /\ Return(a, FALSE, child[a])
  /\ UNCHANGED <<desc, strict, symbols, files, exts, parent, child, ops>>

ExtensionsDone(a) ==
  /\ At(a, "extensions") /\ Top(a).i > Len(File(a).exts)
  /\ Return(a, FALSE, child[a])
  /\ UNCHANGED <<desc, strict, symbols, files, exts, parent, child, ops>>

-----------------------------------------------------------------------------
Step(a) ==
  \/ Imports(a) \/ ImportsDone(a) \/ PackagesDone(a) \/ PackageRead(a) \/ PackageWrite(a) \/ PackageCollides(a)
  \/ Seen(a) \/ CommitTwice(a) \/ CommitCollides(a) \/ CommitAfterErrors(a) \/ Commit(a)
  \/ AddExtension(a) \/ ExtensionError(a) \/ ExtensionsDone(a)

Idle == \A a \in Actors : stack[a] = <<>>

Next ==
  \/ \E a \in Actors : Begin(a) \/ Step(a)
  \/ Idle /\ UNCHANGED vars

Spec == Init /\ [][Next]_vars

-----------------------------------------------------------------------------
(* Properties.                                                             *)

\* The table, the handlers and the calls keep their types; a call in progress
\* is for a file, at an index it has work for.
TypeOK ==
  /\ symbols \in [Packages -> [Names -> Files \cup {None, Pkg}]]
  /\ files \in [Packages -> SUBSET Files]
  /\ exts \in [Packages -> [Names \X Tags -> Files \cup {None}]]
  /\ \A a \in Actors : \A k \in DOMAIN stack[a] :
       /\ stack[a][k].op = IF k = 1 THEN stack[a][k].op ELSE "import"
       /\ stack[a][k].pc \in {"imports", "packages", "package", "seen", "commit", "extensions"}
       /\ stack[a][k].pc = "package" => stack[a][k].i <= Len(desc[stack[a][k].file].pkg)
  /\ outcome \in [Files -> {"no", "busy", "ok", "failed"}]

PackageNames(f) == {Prefix(desc[f].pkg, i) : i \in 1..Len(desc[f].pkg)}
Clash(f, g) == desc[f].syms \cap (desc[g].syms \cup PackageNames(g)) # {}
SameExt(f, g) == \E i \in DOMAIN desc[f].exts, j \in DOMAIN desc[g].exts : desc[f].exts[i] = desc[g].exts[j]

\* No two files of the table declare the same name, and none declares the
\* name of a package of another, although every lock covers the names of one
\* package only.
NamesUnique ==
  \A p, q \in Packages : \A f \in files[p], g \in files[q] : f # g => ~Clash(f, g)

\* A file that is linked successfully is in the table, with all its names and
\* extension numbers under its own name (so that no other file has them), and
\* so are its imports.
LinkedIsRegistered ==
  \A f \in Sources : outcome[f] = "ok" =>
    /\ f \in files[desc[f].pkg]
    /\ \A n \in desc[f].syms : symbols[desc[f].pkg][n] = f
    /\ \A i \in DOMAIN desc[f].exts :
         exts[desc[f].exts[i][1]][<<desc[f].exts[i][2], desc[f].exts[i][3]>>] = f
    /\ \A i \in DOMAIN desc[f].imports : desc[f].imports[i] \in files[desc[desc[f].imports[i]].pkg]

\* No name and no extension number is declared twice.
Clean ==
  \A f, g \in Files :
    /\ ~desc[f].dup /\ (f # g => ~Clash(f, g) /\ ~SameExt(f, g))
    /\ \A i, j \in DOMAIN desc[f].exts : desc[f].exts[i] = desc[f].exts[j] => i = j

\* Files that do not clash never get an error, in whatever order and by
\* however many goroutines they are linked and imported.
NoSpuriousErrors == Clean => ~parent.errsReported
==============================================================================
