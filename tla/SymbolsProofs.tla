---------------------------- MODULE SymbolsProofs ----------------------------
(***************************************************************************)
(* Machine-checked theorems about Symbols, for every set of files with     *)
(* whatever names, packages, imports and extensions, any number of         *)
(* goroutines and any number of operations.                                *)
(***************************************************************************)
EXTENDS Symbols, TLAPS

-----------------------------------------------------------------------------
(* Types.                                                                  *)

Pcs == {"imports", "packages", "package", "seen", "commit", "extensions"}
Frames == [op : {"link", "import"}, file : Files, pc : Pcs, i : Nat \ {0}]
Handlers == [errsReported : BOOLEAN, err : BOOLEAN]
Entries == [Names \X Tags -> Files \cup {None}]

TypeInv ==
  /\ desc \in Descs /\ strict \in BOOLEAN
  /\ symbols \in [Packages -> [Names -> Files \cup {None, Pkg}]]
  /\ files \in [Packages -> SUBSET Files]
  /\ exts \in [Packages -> Entries]
  /\ parent \in Handlers
  /\ child \in [Actors -> Handlers]
  /\ stack \in [Actors -> Seq(Frames)]
  /\ outcome \in [Files -> {"no", "busy", "ok", "failed"}]

\* What a file descriptor is made of.
LEMMA DescFields ==
  ASSUME TypeInv, NEW f \in Files
  PROVE  /\ desc[f].pkg \in Packages /\ desc[f].pkg \in Seq(STRING)
         /\ desc[f].syms \subseteq Names /\ Names \subseteq Seq(STRING)
         /\ desc[f].exts \in Seq(Exts) /\ desc[f].imports \in Seq(Files)
         /\ WellFormed(desc[f])
<1>1. desc \in [Files -> Desc] /\ WellFormed(desc[f])
  BY DescsAssumption, Zenon DEF TypeInv
<1>2. desc[f] \in Desc
  BY <1>1, Zenon
<1>3. <<>> \in Seq(STRING)
  OBVIOUS
<1> QED
  BY <1>1, <1>2, <1>3, NamesAssumption, Zenon DEF Desc, Packages

LEMMA SeqPlace ==
  ASSUME NEW S, NEW s \in Seq(S), NEW i \in Nat \ {0}, i <= Len(s)
  PROVE  i \in DOMAIN s /\ s[i] \in S
OBVIOUS

LEMMA SeqIndex ==
  ASSUME NEW S, NEW s \in Seq(S), NEW i \in DOMAIN s
  PROVE  i \in Nat
OBVIOUS

LEMMA NextPlace ==
  ASSUME NEW S, NEW s \in Seq(S), NEW i \in Nat \ {0}, NEW k, k = i + 1
  PROVE  \A j \in DOMAIN s : j < k - 1 => j < i - 1 \/ j = i - 1
OBVIOUS

LEMMA Trichotomy == \A i, j \in Nat : i < j \/ j < i \/ j = i
OBVIOUS

\* The extension numbers with one entry changed.
Keys == Names \X Tags
Tables == [Packages -> Entries]
Changed(F, p, k, v) == [F EXCEPT ![p][k] = v]
Entered(F, p, k, v) == F \in Tables /\ F[p][k] = v

LEMMA EntryChanged ==
  ASSUME NEW F \in Tables, NEW p \in Packages, NEW k \in Keys, NEW v \in Files
  PROVE  Entered(Changed(F, p, k, v), p, k, v)
BY Zenon DEF Changed, Entered, Entries, Keys, Tables

\* A sequence whose last element is changed, and which has one more.
Grown(s, t, r, e) == t = Append([s EXCEPT ![Len(s)] = r], e)
Placed(s, t, r, e) ==
  Len(t) = Len(s) + 1 /\ t[Len(s)] = r /\ t[Len(s) + 1] = e /\ \A l \in 1..Len(s) : l # Len(s) => t[l] = s[l]

LEMMA PushedSeq ==
  ASSUME NEW s \in Seq(Frames), s # <<>>, NEW r \in Frames, NEW e \in Frames, NEW t, Grown(s, t, r, e)
  PROVE  Placed(s, t, r, e)
<1> SUFFICES ASSUME NEW n, n = Len(s), NEW u, u = [s EXCEPT ![n] = r]
             PROVE  Len(t) = n + 1 /\ t[n] = r /\ t[n + 1] = e /\ \A l \in 1..n : l # n => t[l] = s[l]
  BY Zenon DEF Placed
<1>1. n \in Nat \ {0}
  OBVIOUS
<1>2. u \in Seq(Frames) /\ Len(u) = n /\ u[n] = r /\ \A l \in 1..n : l # n => u[l] = s[l]
  BY <1>1
<1>3. t = Append(u, e)
  BY Zenon DEF Grown
<1> QED
  BY <1>1, <1>2, <1>3

\* Prefixes of names are names, and of packages packages.
LEMMA PrefixFacts ==
  ASSUME NEW n \in Seq(STRING), NEW j \in 0..Len(n)
  PROVE  /\ Prefix(n, j) \in Seq(STRING) /\ Len(Prefix(n, j)) = j
         /\ \A i \in 0..j : Prefix(Prefix(n, j), i) = Prefix(n, i)
<1>1. Prefix(n, j) \in Seq(STRING) /\ Len(Prefix(n, j)) = j
  BY DEF Prefix
<1>2. ASSUME NEW i \in 0..j
      PROVE  Prefix(Prefix(n, j), i) = Prefix(n, i)
  BY DEF Prefix
<1> QED
  BY <1>1, <1>2, Zenon

LEMMA PackagePrefix ==
  ASSUME NEW p \in Packages, NEW i \in 0..Len(p)
  PROVE  Prefix(p, i) \in Packages /\ (i # 0 => Prefix(p, i) \in Names)
<1>0. <<>> \in Seq(STRING)
  OBVIOUS
<1>1. p \in Seq(STRING)
  BY <1>0, NamesAssumption, Zenon DEF Packages
<1>2. CASE i = 0
  <2>1. Prefix(p, 0) = <<>>
    BY <1>1 DEF Prefix
  <2> QED
    BY <1>2, <2>1, Zenon DEF Packages
<1>3. CASE i # 0
  <2>1. p \in Names
    BY <1>3 DEF Packages
  <2>2. i \in 1..Len(p)
    BY <1>1, <1>3
  <2> QED
    BY <2>1, <2>2, NamesAssumption, Zenon DEF Packages
<1> QED
  BY <1>2, <1>3, Zenon

-----------------------------------------------------------------------------
(* The invariants of the table.                                            *)

\* f is in the table.
Known(f) == f \in files[desc[f].pkg]

\* The first n packages on the way to that of f are in the table.
PkgsTo(f, n) ==
  \A j \in 1..Len(desc[f].pkg) :
    j <= n => symbols[Prefix(desc[f].pkg, j - 1)][Prefix(desc[f].pkg, j)] = Pkg

\* The entry of the j-th extension of f.
Owner(f, j) == exts[desc[f].exts[j][1]][<<desc[f].exts[j][2], desc[f].exts[j][3]>>]

\* A file in the table has the entries of its names and packages there, and
\* its imports are in the table.
Filed(f) ==
  /\ \A n \in desc[f].syms : symbols[desc[f].pkg][n] = f
  /\ PkgsTo(f, Len(desc[f].pkg))
  /\ \A g \in Files : (\E j \in DOMAIN desc[f].imports : g = desc[f].imports[j]) => Known(g)

FileInv == \A p \in Packages : \A f \in files[p] : p = desc[f].pkg /\ Filed(f)

LEMMA KnownFiled ==
  ASSUME TypeInv, FileInv, NEW f \in Files, Known(f)
  PROVE  Filed(f)
BY DescFields, Zenon DEF FileInv, Known

\* An entry is there for a file or for a package of a file.
EntryInv ==
  \A p \in Packages, n \in Names :
    /\ \A f \in Files : symbols[p][n] = f => n \in desc[f].syms /\ Known(f)
    /\ symbols[p][n] = Pkg => \E g \in Files : n \in PackageNames(g)

\* A name of a file starts with the package and a first name of the file.
LEMMA FirstName ==
  ASSUME TypeInv, NEW f \in Files, NEW n \in desc[f].syms, NEW m, m = Len(desc[f].pkg) + 1
  PROVE  /\ n \in Seq(STRING) /\ m \in 1..Len(n)
         /\ Prefix(n, m) \in desc[f].syms /\ Prefix(n, m - 1) = desc[f].pkg
<1>1. n \in Seq(STRING) /\ desc[f].pkg \in Seq(STRING) /\ WellFormed(desc[f])
  BY DescFields, Zenon
<1>2. Len(n) \in Nat /\ Len(desc[f].pkg) \in Nat
  BY <1>1
<1>3. Len(n) > Len(desc[f].pkg) /\ Prefix(n, Len(desc[f].pkg)) = desc[f].pkg
      /\ \A i \in Len(desc[f].pkg) + 1..Len(n) : Prefix(n, i) \in desc[f].syms
  BY <1>1, Zenon DEF WellFormed
<1>4. m - 1 = Len(desc[f].pkg) /\ m \in Len(desc[f].pkg) + 1..Len(n) /\ m \in 1..Len(n)
  BY <1>2, <1>3
<1> QED
  BY <1>1, <1>3, <1>4, Zenon

\* No first name of a file in the table is a package of another.
LEMMA NotAPackage ==
  ASSUME TypeInv, FileInv, NEW f \in Files, NEW g \in Files, Known(f), Known(g),
         NEW n \in desc[f].syms, NEW m, m = Len(desc[f].pkg) + 1, m <= Len(desc[g].pkg),
         Prefix(desc[g].pkg, m) = Prefix(n, m)
  PROVE  FALSE
<1>1. n \in Seq(STRING) /\ m \in 1..Len(n) /\ Prefix(n, m) \in desc[f].syms /\ Prefix(n, m - 1) = desc[f].pkg
  BY FirstName, Zenon
<1>2. desc[g].pkg \in Seq(STRING)
  BY DescFields, Zenon
<1>3. m \in 1..Len(desc[g].pkg) /\ m \in 0..Len(desc[g].pkg) /\ m \in 0..Len(n) /\ m - 1 \in 0..m
      /\ Len(desc[g].pkg) <= Len(desc[g].pkg)
  BY <1>1, <1>2
<1>4. Prefix(desc[g].pkg, m - 1) = desc[f].pkg
  <2>1. Prefix(Prefix(desc[g].pkg, m), m - 1) = Prefix(desc[g].pkg, m - 1)
    BY <1>2, <1>3, PrefixFacts, Zenon
  <2>2. Prefix(Prefix(n, m), m - 1) = Prefix(n, m - 1)
    BY <1>1, <1>3, PrefixFacts, Zenon
  <2> QED
    BY <1>1, <2>1, <2>2, Zenon
<1>5. symbols[desc[f].pkg][Prefix(n, m)] = f
  BY <1>1, KnownFiled, Zenon DEF Filed
<1>6. symbols[Prefix(desc[g].pkg, m - 1)][Prefix(desc[g].pkg, m)] = Pkg
  BY <1>3, KnownFiled, Zenon DEF Filed, PkgsTo
<1> QED
  BY <1>4, <1>5, <1>6, OtherAssumption, Zenon

\* So no two files in the table clash.
LEMMA KnownNeverClash ==
  ASSUME TypeInv, FileInv
  PROVE  NamesUnique
<1> SUFFICES ASSUME NEW p \in Packages, NEW q \in Packages, NEW f \in files[p], NEW g \in files[q], f # g,
                    NEW n \in desc[f].syms, n \in desc[g].syms \cup PackageNames(g)
             PROVE  FALSE
  BY Zenon DEF NamesUnique, Clash
<1>1. f \in Files /\ g \in Files /\ Known(f) /\ Known(g)
  BY Zenon DEF TypeInv, FileInv, Known
<1> DEFINE m == Len(desc[f].pkg) + 1
<1>2. n \in Seq(STRING) /\ m \in 1..Len(n) /\ Prefix(n, m) \in desc[f].syms /\ Prefix(n, m - 1) = desc[f].pkg
  BY <1>1, FirstName, Zenon
<1>3. desc[f].pkg \in Seq(STRING) /\ desc[g].pkg \in Seq(STRING)
  BY <1>1, DescFields, Zenon
<1>4. Len(desc[f].pkg) \in Nat /\ Len(desc[g].pkg) \in Nat /\ Len(n) \in Nat
  BY <1>2, <1>3
<1>5. CASE n \in PackageNames(g)
  <2>1. PICK j \in 1..Len(desc[g].pkg) : n = Prefix(desc[g].pkg, j)
    BY <1>5, Zenon DEF PackageNames
  <2>2. j \in 0..Len(desc[g].pkg)
    BY <2>1, <1>4
  <2>3. Len(n) = j
    BY <1>3, <2>1, <2>2, PrefixFacts, Zenon
  <2>4. m \in 0..j /\ m <= Len(desc[g].pkg)
    BY <1>2, <1>4, <2>1, <2>3
  <2>5. Prefix(n, m) = Prefix(desc[g].pkg, m)
    BY <1>3, <2>1, <2>2, <2>4, PrefixFacts, Zenon
  <2> QED
    BY <1>1, <2>4, <2>5, NotAPackage, Zenon
<1>6. CASE n \in desc[g].syms
  <2> DEFINE l == Len(desc[g].pkg) + 1
  <2>1. l \in 1..Len(n) /\ Prefix(n, l) \in desc[g].syms /\ Prefix(n, l - 1) = desc[g].pkg
    BY <1>1, <1>6, FirstName, Zenon
  <2>2. m - 1 \in 0..Len(n) /\ l - 1 \in 0..Len(n)
    BY <1>2, <2>1
  <2>6. m \in Nat /\ l \in Nat
    BY <1>4
  <2>7. l = Len(desc[g].pkg) + 1
    OBVIOUS
  <2>8. m < l \/ l < m \/ l = m
    BY <2>6, Trichotomy, Zenon
  <2> HIDE DEF m, l
  <2>3. CASE m < l
    <3>0. m \in 0..(l - 1)
      BY <2>3, <2>6
    <3>1. m \in 0..(l - 1) /\ m <= Len(desc[g].pkg)
      BY <1>4, <2>6, <2>7, <3>0
    <3>2. Prefix(n, m) = Prefix(desc[g].pkg, m)
      BY <1>2, <2>1, <2>2, <3>1, PrefixFacts, Zenon
    <3> QED
      BY <1>1, <3>1, <3>2, NotAPackage, Zenon DEF m
  <2>4. CASE l < m
    <3>1. l \in 0..(m - 1)
      BY <2>4, <2>6
    <3>3. l <= Len(desc[f].pkg)
      BY <1>4, <2>4 DEF m, l
    <3>2. Prefix(n, l) = Prefix(desc[f].pkg, l)
      BY <1>2, <2>2, <3>1, PrefixFacts, Zenon
    <3> QED
      BY <1>1, <1>6, <3>2, <3>3, NotAPackage, Zenon DEF l
  <2>5. CASE l = m
    <3>1. desc[f].pkg = desc[g].pkg
      BY <1>2, <2>1, <2>5, Zenon
    <3>2. symbols[desc[f].pkg][n] = f /\ symbols[desc[g].pkg][n] = g
      BY <1>1, <1>6, KnownFiled, Zenon DEF Filed
    <3> QED
      BY <3>1, <3>2
  <2> QED
    BY <2>3, <2>4, <2>5, <2>8, Zenon
<1> QED
  BY <1>5, <1>6, Zenon

-----------------------------------------------------------------------------
(* The table only grows.                                                   *)

\* No step takes a file out of the table, or gives an entry of a name or of
\* an extension number to another file.
Grows ==
  /\ desc' = desc
  /\ \A p \in Packages : files[p] \subseteq files'[p]
  /\ \A p \in Packages, n \in Names : symbols[p][n] # None => symbols'[p][n] = symbols[p][n]
  /\ \A p \in Packages, e \in Names \X Tags : exts[p][e] # None => exts'[p][e] = exts[p][e]

\* An extension of a file has a place in the table.
LEMMA ExtPlace ==
  ASSUME TypeInv, NEW f \in Files, NEW j \in DOMAIN desc[f].exts
  PROVE  /\ desc[f].exts[j] \in Exts /\ desc[f].exts[j][1] \in Packages
         /\ <<desc[f].exts[j][2], desc[f].exts[j][3]>> \in Names \X Tags
<1>1. desc[f].exts \in Seq(Exts)
  BY DescFields, Zenon
<1>2. desc[f].exts[j] \in Exts
  BY <1>1
<1> QED
  BY <1>2 DEF Exts

\* What the table holds for a file, it keeps.
LEMMA GrowsKeeps ==
  ASSUME TypeInv, Grows, NEW f \in Files
  PROVE  /\ Known(f) => Known(f)'
         /\ \A n : PkgsTo(f, n) => PkgsTo(f, n)'
         /\ \A j \in DOMAIN desc[f].exts : Owner(f, j) = f => Owner(f, j)' = f
<1>0. desc' = desc /\ desc[f].pkg \in Packages /\ desc[f].pkg \in Seq(STRING)
  BY DescFields, Zenon DEF Grows
<1>1. Known(f) => Known(f)'
  BY <1>0, Zenon DEF Known, Grows
<1>2. ASSUME NEW n, PkgsTo(f, n)
      PROVE  PkgsTo(f, n)'
  <2> SUFFICES ASSUME NEW j \in 1..Len(desc[f].pkg), j <= n
               PROVE  symbols'[Prefix(desc[f].pkg, j - 1)][Prefix(desc[f].pkg, j)] = Pkg
    BY <1>0, Zenon DEF PkgsTo
  <2>1. j \in 0..Len(desc[f].pkg) /\ j - 1 \in 0..Len(desc[f].pkg) /\ j # 0
    BY <1>0
  <2>2. Prefix(desc[f].pkg, j - 1) \in Packages /\ Prefix(desc[f].pkg, j) \in Names
    BY <1>0, <2>1, PackagePrefix, Zenon
  <2>3. symbols[Prefix(desc[f].pkg, j - 1)][Prefix(desc[f].pkg, j)] = Pkg
    BY <1>2, Zenon DEF PkgsTo
  <2>4. Pkg # None
    BY DEF Pkg, None
  <2> QED
    BY <2>2, <2>3, <2>4, Zenon DEF Grows
<1>3. ASSUME NEW j \in DOMAIN desc[f].exts, Owner(f, j) = f
      PROVE  Owner(f, j)' = f
  <2>1. f # None
    BY OtherAssumption
  <2>2. /\ desc[f].exts[j][1] \in Packages
        /\ <<desc[f].exts[j][2], desc[f].exts[j][3]>> \in Names \X Tags
    BY <1>3, ExtPlace, Zenon
  <2>3. exts'[desc[f].exts[j][1]][<<desc[f].exts[j][2], desc[f].exts[j][3]>>] = f
    BY <1>3, <2>1, <2>2, Zenon DEF Owner, Grows
  <2> QED
    BY <1>0, <2>3 DEF Owner
<1> QED
  BY <1>1, <1>2, <1>3, Zenon

-----------------------------------------------------------------------------
(* The invariant of the calls of a goroutine.                              *)

\* Only the first call may be Link, which has a file to link from source; a
\* call below another is in the middle of its imports.
ShapeAt(s, k) ==
  /\ k # 1 => s[k].op = "import"
  /\ k = 1 => (s[k].op = "link" <=> s[k].file \in Sources)
  /\ s[k].op = "link" => s[k].pc # "seen"
  /\ k < Len(s) => /\ s[k].pc = "imports" /\ s[k].i - 1 \in DOMAIN desc[s[k].file].imports
                   /\ s[k + 1].file = desc[s[k].file].imports[s[k].i - 1]

\* A call has been through its packages, or through those before the i-th.
PackagesAt(r) ==
  /\ r.pc \in {"packages", "package"} => r.i <= Len(desc[r.file].pkg) + 1 /\ PkgsTo(r.file, r.i - 1)
  /\ r.pc = "package" => r.i <= Len(desc[r.file].pkg)
  /\ r.pc \in {"seen", "commit"} \/ (r.pc = "imports" /\ r.op = "import") =>
       PkgsTo(r.file, Len(desc[r.file].pkg))

\* A call that met no error has entered its file and the extensions before
\* the i-th, all of its imports, or those before the one it is in.
LoadedAt(r) ==
  /\ r.pc = "extensions" => Known(r.file) /\ \A j \in DOMAIN desc[r.file].exts : j < r.i => Owner(r.file, j) = r.file
  /\ r.pc = "commit" \/ (r.op = "link" /\ r.pc \in {"packages", "package"}) =>
       \A j \in DOMAIN desc[r.file].imports : Known(desc[r.file].imports[j])
  /\ r.pc = "imports" => \A j \in DOMAIN desc[r.file].imports : j < r.i - 1 => Known(desc[r.file].imports[j])

\* The import a call has come back from.
ReturnedAt(r) ==
  r.pc = "imports" /\ r.i - 1 \in DOMAIN desc[r.file].imports => Known(desc[r.file].imports[r.i - 1])

StackAt(s, k) == ShapeAt(s, k) /\ PackagesAt(s[k])
LoadAt(s, k) == LoadedAt(s[k]) /\ (k = Len(s) => ReturnedAt(s[k]))

StackInv ==
  \A a \in Actors : \A k \in 1..Len(stack[a]) :
    StackAt(stack[a], k) /\ (~Failed(child[a]) => LoadAt(stack[a], k))

\* A frame of a call stays right while the table grows.
LEMMA FrameKept ==
  ASSUME TypeInv, Grows, NEW r \in Frames
  PROVE  /\ PackagesAt(r) => PackagesAt(r)'
         /\ LoadedAt(r) => LoadedAt(r)'
         /\ ReturnedAt(r) => ReturnedAt(r)'
<1>0. desc' = desc /\ r.file \in Files
  BY DEF Grows, Frames
<1>1. \A n : PkgsTo(r.file, n) => PkgsTo(r.file, n)'
  BY <1>0, GrowsKeeps, Zenon
<1>2. \A j \in DOMAIN desc[r.file].imports :
        Known(desc[r.file].imports[j]) => Known(desc[r.file].imports[j])'
  <2> TAKE j \in DOMAIN desc[r.file].imports
  <2>1. desc[r.file].imports \in Seq(Files)
    BY <1>0, DescFields, Zenon
  <2>2. desc[r.file].imports[j] \in Files
    BY <2>1
  <2>3. \A f \in Files : f \in files[desc[f].pkg] => f \in files'[desc'[f].pkg]
    BY GrowsKeeps, Zenon DEF Known
  <2> QED
    BY <1>0, <2>2, <2>3, Zenon DEF Known
<1>6. Known(r.file) => Known(r.file)'
  BY <1>0, GrowsKeeps, Zenon
<1>7. \A j \in DOMAIN desc[r.file].exts : Owner(r.file, j) = r.file => Owner(r.file, j)' = r.file
  BY <1>0, GrowsKeeps, Zenon
<1>3. LoadedAt(r) => LoadedAt(r)'
  BY <1>0, <1>2, <1>6, <1>7, Zenon DEF LoadedAt
<1>4. PackagesAt(r) => PackagesAt(r)'
  BY <1>0, <1>1 DEF PackagesAt
<1>5. ReturnedAt(r) => ReturnedAt(r)'
  BY <1>0, <1>2 DEF ReturnedAt
<1> QED
  BY <1>3, <1>4, <1>5, Zenon

-----------------------------------------------------------------------------
(* What the steps of a goroutine do to its calls.                          *)

\* The other goroutines and their handlers are left alone.
Alone(a) == \A b \in Actors \ {a} : stack'[b] = stack[b] /\ child'[b] = child[b]

\* The calls that are left after a return.
Left(a, err) == IF err THEN <<>> ELSE Below(a)

\* The current call goes on as r.
Advance(a, r) ==
  /\ stack[a] # <<>> /\ r \in Frames /\ r.op = Top(a).op /\ r.file = Top(a).file
  /\ stack'[a] = [stack[a] EXCEPT ![Len(stack[a])] = r]

LEMMA TopFrame ==
  ASSUME TypeInv, NEW a \in Actors, stack[a] # <<>>
  PROVE  /\ stack[a] \in Seq(Frames) /\ Len(stack[a]) \in 1..Len(stack[a]) /\ Len(stack[a]) \in Nat \ {0}
         /\ Top(a) \in Frames /\ Top(a) = stack[a][Len(stack[a])]
         /\ Top(a).op \in {"link", "import"} /\ Top(a).file \in Files /\ Top(a).pc \in Pcs /\ Top(a).i \in Nat \ {0}
<1>1. stack[a] \in Seq(Frames)
  BY Zenon DEF TypeInv
<1>2. Len(stack[a]) \in Nat \ {0}
  BY <1>1
<1>3. Top(a) \in Frames /\ Len(stack[a]) \in 1..Len(stack[a])
  BY <1>1, <1>2 DEF Top
<1> QED
  BY <1>1, <1>2, <1>3 DEF Top, Frames

LEMMA GotoAdvances ==
  ASSUME TypeInv, NEW a \in Actors, stack[a] # <<>>, NEW pc \in Pcs, NEW i \in Nat \ {0}, Goto(a, pc, i)
  PROVE  /\ \E r : Advance(a, r) /\ r.pc = pc /\ r.i = i
         /\ stack' \in [Actors -> Seq(Frames)] /\ \A b \in Actors \ {a} : stack'[b] = stack[b]
<1> DEFINE n == Len(stack[a])
           r == [stack[a][n] EXCEPT !.pc = pc, !.i = i]
<1>1. stack \in [Actors -> Seq(Frames)] /\ stack[a] \in Seq(Frames) /\ n \in 1..Len(stack[a])
      /\ Top(a) \in Frames /\ Top(a) = stack[a][n]
  BY TopFrame, Zenon DEF TypeInv
<1>2. r \in Frames /\ r.op = Top(a).op /\ r.file = Top(a).file /\ r.pc = pc /\ r.i = i
  BY <1>1, Zenon DEF Frames
<1>3. stack' = [stack EXCEPT ![a] = [stack[a] EXCEPT ![n] = r]]
  BY <1>1, Zenon DEF Goto
<1> HIDE DEF n, r
<1>4. [stack[a] EXCEPT ![n] = r] \in Seq(Frames)
  BY <1>1, <1>2
<1>5. stack'[a] = [stack[a] EXCEPT ![n] = r]
  BY <1>1, <1>3, Zenon
<1>6. Advance(a, r)
  BY <1>2, <1>5, Zenon DEF Advance, n
<1>7. stack' \in [Actors -> Seq(Frames)] /\ \A b \in Actors \ {a} : stack'[b] = stack[b]
  BY <1>1, <1>3, <1>4, Zenon
<1> QED
  BY <1>2, <1>6, <1>7, Zenon

\* The calls s of a goroutine are right after a step.
Right(a, s) ==
  \A k \in 1..Len(s) : StackAt(s, k)' /\ (~Failed(child'[a]) => LoadAt(s, k)')

LEMMA AllRight ==
  ASSUME \A a \in Actors : \A s : s = stack'[a] => Right(a, s)
  PROVE  StackInv'
<1> SUFFICES ASSUME NEW a \in Actors, NEW k \in 1..Len(stack'[a]), NEW s, s = stack'[a]
             PROVE  StackAt(stack[a], k)' /\ (~Failed(child'[a]) => LoadAt(stack[a], k)')
  BY Zenon DEF StackInv, Failed
<1>1. StackAt(s, k)' /\ (~Failed(child'[a]) => LoadAt(s, k)')
  BY Zenon DEF Right
<1>2. ShapeAt(s, k)' => ShapeAt(stack[a], k)'
  BY Zenon DEF ShapeAt
<1>3. PackagesAt(s[k])' => PackagesAt(stack[a][k])'
  BY Zenon DEF PackagesAt, PkgsTo
<1>4. LoadedAt(s[k])' => LoadedAt(stack[a][k])'
  BY Zenon DEF LoadedAt, Known, Owner
<1>5. ReturnedAt(s[k])' => ReturnedAt(stack[a][k])'
  BY Zenon DEF ReturnedAt, Known
<1> QED
  BY <1>1, <1>2, <1>3, <1>4, <1>5, Zenon DEF StackAt, LoadAt

\* A call begins.
LEMMA NewImport ==
  ASSUME NEW f \in Files, NEW e, e = Frame("import", f)
  PROVE  e \in Frames /\ e.op = "import" /\ e.file = f /\ e.i = 1 /\ e.pc = "packages"
BY DEF Frame, Frames, Pcs

LEMMA NewLink ==
  ASSUME NEW f \in Files, NEW e, e = Frame("link", f)
  PROVE  e \in Frames /\ e.op = "link" /\ e.file = f /\ e.i = 1 /\ e.pc = "imports"
BY DEF Frame, Frames, Pcs

LEMMA NewRight ==
  ASSUME TypeInv, desc' = desc, NEW e \in Frames, e.i = 1,
         (e.op = "link" /\ e.pc = "imports") \/ (e.op = "import" /\ e.pc = "packages")
  PROVE  PackagesAt(e)' /\ LoadedAt(e)' /\ ReturnedAt(e)'
<1>1. e.file \in Files
  BY DEF Frames
<1>2. desc[e.file].pkg \in Seq(STRING) /\ desc[e.file].imports \in Seq(Files)
  BY <1>1, DescFields, Zenon
<1>3. /\ e.i <= Len(desc[e.file].pkg) + 1 /\ \A j \in 1..Len(desc[e.file].pkg) : ~(j <= e.i - 1)
      /\ e.i - 1 \notin DOMAIN desc[e.file].imports /\ \A j \in DOMAIN desc[e.file].imports : ~(j < e.i - 1)
  BY <1>2
<1>4. PackagesAt(e)'
  BY <1>3 DEF PackagesAt, PkgsTo
<1>5. LoadedAt(e)' /\ ReturnedAt(e)'
  BY <1>3 DEF LoadedAt, ReturnedAt
<1> QED
  BY <1>4, <1>5, Zenon

\* The same call, one import further.
Further(q) == [q EXCEPT !.i = q.i + 1]
IsFurther(r, q) == r \in Frames /\ r.op = q.op /\ r.file = q.file /\ r.pc = q.pc /\ r.i = q.i + 1

LEMMA NextFrame ==
  ASSUME NEW q \in Frames
  PROVE  IsFurther(Further(q), q)
BY DEF Frames, Further, IsFurther

\* A call goes on to its next import.
LEMMA NextImportRight ==
  ASSUME TypeInv, desc' = desc, NEW q \in Frames, NEW r \in Frames, q.pc = "imports", r.pc = "imports",
         r.op = q.op, r.file = q.file, r.i = q.i + 1,
         PackagesAt(q)'
  PROVE  PackagesAt(r)' /\ (LoadedAt(q)' /\ ReturnedAt(q)' => LoadedAt(r)')
<1>1. q.file \in Files /\ q.i \in Nat \ {0}
  BY DEF Frames
<1>2. desc[q.file].imports \in Seq(Files)
  BY <1>1, DescFields, Zenon
<1>3. \A j \in DOMAIN desc[q.file].imports : j < r.i - 1 => j < q.i - 1 \/ j = q.i - 1
  BY <1>1, <1>2, NextPlace
<1>4. PackagesAt(r)'
  BY DEF PackagesAt
<1>5. LoadedAt(q)' /\ ReturnedAt(q)' => LoadedAt(r)'
  BY <1>3 DEF LoadedAt, ReturnedAt
<1> QED
  BY <1>4, <1>5, Zenon

\* Where nothing happens to a goroutine, its calls stay right.
LEMMA OthersRight ==
  ASSUME TypeInv, StackInv, Grows, NEW a \in Actors, Alone(a), NEW b \in Actors \ {a}, NEW s, s = stack'[b]
  PROVE  Right(b, s)
<1> SUFFICES ASSUME NEW k \in 1..Len(s)
             PROVE  StackAt(s, k)' /\ (~Failed(child'[b]) => LoadAt(s, k)')
  BY Zenon DEF Right
<1>1. s = stack[b] /\ s \in Seq(Frames) /\ desc' = desc /\ child'[b] = child[b]
  BY Zenon DEF TypeInv, Grows, Alone
<1>2. s[k] \in Frames
  BY <1>1
<1>3. StackAt(s, k) /\ (~Failed(child[b]) => LoadAt(s, k))
  BY <1>1, Zenon DEF StackInv
<1>4. StackAt(s, k)'
  BY <1>1, <1>2, <1>3, FrameKept, Zenon DEF StackAt, ShapeAt
<1>5. LoadAt(s, k) => LoadAt(s, k)'
  BY <1>2, FrameKept, Zenon DEF LoadAt
<1> QED
  BY <1>1, <1>3, <1>4, <1>5, Zenon

\* The calls below the current one stay right, whatever becomes of that one.
LEMMA BelowRight ==
  ASSUME TypeInv, StackInv, Grows, NEW a \in Actors, NEW k \in 1..Len(stack[a]), NEW s, s = stack[a],
         NEW r, r = s[k]
  PROVE  /\ r \in Frames
         /\ ShapeAt(s, k) /\ ShapeAt(s, k)' /\ PackagesAt(r)'
         /\ ~Failed(child[a]) => LoadedAt(r)' /\ (k = Len(s) => ReturnedAt(r)')
<1>1. s \in Seq(Frames) /\ desc' = desc
  BY Zenon DEF TypeInv, Grows
<1>2. r \in Frames
  BY <1>1
<1>3. StackAt(s, k) /\ (~Failed(child[a]) => LoadAt(s, k))
  BY Zenon DEF StackInv
<1>4. ShapeAt(s, k) /\ ShapeAt(s, k)'
  BY <1>1, <1>3, Zenon DEF StackAt, ShapeAt
<1>5. PackagesAt(r) /\ (~Failed(child[a]) => LoadedAt(r) /\ (k = Len(s) => ReturnedAt(r)))
  BY <1>3, Zenon DEF StackAt, LoadAt
<1> QED
  BY <1>2, <1>4, <1>5, FrameKept, Zenon

\* The current call goes on.
LEMMA AdvanceRight ==
  ASSUME TypeInv, StackInv, Grows, NEW a \in Actors, NEW r, Advance(a, r),
         r.op = "link" => r.pc # "seen", PackagesAt(r)',
         ~Failed(child'[a]) => ~Failed(child[a]) /\ LoadedAt(r)' /\ ReturnedAt(r)',
         NEW t, t = stack'[a]
  PROVE  Right(a, t)
<1> SUFFICES ASSUME NEW s, s = stack[a], NEW n, n = Len(s), NEW k \in 1..Len(t)
             PROVE  StackAt(t, k)' /\ (~Failed(child'[a]) => LoadAt(t, k)')
  BY Zenon DEF Right
<1>1. /\ s \in Seq(Frames) /\ n \in Nat \ {0} /\ n \in 1..Len(s)
      /\ r \in Frames /\ r.op = s[n].op /\ r.file = s[n].file /\ t = [s EXCEPT ![n] = r]
  BY TopFrame, Zenon DEF Advance
<1>2. Len(t) = n /\ t[n] = r /\ \A l \in 1..n : l # n => t[l] = s[l]
  BY <1>1
<1>3. k \in 1..n /\ k \in 1..Len(s)
  BY <1>2
<1>4. CASE k = n
  <2>1. ShapeAt(s, k)'
    BY <1>3, BelowRight, Zenon
  <2>2. ShapeAt(t, k)'
    <3>1. ~(k < Len(t))
      BY <1>1, <1>2, <1>4
    <3>2. t[k] = r /\ r.op = s[k].op /\ r.file = s[k].file
      BY <1>1, <1>2, <1>4, Zenon
    <3> QED
      BY <2>1, <3>1, <3>2, Zenon DEF ShapeAt
  <2> QED
    BY <1>2, <1>4, <2>2, Zenon DEF StackAt, LoadAt
<1>5. CASE k # n
  <2> SUFFICES ASSUME NEW q, q = s[k]
               PROVE  StackAt(t, k)' /\ (~Failed(child'[a]) => LoadAt(t, k)')
    BY Zenon
  <2>1. t[k] = q /\ k < n /\ k + 1 \in 1..n /\ k < Len(s) /\ k < Len(t)
    BY <1>1, <1>2, <1>3, <1>5
  <2>2. t[k + 1].file = s[k + 1].file
    BY <1>1, <1>2, <2>1
  <2>3. ShapeAt(s, k)' /\ PackagesAt(q)' /\ (~Failed(child[a]) => LoadedAt(q)')
    BY <1>3, BelowRight, Zenon
  <2>4. ShapeAt(t, k)'
    BY <2>1, <2>2, <2>3, Zenon DEF ShapeAt
  <2> QED
    BY <1>2, <1>5, <2>1, <2>3, <2>4, Zenon DEF StackAt, LoadAt
<1> QED
  BY <1>4, <1>5, Zenon

\* The current call returns, having entered its file unless there was an error.
LEMMA ReturnRight ==
  ASSUME TypeInv, StackInv, Grows, NEW a \in Actors, stack[a] # <<>>,
         NEW err, NEW t, t = stack'[a], t = Left(a, err),
         NEW f, f = Top(a).file, ~err /\ ~Failed(child'[a]) => ~Failed(child[a]) /\ Known(f)'
  PROVE  Right(a, t)
<1> SUFFICES ASSUME NEW s, s = stack[a], NEW n, n = Len(s), NEW k \in 1..Len(t), NEW q, q = s[k]
             PROVE  StackAt(t, k)' /\ (~Failed(child'[a]) => LoadAt(t, k)')
  BY Zenon DEF Right
<1>1. s \in Seq(Frames) /\ n \in Nat \ {0} /\ s[n].file = f /\ desc' = desc
  BY TopFrame, Zenon DEF Grows
<1>2. ~err
  BY DEF Left
<1>3. t = SubSeq(s, 1, n - 1)
  BY <1>2, Zenon DEF Left, Below
<1>4. Len(t) = n - 1 /\ \A l \in 1..n - 1 : t[l] = s[l]
  BY <1>1, <1>3
<1>5. k \in 1..n - 1 /\ k \in 1..n /\ k \in 1..Len(s) /\ k < n /\ t[k] = q
  BY <1>1, <1>4
<1>6. ShapeAt(s, k) /\ ShapeAt(s, k)' /\ PackagesAt(q)' /\ (~Failed(child[a]) => LoadedAt(q)')
  BY <1>5, BelowRight, Zenon
<1>7. ShapeAt(t, k)'
  <2>1. k < Len(t) => k < Len(s) /\ k + 1 \in 1..n - 1
    BY <1>1, <1>4, <1>5
  <2>2. k < Len(t) => t[k + 1] = s[k + 1]
    BY <1>4, <2>1, Zenon
  <2> QED
    BY <1>5, <1>6, <2>1, <2>2, Zenon DEF ShapeAt
<1>8. ASSUME k = Len(t), ~Failed(child'[a])
      PROVE  ReturnedAt(q)'
  <2>1. k + 1 = n
    BY <1>1, <1>4, <1>8
  <2>2. f = desc[q.file].imports[q.i - 1]
    BY <1>1, <1>5, <1>6, <2>1, Zenon DEF ShapeAt
  <2>3. Known(f)'
    BY <1>2, <1>8, Zenon
  <2> QED
    BY <1>1, <2>2, <2>3, Zenon DEF ReturnedAt, Known
<1> QED
  BY <1>2, <1>5, <1>6, <1>7, <1>8, Zenon DEF StackAt, LoadAt

\* The call e, an Import, on top of the one that goes on as r.
Pushed(s, t, r, e) ==
  /\ Len(t) = Len(s) + 1 /\ t[Len(s)] = r /\ t[Len(s) + 1] = e /\ \A l \in 1..Len(s) : l # Len(s) => t[l] = s[l]
  /\ r \in Frames /\ r.op = s[Len(s)].op /\ r.file = s[Len(s)].file /\ r.pc = "imports" /\ r.i = s[Len(s)].i + 1
  /\ e \in Frames /\ e.op = "import" /\ e.i = 1 /\ e.pc = "packages"
  /\ s[Len(s)].i \in DOMAIN desc[r.file].imports /\ e.file = desc[r.file].imports[s[Len(s)].i]

LEMMA ImportsPushes ==
  ASSUME TypeInv, NEW a \in Actors, Imports(a), NEW s, s = stack[a], NEW t, t = stack'[a]
  PROVE  \E r, e : Pushed(s, t, r, e)
<1> SUFFICES ASSUME NEW n, n = Len(s), NEW f, f = s[n].file, NEW i, i = s[n].i, NEW g, g = desc[f].imports[i]
             PROVE  \E r, e : Pushed(s, t, r, e)
  BY Zenon
<1> DEFINE r == [s[n] EXCEPT !.i = i + 1]
<1>0. stack[a] # <<>> /\ s[n].pc = "imports" /\ i <= Len(desc[f].imports)
  BY Zenon DEF Imports, At, Top, File
<1>1. /\ s \in Seq(Frames) /\ n \in Nat \ {0} /\ n \in 1..Len(s)
      /\ s[n] \in Frames /\ i \in Nat \ {0} /\ f \in Files /\ Top(a) = s[n]
  BY <1>0, TopFrame, Zenon
<1>2. desc[f].imports \in Seq(Files) /\ g \in Files /\ i \in DOMAIN desc[f].imports
  <2>1. desc[f].imports \in Seq(Files)
    BY <1>1, DescFields, Zenon
  <2> QED
    BY <1>0, <1>1, <2>1, SeqPlace, Zenon
<1>5. PICK e : /\ e = Frame("import", g)
               /\ e \in Frames /\ e.op = "import" /\ e.file = g /\ e.i = 1 /\ e.pc = "packages"
  BY <1>2, NewImport, Zenon
<1>3. t = Append([s EXCEPT ![n] = r], e)
  <2>1. g = File(a).imports[Top(a).i] /\ r = [s[n] EXCEPT !.i = Top(a).i + 1]
    BY <1>1, Zenon DEF File
  <2>2. stack' = [stack EXCEPT ![a] = Append([s EXCEPT ![n] = r], e)]
    BY <1>1, <1>5, <2>1, Zenon DEF Imports
  <2> QED
    BY <2>2, Zenon DEF TypeInv
<1>6. e \in Frames /\ e.op = "import" /\ e.file = g /\ e.i = 1 /\ e.pc = "packages"
  BY <1>5, Zenon
<1>4. r \in Frames /\ r.op = s[n].op /\ r.file = f /\ r.pc = "imports" /\ r.i = i + 1
  <2>1. r = Further(s[n]) /\ IsFurther(Further(s[n]), s[n])
    BY <1>1, NextFrame, Zenon DEF Further
  <2> QED
    BY <1>0, <2>1, Zenon DEF IsFurther
<1> HIDE DEF r
<1>7. Placed(s, t, r, e)
  <2>1. s # <<>> /\ Grown(s, t, r, e)
    BY <1>0, <1>3, Zenon DEF Grown
  <2> QED
    BY <1>1, <1>4, <1>6, <2>1, PushedSeq, Zenon
<1>8. s[n].i \in DOMAIN desc[r.file].imports /\ e.file = desc[r.file].imports[s[n].i]
  BY <1>2, <1>4, <1>6, Zenon
<1>9. Pushed(s, t, r, e)
  <2>1. r.op = s[Len(s)].op /\ r.file = s[Len(s)].file /\ r.i = s[Len(s)].i + 1
    BY <1>4, Zenon
  <2>2. s[Len(s)].i \in DOMAIN desc[r.file].imports /\ e.file = desc[r.file].imports[s[Len(s)].i]
    BY <1>8, Zenon
  <2> QED
    BY <1>4, <1>6, <1>7, <2>1, <2>2, Zenon DEF Pushed, Placed
<1> QED
  BY <1>9, Zenon

\* The current call begins an Import.
LEMMA ImportsRight ==
  ASSUME TypeInv, StackInv, Grows, NEW a \in Actors, Imports(a), NEW t, t = stack'[a]
  PROVE  Right(a, t)
<1> SUFFICES ASSUME NEW s, s = stack[a], NEW n, n = Len(s), NEW k \in 1..Len(t), NEW q, q = s[k],
                    NEW f, f = s[n].file, NEW i, i = s[n].i
             PROVE  StackAt(t, k)' /\ (~Failed(child'[a]) => LoadAt(t, k)')
  BY Zenon DEF Right
<1>0. stack[a] # <<>> /\ s[n].pc = "imports" /\ child' = child /\ desc' = desc
  BY DEF Imports, At, Top
<1>1. s \in Seq(Frames) /\ n \in Nat \ {0} /\ n \in 1..Len(s) /\ s[n] \in Frames /\ i \in Nat \ {0}
  BY <1>0, TopFrame, Zenon
<1>5. PICK r, e : Pushed(s, t, r, e)
  BY ImportsPushes, Zenon
<1>2. i \in DOMAIN desc[f].imports /\ e.file = desc[f].imports[i]
  BY <1>5, Zenon DEF Pushed
<1>4. r \in Frames /\ r.op = s[n].op /\ r.file = f /\ r.pc = "imports" /\ r.i = i + 1
  BY <1>5, Zenon DEF Pushed
<1>6. e \in Frames /\ e.op = "import" /\ e.i = 1 /\ e.pc = "packages"
  BY <1>5, Zenon DEF Pushed
<1>7. Len(t) = n + 1 /\ t[n] = r /\ t[n + 1] = e /\ \A l \in 1..n : l # n => t[l] = s[l]
  BY <1>5, Zenon DEF Pushed
<1>8. CASE k = n + 1
  <2>4. k # 1 /\ ~(k < Len(t)) /\ t[k] = e
    BY <1>1, <1>7, <1>8
  <2>5. e.op = "import" /\ e.op # "link"
    BY <1>6
  <2>1. ShapeAt(t, k)'
    BY <2>4, <2>5, Zenon DEF ShapeAt
  <2>2. PackagesAt(e)' /\ LoadedAt(e)' /\ ReturnedAt(e)'
    BY <1>0, <1>6, NewRight, Zenon
  <2> QED
    BY <1>7, <2>1, <2>2, <2>4, Zenon DEF StackAt, LoadAt
<1>9. CASE k = n
  <2>1. ShapeAt(s, n) /\ PackagesAt(q)' /\ (~Failed(child[a]) => LoadedAt(q)' /\ ReturnedAt(q)')
    BY <1>1, <1>9, BelowRight, Zenon
  <2>4. r.i - 1 = i /\ r.pc # "seen"
    BY <1>1, <1>4
  <2>6. (n # 1 => r.op = "import") /\ (n = 1 => (r.op = "link" <=> r.file \in Sources))
    BY <1>4, <2>1, Zenon DEF ShapeAt
  <2>7. r.i - 1 \in DOMAIN desc'[r.file].imports /\ e.file = desc'[r.file].imports[r.i - 1]
    BY <1>0, <1>2, <1>4, <1>6, <2>4, Zenon
  <2>2. ShapeAt(t, n)'
    BY <1>4, <1>7, <2>4, <2>6, <2>7, Zenon DEF ShapeAt
  <2>3. PackagesAt(r)' /\ (LoadedAt(q)' /\ ReturnedAt(q)' => LoadedAt(r)')
    BY <1>0, <1>1, <1>4, <1>9, <2>1, NextImportRight, Zenon
  <2>5. n # Len(t)
    BY <1>1, <1>7
  <2> QED
    BY <1>0, <1>7, <1>9, <2>1, <2>2, <2>3, <2>5, Zenon DEF StackAt, LoadAt
<1>10. CASE k \in 1..n /\ k # n
  <2>1. k \in 1..Len(s) /\ t[k] = q /\ k # Len(t) /\ k < n /\ k + 1 \in 1..n /\ k < Len(s)
    BY <1>1, <1>7, <1>10
  <2>2. t[k + 1].file = s[k + 1].file
    BY <1>1, <1>4, <1>7, <2>1, Zenon
  <2>3. ShapeAt(s, k)' /\ PackagesAt(q)' /\ (~Failed(child[a]) => LoadedAt(q)')
    BY <2>1, BelowRight, Zenon
  <2>4. ShapeAt(t, k)'
    BY <1>1, <1>7, <2>1, <2>2, <2>3, Zenon DEF ShapeAt
  <2> QED
    BY <1>0, <2>1, <2>3, <2>4, Zenon DEF StackAt, LoadAt
<1> QED
  BY <1>1, <1>7, <1>8, <1>9, <1>10

-----------------------------------------------------------------------------
(* The effect of each step on its own variables.                           *)

\* An error is reported to the handler of the goroutine, which stays failed.
LEMMA ErrorHandled ==
  ASSUME TypeInv, NEW a \in Actors, HandleError(a)
  PROVE  /\ parent' \in Handlers /\ child' \in [Actors -> Handlers]
         /\ Failed(child'[a]) /\ \A b \in Actors \ {a} : child'[b] = child[b]
         /\ Handled.err \in BOOLEAN
<1>1. Handled \in Handlers /\ Handled.err \in BOOLEAN
  BY DEF TypeInv, Handlers, Handled
<1> SUFFICES ASSUME NEW h \in Handlers, h = [errsReported |-> TRUE, err |-> Handled.err], h.errsReported = TRUE
             PROVE  /\ parent' \in Handlers /\ child' \in [Actors -> Handlers]
                    /\ Failed(child'[a]) /\ \A b \in Actors \ {a} : child'[b] = child[b]
  <2>1. [errsReported |-> TRUE, err |-> Handled.err] \in Handlers
    BY <1>1 DEF Handlers
  <2> QED
    BY <1>1, <2>1, Zenon
<1>2. child' = [child EXCEPT ![a] = h] /\ parent' = Handled
  BY Zenon DEF HandleError
<1>3. child' \in [Actors -> Handlers] /\ child'[a] = h /\ \A b \in Actors \ {a} : child'[b] = child[b]
  BY <1>2, Zenon DEF TypeInv
<1> QED
  BY <1>1, <1>2, <1>3, Zenon DEF Failed

\* A call returns; when it is the first one its file gets an outcome, which is
\* a success of Link only without any error.
Ends(a, err) ==
  /\ stack[a] # <<>> /\ stack'[a] = Left(a, err)
  /\ IF Left(a, err) # <<>> THEN outcome' = outcome
     ELSE \E v \in {"ok", "failed"} :
            /\ outcome' = [outcome EXCEPT ![stack[a][1].file] = v]
            /\ v = "ok" /\ stack[a][1].op = "link" => ~err /\ ~Failed(child'[a])

LEMMA ReturnEnds ==
  ASSUME TypeInv, NEW a \in Actors, stack[a] # <<>>, NEW err \in BOOLEAN, NEW h, Return(a, err, h), h = child'[a]
  PROVE  /\ Ends(a, err)
         /\ stack' \in [Actors -> Seq(Frames)] /\ \A b \in Actors \ {a} : stack'[b] = stack[b]
         /\ outcome' \in [Files -> {"no", "busy", "ok", "failed"}]
<1>1. stack' = [stack EXCEPT ![a] = Left(a, err)]
  BY Zenon DEF Return, Left
<1>2. Left(a, err) \in Seq(Frames)
  <2>1. stack[a] \in Seq(Frames) /\ Len(stack[a]) \in Nat \ {0}
    BY TopFrame, Zenon
  <2>2. Below(a) \in Seq(Frames)
    BY <2>1 DEF Below
  <2>3. <<>> \in Seq(Frames)
    OBVIOUS
  <2> QED
    BY <2>2, <2>3, Zenon DEF Left
<1>3. stack' \in [Actors -> Seq(Frames)] /\ stack'[a] = Left(a, err) /\ \A b \in Actors \ {a} : stack'[b] = stack[b]
  BY <1>1, <1>2, Zenon DEF TypeInv
<1>4. stack[a][1].file \in Files
  <2>1. stack[a] \in Seq(Frames) /\ Len(stack[a]) \in Nat \ {0}
    BY TopFrame, Zenon
  <2>2. stack[a][1] \in Frames
    BY <2>1
  <2> QED
    BY <2>2 DEF Frames
<1>5. CASE Left(a, err) # <<>>
  <2>1. outcome' = outcome
    BY <1>5, Zenon DEF Return, Left
  <2> QED
    BY <1>3, <1>5, <2>1, Zenon DEF Ends, TypeInv
<1>6. CASE Left(a, err) = <<>>
  <2>1. PICK v : /\ v = IF err \/ (stack[a][1].op = "link" /\ Failed(h)) THEN "failed" ELSE "ok"
                 /\ outcome' = [outcome EXCEPT ![stack[a][1].file] = v]
    BY <1>6, Zenon DEF Return, Left
  <2>2. v \in {"ok", "failed"} /\ (v = "ok" /\ stack[a][1].op = "link" => ~err /\ ~Failed(h))
    BY <2>1
  <2>3. outcome' \in [Files -> {"no", "busy", "ok", "failed"}]
    <3>1. v \in {"no", "busy", "ok", "failed"}
      BY <2>2
    <3> QED
      BY <1>4, <2>1, <3>1, Zenon DEF TypeInv
  <2> QED
    BY <1>3, <1>6, <2>1, <2>2, <2>3, Zenon DEF Ends
<1> QED
  BY <1>3, <1>5, <1>6, Zenon

\* The current call goes on, and does not leave the extensions.
Moved(a) ==
  /\ outcome' = outcome
  /\ \E r : Advance(a, r) /\ (Top(a).pc = "extensions" => r.pc = "extensions")

Ended(a) == \E err \in BOOLEAN : Ends(a, err)

\* What each step of a goroutine comes to.
Summary(a) ==
  /\ TypeInv' /\ Grows /\ Alone(a) /\ stack[a] # <<>> /\ ops' = ops
  /\ \A t : t = stack'[a] => Right(a, t)
  /\ Moved(a) \/ Ended(a) \/ Imports(a)

\* The current call before a step.
LEMMA TopRight ==
  ASSUME TypeInv, StackInv, NEW a \in Actors, stack[a] # <<>>
  PROVE  /\ PackagesAt(Top(a)) /\ (Top(a).op = "link" => Top(a).pc # "seen")
         /\ ~Failed(child[a]) => LoadedAt(Top(a)) /\ ReturnedAt(Top(a))
<1>1. Len(stack[a]) \in 1..Len(stack[a]) /\ Top(a) = stack[a][Len(stack[a])]
  BY TopFrame, Zenon
<1>2. StackAt(stack[a], Len(stack[a])) /\ (~Failed(child[a]) => LoadAt(stack[a], Len(stack[a])))
  BY <1>1, Zenon DEF StackInv
<1> QED
  BY <1>1, <1>2, Zenon DEF StackAt, LoadAt, ShapeAt

\* The current call may be at pc with index i, before and after a step.
Fits(a, pc, i) ==
  \A r \in Frames : r.op = Top(a).op /\ r.file = Top(a).file /\ r.pc = pc /\ r.i = i =>
    PackagesAt(r) /\ (~Failed(child[a]) => LoadedAt(r) /\ ReturnedAt(r))
Follows(a, pc, i) ==
  \A r \in Frames : r.op = Top(a).op /\ r.file = Top(a).file /\ r.pc = pc /\ r.i = i =>
    PackagesAt(r)' /\ (~Failed(child'[a]) => ~Failed(child[a]) /\ LoadedAt(r)' /\ ReturnedAt(r)')

\* A step that goes on with the current call.
LEMMA MovedSummary ==
  ASSUME TypeInv, StackInv, Grows, NEW a \in Actors, stack[a] # <<>>,
         NEW pc \in Pcs, NEW i \in Nat \ {0}, Goto(a, pc, i),
         symbols' \in [Packages -> [Names -> Files \cup {None, Pkg}]], files' \in [Packages -> SUBSET Files],
         exts' \in [Packages -> Entries], parent' \in Handlers, child' \in [Actors -> Handlers],
         \A b \in Actors \ {a} : child'[b] = child[b], UNCHANGED <<strict, ops, outcome>>,
         Top(a).op = "link" => pc # "seen", Top(a).pc = "extensions" => pc = "extensions",
         Follows(a, pc, i)
  PROVE  Summary(a)
<1>1. /\ \E r : Advance(a, r) /\ r.pc = pc /\ r.i = i
      /\ stack' \in [Actors -> Seq(Frames)] /\ \A b \in Actors \ {a} : stack'[b] = stack[b]
  BY GotoAdvances, Zenon
<1>2. PICK r : Advance(a, r) /\ r.pc = pc /\ r.i = i
  BY <1>1, Zenon
<1>3. r \in Frames /\ r.op = Top(a).op /\ r.file = Top(a).file
  BY <1>2, Zenon DEF Advance
<1>4. \A t : t = stack'[a] => Right(a, t)
  BY <1>2, <1>3, AdvanceRight, Zenon DEF Follows
<1>5. TypeInv' /\ Alone(a)
  BY <1>1, Zenon DEF TypeInv, Grows, Alone
<1> QED
  BY <1>2, <1>4, <1>5, Zenon DEF Summary, Moved

\* The same where the table and the handlers are left alone.
LEMMA QuietSummary ==
  ASSUME TypeInv, StackInv, NEW a \in Actors, stack[a] # <<>>,
         NEW pc \in Pcs, NEW i \in Nat \ {0}, Goto(a, pc, i),
         UNCHANGED <<desc, strict, symbols, files, exts, parent, child, ops, outcome>>,
         Top(a).op = "link" => pc # "seen", Top(a).pc = "extensions" => pc = "extensions",
         Fits(a, pc, i)
  PROVE  Summary(a)
<1>1. Grows
  BY Zenon DEF Grows
<1>2. Follows(a, pc, i)
  BY <1>1, FrameKept, Zenon DEF Fits, Follows
<1>3. /\ symbols' \in [Packages -> [Names -> Files \cup {None, Pkg}]] /\ files' \in [Packages -> SUBSET Files]
      /\ exts' \in [Packages -> Entries] /\ parent' \in Handlers /\ child' \in [Actors -> Handlers]
  BY Zenon DEF TypeInv
<1>4. (\A b \in Actors \ {a} : child'[b] = child[b]) /\ UNCHANGED <<strict, ops, outcome>>
  BY Zenon
<1> QED
  BY <1>1, <1>2, <1>3, <1>4, MovedSummary, Zenon

\* A step that returns from the current call.
LEMMA EndedSummary ==
  ASSUME TypeInv, StackInv, NEW a \in Actors, stack[a] # <<>>, NEW err \in BOOLEAN, NEW h, Return(a, err, h),
         h = child'[a], parent' \in Handlers, child' \in [Actors -> Handlers],
         \A b \in Actors \ {a} : child'[b] = child[b], UNCHANGED <<desc, strict, symbols, files, exts, ops>>,
         ~err /\ ~Failed(child'[a]) => ~Failed(child[a]) /\ Known(Top(a).file)
  PROVE  Summary(a)
<1>1. Grows
  BY Zenon DEF Grows
<1>2. /\ Ends(a, err)
      /\ stack' \in [Actors -> Seq(Frames)] /\ \A b \in Actors \ {a} : stack'[b] = stack[b]
      /\ outcome' \in [Files -> {"no", "busy", "ok", "failed"}]
  BY ReturnEnds, Zenon
<1>3. ASSUME NEW t, t = stack'[a]
      PROVE  Right(a, t)
  <2> SUFFICES ASSUME NEW f, f = Top(a).file
               PROVE  Right(a, t)
    BY Zenon
  <2>1. t = Left(a, err)
    BY <1>2, <1>3, Zenon DEF Ends
  <2>2. Known(f) => Known(f)'
    BY Zenon DEF Known
  <2> QED
    BY <1>1, <1>3, <2>1, <2>2, ReturnRight, Zenon
<1>4. TypeInv' /\ Alone(a)
  BY <1>2, Zenon DEF TypeInv, Alone
<1> QED
  BY <1>1, <1>2, <1>3, <1>4, Zenon DEF Summary, Ended

-----------------------------------------------------------------------------
(* The steps one by one.                                                   *)

LEMMA ImportsSummary ==
  ASSUME TypeInv, StackInv, NEW a \in Actors, Imports(a)
  PROVE  Summary(a)
<1>1. stack[a] # <<>> /\ UNCHANGED <<desc, strict, symbols, files, exts, parent, child, ops, outcome>>
  BY Zenon DEF Imports, At
<1>2. Grows
  BY <1>1, Zenon DEF Grows
<1>3. \A t : t = stack'[a] => Right(a, t)
  BY <1>2, ImportsRight, Zenon
<1>4. stack' \in [Actors -> Seq(Frames)] /\ \A b \in Actors \ {a} : stack'[b] = stack[b]
  <2> SUFFICES ASSUME NEW s, s = stack[a], NEW n, n = Len(s), NEW r, r = [s[n] EXCEPT !.i = Top(a).i + 1],
                      NEW g, g = File(a).imports[Top(a).i]
               PROVE  stack' \in [Actors -> Seq(Frames)] /\ \A b \in Actors \ {a} : stack'[b] = stack[b]
    BY Zenon
  <2>1. s \in Seq(Frames) /\ n \in 1..Len(s) /\ n \in Nat \ {0} /\ s[n] \in Frames /\ Top(a).i \in Nat \ {0} /\ Top(a).file \in Files
    BY <1>1, TopFrame, Zenon
  <2>2. r \in Frames
    <3>1. Top(a) = s[n]
      BY <1>1, TopFrame, Zenon
    <3>2. r = Further(s[n]) /\ IsFurther(Further(s[n]), s[n])
      BY <2>1, <3>1, NextFrame, Zenon DEF Further
    <3> QED
      BY <3>2, Zenon DEF IsFurther
  <2>3. g \in Files
    <3>1. File(a).imports \in Seq(Files)
      BY <2>1, DescFields, Zenon DEF File
    <3>2. Top(a).i <= Len(File(a).imports)
      BY Zenon DEF Imports
    <3> QED
      BY <2>1, <3>1, <3>2
  <2>4. PICK e : e = Frame("import", g) /\ e \in Frames
    BY <2>3, NewImport, Zenon
  <2>5. stack' = [stack EXCEPT ![a] = Append([s EXCEPT ![n] = r], e)]
    BY <2>4, Zenon DEF Imports
  <2>6. Append([s EXCEPT ![n] = r], e) \in Seq(Frames)
    BY <2>1, <2>2, <2>4
  <2> QED
    BY <2>5, <2>6, Zenon DEF TypeInv
<1> QED
  BY <1>1, <1>2, <1>3, <1>4, Zenon DEF Summary, TypeInv, Alone

LEMMA ImportsDoneSummary ==
  ASSUME TypeInv, StackInv, NEW a \in Actors, ImportsDone(a)
  PROVE  Summary(a)
<1> SUFFICES ASSUME NEW f, f = Top(a).file, NEW i, i = Top(a).i
             PROVE  Summary(a)
  BY Zenon
<1>1. /\ stack[a] # <<>> /\ Top(a).pc = "imports" /\ i > Len(desc[f].imports)
      /\ Goto(a, IF Top(a).op = "link" THEN "packages" ELSE "commit", 1)
      /\ UNCHANGED <<desc, strict, symbols, files, exts, parent, child, ops, outcome>>
  BY Zenon DEF ImportsDone, At, File
<1>2. f \in Files /\ i \in Nat \ {0} /\ Top(a).op \in {"link", "import"}
  BY <1>1, TopFrame, Zenon
<1>3. desc[f].imports \in Seq(Files) /\ desc[f].pkg \in Seq(STRING)
  BY <1>2, DescFields, Zenon
<1>4. PackagesAt(Top(a)) /\ (~Failed(child[a]) => LoadedAt(Top(a)) /\ ReturnedAt(Top(a)))
  BY <1>1, TopRight, Zenon
<1>5. ~Failed(child[a]) => \A j \in DOMAIN desc[f].imports : Known(desc[f].imports[j])
  <2>1. \A j \in DOMAIN desc[f].imports : j < i - 1 \/ j = i - 1
    BY <1>1, <1>2, <1>3
  <2> QED
    BY <1>1, <1>4, <2>1, Zenon DEF LoadedAt, ReturnedAt
<1>6. CASE Top(a).op = "link"
  <2>1. "packages" \in Pcs /\ 1 \in Nat \ {0} /\ "packages" # "seen" /\ Top(a).pc # "extensions"
    BY <1>1 DEF Pcs
  <2>2. PkgsTo(f, 0) /\ 1 <= Len(desc[f].pkg) + 1
    BY <1>3 DEF PkgsTo
  <2>3. ASSUME NEW r \in Frames, r.op = Top(a).op, r.file = Top(a).file, r.pc = "packages", r.i = 1
        PROVE  PackagesAt(r) /\ (~Failed(child[a]) => LoadedAt(r) /\ ReturnedAt(r))
    BY <1>5, <2>2, <2>3 DEF PackagesAt, LoadedAt, ReturnedAt
  <2>5. Fits(a, "packages", 1)
    BY <2>3, Zenon DEF Fits
  <2>4. Goto(a, "packages", 1)
    BY <1>1, <1>6, Zenon
  <2> QED
    BY <1>1, <2>1, <2>4, <2>5, QuietSummary, Zenon
<1>7. CASE Top(a).op = "import"
  <2>1. "commit" \in Pcs /\ 1 \in Nat \ {0} /\ "commit" # "seen" /\ Top(a).pc # "extensions" /\ Top(a).op # "link"
    BY <1>1, <1>7 DEF Pcs
  <2>2. PkgsTo(f, Len(desc[f].pkg))
    BY <1>1, <1>4, <1>7, Zenon DEF PackagesAt
  <2>3. ASSUME NEW r \in Frames, r.op = Top(a).op, r.file = Top(a).file, r.pc = "commit", r.i = 1
        PROVE  PackagesAt(r) /\ (~Failed(child[a]) => LoadedAt(r) /\ ReturnedAt(r))
    BY <1>5, <2>2, <2>3 DEF PackagesAt, LoadedAt, ReturnedAt
  <2>5. Fits(a, "commit", 1)
    BY <2>3, Zenon DEF Fits
  <2>4. Goto(a, "commit", 1)
    BY <1>1, <2>1, Zenon
  <2> QED
    BY <1>1, <2>1, <2>4, <2>5, QuietSummary, Zenon
<1> QED
  BY <1>2, <1>6, <1>7, Zenon

LEMMA PackagesDoneSummary ==
  ASSUME TypeInv, StackInv, NEW a \in Actors, PackagesDone(a)
  PROVE  Summary(a)
<1> SUFFICES ASSUME NEW f, f = Top(a).file, NEW i, i = Top(a).i
             PROVE  Summary(a)
  BY Zenon
<1>1. /\ stack[a] # <<>> /\ Top(a).pc = "packages" /\ i > Len(desc[f].pkg)
      /\ Goto(a, IF Top(a).op = "link" THEN "commit" ELSE "seen", 1)
      /\ UNCHANGED <<desc, strict, symbols, files, exts, parent, child, ops, outcome>>
  BY Zenon DEF PackagesDone, At, File
<1>2. f \in Files /\ i \in Nat \ {0} /\ Top(a).op \in {"link", "import"}
  BY <1>1, TopFrame, Zenon
<1>3. desc[f].pkg \in Seq(STRING)
  BY <1>2, DescFields, Zenon
<1>4. PackagesAt(Top(a)) /\ (~Failed(child[a]) => LoadedAt(Top(a)) /\ ReturnedAt(Top(a)))
  BY <1>1, TopRight, Zenon
<1>5. PkgsTo(f, Len(desc[f].pkg))
  <2>1. i <= Len(desc[f].pkg) + 1 /\ PkgsTo(f, i - 1)
    BY <1>1, <1>4 DEF PackagesAt
  <2>2. i - 1 = Len(desc[f].pkg)
    BY <1>1, <1>2, <1>3, <2>1
  <2> QED
    BY <2>1, <2>2, Zenon
<1>6. CASE Top(a).op = "link"
  <2>1. "commit" \in Pcs /\ 1 \in Nat \ {0} /\ "commit" # "seen" /\ Top(a).pc # "extensions"
    BY <1>1 DEF Pcs
  <2>2. ~Failed(child[a]) => \A j \in DOMAIN desc[f].imports : Known(desc[f].imports[j])
    BY <1>1, <1>4, <1>6 DEF LoadedAt
  <2>3. ASSUME NEW r \in Frames, r.op = Top(a).op, r.file = Top(a).file, r.pc = "commit", r.i = 1
        PROVE  PackagesAt(r) /\ (~Failed(child[a]) => LoadedAt(r) /\ ReturnedAt(r))
    BY <1>5, <2>2, <2>3, Zenon DEF PackagesAt, LoadedAt, ReturnedAt
  <2>4. Goto(a, "commit", 1) /\ Fits(a, "commit", 1)
    BY <1>1, <1>6, <2>3, Zenon DEF Fits
  <2> QED
    BY <1>1, <2>1, <2>4, QuietSummary, Zenon
<1>7. CASE Top(a).op = "import"
  <2>1. "seen" \in Pcs /\ 1 \in Nat \ {0} /\ Top(a).pc # "extensions" /\ Top(a).op # "link"
    BY <1>1, <1>7 DEF Pcs
  <2>2. ASSUME NEW r \in Frames, r.op = Top(a).op, r.file = Top(a).file, r.pc = "seen", r.i = 1
        PROVE  PackagesAt(r) /\ (~Failed(child[a]) => LoadedAt(r) /\ ReturnedAt(r))
    BY <1>5, <2>2 DEF PackagesAt, LoadedAt, ReturnedAt
  <2>3. Goto(a, "seen", 1) /\ Fits(a, "seen", 1)
    BY <1>1, <2>1, <2>2, Zenon DEF Fits
  <2> QED
    BY <1>1, <2>1, <2>3, QuietSummary, Zenon
<1> QED
  BY <1>2, <1>6, <1>7, Zenon

\* The packages of a call: their entries have a place in the table, and an
\* entry more leads one package further.
LEMMA PackagePlace ==
  ASSUME TypeInv, NEW a \in Actors, stack[a] # <<>>, Top(a).i <= Len(File(a).pkg)
  PROVE  /\ Outer(a) \in Packages /\ Inner(a) \in Names /\ Inner(a) \in PackageNames(Top(a).file)
         /\ symbols[Outer(a)][Inner(a)] \in Files \cup {None, Pkg}
<1> SUFFICES ASSUME NEW f, f = Top(a).file, NEW i, i = Top(a).i
             PROVE  /\ Outer(a) \in Packages /\ Inner(a) \in Names /\ Inner(a) \in PackageNames(Top(a).file)
                    /\ symbols[Outer(a)][Inner(a)] \in Files \cup {None, Pkg}
  BY Zenon
<1>1. f \in Files /\ i \in Nat \ {0} /\ i <= Len(desc[f].pkg)
  BY TopFrame, Zenon DEF File
<1>2. desc[f].pkg \in Packages /\ desc[f].pkg \in Seq(STRING)
  BY <1>1, DescFields, Zenon
<1>3. i \in 0..Len(desc[f].pkg) /\ i - 1 \in 0..Len(desc[f].pkg) /\ i # 0 /\ i \in 1..Len(desc[f].pkg)
  BY <1>1, <1>2
<1>4. Outer(a) = Prefix(desc[f].pkg, i - 1) /\ Inner(a) = Prefix(desc[f].pkg, i)
  BY Zenon DEF Outer, Inner, File
<1>5. Outer(a) \in Packages /\ Inner(a) \in Names
  BY <1>2, <1>3, <1>4, PackagePrefix, Zenon
<1>6. Inner(a) \in PackageNames(f)
  BY <1>3, <1>4, Zenon DEF PackageNames
<1>7. symbols[Outer(a)][Inner(a)] \in Files \cup {None, Pkg}
  BY <1>5 DEF TypeInv
<1> QED
  BY <1>5, <1>6, <1>7, Zenon

LEMMA NextPackage ==
  ASSUME TypeInv, NEW f \in Files, NEW i \in Nat, PkgsTo(f, i - 1),
         symbols[Prefix(desc[f].pkg, i - 1)][Prefix(desc[f].pkg, i)] = Pkg
  PROVE  PkgsTo(f, i)
<1> SUFFICES ASSUME NEW j \in 1..Len(desc[f].pkg), j <= i
             PROVE  symbols[Prefix(desc[f].pkg, j - 1)][Prefix(desc[f].pkg, j)] = Pkg
  BY Zenon DEF PkgsTo
<1>2. desc[f].pkg \in Seq(STRING)
  BY DescFields, Zenon
<1>1. j = i \/ j <= i - 1
  BY <1>2
<1> QED
  BY <1>1, Zenon DEF PkgsTo

\* The frame of a call that has been through one package more.
LEMMA PackageFits ==
  ASSUME TypeInv, StackInv, NEW a \in Actors, stack[a] # <<>>, Top(a).pc \in {"packages", "package"},
         Top(a).i <= Len(File(a).pkg), NEW r \in Frames, r.op = Top(a).op, r.file = Top(a).file,
         r.pc = "packages", r.i = Top(a).i + 1
  PROVE  /\ PkgsTo(r.file, Top(a).i) => PackagesAt(r)
         /\ ~Failed(child[a]) => LoadedAt(r) /\ ReturnedAt(r)
<1>1. PackagesAt(Top(a)) /\ (~Failed(child[a]) => LoadedAt(Top(a)))
  BY TopRight, Zenon
<1>2. r.file \in Files /\ Top(a).i \in Nat \ {0} /\ r.i - 1 = Top(a).i
  BY TopFrame
<1>3. desc[r.file].pkg \in Seq(STRING)
  BY <1>2, DescFields, Zenon
<1>4. r.i <= Len(desc[r.file].pkg) + 1
  BY <1>2, <1>3 DEF File
<1>5. PkgsTo(r.file, Top(a).i) => PackagesAt(r)
  BY <1>2, <1>4 DEF PackagesAt
<1>6. LoadedAt(Top(a)) => LoadedAt(r) /\ ReturnedAt(r)
  BY DEF LoadedAt, ReturnedAt
<1> QED
  BY <1>1, <1>5, <1>6, Zenon

LEMMA PackageReadSummary ==
  ASSUME TypeInv, StackInv, NEW a \in Actors, PackageRead(a)
  PROVE  Summary(a)
<1> SUFFICES ASSUME NEW f, f = Top(a).file, NEW i, i = Top(a).i
             PROVE  Summary(a)
  BY Zenon
<1>1. /\ stack[a] # <<>> /\ Top(a).pc = "packages" /\ i <= Len(File(a).pkg)
      /\ IF symbols[Outer(a)][Inner(a)] = Pkg THEN Goto(a, "packages", i + 1) ELSE Goto(a, "package", i)
      /\ UNCHANGED <<desc, strict, symbols, files, exts, parent, child, ops, outcome>>
  BY Zenon DEF PackageRead, At
<1>2. f \in Files /\ i \in Nat \ {0}
  BY <1>1, TopFrame, Zenon
<1>3. "packages" \in Pcs /\ "package" \in Pcs /\ "packages" # "seen" /\ "package" # "seen" /\ Top(a).pc # "extensions"
      /\ Top(a).pc \in {"packages", "package"} /\ i + 1 \in Nat \ {0}
  BY <1>1, <1>2 DEF Pcs
<1>4. PackagesAt(Top(a)) /\ (~Failed(child[a]) => LoadedAt(Top(a)))
  BY <1>1, TopRight, Zenon
<1>5. PkgsTo(f, i - 1)
  BY <1>1, <1>4 DEF PackagesAt
<1>6. CASE symbols[Outer(a)][Inner(a)] = Pkg
  <2>1. PkgsTo(f, i)
    BY <1>2, <1>5, <1>6, NextPackage, Zenon DEF Outer, Inner, File
  <2>2. Fits(a, "packages", i + 1)
    BY <1>1, <1>3, <2>1, PackageFits, Zenon DEF Fits
  <2> QED
    BY <1>1, <1>3, <1>6, <2>2, QuietSummary, Zenon
<1>7. CASE symbols[Outer(a)][Inner(a)] # Pkg
  <2>1. ASSUME NEW r \in Frames, r.op = Top(a).op, r.file = Top(a).file, r.pc = "package", r.i = i
        PROVE  PackagesAt(r) /\ (~Failed(child[a]) => LoadedAt(r) /\ ReturnedAt(r))
    <3>1. PackagesAt(r)
      BY <1>1, <1>4, <2>1 DEF PackagesAt, File
    <3>2. LoadedAt(Top(a)) => LoadedAt(r) /\ ReturnedAt(r)
      BY <1>1, <2>1 DEF LoadedAt, ReturnedAt
    <3> QED
      BY <1>4, <3>1, <3>2, Zenon
  <2>2. Fits(a, "package", i)
    BY <2>1, Zenon DEF Fits
  <2> QED
    BY <1>1, <1>2, <1>3, <1>7, <2>2, QuietSummary, Zenon
<1> QED
  BY <1>6, <1>7, Zenon

\* PackageWrite only fills an empty place.
LEMMA PackageEntered ==
  ASSUME TypeInv, NEW a \in Actors, stack[a] # <<>>, Top(a).i <= Len(File(a).pkg), PackageWrite(a)
  PROVE  /\ symbols' \in [Packages -> [Names -> Files \cup {None, Pkg}]] /\ symbols'[Outer(a)][Inner(a)] = Pkg
         /\ \A p \in Packages, n \in Names : symbols'[p][n] = symbols[p][n] \/ (p = Outer(a) /\ n = Inner(a))
         /\ Grows
<1> SUFFICES ASSUME NEW o \in Packages, o = Outer(a), NEW m \in Names, m = Inner(a)
             PROVE  /\ symbols' \in [Packages -> [Names -> Files \cup {None, Pkg}]] /\ symbols'[o][m] = Pkg
                    /\ \A p \in Packages, n \in Names : symbols'[p][n] = symbols[p][n] \/ (p = o /\ n = m)
                    /\ Grows
  BY PackagePlace, Zenon
<1>1. /\ symbols' = [symbols EXCEPT ![o][m] = Pkg] /\ symbols[o][m] \in {None, Pkg}
      /\ UNCHANGED <<desc, files, exts>>
  BY DEF PackageWrite
<1>2. symbols \in [Packages -> [Names -> Files \cup {None, Pkg}]]
  BY Zenon DEF TypeInv
<1>3. symbols' \in [Packages -> [Names -> Files \cup {None, Pkg}]] /\ symbols'[o][m] = Pkg
  BY <1>1, <1>2
<1>4. \A p \in Packages, n \in Names : symbols'[p][n] = symbols[p][n] \/ (p = o /\ n = m)
  BY <1>1, <1>2
<1>5. \A p \in Packages, n \in Names : symbols[p][n] # None => symbols'[p][n] = symbols[p][n]
  BY <1>1, <1>3, <1>4, Zenon
<1> QED
  BY <1>1, <1>3, <1>4, <1>5, Zenon DEF Grows

LEMMA PackageWriteSummary ==
  ASSUME TypeInv, StackInv, NEW a \in Actors, PackageWrite(a)
  PROVE  Summary(a)
<1> SUFFICES ASSUME NEW f, f = Top(a).file, NEW i, i = Top(a).i
             PROVE  Summary(a)
  BY Zenon
<1>1. /\ stack[a] # <<>> /\ Top(a).pc = "package" /\ Goto(a, "packages", i + 1)
      /\ UNCHANGED <<desc, strict, files, exts, parent, child, ops, outcome>>
  BY Zenon DEF PackageWrite, At
<1>2. f \in Files /\ i \in Nat \ {0}
  BY <1>1, TopFrame, Zenon
<1>3. "packages" \in Pcs /\ "packages" # "seen" /\ Top(a).pc # "extensions"
      /\ Top(a).pc \in {"packages", "package"} /\ i + 1 \in Nat \ {0} /\ i \in Nat
  BY <1>1, <1>2 DEF Pcs
<1>4. PackagesAt(Top(a))
  BY <1>1, TopRight, Zenon
<1>5. PkgsTo(f, i - 1) /\ i <= Len(File(a).pkg)
  BY <1>1, <1>4 DEF PackagesAt, File
<1>6. /\ symbols' \in [Packages -> [Names -> Files \cup {None, Pkg}]] /\ symbols'[Outer(a)][Inner(a)] = Pkg
      /\ Grows
  BY <1>1, <1>5, PackageEntered, Zenon
<1>7. PkgsTo(f, i)'
  <2>1. PkgsTo(f, i - 1)'
    BY <1>2, <1>5, <1>6, GrowsKeeps, Zenon
  <2>2. symbols'[Prefix(desc'[f].pkg, i - 1)][Prefix(desc'[f].pkg, i)] = Pkg
    BY <1>1, <1>6, Zenon DEF Outer, Inner, File
  <2>3. desc[f].pkg \in Seq(STRING)
    BY <1>2, DescFields, Zenon
  <2>4. \A j \in 1..Len(desc'[f].pkg) : j <= i => j = i \/ j <= i - 1
    BY <1>1, <1>2, <2>3
  <2> QED
    BY <2>1, <2>2, <2>4, Zenon DEF PkgsTo
<1>8. ASSUME NEW r \in Frames, r.op = Top(a).op, r.file = Top(a).file, r.pc = "packages", r.i = i + 1
      PROVE  PackagesAt(r)' /\ (~Failed(child'[a]) => ~Failed(child[a]) /\ LoadedAt(r)' /\ ReturnedAt(r)')
  <2>1. ~Failed(child[a]) => LoadedAt(r) /\ ReturnedAt(r)
    BY <1>1, <1>3, <1>5, <1>8, PackageFits, Zenon
  <2>2. desc[f].pkg \in Seq(STRING)
    BY <1>2, DescFields, Zenon
  <2>3. r.i - 1 = i /\ r.i <= Len(desc'[r.file].pkg) + 1
    BY <1>1, <1>2, <1>5, <1>8, <2>2 DEF File
  <2>4. PackagesAt(r)'
    BY <1>7, <1>8, <2>3 DEF PackagesAt
  <2> QED
    BY <1>1, <1>6, <2>1, <2>4, FrameKept, Zenon
<1>9. Follows(a, "packages", i + 1)
  BY <1>8, Zenon DEF Follows
<1>10. files' \in [Packages -> SUBSET Files] /\ exts' \in [Packages -> Entries]
       /\ parent' \in Handlers /\ child' \in [Actors -> Handlers] /\ (\A b \in Actors \ {a} : child'[b] = child[b])
       /\ UNCHANGED <<strict, ops, outcome>>
  BY <1>1, Zenon DEF TypeInv
<1> QED
  BY <1>1, <1>3, <1>6, <1>9, <1>10, MovedSummary, Zenon

LEMMA PackageCollidesSummary ==
  ASSUME TypeInv, StackInv, NEW a \in Actors, PackageCollides(a)
  PROVE  Summary(a)
<1>1. /\ stack[a] # <<>> /\ Top(a).pc \in {"packages", "package"} /\ HandleError(a)
      /\ UNCHANGED <<desc, strict, symbols, files, exts, ops>>
  BY DEF PackageCollides, At
<1>2. /\ parent' \in Handlers /\ child' \in [Actors -> Handlers]
      /\ Failed(child'[a]) /\ (\A b \in Actors \ {a} : child'[b] = child[b]) /\ Handled.err \in BOOLEAN
  BY <1>1, ErrorHandled, Zenon
<1>3. CASE Goto(a, "extensions", 1) /\ UNCHANGED outcome
  <2>1. "extensions" \in Pcs /\ 1 \in Nat \ {0} /\ "extensions" # "seen" /\ Top(a).pc # "extensions"
    BY <1>1 DEF Pcs
  <2>2. ASSUME NEW r \in Frames, r.op = Top(a).op, r.file = Top(a).file, r.pc = "extensions", r.i = 1
        PROVE  PackagesAt(r)'
    BY <2>2 DEF PackagesAt
  <2>3. Follows(a, "extensions", 1)
    BY <1>2, <2>2, Zenon DEF Follows
  <2>4. symbols' \in [Packages -> [Names -> Files \cup {None, Pkg}]] /\ files' \in [Packages -> SUBSET Files]
        /\ exts' \in [Packages -> Entries] /\ UNCHANGED <<strict, ops, outcome>> /\ Grows
    BY <1>1, <1>3, Zenon DEF TypeInv, Grows
  <2> QED
    BY <1>1, <1>2, <1>3, <2>1, <2>3, <2>4, MovedSummary, Zenon
<1>4. CASE Return(a, Handled.err, child'[a])
  BY <1>1, <1>2, <1>4, EndedSummary, Zenon
<1> QED
  BY <1>3, <1>4, Zenon DEF PackageCollides

LEMMA SeenSummary ==
  ASSUME TypeInv, StackInv, NEW a \in Actors, Seen(a)
  PROVE  Summary(a)
<1> SUFFICES ASSUME NEW f, f = Top(a).file
             PROVE  Summary(a)
  BY Zenon
<1>1. /\ stack[a] # <<>> /\ Top(a).pc = "seen"
      /\ IF Known(f) THEN Return(a, FALSE, child[a]) ELSE Goto(a, "imports", 1) /\ UNCHANGED outcome
      /\ UNCHANGED <<desc, strict, symbols, files, exts, parent, child, ops>>
  BY Zenon DEF Seen, At, File, Known
<1>2. f \in Files /\ PackagesAt(Top(a))
  BY <1>1, TopFrame, TopRight, Zenon
<1>3. CASE Known(f)
  <2>1. Return(a, FALSE, child[a]) /\ child[a] = child'[a] /\ FALSE \in BOOLEAN
        /\ parent' \in Handlers /\ child' \in [Actors -> Handlers] /\ \A b \in Actors \ {a} : child'[b] = child[b]
    BY <1>1, <1>3, Zenon DEF TypeInv
  <2> QED
    BY <1>1, <1>3, <2>1, EndedSummary, Zenon
<1>4. CASE ~Known(f)
  <2>1. "imports" \in Pcs /\ 1 \in Nat \ {0} /\ "imports" # "seen" /\ Top(a).pc # "extensions"
    BY <1>1 DEF Pcs
  <2>2. PkgsTo(f, Len(desc[f].pkg))
    BY <1>1, <1>2 DEF PackagesAt
  <2>3. desc[f].imports \in Seq(Files)
    BY <1>2, DescFields, Zenon
  <2>4. ASSUME NEW r \in Frames, r.op = Top(a).op, r.file = Top(a).file, r.pc = "imports", r.i = 1
        PROVE  PackagesAt(r) /\ (~Failed(child[a]) => LoadedAt(r) /\ ReturnedAt(r))
    <3>1. r.i - 1 \notin DOMAIN desc[f].imports /\ \A j \in DOMAIN desc[f].imports : ~(j < r.i - 1)
      BY <2>3, <2>4
    <3> QED
      BY <2>2, <2>4, <3>1 DEF PackagesAt, LoadedAt, ReturnedAt
  <2>5. Fits(a, "imports", 1) /\ Goto(a, "imports", 1)
        /\ UNCHANGED <<desc, strict, symbols, files, exts, parent, child, ops, outcome>>
    BY <1>1, <1>4, <2>4, Zenon DEF Fits
  <2> QED
    BY <1>1, <2>1, <2>5, QuietSummary, Zenon
<1> QED
  BY <1>3, <1>4, Zenon

LEMMA CommitTwiceSummary ==
  ASSUME TypeInv, StackInv, NEW a \in Actors, CommitTwice(a)
  PROVE  Summary(a)
<1> SUFFICES ASSUME NEW f, f = Top(a).file
             PROVE  Summary(a)
  BY Zenon
<1>1. /\ stack[a] # <<>> /\ Top(a).pc = "commit" /\ Known(f)
      /\ IF Top(a).op = "link" THEN Goto(a, "extensions", 1) /\ UNCHANGED outcome ELSE Return(a, FALSE, child[a])
      /\ UNCHANGED <<desc, strict, symbols, files, exts, parent, child, ops>>
  BY Zenon DEF CommitTwice, At, File, Known
<1>2. f \in Files
  BY <1>1, TopFrame, Zenon
<1>3. CASE Top(a).op # "link"
  <2>1. Return(a, FALSE, child[a]) /\ child[a] = child'[a] /\ FALSE \in BOOLEAN
        /\ parent' \in Handlers /\ child' \in [Actors -> Handlers] /\ \A b \in Actors \ {a} : child'[b] = child[b]
    BY <1>1, <1>3, Zenon DEF TypeInv
  <2> QED
    BY <1>1, <2>1, EndedSummary, Zenon
<1>4. CASE Top(a).op = "link"
  <2>1. "extensions" \in Pcs /\ 1 \in Nat \ {0} /\ "extensions" # "seen" /\ Top(a).pc # "extensions"
    BY <1>1 DEF Pcs
  <2>3. desc[f].exts \in Seq(Exts)
    BY <1>2, DescFields, Zenon
  <2>4. ASSUME NEW r \in Frames, r.op = Top(a).op, r.file = Top(a).file, r.pc = "extensions", r.i = 1
        PROVE  PackagesAt(r) /\ (~Failed(child[a]) => LoadedAt(r) /\ ReturnedAt(r))
    <3>1. \A j \in DOMAIN desc[f].exts : ~(j < r.i)
      BY <2>3, <2>4
    <3> QED
      BY <1>1, <2>4, <3>1 DEF PackagesAt, LoadedAt, ReturnedAt
  <2>5. Fits(a, "extensions", 1) /\ Goto(a, "extensions", 1)
        /\ UNCHANGED <<desc, strict, symbols, files, exts, parent, child, ops, outcome>>
    BY <1>1, <1>4, <2>4, Zenon DEF Fits
  <2> QED
    BY <1>1, <2>1, <2>5, QuietSummary, Zenon
<1> QED
  BY <1>3, <1>4, Zenon

LEMMA CommitFailsSummary ==
  ASSUME TypeInv, StackInv, NEW a \in Actors, CommitCollides(a) \/ CommitAfterErrors(a)
  PROVE  Summary(a)
<1>1. TRUE \in BOOLEAN
  OBVIOUS
<1>2. CASE CommitCollides(a)
  <2>1. /\ stack[a] # <<>> /\ HandleError(a) /\ Return(a, TRUE, child'[a])
        /\ UNCHANGED <<desc, strict, symbols, files, exts, ops>>
    BY <1>2, Zenon DEF CommitCollides, At
  <2>2. /\ parent' \in Handlers /\ child' \in [Actors -> Handlers] /\ (\A b \in Actors \ {a} : child'[b] = child[b])
    BY <2>1, ErrorHandled, Zenon
  <2> QED
    BY <1>1, <2>1, <2>2, EndedSummary, Zenon
<1>3. CASE CommitAfterErrors(a)
  <2>1. /\ stack[a] # <<>> /\ Return(a, TRUE, child[a])
        /\ UNCHANGED <<desc, strict, symbols, files, exts, ops>> /\ child' = child /\ parent' = parent
    BY <1>3, Zenon DEF CommitAfterErrors, At
  <2>2. /\ parent' \in Handlers /\ child' \in [Actors -> Handlers] /\ (\A b \in Actors \ {a} : child'[b] = child[b])
        /\ child[a] = child'[a]
    BY <2>1, Zenon DEF TypeInv
  <2> QED
    BY <1>1, <2>1, <2>2, EndedSummary, Zenon
<1> QED
  BY <1>2, <1>3, Zenon

LEMMA ExtensionsDoneSummary ==
  ASSUME TypeInv, StackInv, NEW a \in Actors, ExtensionsDone(a)
  PROVE  Summary(a)
<1>1. /\ stack[a] # <<>> /\ Top(a).pc = "extensions" /\ Return(a, FALSE, child[a])
      /\ UNCHANGED <<desc, strict, symbols, files, exts, ops>> /\ child' = child /\ parent' = parent
  BY Zenon DEF ExtensionsDone, At
<1>2. /\ parent' \in Handlers /\ child' \in [Actors -> Handlers] /\ (\A b \in Actors \ {a} : child'[b] = child[b])
      /\ child[a] = child'[a] /\ FALSE \in BOOLEAN
  BY <1>1, Zenon DEF TypeInv
<1>3. ~Failed(child[a]) => Known(Top(a).file)
  BY <1>1, TopRight, Zenon DEF LoadedAt
<1> QED
  BY <1>1, <1>2, <1>3, EndedSummary, Zenon

\* The file f is entered in the table, where only empty places change.
Enters(f) ==
  /\ \A n \in desc[f].syms : symbols[desc[f].pkg][n] = None /\ symbols'[desc[f].pkg][n] = f
  /\ \A p \in Packages, n \in Names :
       symbols'[p][n] = symbols[p][n] \/ (p = desc[f].pkg /\ n \in desc[f].syms)
  /\ \A p \in Packages : \A g \in files'[p] : g \in files[p] \/ (g = f /\ p = desc[f].pkg)

LEMMA CommitEntered ==
  ASSUME TypeInv, NEW a \in Actors, Commit(a), NEW f, f = Top(a).file
  PROVE  /\ f \in Files /\ Enters(f)
         /\ symbols' \in [Packages -> [Names -> Files \cup {None, Pkg}]] /\ files' \in [Packages -> SUBSET Files]
         /\ Grows /\ f \in files'[desc[f].pkg]
<1> SUFFICES ASSUME NEW d, d = desc[f].pkg, NEW ns, ns = desc[f].syms
             PROVE  /\ f \in Files /\ Enters(f)
                    /\ symbols' \in [Packages -> [Names -> Files \cup {None, Pkg}]] /\ files' \in [Packages -> SUBSET Files]
                    /\ Grows /\ f \in files'[desc[f].pkg]
  BY Zenon
<1>1. /\ stack[a] # <<>> /\ ~Collides(a)
      /\ symbols' = [symbols EXCEPT ![d] = [n \in Names |-> IF n \in ns THEN f ELSE symbols[d][n]]]
      /\ files' = [files EXCEPT ![d] = files[d] \cup {f}] /\ UNCHANGED <<desc, exts>>
  BY Zenon DEF Commit, At, File
<1>2. f \in Files /\ d \in Packages /\ ns \subseteq Names
  BY <1>1, TopFrame, DescFields, Zenon
<1>3. \A n \in ns : symbols[d][n] = None
  BY <1>1, Zenon DEF Collides, File
<1>4. symbols \in [Packages -> [Names -> Files \cup {None, Pkg}]] /\ files \in [Packages -> SUBSET Files]
  BY Zenon DEF TypeInv
<1> DEFINE row == [n \in Names |-> IF n \in ns THEN f ELSE symbols[d][n]]
<1>5. row \in [Names -> Files \cup {None, Pkg}]
  BY <1>2, <1>4
<1>6. \A n \in Names : row[n] = IF n \in ns THEN f ELSE symbols[d][n]
  BY Zenon
<1> HIDE DEF row
<1>7. symbols' = [symbols EXCEPT ![d] = row]
  BY <1>1, Zenon DEF row
<1>8. /\ symbols' \in [Packages -> [Names -> Files \cup {None, Pkg}]] /\ symbols'[d] = row
      /\ \A p \in Packages : p # d => symbols'[p] = symbols[p]
  BY <1>2, <1>4, <1>5, <1>7, Zenon
<1>9. files' \in [Packages -> SUBSET Files] /\ files'[d] = files[d] \cup {f} /\ \A p \in Packages : p # d => files'[p] = files[p]
  BY <1>1, <1>2, <1>4
<1>10. \A p \in Packages, n \in Names : symbols'[p][n] = symbols[p][n] \/ (p = d /\ n \in ns)
  BY <1>6, <1>8, Zenon
<1>11. \A n \in ns : symbols'[d][n] = f
  BY <1>2, <1>6, <1>8, Zenon
<1>12. Grows
  <2>1. \A p \in Packages : files[p] \subseteq files'[p]
    BY <1>9
  <2>2. \A p \in Packages, n \in Names : symbols[p][n] # None => symbols'[p][n] = symbols[p][n]
    BY <1>3, <1>10, Zenon
  <2> QED
    BY <1>1, <2>1, <2>2, Zenon DEF Grows
<1>13. f \in files'[d] /\ \A p \in Packages : \A g \in files'[p] : g \in files[p] \/ (g = f /\ p = d)
  BY <1>9
<1>14. Enters(f)
  BY <1>3, <1>10, <1>11, <1>13, Zenon DEF Enters
<1> QED
  BY <1>2, <1>8, <1>9, <1>12, <1>13, <1>14, Zenon

LEMMA CommitSummary ==
  ASSUME TypeInv, StackInv, NEW a \in Actors, Commit(a)
  PROVE  Summary(a)
<1> SUFFICES ASSUME NEW f, f = Top(a).file
             PROVE  Summary(a)
  BY Zenon
<1>1. /\ stack[a] # <<>> /\ Top(a).pc = "commit" /\ Goto(a, "extensions", 1)
      /\ UNCHANGED <<desc, strict, exts, parent, child, ops, outcome>>
  BY Zenon DEF Commit, At
<1>2. /\ f \in Files
      /\ symbols' \in [Packages -> [Names -> Files \cup {None, Pkg}]] /\ files' \in [Packages -> SUBSET Files]
      /\ Grows /\ f \in files'[desc[f].pkg]
  BY CommitEntered, Zenon
<1>3. "extensions" \in Pcs /\ 1 \in Nat \ {0} /\ "extensions" # "seen" /\ Top(a).pc # "extensions"
  BY <1>1 DEF Pcs
<1>4. desc[f].exts \in Seq(Exts)
  BY <1>2, DescFields, Zenon
<1>5. ASSUME NEW r \in Frames, r.op = Top(a).op, r.file = Top(a).file, r.pc = "extensions", r.i = 1
      PROVE  PackagesAt(r)' /\ LoadedAt(r)' /\ ReturnedAt(r)'
  <2>1. \A j \in DOMAIN desc'[f].exts : ~(j < r.i)
    BY <1>1, <1>4, <1>5
  <2>2. f \in files'[desc'[f].pkg]
    BY <1>1, <1>2, Zenon
  <2> QED
    BY <1>5, <2>1, <2>2 DEF PackagesAt, LoadedAt, ReturnedAt, Known
<1>6. Follows(a, "extensions", 1)
  BY <1>1, <1>5, Zenon DEF Follows
<1>7. exts' \in [Packages -> Entries] /\ parent' \in Handlers /\ child' \in [Actors -> Handlers]
      /\ (\A b \in Actors \ {a} : child'[b] = child[b]) /\ UNCHANGED <<strict, ops, outcome>>
  BY <1>1, Zenon DEF TypeInv
<1> QED
  BY <1>1, <1>2, <1>3, <1>6, <1>7, MovedSummary, Zenon

LEMMA ExtTriple == \A x \in Exts : x = <<x[1], x[2], x[3]>>
BY DEF Exts

LEMMA ExtParts ==
  ASSUME NEW x \in Exts
  PROVE  \E p \in Packages, n \in Names, t \in Tags : x[1] = p /\ x[2] = n /\ x[3] = t /\ x = <<p, n, t>>
BY ExtTriple DEF Exts

LEMMA PairParts ==
  ASSUME NEW u, NEW v, NEW w, NEW y, <<u, v>> = <<w, y>>
  PROVE  u = w /\ v = y
OBVIOUS

\* The i-th extension of f is entered, and no other.
EntersExt(f, i) ==
  \A p \in Packages, n \in Names, t \in Tags :
    exts'[p][<<n, t>>] = exts[p][<<n, t>>] \/ (exts'[p][<<n, t>>] = f /\ desc[f].exts[i] = <<p, n, t>>)

\* AddExtension fills an empty place.
LEMMA ExtensionEntered ==
  ASSUME TypeInv, NEW a \in Actors, AddExtension(a), NEW f, f = Top(a).file, NEW i, i = Top(a).i
  PROVE  /\ f \in Files /\ i \in DOMAIN desc[f].exts /\ exts' \in [Packages -> Entries]
         /\ Owner(f, i)' = f /\ Grows /\ EntersExt(f, i)
<1> SUFFICES ASSUME NEW x, x = desc[f].exts[i], NEW q, q = x[1], NEW e, e = <<x[2], x[3]>>
             PROVE  /\ f \in Files /\ i \in DOMAIN desc[f].exts /\ exts' \in [Packages -> Entries]
                    /\ Owner(f, i)' = f /\ Grows /\ EntersExt(f, i)
  BY Zenon
<1>1. /\ stack[a] # <<>> /\ i <= Len(desc[f].exts) /\ exts[q][e] = None
      /\ exts' = [exts EXCEPT ![q][e] = f] /\ UNCHANGED <<desc, symbols, files>>
  BY Zenon DEF AddExtension, ExtensionFree, At, Ext, File
<1>2. f \in Files /\ i \in Nat \ {0}
  BY <1>1, TopFrame, Zenon
<1>3. i \in DOMAIN desc[f].exts
  <2>1. desc[f].exts \in Seq(Exts)
    BY <1>2, DescFields, Zenon
  <2>2. i <= Len(desc[f].exts)
    BY <1>1, Zenon
  <2> QED
    BY <1>2, <2>1, <2>2, SeqPlace, Zenon
<1>4. x \in Exts /\ q \in Packages /\ e \in Names \X Tags
  BY <1>2, <1>3, ExtPlace, Zenon
<1>5. exts \in [Packages -> [Names \X Tags -> Files \cup {None}]] /\ exts \in [Packages -> Entries]
  BY Zenon DEF TypeInv, Entries
<1>6. exts' \in [Packages -> Entries] /\ exts'[q][e] = f
  <2>1. exts' = Changed(exts, q, e, f)
    BY <1>1, Zenon DEF Changed
  <2>2. q \in Packages /\ e \in Keys /\ f \in Files /\ exts \in Tables
    BY <1>2, <1>4, <1>5, Zenon DEF Keys, Tables
  <2>3. Entered(Changed(exts, q, e, f), q, e, f)
    BY <2>2, EntryChanged, Zenon
  <2> QED
    BY <2>1, <2>3, Zenon DEF Entered, Tables
<1>7. \A p \in Packages, y \in Names \X Tags : exts'[p][y] = exts[p][y] \/ (p = q /\ y = e)
  <2>1. ASSUME NEW p \in Packages, NEW y \in Names \X Tags
        PROVE  exts'[p][y] = exts[p][y] \/ (p = q /\ y = e)
    <3>1. DOMAIN exts = Packages /\ DOMAIN exts[p] = Names \X Tags
      BY <1>5, Zenon
    <3>2. p # q => exts'[p] = exts[p]
      BY <1>1, <3>1, Zenon
    <3>3. p = q => exts'[p] = [exts[p] EXCEPT ![e] = f]
      BY <1>1, <3>1, Zenon
    <3>4. p = q /\ y # e => exts'[p][y] = exts[p][y]
      BY <3>1, <3>3, Zenon
    <3> QED
      BY <3>2, <3>4, Zenon
  <2> QED
    BY <2>1, Zenon
<1>8. Grows
  BY <1>1, <1>7, Zenon DEF Grows
<1>9. Owner(f, i)' = f
  BY <1>1, <1>6, Zenon DEF Owner
<1>10. ASSUME NEW p \in Packages, NEW n \in Names, NEW t \in Tags
       PROVE  exts'[p][<<n, t>>] = exts[p][<<n, t>>] \/ (exts'[p][<<n, t>>] = f /\ x = <<p, n, t>>)
  <2>1. <<n, t>> \in Names \X Tags
    BY <1>10, Zenon
  <2>2. CASE p = q /\ <<n, t>> = e
    <3>1. exts'[p][<<n, t>>] = f
      BY <1>6, <2>2, Zenon
    <3>2. n = x[2] /\ t = x[3] /\ p = x[1]
      <4>1. <<n, t>> = <<x[2], x[3]>>
        BY <2>2, Zenon
      <4> QED
        BY <2>2, <4>1, PairParts, Zenon
    <3>3. x = <<x[1], x[2], x[3]>>
      BY <1>4, ExtTriple, Zenon
    <3> QED
      BY <3>1, <3>2, <3>3, Zenon
  <2> QED
    BY <1>7, <2>1, <2>2, Zenon
<1>11. EntersExt(f, i)
  BY <1>10, Zenon DEF EntersExt
<1> QED
  BY <1>2, <1>3, <1>6, <1>8, <1>9, <1>11, Zenon DEF Entries

LEMMA AddExtensionSummary ==
  ASSUME TypeInv, StackInv, NEW a \in Actors, AddExtension(a)
  PROVE  Summary(a)
<1> SUFFICES ASSUME NEW f, f = Top(a).file, NEW i, i = Top(a).i
             PROVE  Summary(a)
  BY Zenon
<1>1. /\ stack[a] # <<>> /\ Top(a).pc = "extensions" /\ Goto(a, "extensions", i + 1)
      /\ UNCHANGED <<desc, strict, symbols, files, parent, child, ops, outcome>>
  BY Zenon DEF AddExtension, At
<1>2. /\ f \in Files /\ exts' \in [Packages -> Entries] /\ Owner(f, i)' = f /\ Grows
  BY ExtensionEntered
<1>3. i \in Nat \ {0}
  BY <1>1, TopFrame, Zenon
<1>4. "extensions" \in Pcs /\ i + 1 \in Nat \ {0} /\ "extensions" # "seen"
  BY <1>3 DEF Pcs
<1>5. desc[f].exts \in Seq(Exts)
  BY <1>2, DescFields, Zenon
<1>6. ASSUME NEW r \in Frames, r.op = Top(a).op, r.file = Top(a).file, r.pc = "extensions", r.i = i + 1
      PROVE  PackagesAt(r)' /\ (~Failed(child[a]) => LoadedAt(r)' /\ ReturnedAt(r)')
  <2>1. \A j \in DOMAIN desc[f].exts : j < r.i => j < i \/ j = i
    BY <1>3, <1>5, <1>6
  <2>2. ~Failed(child[a]) => Known(f)' /\ \A j \in DOMAIN desc[f].exts : j < i => Owner(f, j)' = f
    <3>1. ~Failed(child[a]) => Known(f) /\ \A j \in DOMAIN desc[f].exts : j < i => Owner(f, j) = f
      BY <1>1, TopRight, Zenon DEF LoadedAt
    <3> QED
      BY <1>2, <3>1, GrowsKeeps, Zenon
  <2>3. ~Failed(child[a]) => \A j \in DOMAIN desc'[f].exts : j < r.i => Owner(f, j)' = f
    BY <1>1, <1>2, <2>1, <2>2, Zenon
  <2>4. PackagesAt(r)' /\ ReturnedAt(r)'
    BY <1>6 DEF PackagesAt, ReturnedAt
  <2>5. Known(f)' /\ (\A j \in DOMAIN desc'[f].exts : j < r.i => Owner(f, j)' = f) => LoadedAt(r)'
    BY <1>6, Zenon DEF LoadedAt, Known, Owner
  <2> QED
    BY <2>2, <2>3, <2>4, <2>5, Zenon
<1>7. Follows(a, "extensions", i + 1)
  BY <1>1, <1>6, Zenon DEF Follows
<1>8. symbols' \in [Packages -> [Names -> Files \cup {None, Pkg}]] /\ files' \in [Packages -> SUBSET Files]
      /\ parent' \in Handlers /\ child' \in [Actors -> Handlers]
      /\ (\A b \in Actors \ {a} : child'[b] = child[b]) /\ UNCHANGED <<strict, ops, outcome>>
  BY <1>1, Zenon DEF TypeInv
<1> QED
  BY <1>1, <1>2, <1>4, <1>7, <1>8, MovedSummary, Zenon

LEMMA ExtensionErrorSummary ==
  ASSUME TypeInv, StackInv, NEW a \in Actors, ExtensionError(a)
  PROVE  Summary(a)
<1> SUFFICES ASSUME NEW i, i = Top(a).i
             PROVE  Summary(a)
  BY Zenon
<1>1. /\ stack[a] # <<>> /\ Top(a).pc = "extensions" /\ HandleError(a)
      /\ UNCHANGED <<desc, strict, symbols, files, exts, ops>>
  BY Zenon DEF ExtensionError, At
<1>2. /\ parent' \in Handlers /\ child' \in [Actors -> Handlers]
      /\ Failed(child'[a]) /\ (\A b \in Actors \ {a} : child'[b] = child[b])
  BY <1>1, ErrorHandled, Zenon
<1>3. CASE Goto(a, "extensions", i + 1) /\ UNCHANGED outcome
  <2>0. i \in Nat \ {0}
    BY <1>1, TopFrame, Zenon
  <2>1. "extensions" \in Pcs /\ i + 1 \in Nat \ {0} /\ "extensions" # "seen"
    BY <2>0 DEF Pcs
  <2>2. ASSUME NEW r \in Frames, r.op = Top(a).op, r.file = Top(a).file, r.pc = "extensions", r.i = i + 1
        PROVE  PackagesAt(r)'
    BY <2>2 DEF PackagesAt
  <2>3. Follows(a, "extensions", i + 1)
    BY <1>2, <2>2, Zenon DEF Follows
  <2>4. symbols' \in [Packages -> [Names -> Files \cup {None, Pkg}]] /\ files' \in [Packages -> SUBSET Files]
        /\ exts' \in [Packages -> Entries] /\ UNCHANGED <<strict, ops, outcome>> /\ Grows
    BY <1>1, <1>3, Zenon DEF TypeInv, Grows
  <2> QED
    BY <1>1, <1>2, <1>3, <2>1, <2>3, <2>4, MovedSummary, Zenon
<1>4. CASE Return(a, TRUE, child'[a])
  <2>1. TRUE \in BOOLEAN
    OBVIOUS
  <2> QED
    BY <1>1, <1>2, <1>4, <2>1, EndedSummary, Zenon
<1> QED
  BY <1>3, <1>4, Zenon DEF ExtensionError

\* Every step of a goroutine.
LEMMA StepSummary ==
  ASSUME TypeInv, StackInv, NEW a \in Actors, Step(a)
  PROVE  Summary(a)
BY ImportsSummary, ImportsDoneSummary, PackagesDoneSummary, PackageReadSummary, PackageWriteSummary,
   PackageCollidesSummary, SeenSummary, CommitTwiceSummary, CommitFailsSummary, CommitSummary,
   AddExtensionSummary, ExtensionErrorSummary, ExtensionsDoneSummary, Zenon DEF Step

\* A goroutine begins with the call e.
Begins(a, e) ==
  /\ stack[a] = <<>> /\ stack'[a] = <<e>> /\ e \in Frames /\ e.i = 1 /\ ~Failed(child'[a])
  /\ \/ /\ e.op = "link" /\ e.pc = "imports" /\ e.file \in Sources /\ outcome[e.file] = "no"
        /\ \A i \in DOMAIN desc[e.file].imports :
             desc[e.file].imports[i] \in Sources => outcome[desc[e.file].imports[i]] = "ok"
        /\ outcome' = [outcome EXCEPT ![e.file] = "busy"]
     \/ e.op = "import" /\ e.pc = "packages" /\ e.file \notin Sources /\ outcome' = outcome

LEMMA BeginBegins ==
  ASSUME TypeInv, NEW a \in Actors, Begin(a)
  PROVE  /\ TypeInv' /\ Alone(a) /\ \E e : Begins(a, e)
         /\ UNCHANGED <<desc, strict, symbols, files, exts, parent>>
<1>1. /\ stack[a] = <<>> /\ child' = [child EXCEPT ![a] = Handler]
      /\ UNCHANGED <<desc, strict, symbols, files, exts, parent>>
  BY Zenon DEF Begin
<1>2. Handler \in Handlers /\ ~Failed(Handler)
  BY DEF Handler, Handlers, Failed
<1>3. child' \in [Actors -> Handlers] /\ child'[a] = Handler /\ \A b \in Actors \ {a} : child'[b] = child[b]
  BY <1>1, <1>2, Zenon DEF TypeInv
<1> DEFINE Links(f) ==
             /\ f \in Sources /\ outcome[f] = "no"
             /\ \A i \in DOMAIN desc[f].imports :
                  desc[f].imports[i] \in Sources => outcome[desc[f].imports[i]] = "ok"
             /\ outcome' = [outcome EXCEPT ![f] = "busy"]
<1>4. \E f \in Files : \E e : /\ stack' = [stack EXCEPT ![a] = <<e>>]
                            /\ \/ Links(f) /\ e = Frame("link", f)
                               \/ f \notin Sources /\ outcome' = outcome /\ e = Frame("import", f)
  BY Zenon DEF Begin
<1> HIDE DEF Links
<1>12. PICK f \in Files : \E e : /\ stack' = [stack EXCEPT ![a] = <<e>>]
                                 /\ \/ Links(f) /\ e = Frame("link", f)
                                    \/ f \notin Sources /\ outcome' = outcome /\ e = Frame("import", f)
  BY <1>4, Zenon
<1>5. PICK e : /\ stack' = [stack EXCEPT ![a] = <<e>>]
               /\ \/ Links(f) /\ e = Frame("link", f)
                  \/ f \notin Sources /\ outcome' = outcome /\ e = Frame("import", f)
  BY <1>12, Zenon
<1>6. /\ e \in Frames /\ e.i = 1 /\ e.file = f
      /\ \/ Links(f) /\ e.op = "link" /\ e.pc = "imports"
         \/ f \notin Sources /\ outcome' = outcome /\ e.op = "import" /\ e.pc = "packages"
  <2>1. CASE Links(f) /\ e = Frame("link", f)
    BY <2>1, NewLink, Zenon
  <2>2. CASE f \notin Sources /\ outcome' = outcome /\ e = Frame("import", f)
    BY <2>2, NewImport, Zenon
  <2> QED
    BY <1>5, <2>1, <2>2, Zenon
<1>7. <<e>> \in Seq(Frames)
  BY <1>6
<1>8. stack' \in [Actors -> Seq(Frames)] /\ stack'[a] = <<e>> /\ \A b \in Actors \ {a} : stack'[b] = stack[b]
  BY <1>5, <1>7, Zenon DEF TypeInv
<1>9. Begins(a, e)
  BY <1>1, <1>2, <1>3, <1>6, <1>8, Zenon DEF Begins, Links
<1>10. outcome' \in [Files -> {"no", "busy", "ok", "failed"}]
  <2>1. outcome' = outcome \/ outcome' = [outcome EXCEPT ![f] = "busy"]
    BY <1>6, Zenon DEF Links
  <2> QED
    BY <2>1 DEF TypeInv
<1>11. TypeInv'
  BY <1>1, <1>3, <1>8, <1>10, Zenon DEF TypeInv
<1> QED
  BY <1>1, <1>3, <1>8, <1>9, <1>11, Zenon DEF Alone

LEMMA BeginRight ==
  ASSUME TypeInv, NEW a \in Actors, NEW e, Begins(a, e), desc' = desc, NEW t, t = stack'[a]
  PROVE  Right(a, t)
<1>1. /\ e \in Frames /\ e.i = 1 /\ t = <<e>>
      /\ (e.op = "link" /\ e.pc = "imports") \/ (e.op = "import" /\ e.pc = "packages")
      /\ e.op = "link" => e.file \in Sources
      /\ e.op = "import" => e.file \notin Sources
  BY DEF Begins
<1>2. PackagesAt(e)' /\ LoadedAt(e)' /\ ReturnedAt(e)'
  BY <1>1, NewRight, Zenon
<1>3. 1..Len(t) = {1} /\ t[1] = e /\ Len(t) = 1
  BY <1>1
<1>4. (e.op = "link" <=> e.file \in Sources) /\ (e.op = "link" => e.pc # "seen")
  BY <1>1
<1>5. ShapeAt(t, 1)'
  BY <1>3, <1>4 DEF ShapeAt
<1>6. StackAt(t, 1)' /\ LoadAt(t, 1)'
  BY <1>2, <1>3, <1>5, Zenon DEF StackAt, LoadAt
<1> QED
  BY <1>3, <1>6, Zenon DEF Right

-----------------------------------------------------------------------------
(* The invariants of the calls and the table.                              *)

LEMMA FiledKept ==
  ASSUME TypeInv, Grows, NEW g \in Files, Filed(g)
  PROVE  Filed(g)'
<1> SUFFICES ASSUME NEW m, m = Len(desc[g].pkg)
             PROVE  Filed(g)'
  BY Zenon
<1>1. desc' = desc
  BY Zenon DEF Grows
<1>2. \A n \in desc[g].syms : symbols'[desc[g].pkg][n] = g
  <2>1. desc[g].pkg \in Packages /\ desc[g].syms \subseteq Names /\ g # None
    BY DescFields, OtherAssumption, Zenon
  <2> QED
    BY <2>1, Zenon DEF Filed, Grows
<1>3. PkgsTo(g, m)'
  BY GrowsKeeps, Zenon DEF Filed
<1>4. PkgsTo(g, Len(desc[g].pkg))'
  BY <1>1, <1>3, Zenon DEF PkgsTo
<1>5. \A h \in Files : (\E j \in DOMAIN desc[g].imports : h = desc[g].imports[j]) => Known(h)'
  BY GrowsKeeps, Zenon DEF Filed
<1> QED
  BY <1>1, <1>2, <1>4, <1>5, Zenon DEF Filed

\* The table is right after a step that enters files with all they need and
\* names of files and packages.
LEMMA TableStep ==
  ASSUME TypeInv, TypeInv', FileInv, EntryInv, Grows,
         \A p \in Packages : \A g \in files'[p] : g \in files[p] \/ (p = desc[g].pkg /\ Filed(g)'),
         \A p \in Packages, n \in Names :
           \/ symbols'[p][n] = symbols[p][n]
           \/ \E g \in Files : symbols'[p][n] = g /\ n \in desc[g].syms /\ Known(g)'
           \/ symbols'[p][n] = Pkg /\ \E g \in Files : n \in PackageNames(g)
  PROVE  FileInv' /\ EntryInv'
<1>1. desc' = desc /\ \A g \in Files : PackageNames(g)' = PackageNames(g)
  BY Zenon DEF Grows, PackageNames
<1>2. FileInv'
  <2> SUFFICES ASSUME NEW p \in Packages, NEW g \in files'[p]
               PROVE  p = desc'[g].pkg /\ Filed(g)'
    BY Zenon DEF FileInv
  <2>1. g \in Files
    BY Zenon DEF TypeInv
  <2>2. CASE g \in files[p]
    BY <1>1, <2>1, <2>2, FiledKept, Zenon DEF FileInv
  <2> QED
    BY <1>1, <2>2, Zenon
<1>3. EntryInv'
  <2> SUFFICES ASSUME NEW p \in Packages, NEW n \in Names
               PROVE  /\ \A g \in Files : symbols'[p][n] = g => n \in desc'[g].syms /\ Known(g)'
                      /\ symbols'[p][n] = Pkg => \E g \in Files : n \in PackageNames(g)'
    BY Zenon DEF EntryInv
  <2>1. CASE symbols'[p][n] = symbols[p][n]
    <3>1. \A g \in Files : Known(g) => Known(g)'
      BY GrowsKeeps, Zenon
    <3> QED
      BY <1>1, <2>1, <3>1, Zenon DEF EntryInv
  <2>2. CASE \E g \in Files : symbols'[p][n] = g /\ n \in desc[g].syms /\ Known(g)'
    <3>1. PICK h \in Files : symbols'[p][n] = h /\ n \in desc[h].syms /\ Known(h)'
      BY <2>2, Zenon
    <3>2. symbols'[p][n] # Pkg
      BY <3>1, OtherAssumption, Zenon
    <3>3. n \in desc'[h].syms
      BY <1>1, <3>1, Zenon
    <3> QED
      BY <3>1, <3>2, <3>3, Zenon
  <2>3. CASE symbols'[p][n] = Pkg /\ \E g \in Files : n \in PackageNames(g)
    <3>1. symbols'[p][n] \notin Files
      BY <2>3, OtherAssumption, Zenon
    <3>2. \E g \in Files : n \in PackageNames(g)'
      BY <1>1, <2>3, Zenon
    <3> QED
      BY <3>1, <3>2, Zenon
  <2> QED
    BY <2>1, <2>2, <2>3, Zenon
<1> QED
  BY <1>2, <1>3, Zenon

\* A package is entered that a file is in.
LEMMA PackageWriteKeeps ==
  ASSUME TypeInv, TypeInv', StackInv, FileInv, EntryInv, NEW a \in Actors, PackageWrite(a)
  PROVE  FileInv' /\ EntryInv'
<1>1. stack[a] # <<>> /\ Top(a).pc = "package" /\ files' = files
  BY Zenon DEF PackageWrite, At
<1>2. Top(a).i <= Len(File(a).pkg)
  BY <1>1, TopRight, Zenon DEF PackagesAt, File
<1>3. Top(a).file \in Files /\ Inner(a) \in PackageNames(Top(a).file)
  BY <1>1, <1>2, TopFrame, PackagePlace, Zenon
<1>4. /\ symbols'[Outer(a)][Inner(a)] = Pkg /\ Grows
      /\ \A p \in Packages, n \in Names : symbols'[p][n] = symbols[p][n] \/ (p = Outer(a) /\ n = Inner(a))
  BY <1>1, <1>2, PackageEntered, Zenon
<1>5. \A p \in Packages, n \in Names :
        symbols'[p][n] = symbols[p][n] \/ (symbols'[p][n] = Pkg /\ \E g \in Files : n \in PackageNames(g))
  BY <1>3, <1>4, Zenon
<1> QED
  BY <1>1, <1>4, <1>5, TableStep, Zenon

\* A file is entered: its packages and imports are in the table.
LEMMA CommitKeeps ==
  ASSUME TypeInv, TypeInv', StackInv, FileInv, EntryInv, NEW a \in Actors, Commit(a)
  PROVE  FileInv' /\ EntryInv'
<1> SUFFICES ASSUME NEW f, f = Top(a).file, NEW m, m = Len(desc[f].pkg)
             PROVE  FileInv' /\ EntryInv'
  BY Zenon
<1>1. stack[a] # <<>> /\ Top(a).pc = "commit" /\ ~Failed(child[a])
  BY Zenon DEF Commit, At
<1>2. f \in Files /\ Enters(f) /\ Grows /\ f \in files'[desc[f].pkg]
  BY CommitEntered, Zenon
<1>3. PkgsTo(f, m) /\ \A j \in DOMAIN desc[f].imports : Known(desc[f].imports[j])
  BY <1>1, TopRight, Zenon DEF PackagesAt, LoadedAt
<1>4. desc' = desc /\ Known(f)'
  BY <1>2, Zenon DEF Grows, Known
<1>5. Filed(f)'
  <2>1. PkgsTo(f, m)'
    BY <1>2, <1>3, GrowsKeeps, Zenon
  <2>2. PkgsTo(f, Len(desc[f].pkg))'
    BY <1>4, <2>1, Zenon DEF PkgsTo
  <2>3. \A h \in Files : (\E j \in DOMAIN desc[f].imports : h = desc[f].imports[j]) => Known(h)'
    BY <1>2, <1>3, GrowsKeeps, Zenon
  <2> QED
    BY <1>2, <1>4, <2>2, <2>3, Zenon DEF Filed, Enters
<1>6. \A p \in Packages : \A g \in files'[p] : g \in files[p] \/ (p = desc[g].pkg /\ Filed(g)')
  BY <1>2, <1>5, Zenon DEF Enters
<1>7. \A p \in Packages, n \in Names :
        symbols'[p][n] = symbols[p][n] \/ \E g \in Files : symbols'[p][n] = g /\ n \in desc[g].syms /\ Known(g)'
  <2> SUFFICES ASSUME NEW p \in Packages, NEW n \in Names, p = desc[f].pkg, n \in desc[f].syms
               PROVE  symbols'[p][n] = f
    BY <1>2, <1>4, Zenon DEF Enters
  <2> QED
    BY <1>2, Zenon DEF Enters
<1> QED
  BY <1>2, <1>6, <1>7, TableStep, Zenon

\* Only two steps change the names and the files.
LEMMA StepTable ==
  ASSUME TypeInv, TypeInv', StackInv, FileInv, EntryInv, Grows, NEW a \in Actors, Step(a)
  PROVE  FileInv' /\ EntryInv'
<1>1. CASE UNCHANGED <<symbols, files>>
  <2>1. symbols' = symbols /\ files' = files
    BY <1>1, Zenon
  <2> QED
    BY <2>1, TableStep, Zenon
<1>2. PackageWrite(a) \/ Commit(a) \/ UNCHANGED <<symbols, files>>
  BY Zenon DEF Step, Imports, ImportsDone, PackagesDone, PackageRead, PackageCollides, Seen, CommitTwice,
               CommitCollides, CommitAfterErrors, AddExtension, ExtensionError, ExtensionsDone
<1> QED
  BY <1>1, <1>2, PackageWriteKeeps, CommitKeeps, Zenon

\* The only step by which Link succeeds is its last one.
LEMMA LinkEnds ==
  ASSUME TypeInv, StackInv, NEW a \in Actors, Step(a), outcome' # outcome, Top(a).op = "link", ~Failed(child'[a])
  PROVE  ExtensionsDone(a)
<1>1. ~HandleError(a)
  BY ErrorHandled, Zenon
<1>2. ~PackageCollides(a) /\ ~CommitCollides(a) /\ ~ExtensionError(a)
  BY <1>1, Zenon DEF PackageCollides, CommitCollides, ExtensionError
<1>3. ~CommitAfterErrors(a)
  BY Zenon DEF CommitAfterErrors
<1>4. ~Seen(a)
  BY TopRight, Zenon DEF Seen, At
<1>5. ~CommitTwice(a)
  BY Zenon DEF CommitTwice
<1>6. ~Imports(a) /\ ~ImportsDone(a) /\ ~PackagesDone(a) /\ ~PackageRead(a) /\ ~PackageWrite(a)
      /\ ~Commit(a) /\ ~AddExtension(a)
  BY Zenon DEF Imports, ImportsDone, PackagesDone, PackageRead, PackageWrite, Commit, AddExtension
<1> QED
  BY <1>2, <1>3, <1>4, <1>5, <1>6, Zenon DEF Step

\* A file whose Link succeeded is in the table, with its extensions.
OutcomeInv ==
  \A f \in Sources : outcome[f] = "ok" => Known(f) /\ \A j \in DOMAIN desc[f].exts : Owner(f, j) = f

\* What ends the last call of a goroutine.
LEMMA LastCall ==
  ASSUME TypeInv, StackInv, NEW a \in Actors, Ends(a, FALSE), Left(a, FALSE) = <<>>
  PROVE  Len(stack[a]) = 1 /\ Top(a) = stack[a][1]
<1>1. stack[a] \in Seq(Frames) /\ Len(stack[a]) \in Nat \ {0}
  BY TopFrame, Zenon DEF Ends
<1>2. SubSeq(stack[a], 1, Len(stack[a]) - 1) = <<>>
  BY Zenon DEF Left, Below
<1>3. Len(stack[a]) = 1
  <2>1. Len(SubSeq(stack[a], 1, Len(stack[a]) - 1)) = Len(stack[a]) - 1
    BY <1>1
  <2>2. Len(stack[a]) - 1 = 0
    BY <1>2, <2>1, Zenon
  <2> QED
    BY <1>1, <2>2
<1> QED
  BY <1>3, Zenon DEF Top

\* The first call of a goroutine is Link for the files linked from source.
LEMMA FirstCall ==
  ASSUME TypeInv, StackInv, NEW a \in Actors, stack[a] # <<>>
  PROVE  stack[a][1] \in Frames /\ stack[a][1].file \in Files /\ (stack[a][1].op = "link" <=> stack[a][1].file \in Sources)
<1>1. stack[a] \in Seq(Frames) /\ Len(stack[a]) \in Nat \ {0}
  BY TopFrame, Zenon
<1>2. 1 \in 1..Len(stack[a]) /\ stack[a][1] \in Frames
  BY <1>1
<1>3. stack[a][1].file \in Files
  BY <1>2 DEF Frames
<1> QED
  BY <1>2, <1>3, Zenon DEF StackInv, StackAt, ShapeAt

\* The outcomes that a step of a goroutine changes.
LEMMA StepOutcome ==
  ASSUME TypeInv, StackInv, NEW a \in Actors, Step(a), Summary(a), NEW f \in Files, outcome'[f] # outcome[f]
  PROVE  /\ stack[a] # <<>> /\ f = stack[a][1].file /\ stack'[a] = <<>> /\ outcome'[f] \in {"ok", "failed"}
         /\ outcome'[f] = "ok" /\ f \in Sources => ExtensionsDone(a) /\ ~Failed(child[a]) /\ Top(a) = stack[a][1]
<1>1. PICK err \in BOOLEAN : Ends(a, err)
  BY Zenon DEF Summary, Moved, Ended, Imports
<1>2. Left(a, err) = <<>>
  BY <1>1, Zenon DEF Ends
<1>3. stack[a] # <<>> /\ stack'[a] = <<>>
  BY <1>1, <1>2, Zenon DEF Ends
<1>4. PICK v \in {"ok", "failed"} :
        /\ outcome' = [outcome EXCEPT ![stack[a][1].file] = v]
        /\ v = "ok" /\ stack[a][1].op = "link" => ~err /\ ~Failed(child'[a])
  BY <1>1, <1>2, Zenon DEF Ends
<1>5. f = stack[a][1].file /\ outcome'[f] = v
  BY <1>4, Zenon DEF TypeInv
<1>6. ASSUME v = "ok", f \in Sources
      PROVE  ExtensionsDone(a) /\ ~Failed(child[a]) /\ Top(a) = stack[a][1]
  <2>1. ~err /\ ~Failed(child'[a]) /\ stack[a][1].op = "link"
    BY <1>3, <1>4, <1>5, <1>6, FirstCall, Zenon
  <2>2. Top(a) = stack[a][1]
    BY <1>1, <1>2, <2>1, LastCall, Zenon
  <2>3. ExtensionsDone(a)
    BY <2>1, <2>2, LinkEnds, Zenon
  <2> QED
    BY <2>1, <2>2, <2>3, Zenon DEF ExtensionsDone
<1> QED
  BY <1>3, <1>4, <1>5, <1>6, Zenon

LEMMA StepOutcomeInv ==
  ASSUME TypeInv, StackInv, OutcomeInv, NEW a \in Actors, Step(a), Summary(a)
  PROVE  OutcomeInv'
<1> SUFFICES ASSUME NEW f \in Sources, outcome'[f] = "ok"
             PROVE  Known(f)' /\ \A j \in DOMAIN desc'[f].exts : Owner(f, j)' = f
  BY Zenon DEF OutcomeInv
<1>1. f \in Files /\ Grows /\ desc' = desc
  BY OtherAssumption, Zenon DEF Summary, Grows
<1>2. CASE outcome[f] = "ok"
  BY <1>1, <1>2, GrowsKeeps, Zenon DEF OutcomeInv
<1>3. CASE outcome[f] # "ok"
  <2>1. stack[a] # <<>> /\ f = stack[a][1].file /\ ExtensionsDone(a) /\ ~Failed(child[a]) /\ Top(a) = stack[a][1]
    BY <1>1, <1>3, StepOutcome, Zenon
  <2>2. Top(a).file = f /\ Top(a).pc = "extensions" /\ Top(a).i > Len(desc[f].exts)
    BY <2>1, Zenon DEF ExtensionsDone, At, File
  <2>3. Known(f) /\ \A j \in DOMAIN desc[f].exts : j < Top(a).i => Owner(f, j) = f
    BY <2>1, <2>2, TopRight, Zenon DEF LoadedAt
  <2>4. desc[f].exts \in Seq(Exts) /\ Top(a).i \in Nat
    BY <1>1, <2>1, DescFields, TopFrame
  <2>5. \A j \in DOMAIN desc[f].exts : j < Top(a).i
    BY <2>2, <2>4
  <2> QED
    BY <1>1, <2>3, <2>5, GrowsKeeps, Zenon
<1> QED
  BY <1>2, <1>3, Zenon

\* Begin changes no outcome to a success.
LEMMA BeginOutcomeInv ==
  ASSUME TypeInv, OutcomeInv, NEW a \in Actors, NEW e, Begins(a, e), UNCHANGED <<desc, files, exts>>
  PROVE  OutcomeInv'
<1>1. \A f \in Files : outcome'[f] = outcome[f] \/ outcome'[f] = "busy"
  BY Zenon DEF Begins, TypeInv
<1>2. \A f \in Sources : outcome'[f] = "ok" => outcome[f] = "ok"
  BY <1>1, OtherAssumption
<1> QED
  BY <1>2, Zenon DEF OutcomeInv, Known, Owner

-----------------------------------------------------------------------------
(* The inductive invariant.                                                *)

TableInv == TypeInv /\ StackInv /\ FileInv /\ EntryInv /\ OutcomeInv

LEMMA InitTable == Init => TableInv
<1> SUFFICES ASSUME Init
             PROVE  TableInv
  OBVIOUS
<1>1. TypeInv
  <2>1. Handler \in Handlers /\ <<>> \in Seq(Frames)
    BY DEF Handler, Handlers
  <2>2. strict \in BOOLEAN /\ desc \in Descs
    BY OtherAssumption DEF Init
  <2> QED
    BY <2>1, <2>2 DEF Init, TypeInv, Entries
<1>2. StackInv
  <2>1. \A a \in Actors : stack[a] = <<>>
    BY DEF Init
  <2>2. \A a \in Actors : 1..Len(stack[a]) = {}
    BY <2>1
  <2> QED
    BY <2>2, Zenon DEF StackInv
<1>3. FileInv
  <2>1. \A p \in Packages : files[p] = {}
    BY DEF Init
  <2> QED
    BY <2>1 DEF FileInv
<1>4. EntryInv
  <2>1. \A p \in Packages, n \in Names : symbols[p][n] = None
    BY DEF Init
  <2>2. None # Pkg /\ None \notin Files
    BY OtherAssumption DEF None, Pkg
  <2> QED
    BY <2>1, <2>2, Zenon DEF EntryInv
<1>5. OutcomeInv
  <2>1. \A f \in Sources : outcome[f] = "no"
    BY OtherAssumption DEF Init
  <2> QED
    BY <2>1 DEF OutcomeInv
<1> QED
  BY <1>1, <1>2, <1>3, <1>4, <1>5, Zenon DEF TableInv

\* A step of a goroutine, whose other calls are right.
LEMMA StepStacks ==
  ASSUME TypeInv, StackInv, Grows, NEW a \in Actors, Alone(a), \A t : t = stack'[a] => Right(a, t)
  PROVE  StackInv'
<1>1. \A b \in Actors : \A t : t = stack'[b] => Right(b, t)
  BY OthersRight, Zenon
<1> QED
  BY <1>1, AllRight, Zenon

LEMMA BeginTable ==
  ASSUME TableInv, NEW a \in Actors, Begin(a)
  PROVE  TableInv' /\ Grows
<1>1. TypeInv /\ StackInv /\ FileInv /\ EntryInv /\ OutcomeInv
  BY Zenon DEF TableInv
<1>2. /\ TypeInv' /\ Alone(a)
      /\ UNCHANGED <<desc, strict, symbols, files, exts, parent>>
  BY <1>1, BeginBegins, Zenon
<1>3. PICK e : Begins(a, e)
  BY <1>1, BeginBegins, Zenon
<1>4. Grows
  BY <1>2, Zenon DEF Grows
<1>5. \A t : t = stack'[a] => Right(a, t)
  BY <1>1, <1>2, <1>3, BeginRight, Zenon
<1>6. StackInv'
  BY <1>1, <1>2, <1>4, <1>5, StepStacks, Zenon
<1>7. symbols' = symbols /\ files' = files
  BY <1>2, Zenon
<1>8. FileInv' /\ EntryInv'
  BY <1>1, <1>2, <1>4, <1>7, TableStep, Zenon
<1>9. OutcomeInv'
  BY <1>1, <1>2, <1>3, BeginOutcomeInv, Zenon
<1> QED
  BY <1>2, <1>4, <1>6, <1>8, <1>9, Zenon DEF TableInv

LEMMA StepTableInv ==
  ASSUME TableInv, NEW a \in Actors, Step(a)
  PROVE  TableInv' /\ Grows
<1>1. TypeInv /\ StackInv /\ FileInv /\ EntryInv /\ OutcomeInv
  BY Zenon DEF TableInv
<1>2. Summary(a)
  BY <1>1, StepSummary, Zenon
<1>3. TypeInv' /\ Grows /\ Alone(a) /\ \A t : t = stack'[a] => Right(a, t)
  BY <1>2, Zenon DEF Summary
<1>4. StackInv'
  BY <1>1, <1>3, StepStacks, Zenon
<1>5. FileInv' /\ EntryInv'
  BY <1>1, <1>3, StepTable, Zenon
<1>6. OutcomeInv'
  BY <1>1, <1>2, StepOutcomeInv, Zenon
<1> QED
  BY <1>3, <1>4, <1>5, <1>6, Zenon DEF TableInv

LEMMA StutterTable ==
  ASSUME TableInv, UNCHANGED vars
  PROVE  TableInv' /\ Grows
<1>1. /\ desc' = desc /\ strict' = strict /\ symbols' = symbols /\ files' = files /\ exts' = exts
      /\ parent' = parent /\ child' = child /\ stack' = stack /\ outcome' = outcome
  BY Zenon DEF vars
<1>2. Grows
  BY <1>1, Zenon DEF Grows
<1>3. TypeInv'
  BY <1>1, Zenon DEF TableInv, TypeInv
<1>4. StackInv'
  <2>1. \A a \in Actors : \A t : t = stack'[a] => Right(a, t)
    <3> SUFFICES ASSUME NEW a \in Actors, NEW t, t = stack[a]
                 PROVE  Right(a, t)
      BY <1>1, Zenon
    <3> SUFFICES ASSUME NEW k \in 1..Len(t)
                 PROVE  StackAt(t, k)' /\ (~Failed(child'[a]) => LoadAt(t, k)')
      BY Zenon DEF Right
    <3>1. StackAt(t, k) /\ (~Failed(child[a]) => LoadAt(t, k))
      BY Zenon DEF TableInv, StackInv
    <3>2. t[k] \in Frames
      <4>1. t \in Seq(Frames)
        BY Zenon DEF TableInv, TypeInv
      <4> QED
        BY <4>1
    <3>3. StackAt(t, k)' /\ (LoadAt(t, k) => LoadAt(t, k)')
      BY <1>1, <1>2, <3>1, <3>2, FrameKept, Zenon DEF TableInv, StackAt, ShapeAt, LoadAt
    <3> QED
      BY <1>1, <3>1, <3>3, Zenon
  <2> QED
    BY <2>1, AllRight, Zenon
<1>5. FileInv' /\ EntryInv'
  BY <1>1, <1>2, <1>3, TableStep, Zenon DEF TableInv
<1>6. OutcomeInv'
  BY <1>1, Zenon DEF TableInv, OutcomeInv, Known, Owner
<1> QED
  BY <1>3, <1>4, <1>5, <1>6, <1>2, Zenon DEF TableInv

LEMMA NextTable ==
  ASSUME TableInv, [Next]_vars
  PROVE  TableInv' /\ Grows
BY BeginTable, StepTableInv, StutterTable, Zenon DEF Next

\* The table has for a successful Link all that it should have.
LEMMA OutcomeRegistered ==
  ASSUME TableInv
  PROVE  LinkedIsRegistered
<1> SUFFICES ASSUME NEW f \in Sources, outcome[f] = "ok"
             PROVE  /\ f \in files[desc[f].pkg]
                    /\ \A n \in desc[f].syms : symbols[desc[f].pkg][n] = f
                    /\ \A i \in DOMAIN desc[f].exts :
                         exts[desc[f].exts[i][1]][<<desc[f].exts[i][2], desc[f].exts[i][3]>>] = f
                    /\ \A i \in DOMAIN desc[f].imports : desc[f].imports[i] \in files[desc[desc[f].imports[i]].pkg]
  BY Zenon DEF LinkedIsRegistered
<1>1. TypeInv /\ FileInv /\ OutcomeInv /\ f \in Files
  BY OtherAssumption, Zenon DEF TableInv
<1>2. Known(f) /\ \A j \in DOMAIN desc[f].exts : Owner(f, j) = f
  BY <1>1, Zenon DEF OutcomeInv
<1>3. Filed(f) /\ desc[f].imports \in Seq(Files)
  BY <1>1, <1>2, KnownFiled, DescFields, Zenon
<1>4. \A i \in DOMAIN desc[f].imports : desc[f].imports[i] \in Files
  BY <1>3
<1> QED
  BY <1>2, <1>3, <1>4, Zenon DEF Known, Owner, Filed

-----------------------------------------------------------------------------
(* Link gets the linked results of its dependencies, so that a file is in  *)
(* the table on its own account before another file imports it.            *)

Imported(f, g) == \E j \in DOMAIN desc[f].imports : g = desc[f].imports[j]

\* g is not linked from source, or was linked successfully.
Ready(g) == g \in Sources => outcome[g] = "ok"

\* Only files that are ready are imported; the file of a Link in progress
\* enters the table by that Link.
SourceAt(r) ==
  /\ r.op = "import" => Ready(r.file)
  /\ r.op = "link" => /\ outcome[r.file] = "busy" /\ (r.pc # "extensions" => ~Known(r.file))
                      /\ \A g \in Files : Imported(r.file, g) => Ready(g)

Linking(a, f) == stack[a] # <<>> /\ stack[a][1].op = "link" /\ stack[a][1].file = f

SourceInv ==
  /\ \A f \in Sources : outcome[f] = "no" => ~Known(f)
  /\ \A f \in Sources : outcome[f] = "ok" => \A g \in Files : Imported(f, g) => Ready(g)
  /\ \A a \in Actors : \A k \in 1..Len(stack[a]) : \A r \in Frames : r = stack[a][k] => SourceAt(r)
  /\ \A a, b \in Actors, f \in Files : Linking(a, f) /\ Linking(b, f) => a = b

\* The call q goes on as r.
Same(q, r) == r.op = q.op /\ r.file = q.file /\ (q.pc = "extensions" => r.pc = "extensions")

\* A call after a step is one from before it, or a new Import.
LEMMA CallsFrom ==
  ASSUME TypeInv, NEW a \in Actors, Summary(a), NEW t, t = stack'[a], NEW k \in 1..Len(t)
  PROVE  \/ k \in 1..Len(stack[a]) /\ Same(stack[a][k], t[k])
         \/ Imports(a) /\ t[k].op = "import" /\ Imported(Top(a).file, t[k].file)
<1> SUFFICES ASSUME NEW s, s = stack[a], NEW n, n = Len(s)
             PROVE  \/ k \in 1..n /\ Same(s[k], t[k])
                    \/ Imports(a) /\ t[k].op = "import" /\ Imported(Top(a).file, t[k].file)
  BY Zenon
<1>1. s \in Seq(Frames) /\ n \in 1..n /\ n \in Nat \ {0} /\ Top(a) = s[n] /\ t \in Seq(Frames)
  BY TopFrame, Zenon DEF Summary, TypeInv
<1>2. \A q : Same(q, q)
  BY Zenon DEF Same
<1>3. CASE Moved(a)
  <2>1. PICK r : Advance(a, r) /\ (Top(a).pc = "extensions" => r.pc = "extensions")
    BY <1>3, Zenon DEF Moved
  <2>2. t = [s EXCEPT ![n] = r] /\ Same(s[n], r)
    BY <1>1, <2>1, Zenon DEF Advance, Same
  <2>3. k \in 1..n /\ (k = n => t[k] = r) /\ (k # n => t[k] = s[k])
    BY <1>1, <2>2
  <2> QED
    BY <1>2, <2>2, <2>3, Zenon
<1>4. CASE Ended(a)
  <2>1. PICK err \in BOOLEAN : Ends(a, err)
    BY <1>4, Zenon DEF Ended
  <2>2. t = <<>> \/ t = SubSeq(s, 1, n - 1)
    BY <2>1, Zenon DEF Ends, Left, Below
  <2>3. k \in 1..n /\ t[k] = s[k]
    BY <1>1, <2>2
  <2> QED
    BY <1>2, <2>3, Zenon
<1>5. CASE Imports(a)
  <2>1. PICK r, e : Pushed(s, t, r, e)
    BY <1>5, ImportsPushes, Zenon
  <2>2. Len(t) = n + 1 /\ t[n] = r /\ t[n + 1] = e /\ \A l \in 1..n : l # n => t[l] = s[l]
    BY <2>1, Zenon DEF Pushed
  <2>7. e.op = "import" /\ r.file = Top(a).file /\ \E j \in DOMAIN desc[r.file].imports : e.file = desc[r.file].imports[j]
    BY <1>1, <2>1, Zenon DEF Pushed
  <2>3. e.op = "import" /\ Imported(Top(a).file, e.file)
    BY <2>7, Zenon DEF Imported
  <2>4. s[n].pc # "extensions"
    BY <1>1, <1>5 DEF Imports, At
  <2>5. Same(s[n], r)
    BY <2>1, <2>4, Zenon DEF Pushed, Same
  <2>6. k = n + 1 \/ k = n \/ (k \in 1..n /\ k # n)
    BY <1>1, <2>2
  <2> QED
    BY <1>1, <1>2, <1>5, <2>2, <2>3, <2>5, <2>6, Zenon
<1> QED
  BY <1>3, <1>4, <1>5, Zenon DEF Summary

\* A file enters the table by Commit, which goes on with the extensions.
LEMMA KnownNew ==
  ASSUME TypeInv, Grows, NEW a \in Actors, Step(a), NEW g \in Files, Known(g)', ~Known(g)
  PROVE  /\ Commit(a) /\ stack[a] # <<>> /\ g = Top(a).file
         /\ stack'[a][Len(stack[a])].pc = "extensions"
<1>1. files' # files
  BY Zenon DEF Known, Grows
<1>2. Commit(a)
  BY <1>1, Zenon DEF Step, Imports, ImportsDone, PackagesDone, PackageRead, PackageWrite, PackageCollides, Seen,
               CommitTwice, CommitCollides, CommitAfterErrors, AddExtension, ExtensionError, ExtensionsDone
<1>3. stack[a] # <<>> /\ Goto(a, "extensions", 1)
  BY <1>2, Zenon DEF Commit, At
<1>4. g = Top(a).file
  <2> SUFFICES ASSUME NEW f, f = Top(a).file
               PROVE  g = f
    BY Zenon
  <2>1. Enters(f)
    BY <1>2, CommitEntered, Zenon
  <2>2. desc[g].pkg \in Packages /\ desc' = desc
    BY DescFields, Zenon DEF Grows
  <2> QED
    BY <2>1, <2>2, Zenon DEF Enters, Known
<1>5. "extensions" \in Pcs /\ 1 \in Nat \ {0}
  BY DEF Pcs
<1>0. \A pc \in Pcs, i \in Nat \ {0} : Goto(a, pc, i) => \E r : Advance(a, r) /\ r.pc = pc /\ r.i = i
  BY <1>3, GotoAdvances
<1>6. PICK r : Advance(a, r) /\ r.pc = "extensions" /\ r.i = 1
  BY <1>0, <1>3, <1>5, Zenon
<1>7. stack[a] \in Seq(Frames) /\ Len(stack[a]) \in 1..Len(stack[a])
  BY <1>3, TopFrame, Zenon
<1>8. stack'[a] = [stack[a] EXCEPT ![Len(stack[a])] = r]
  BY <1>6, Zenon DEF Advance
<1>9. stack'[a][Len(stack[a])] = r
  BY <1>7, <1>8
<1> QED
  BY <1>2, <1>3, <1>4, <1>6, <1>9, Zenon

\* Link is the first call of a goroutine.
LEMMA LinkFirst ==
  ASSUME TypeInv, StackInv, NEW a \in Actors, NEW k \in 1..Len(stack[a]), stack[a][k].op = "link"
  PROVE  k = 1 /\ stack[a] # <<>> /\ stack[a][k].file \in Sources /\ Linking(a, stack[a][k].file)
<1>1. stack[a] \in Seq(Frames)
  BY Zenon DEF TypeInv
<1>2. stack[a] # <<>>
  BY <1>1
<1>3. k = 1
  <2>1. k # 1 => stack[a][k].op = "import"
    BY Zenon DEF StackInv, StackAt, ShapeAt
  <2> QED
    BY <2>1
<1> QED
  BY <1>2, <1>3, FirstCall, Zenon DEF Linking

\* The invariant for a call.
LEMMA CallSource ==
  ASSUME TypeInv, SourceInv, NEW a \in Actors, NEW k \in 1..Len(stack[a])
  PROVE  stack[a][k] \in Frames /\ stack[a][k].file \in Files /\ SourceAt(stack[a][k])
<1>1. stack[a] \in Seq(Frames)
  BY Zenon DEF TypeInv
<1>2. stack[a][k] \in Frames
  BY <1>1
<1>3. stack[a][k].file \in Files
  BY <1>2 DEF Frames
<1> QED
  BY <1>2, <1>3, Zenon DEF SourceInv

\* The file of a Link in progress has no other outcome before the Link ends.
LEMMA LinkBusy ==
  ASSUME TypeInv, StackInv, SourceInv, NEW a \in Actors, Step(a), Summary(a),
         NEW f \in Sources, outcome'[f] # outcome[f]
  PROVE  Linking(a, f) /\ outcome[f] = "busy" /\ stack'[a] = <<>>
<1>1. f \in Files /\ stack[a] # <<>> /\ f = stack[a][1].file /\ stack'[a] = <<>>
  BY StepOutcome, OtherAssumption, Zenon
<1>2. stack[a][1].op = "link"
  BY <1>1, FirstCall, Zenon
<1>3. stack[a] \in Seq(Frames)
  BY Zenon DEF TypeInv
<1>4. 1 \in 1..Len(stack[a])
  BY <1>1, <1>3
<1>5. SourceAt(stack[a][1])
  BY <1>4, CallSource, Zenon
<1> QED
  BY <1>1, <1>2, <1>5, Zenon DEF Linking, SourceAt

LEMMA ReadyStays ==
  ASSUME TypeInv, StackInv, SourceInv, NEW a \in Actors, Step(a), Summary(a), NEW g \in Files, Ready(g)
  PROVE  Ready(g)'
<1> SUFFICES ASSUME g \in Sources
             PROVE  outcome'[g] = "ok"
  BY Zenon DEF Ready
<1>1. outcome[g] = "ok" /\ outcome[g] # "busy"
  BY DEF Ready
<1> QED
  BY <1>1, LinkBusy, Zenon

\* A file that is not ready enters the table by its own Link.
LEMMA KnownByLink ==
  ASSUME TypeInv, StackInv, SourceInv, NEW a \in Actors, Step(a), Summary(a),
         NEW f \in Sources, outcome[f] # "ok", ~Known(f), Known(f)'
  PROVE  Linking(a, f) /\ outcome[f] = "busy" /\ Len(stack[a]) = 1 /\ stack'[a][1].pc = "extensions"
<1>1. f \in Files /\ Grows
  BY OtherAssumption, Zenon DEF Summary
<1>2. stack[a] # <<>> /\ f = Top(a).file /\ stack'[a][Len(stack[a])].pc = "extensions"
  BY <1>1, KnownNew, Zenon
<1> SUFFICES ASSUME NEW n, n = Len(stack[a])
             PROVE  Linking(a, f) /\ outcome[f] = "busy" /\ n = 1 /\ stack'[a][1].pc = "extensions"
  BY Zenon
<1>3. n \in 1..Len(stack[a]) /\ Top(a) = stack[a][n] /\ Top(a).op \in {"link", "import"}
  BY <1>2, TopFrame, Zenon
<1>4. SourceAt(stack[a][n])
  BY <1>3, CallSource, Zenon
<1>5. Top(a).op # "import"
  BY <1>2, <1>3, <1>4, Zenon DEF SourceAt, Ready
<1>6. Top(a).op = "link"
  BY <1>3, <1>5
<1>7. n = 1 /\ Linking(a, f)
  BY <1>2, <1>3, <1>6, LinkFirst, Zenon
<1>8. outcome[f] = "busy"
  BY <1>2, <1>3, <1>4, <1>6, Zenon DEF SourceAt
<1> QED
  BY <1>2, <1>7, <1>8, Zenon

\* What an import of a call that is right may be.
LEMMA ImportReady ==
  ASSUME TypeInv, SourceInv, NEW r \in Frames, SourceAt(r), NEW g \in Files, Imported(r.file, g)
  PROVE  Ready(g)
<1>1. r.file \in Files /\ r.op \in {"link", "import"}
  BY DEF Frames
<1>2. CASE r.op = "link"
  BY <1>2, Zenon DEF SourceAt
<1>3. CASE r.op = "import" /\ r.file \in Sources
  BY <1>3, Zenon DEF SourceAt, Ready, SourceInv
<1>4. CASE r.op = "import" /\ r.file \notin Sources
  <2>1. Linkable(desc)
    BY DescsAssumption, Zenon DEF TypeInv
  <2>2. \A i \in DOMAIN desc[r.file].imports : desc[r.file].imports[i] \notin Sources
    BY <1>1, <1>4, <2>1, Zenon DEF Linkable
  <2> QED
    BY <2>2, Zenon DEF Imported, Ready
<1> QED
  BY <1>1, <1>2, <1>3, <1>4

\* The calls after a step of a goroutine are right.
LEMMA StepSource ==
  ASSUME TypeInv, StackInv, SourceInv, NEW a \in Actors, Step(a), Summary(a),
         NEW b \in Actors, NEW t, t = stack'[b], NEW k \in 1..Len(t), NEW r \in Frames, r = t[k]
  PROVE  SourceAt(r)'
<1>0. Grows /\ Alone(a) /\ desc' = desc
  BY Zenon DEF Summary, Grows
<1>1. \/ k \in 1..Len(stack[b]) /\ Same(stack[b][k], r)
      \/ b = a /\ Imports(a) /\ r.op = "import" /\ Imported(Top(a).file, r.file)
  <2>1. CASE b = a
    BY <2>1, CallsFrom, Zenon
  <2>2. CASE b # a
    BY <1>0, <2>2, Zenon DEF Alone, Same
  <2> QED
    BY <2>1, <2>2, Zenon
<1>2. CASE k \in 1..Len(stack[b]) /\ Same(stack[b][k], r)
  <2> SUFFICES ASSUME NEW q, q = stack[b][k]
               PROVE  SourceAt(r)'
    BY Zenon
  <2>1. q \in Frames /\ q.file \in Files /\ SourceAt(q) /\ r.op = q.op /\ r.file = q.file
        /\ (q.pc = "extensions" => r.pc = "extensions")
    BY <1>2, CallSource, Zenon DEF Same
  <2>2. r.op = "import" => Ready(r.file)'
    BY <2>1, ReadyStays, Zenon DEF SourceAt
  <2>3. ASSUME r.op = "link"
        PROVE  /\ outcome'[r.file] = "busy" /\ (r.pc # "extensions" => ~Known(r.file)')
               /\ \A g \in Files : Imported(r.file, g)' => Ready(g)'
    <3>1. k = 1 /\ q.file \in Sources /\ Linking(b, q.file)
      BY <1>2, <2>1, <2>3, LinkFirst, Zenon
    <3>2. /\ outcome[q.file] = "busy" /\ (q.pc # "extensions" => ~Known(q.file))
          /\ \A g \in Files : Imported(q.file, g) => Ready(g)
      BY <2>1, <2>3, Zenon DEF SourceAt
    <3>3. \A c \in Actors : Linking(c, q.file) => c = b
      BY <2>1, <3>1, Zenon DEF SourceInv
    <3>4. outcome'[q.file] = "busy"
      <4>1. outcome'[q.file] # outcome[q.file] => stack'[b] = <<>>
        BY <3>1, <3>3, LinkBusy, Zenon
      <4>2. stack'[b] # <<>>
        OBVIOUS
      <4> QED
        BY <3>2, <4>1, <4>2, Zenon
    <3>5. ASSUME r.pc # "extensions", Known(q.file)'
          PROVE  FALSE
      <4>1. ~Known(q.file) /\ outcome[q.file] # "ok"
        BY <2>1, <3>2, <3>5
      <4>2. Linking(a, q.file) /\ stack'[a][1].pc = "extensions"
        BY <3>1, <3>5, <4>1, KnownByLink, Zenon
      <4> QED
        BY <3>1, <3>3, <3>5, <4>2, Zenon
    <3>6. \A g \in Files : Imported(q.file, g)' => Ready(g)'
      BY <1>0, <3>2, ReadyStays, Zenon DEF Imported
    <3> QED
      BY <2>1, <3>4, <3>5, <3>6, Zenon
  <2> QED
    BY <2>2, <2>3, Zenon DEF SourceAt
<1>3. CASE b = a /\ Imports(a) /\ r.op = "import" /\ Imported(Top(a).file, r.file)
  <2>1. Top(a) \in Frames /\ Len(stack[a]) \in 1..Len(stack[a]) /\ Top(a) = stack[a][Len(stack[a])] /\ r.file \in Files
    <3>1. r.file \in Files
      BY DEF Frames
    <3> QED
      BY <3>1, TopFrame, Zenon DEF Summary
  <2>2. SourceAt(Top(a))
    BY <2>1, CallSource, Zenon
  <2>3. Ready(r.file)'
    BY <1>3, <2>1, <2>2, ImportReady, ReadyStays, Zenon
  <2>4. r.op = "import" /\ r.op # "link"
    BY <1>3
  <2> QED
    BY <2>3, <2>4, Zenon DEF SourceAt
<1> QED
  BY <1>1, <1>2, <1>3, Zenon

LEMMA StepSourceInv ==
  ASSUME TypeInv, StackInv, SourceInv, NEW a \in Actors, Step(a), Summary(a)
  PROVE  SourceInv'
<1>0. Grows /\ Alone(a) /\ desc' = desc /\ Sources \subseteq Files
  BY OtherAssumption, Zenon DEF Summary, Grows
<1>1. ASSUME NEW f \in Sources, outcome'[f] = "no"
      PROVE  ~Known(f)'
  <2>1. outcome[f] = "no"
    <3>1. outcome'[f] # outcome[f] => outcome'[f] \in {"ok", "failed"}
      BY <1>0, StepOutcome, Zenon
    <3> QED
      BY <1>1, <3>1
  <2>2. ~Known(f) /\ outcome[f] # "ok" /\ outcome[f] # "busy"
    BY <2>1 DEF SourceInv
  <2> QED
    BY <2>2, KnownByLink, Zenon
<1>2. ASSUME NEW f \in Sources, outcome'[f] = "ok", NEW g \in Files, Imported(f, g)
      PROVE  Ready(g)'
  <2>1. CASE outcome[f] = "ok"
    BY <1>2, <2>1, ReadyStays, Zenon DEF SourceInv
  <2>2. CASE outcome[f] # "ok"
    <3>1. Linking(a, f)
      BY <1>2, <2>2, LinkBusy, Zenon
    <3>2. stack[a] \in Seq(Frames) /\ stack[a] # <<>>
      BY <3>1, Zenon DEF TypeInv, Linking
    <3>3. 1 \in 1..Len(stack[a])
      BY <3>2
    <3>4. SourceAt(stack[a][1])
      BY <3>3, CallSource, Zenon
    <3>5. Ready(g)
      BY <1>2, <3>1, <3>4, Zenon DEF SourceAt, Linking
    <3> QED
      BY <3>5, ReadyStays, Zenon
  <2> QED
    BY <2>1, <2>2, Zenon
<1>3. \A b \in Actors : \A k \in 1..Len(stack'[b]) : \A r \in Frames : r = stack'[b][k] => SourceAt(r)'
  BY StepSource, Zenon
<1>4. ASSUME NEW b \in Actors, NEW f \in Files, Linking(b, f)'
      PROVE  Linking(b, f)
  <2>1. CASE b # a
    BY <1>0, <1>4, <2>1, Zenon DEF Alone, Linking
  <2>2. CASE b = a
    <3> SUFFICES ASSUME NEW t, t = stack'[a]
                 PROVE  Linking(a, f)
      BY <2>2, Zenon
    <3>1. t \in Seq(Frames) /\ t # <<>> /\ t[1].op = "link" /\ t[1].file = f /\ stack[a] # <<>>
      BY <1>4, <2>2, Zenon DEF Summary, TypeInv, Linking
    <3>2. 1 \in 1..Len(t) /\ t[1].op # "import"
      BY <3>1
    <3>3. Same(stack[a][1], t[1])
      BY <3>2, CallsFrom, Zenon
    <3> QED
      BY <3>1, <3>3, Zenon DEF Same, Linking
  <2> QED
    BY <2>1, <2>2, Zenon
<1>5. \A b, c \in Actors, f \in Files : Linking(b, f)' /\ Linking(c, f)' => b = c
  BY <1>4, Zenon DEF SourceInv
<1>6. \A f \in Sources : outcome'[f] = "ok" => \A g \in Files : Imported(f, g)' => Ready(g)'
  BY <1>0, <1>2, Zenon DEF Imported
<1> QED
  BY <1>1, <1>3, <1>5, <1>6, Zenon DEF SourceInv

LEMMA BeginSourceInv ==
  ASSUME TypeInv, StackInv, SourceInv, NEW a \in Actors, Alone(a), NEW e, Begins(a, e), TypeInv',
         UNCHANGED <<desc, symbols, files>>
  PROVE  SourceInv'
<1>0. /\ desc' = desc /\ files' = files /\ stack[a] = <<>> /\ stack'[a] = <<e>> /\ e \in Frames
      /\ (\A f : Known(f)' <=> Known(f)) /\ (\A f, g : Imported(f, g)' <=> Imported(f, g)) /\ Sources \subseteq Files
  BY OtherAssumption, Zenon DEF Begins, Known, Imported
<1>1. e.file \in Files /\ e.op \in {"link", "import"}
  BY <1>0 DEF Frames
<1>2. \A f \in Files : outcome'[f] = outcome[f] \/ (f = e.file /\ outcome[f] = "no" /\ outcome'[f] = "busy")
  BY <1>1, Zenon DEF Begins, TypeInv
<1>3. \A g \in Files : Ready(g) => Ready(g)'
  <2>1. "no" # "ok"
    OBVIOUS
  <2> QED
    BY <1>2, <2>1, Zenon DEF Ready
<1>4. \A f \in Sources : outcome'[f] = "no" => ~Known(f)'
  <2>1. "busy" # "no"
    OBVIOUS
  <2> QED
    BY <1>0, <1>2, <2>1, Zenon DEF SourceInv
<1>5. \A f \in Sources : outcome'[f] = "ok" => \A g \in Files : Imported(f, g)' => Ready(g)'
  <2>1. "busy" # "ok"
    OBVIOUS
  <2> QED
    BY <1>0, <1>2, <1>3, <2>1, Zenon DEF SourceInv
<1>6. ASSUME NEW b \in Actors, NEW k \in 1..Len(stack'[b]), NEW r \in Frames, r = stack'[b][k]
      PROVE  SourceAt(r)'
  <2>1. CASE b # a
    <3>1. k \in 1..Len(stack[b]) /\ r = stack[b][k]
      BY <1>6, <2>1, Zenon DEF Alone
    <3>2. SourceAt(r) /\ r.file \in Files
      BY <3>1, CallSource, Zenon
    <3>3. r.op = "link" => outcome'[r.file] = "busy"
      <4>1. "busy" # "no"
        OBVIOUS
      <4> QED
        BY <1>2, <3>2, <4>1, Zenon DEF SourceAt
    <3> QED
      BY <1>0, <1>3, <3>2, <3>3, Zenon DEF SourceAt
  <2>2. CASE b = a
    <3>1. r = e
      BY <1>0, <1>6, <2>2
    <3>2. CASE e.op = "import"
      <4>1. e.file \notin Sources /\ e.op # "link"
        BY <3>2 DEF Begins
      <4> QED
        BY <3>1, <4>1, Zenon DEF SourceAt, Ready
    <3>3. CASE e.op = "link"
      <4>1. /\ e.file \in Sources /\ outcome[e.file] = "no" /\ outcome' = [outcome EXCEPT ![e.file] = "busy"] /\ e.op # "import"
            /\ \A i \in DOMAIN desc[e.file].imports :
                 desc[e.file].imports[i] \in Sources => outcome[desc[e.file].imports[i]] = "ok"
        BY <3>3, Zenon DEF Begins
      <4>2. outcome'[e.file] = "busy" /\ ~Known(e.file)'
        BY <1>0, <1>1, <4>1, Zenon DEF TypeInv, SourceInv
      <4>3. \A g \in Files : Imported(e.file, g) => Ready(g)
        BY <4>1, Zenon DEF Imported, Ready
      <4> QED
        BY <1>0, <1>3, <3>1, <4>1, <4>2, <4>3, Zenon DEF SourceAt
    <3> QED
      BY <1>1, <3>2, <3>3
  <2> QED
    BY <2>1, <2>2, Zenon
<1>7. ASSUME NEW b \in Actors, NEW f \in Files, Linking(b, f)'
      PROVE  IF b = a THEN outcome[f] = "no" ELSE Linking(b, f) /\ outcome[f] = "busy"
  <2>1. CASE b = a
    <3>1. stack'[a][1] = e
      BY <1>0
    <3>2. e.op = "link" /\ e.file = f
      BY <1>7, <2>1, <3>1, Zenon DEF Linking
    <3>3. outcome[f] = "no"
      BY <3>2 DEF Begins
    <3> QED
      BY <2>1, <3>3, Zenon
  <2>2. CASE b # a
    <3>1. Linking(b, f) /\ stack[b] \in Seq(Frames) /\ stack[b] # <<>>
      BY <1>7, <2>2, Zenon DEF Alone, Linking, TypeInv
    <3>2. 1 \in 1..Len(stack[b])
      BY <3>1
    <3>3. SourceAt(stack[b][1])
      BY <3>2, CallSource, Zenon
    <3> QED
      BY <2>2, <3>1, <3>3, Zenon DEF Linking, SourceAt
  <2> QED
    BY <2>1, <2>2, Zenon
<1>8. ASSUME NEW b \in Actors, NEW c \in Actors, NEW f \in Files, Linking(b, f)', Linking(c, f)', b # c
      PROVE  FALSE
  <2>1. "busy" # "no"
    OBVIOUS
  <2>2. b # a /\ c # a
    BY <1>7, <1>8, <2>1, Zenon
  <2> QED
    BY <1>7, <1>8, <2>2, Zenon DEF SourceInv
<1> QED
  BY <1>4, <1>5, <1>6, <1>8, Zenon DEF SourceInv

-----------------------------------------------------------------------------
(* Files that do not clash.                                                *)

\* The call of a that enters extensions.
Adding(a, r) == At(a, "extensions") /\ r = Top(a)

\* An extension number is there for a file of the table that has it; a call
\* has not entered the extensions that it has still to enter, and no two calls
\* enter those of the same file.
ExtInv ==
  /\ \A f \in Files, p \in Packages, n \in Names, t \in Tags : exts[p][<<n, t>>] = f =>
       Known(f) /\ \E j \in DOMAIN desc[f].exts : desc[f].exts[j] = <<p, n, t>>
  /\ \A a \in Actors, r \in Frames : Adding(a, r) =>
       \A j \in DOMAIN desc[r.file].exts : j >= r.i => Owner(r.file, j) # r.file
  /\ \A a, b \in Actors, q, r \in Frames : Adding(a, q) /\ Adding(b, r) /\ q.file = r.file => a = b

CleanInv ==
  Clean => ~parent.errsReported /\ (\A a \in Actors : ~Failed(child[a])) /\ ExtInv

\* A name of a file is longer than the names of its packages.
LEMMA NotOwnPackage ==
  ASSUME TypeInv, NEW f \in Files, NEW n \in desc[f].syms
  PROVE  n \notin PackageNames(f)
<1> SUFFICES ASSUME NEW i \in 1..Len(desc[f].pkg), n = Prefix(desc[f].pkg, i)
             PROVE  FALSE
  BY Zenon DEF PackageNames
<1>1. desc[f].pkg \in Seq(STRING) /\ WellFormed(desc[f])
  BY DescFields, Zenon
<1>2. i \in 0..Len(desc[f].pkg)
  BY <1>1
<1>3. Len(n) = i
  BY <1>1, <1>2, PrefixFacts, Zenon
<1>4. Len(n) > Len(desc[f].pkg)
  BY <1>1, Zenon DEF WellFormed
<1> QED
  BY <1>1, <1>3, <1>4

\* A file's name that is also a name or package of a file is of that file.
LEMMA NoClash ==
  ASSUME TypeInv, Clean, NEW f \in Files, NEW n \in desc[f].syms, NEW g \in Files
  PROVE  (n \in desc[g].syms => g = f) /\ n \notin PackageNames(g)
<1>1. f # g => ~Clash(f, g)
  BY Zenon DEF Clean
<1>2. f # g => n \notin desc[g].syms \cup PackageNames(g)
  BY <1>1 DEF Clash
<1>3. f = g => n \notin PackageNames(g)
  BY NotOwnPackage, Zenon
<1> QED
  BY <1>2, <1>3

LEMMA NoPackageCollides ==
  ASSUME TypeInv, StackInv, EntryInv, Clean, NEW a \in Actors
  PROVE  ~PackageCollides(a)
<1> SUFFICES ASSUME PackageCollides(a)
             PROVE  FALSE
  OBVIOUS
<1>1. /\ stack[a] # <<>> /\ (Top(a).pc = "package" \/ Top(a).i <= Len(File(a).pkg))
      /\ symbols[Outer(a)][Inner(a)] \in Files
  BY Zenon DEF PackageCollides, At
<1>2. Top(a).i <= Len(File(a).pkg)
  BY <1>1, TopRight, Zenon DEF PackagesAt, File
<1>3. Outer(a) \in Packages /\ Inner(a) \in Names /\ Inner(a) \in PackageNames(Top(a).file) /\ Top(a).file \in Files
  BY <1>1, <1>2, PackagePlace, TopFrame, Zenon
<1>4. Inner(a) \in desc[symbols[Outer(a)][Inner(a)]].syms
  BY <1>1, <1>3, Zenon DEF EntryInv
<1> QED
  BY <1>1, <1>3, <1>4, NoClash, Zenon

LEMMA NoCommitCollides ==
  ASSUME TypeInv, EntryInv, Clean, NEW a \in Actors
  PROVE  ~CommitCollides(a)
<1> SUFFICES ASSUME CommitCollides(a), NEW f, f = Top(a).file
             PROVE  FALSE
  BY Zenon
<1>1. stack[a] # <<>> /\ ~Known(f) /\ Collides(a)
  BY Zenon DEF CommitCollides, At, File, Known
<1>2. f \in Files
  BY <1>1, TopFrame, Zenon
<1>3. desc[f].pkg \in Packages /\ desc[f].syms \subseteq Names
  BY <1>2, DescFields, Zenon
<1>4. ~desc[f].dup
  BY <1>2, Zenon DEF Clean
<1>5. PICK n \in desc[f].syms : symbols[desc[f].pkg][n] # None
  BY <1>1, <1>4, Zenon DEF Collides, File
<1>6. symbols[desc[f].pkg][n] \in Files \cup {None, Pkg}
  <2>1. n \in Names
    BY <1>3, <1>5, Zenon
  <2> QED
    BY <1>3, <2>1 DEF TypeInv
<1>7. CASE symbols[desc[f].pkg][n] = Pkg
  BY <1>2, <1>3, <1>7, NoClash, Zenon DEF EntryInv
<1>8. CASE symbols[desc[f].pkg][n] \in Files
  <2>1. PICK g \in Files : symbols[desc[f].pkg][n] = g
    BY <1>8, Zenon
  <2>2. n \in desc[g].syms /\ Known(g)
    BY <1>3, <2>1, Zenon DEF EntryInv
  <2> QED
    BY <1>1, <1>2, <2>2, NoClash, Zenon
<1> QED
  BY <1>5, <1>6, <1>7, <1>8

\* The package of the extendee of a file in the table is in the table.
LEMMA ExtendeePackage ==
  ASSUME TypeInv, FileInv, NEW f \in Files, Known(f), NEW i \in DOMAIN desc[f].exts
  PROVE  HasPackage(desc[f].exts[i][1])
<1> DEFINE S == {g \in Files : Known(g)}
<1>1. Linkable(desc)
  BY DescsAssumption, Zenon DEF TypeInv
<1>2. ASSUME NEW g \in S, NEW j \in DOMAIN desc[g].imports
      PROVE  desc[g].imports[j] \in S
  <2>1. g \in Files /\ Known(g)
    BY Zenon
  <2>2. Filed(g) /\ desc[g].imports \in Seq(Files)
    BY <2>1, KnownFiled, DescFields, Zenon
  <2>3. desc[g].imports[j] \in Files
    BY <1>2, <2>2
  <2> QED
    BY <2>2, <2>3, Zenon DEF Filed
<1>3. f \in S /\ S \in SUBSET Files
  BY Zenon
<1> HIDE DEF S
<1>4. Closed(desc, S)
  BY <1>2, Zenon DEF Closed
<1>5. PICK g \in S : desc[g].pkg = desc[f].exts[i][1]
  BY <1>1, <1>3, <1>4, Zenon DEF Linkable
<1>6. g \in Files /\ Filed(g)
  BY KnownFiled, Zenon DEF S
<1>7. desc[g].pkg \in Seq(STRING)
  BY <1>6, DescFields, Zenon
<1>8. \A j \in 1..Len(desc[g].pkg) : symbols[Prefix(desc[g].pkg, j - 1)][Prefix(desc[g].pkg, j)] = Pkg
  <2>1. \A j \in 1..Len(desc[g].pkg) : j <= Len(desc[g].pkg)
    BY <1>7
  <2> QED
    BY <1>6, <2>1, Zenon DEF Filed, PkgsTo
<1> QED
  BY <1>5, <1>8, Zenon DEF HasPackage

LEMMA NoExtensionError ==
  ASSUME TypeInv, StackInv, FileInv, Clean, ExtInv, NEW a \in Actors, ~Failed(child[a])
  PROVE  ~ExtensionError(a)
<1> SUFFICES ASSUME ExtensionError(a), NEW r, r = Top(a), NEW f, f = r.file, NEW i, i = r.i,
                    NEW x, x = desc[f].exts[i]
             PROVE  FALSE
  BY Zenon
<1>1. /\ At(a, "extensions") /\ stack[a] # <<>> /\ r.pc = "extensions" /\ i <= Len(desc[f].exts)
      /\ ~(HasPackage(x[1]) /\ exts[x[1]][<<x[2], x[3]>>] = None)
  BY Zenon DEF ExtensionError, ExtensionFree, At, Ext, File
<1>2. r \in Frames /\ f \in Files /\ i \in Nat \ {0}
  BY <1>1, TopFrame, Zenon
<1>3. i \in DOMAIN desc[f].exts
  <2>1. desc[f].exts \in Seq(Exts)
    BY <1>2, DescFields, Zenon
  <2>2. i <= Len(desc[f].exts)
    BY <1>1, Zenon
  <2> QED
    BY <1>2, <2>1, <2>2
<1>4. Known(f)
  BY <1>1, TopRight, Zenon DEF LoadedAt
<1>5. HasPackage(x[1])
  BY <1>2, <1>3, <1>4, ExtendeePackage, Zenon
<1>6. x \in Exts
  BY <1>2, <1>3, ExtPlace, Zenon
<1>7. PICK p \in Packages, n \in Names, t \in Tags : x[1] = p /\ x[2] = n /\ x[3] = t /\ x = <<p, n, t>>
  BY <1>6, ExtParts, Zenon
<1>8. exts[p][<<n, t>>] \in Files \cup {None}
  <2>1. <<n, t>> \in Names \X Tags
    BY <1>7
  <2>2. exts[p] \in [Names \X Tags -> Files \cup {None}]
    BY <1>7, Zenon DEF TypeInv, Entries
  <2> QED
    BY <2>1, <2>2, Zenon
<1>9. PICK g \in Files : exts[p][<<n, t>>] = g
  <2>1. exts[p][<<n, t>>] # None
    BY <1>1, <1>5, <1>7, Zenon
  <2> QED
    BY <1>8, <2>1
<1>10. PICK j \in DOMAIN desc[g].exts : desc[g].exts[j] = <<p, n, t>>
  <2>1. \A h \in Files : exts[p][<<n, t>>] = h => \E j \in DOMAIN desc[h].exts : desc[h].exts[j] = <<p, n, t>>
    BY Zenon DEF ExtInv
  <2> QED
    BY <1>9, <2>1, Zenon
<1>11. desc[g].exts[j] = desc[f].exts[i]
  BY <1>7, <1>10, Zenon
<1>12. g = f
  <2>1. SameExt(f, g)
    BY <1>3, <1>10, <1>11, Zenon DEF SameExt
  <2> QED
    BY <1>2, <1>9, <2>1, Zenon DEF Clean
<1>13. Owner(f, i) = f
  BY <1>7, <1>9, <1>12, Zenon DEF Owner
<1>14. i >= i
  BY <1>2
<1>15. Adding(a, r)
  BY <1>1, Zenon DEF Adding
<1> QED
  BY <1>2, <1>3, <1>13, <1>14, <1>15, Zenon DEF ExtInv

\* The current call after a step that goes on with it, or returns from it.
LEMMA GotoAdding ==
  ASSUME TypeInv, NEW a \in Actors, stack[a] # <<>>, NEW pc \in Pcs, NEW i \in Nat \ {0}, Goto(a, pc, i),
         NEW r, Adding(a, r)'
  PROVE  pc = "extensions" /\ r.file = Top(a).file /\ r.i = i
<1>0. /\ \E q : Advance(a, q) /\ q.pc = pc /\ q.i = i
      /\ stack' \in [Actors -> Seq(Frames)] /\ \A b \in Actors \ {a} : stack'[b] = stack[b]
  BY GotoAdvances, Zenon
<1>1. PICK q : Advance(a, q) /\ q.pc = pc /\ q.i = i
  BY <1>0, Zenon
<1>2. stack[a] \in Seq(Frames) /\ Len(stack[a]) \in 1..Len(stack[a])
  BY TopFrame, Zenon
<1>3. stack'[a] = [stack[a] EXCEPT ![Len(stack[a])] = q] /\ q.file = Top(a).file /\ q \in Frames
  BY <1>1, Zenon DEF Advance
<1>4. stack'[a][Len(stack'[a])] = q
  BY <1>2, <1>3
<1>5. r = q
  BY <1>4, Zenon DEF Adding, Top
<1>6. q.pc = "extensions"
  BY <1>4, Zenon DEF Adding, Top, At
<1> QED
  BY <1>1, <1>3, <1>5, <1>6, Zenon

LEMMA ReturnAdding ==
  ASSUME TypeInv, StackInv, NEW a \in Actors, stack[a] # <<>>, NEW err, NEW h, Return(a, err, h), NEW r
  PROVE  ~Adding(a, r)'
<1> SUFFICES ASSUME Adding(a, r)', NEW t, t = stack'[a], NEW s, s = stack[a]
             PROVE  FALSE
  BY Zenon
<1>1. s \in Seq(Frames) /\ Len(s) \in Nat \ {0}
  BY TopFrame, Zenon
<1>2. t = <<>> \/ t = SubSeq(s, 1, Len(s) - 1)
  <2>1. stack' = [stack EXCEPT ![a] = <<>>] \/ stack' = [stack EXCEPT ![a] = SubSeq(s, 1, Len(s) - 1)]
    BY Zenon DEF Return, Below
  <2> QED
    BY <2>1, Zenon DEF TypeInv
<1>3. t # <<>> /\ t[Len(t)].pc = "extensions"
  BY Zenon DEF Adding, At, Top
<1>4. t = SubSeq(s, 1, Len(s) - 1)
  BY <1>2, <1>3, Zenon
<1>5. Len(t) = Len(s) - 1 /\ \A l \in 1..Len(s) - 1 : t[l] = s[l]
  BY <1>1, <1>4
<1>6. Len(t) \in 1..Len(s) - 1 /\ Len(t) \in 1..Len(s) /\ Len(t) < Len(s)
  <2>1. t \in Seq(Frames)
    BY <1>1, <1>4
  <2> QED
    BY <1>1, <1>3, <1>5, <2>1
<1>7. s[Len(t)].pc = "imports"
  BY <1>6, Zenon DEF StackInv, StackAt, ShapeAt
<1>8. s[Len(t)].pc = "extensions"
  BY <1>3, <1>5, <1>6, Zenon
<1> QED
  BY <1>7, <1>8

LEMMA ImportsAdding ==
  ASSUME TypeInv, NEW a \in Actors, Imports(a), NEW r
  PROVE  ~Adding(a, r)'
<1> SUFFICES ASSUME Adding(a, r)', NEW t, t = stack'[a], NEW s, s = stack[a]
             PROVE  FALSE
  BY Zenon
<1>1. PICK q, e : Pushed(s, t, q, e)
  BY ImportsPushes, Zenon
<1>2. t[Len(t)].pc = "extensions"
  BY Zenon DEF Adding, At, Top
<1>3. t[Len(t)].pc = "packages"
  BY <1>1, Zenon DEF Pushed
<1> QED
  BY <1>2, <1>3

\* Without errors, a goroutine comes to the extensions of a file by Commit.
LEMMA AddingFrom ==
  ASSUME TypeInv, StackInv, SourceInv, NEW a \in Actors, Step(a), ~PackageCollides(a), ~ExtensionError(a),
         NEW r, Adding(a, r)'
  PROVE  \/ Commit(a) /\ r.file = Top(a).file /\ r.i = 1
         \/ AddExtension(a) /\ r.file = Top(a).file /\ r.i = Top(a).i + 1
<1>0. /\ "imports" \in Pcs /\ "packages" \in Pcs /\ "package" \in Pcs /\ "seen" \in Pcs
      /\ "commit" \in Pcs /\ "extensions" \in Pcs
      /\ "extensions" \notin {"imports", "packages", "package", "seen", "commit"} /\ 1 \in Nat \ {0}
  BY DEF Pcs
<1>1. stack[a] # <<>> => Top(a).i \in Nat \ {0} /\ Top(a).i + 1 \in Nat \ {0}
  <2>1. stack[a] # <<>> => Top(a).i \in Nat \ {0}
    BY TopFrame, Zenon
  <2> QED
    BY <2>1
<1>2. ASSUME stack[a] # <<>>, NEW pc \in {"imports", "packages", "package", "seen", "commit"}, NEW i \in Nat \ {0}
      PROVE  ~Goto(a, pc, i)
  <2>1. pc \in Pcs /\ pc # "extensions"
    BY <1>2 DEF Pcs
  <2> QED
    BY <1>2, <2>1, GotoAdding, Zenon
<1>3. ~Imports(a)
  BY ImportsAdding, Zenon
<1>4. ~ImportsDone(a)
  <2> SUFFICES ASSUME ImportsDone(a)
               PROVE  FALSE
    OBVIOUS
  <2>1. stack[a] # <<>> /\ \E pc \in {"packages", "commit"} : Goto(a, pc, 1)
    BY DEF ImportsDone, At
  <2> QED
    BY <1>0, <1>2, <2>1
<1>5. ~PackagesDone(a)
  <2> SUFFICES ASSUME PackagesDone(a)
               PROVE  FALSE
    OBVIOUS
  <2>1. stack[a] # <<>> /\ \E pc \in {"commit", "seen"} : Goto(a, pc, 1)
    BY DEF PackagesDone, At
  <2> QED
    BY <1>0, <1>2, <2>1
<1>6. ~PackageRead(a)
  <2> SUFFICES ASSUME PackageRead(a)
               PROVE  FALSE
    OBVIOUS
  <2>1. stack[a] # <<>> /\ (Goto(a, "packages", Top(a).i + 1) \/ Goto(a, "package", Top(a).i))
    BY Zenon DEF PackageRead, At
  <2> QED
    BY <1>1, <1>2, <2>1
<1>7. ~PackageWrite(a)
  <2> SUFFICES ASSUME PackageWrite(a)
               PROVE  FALSE
    OBVIOUS
  <2>1. stack[a] # <<>> /\ Goto(a, "packages", Top(a).i + 1)
    BY Zenon DEF PackageWrite, At
  <2> QED
    BY <1>1, <1>2, <2>1
<1>8. ~Seen(a)
  <2> SUFFICES ASSUME Seen(a)
               PROVE  FALSE
    OBVIOUS
  <2>1. stack[a] # <<>> /\ (Goto(a, "imports", 1) \/ Return(a, FALSE, child[a]))
    BY Zenon DEF Seen, At
  <2>2. ~Return(a, FALSE, child[a])
    BY <2>1, ReturnAdding, Zenon
  <2> QED
    BY <1>0, <1>2, <2>1, <2>2, Zenon
<1>9. ~CommitTwice(a)
  <2> SUFFICES ASSUME CommitTwice(a)
               PROVE  FALSE
    OBVIOUS
  <2>1. /\ stack[a] # <<>> /\ Top(a).pc = "commit" /\ Known(Top(a).file)
        /\ Top(a).op = "link" \/ Return(a, FALSE, child[a])
    BY Zenon DEF CommitTwice, At, Known, File
  <2>2. Top(a).op = "link"
    BY <2>1, ReturnAdding, Zenon
  <2>3. SourceAt(Top(a))
    BY <2>1, TopFrame, CallSource, Zenon
  <2>4. Top(a).pc # "extensions"
    BY <2>1
  <2> QED
    BY <2>1, <2>2, <2>3, <2>4, Zenon DEF SourceAt
<1>10. ~CommitCollides(a) /\ ~CommitAfterErrors(a) /\ ~ExtensionsDone(a)
  <2>1. CommitCollides(a) \/ CommitAfterErrors(a) \/ ExtensionsDone(a) =>
          stack[a] # <<>> /\ \E err, h : Return(a, err, h)
    BY Zenon DEF CommitCollides, CommitAfterErrors, ExtensionsDone, At
  <2> QED
    BY <2>1, ReturnAdding, Zenon
<1>11. ASSUME Commit(a)
       PROVE  r.file = Top(a).file /\ r.i = 1
  <2>1. stack[a] # <<>> /\ Goto(a, "extensions", 1)
    BY <1>11, Zenon DEF Commit, At
  <2> QED
    BY <1>0, <2>1, GotoAdding
<1>12. ASSUME AddExtension(a)
       PROVE  r.file = Top(a).file /\ r.i = Top(a).i + 1
  <2> SUFFICES ASSUME NEW i, i = Top(a).i + 1
               PROVE  r.file = Top(a).file /\ r.i = i
    BY Zenon
  <2>1. stack[a] # <<>> /\ Goto(a, "extensions", i)
    BY <1>12, Zenon DEF AddExtension, At
  <2>2. i \in Nat \ {0}
    BY <1>1, <2>1, Zenon
  <2> QED
    BY <1>0, <2>1, <2>2, GotoAdding
<1> QED
  BY <1>3, <1>4, <1>5, <1>6, <1>7, <1>8, <1>9, <1>10, <1>11, <1>12, Zenon DEF Step

\* The place of an extension.
LEMMA OwnerPlace ==
  ASSUME TypeInv, desc' = desc, NEW f \in Files, NEW j \in DOMAIN desc[f].exts
  PROVE  \E p \in Packages, n \in Names, t \in Tags :
           /\ desc[f].exts[j] = <<p, n, t>>
           /\ Owner(f, j) = exts[p][<<n, t>>] /\ Owner(f, j)' = exts'[p][<<n, t>>]
<1> SUFFICES ASSUME NEW x, x = desc[f].exts[j]
             PROVE  \E p \in Packages, n \in Names, t \in Tags :
                      /\ x = <<p, n, t>>
                      /\ Owner(f, j) = exts[p][<<n, t>>] /\ Owner(f, j)' = exts'[p][<<n, t>>]
  BY Zenon
<1>1. x \in Exts
  BY ExtPlace, Zenon
<1>2. PICK p \in Packages, n \in Names, t \in Tags : x[1] = p /\ x[2] = n /\ x[3] = t /\ x = <<p, n, t>>
  BY <1>1, ExtTriple DEF Exts
<1>3. Owner(f, j) = exts[p][<<n, t>>] /\ Owner(f, j)' = exts'[p][<<n, t>>]
  BY <1>2, Zenon DEF Owner
<1> QED
  BY <1>2, <1>3, Zenon

LEMMA AddingKnown ==
  ASSUME TypeInv, StackInv, NEW a \in Actors, ~Failed(child[a]), NEW r, Adding(a, r)
  PROVE  r \in Frames /\ r.file \in Files /\ Known(r.file)
<1>1. stack[a] # <<>> /\ r = Top(a) /\ r.pc = "extensions"
  BY Zenon DEF Adding, At
<1> QED
  BY <1>1, TopFrame, TopRight, Zenon DEF LoadedAt

\* AddExtension adds the extension of a call that was entering them.
LEMMA AddExtensionAdding ==
  ASSUME NEW a \in Actors, AddExtension(a), NEW r, r = Top(a)
  PROVE  Adding(a, r)
BY Zenon DEF AddExtension, Adding

LEMMA StepExtInv ==
  ASSUME TypeInv, StackInv, SourceInv, Clean, ExtInv, \A b \in Actors : ~Failed(child[b]),
         NEW a \in Actors, Step(a), Summary(a), ~PackageCollides(a), ~ExtensionError(a)
  PROVE  ExtInv'
<1> SUFFICES ASSUME NEW s, s = Top(a), NEW f, f = s.file, NEW i, i = s.i
             PROVE  ExtInv'
  BY Zenon
<1>0. Grows /\ Alone(a) /\ desc' = desc /\ stack[a] # <<>>
  BY Zenon DEF Summary, Grows
<1>1. s \in Frames /\ f \in Files /\ i \in Nat \ {0}
  BY <1>0, TopFrame, Zenon
<1>2. exts' = exts \/ AddExtension(a)
  BY Zenon DEF Step, Imports, ImportsDone, PackagesDone, PackageRead, PackageWrite, PackageCollides, Seen,
               CommitTwice, CommitCollides, CommitAfterErrors, Commit, ExtensionError, ExtensionsDone
<1>3. ASSUME AddExtension(a)
      PROVE  /\ Adding(a, s) /\ Known(f) /\ i \in DOMAIN desc[f].exts
             /\ \A p \in Packages, n \in Names, t \in Tags :
                  exts'[p][<<n, t>>] = exts[p][<<n, t>>] \/ (exts'[p][<<n, t>>] = f /\ desc[f].exts[i] = <<p, n, t>>)
  <2>1. Adding(a, s)
    BY <1>3, AddExtensionAdding, Zenon
  <2>2. Known(f)
    BY <2>1, AddingKnown, Zenon
  <2>3. f = Top(a).file /\ i = Top(a).i
    BY Zenon
  <2>4. i \in DOMAIN desc[f].exts /\ EntersExt(f, i)
    BY <1>3, <2>3, ExtensionEntered
  <2> QED
    BY <2>1, <2>2, <2>4, Zenon DEF EntersExt
<1>4. \A g \in Files : Known(g) => Known(g)'
  BY <1>0, GrowsKeeps, Zenon
<1>5. ASSUME NEW g \in Files, NEW p \in Packages, NEW n \in Names, NEW t \in Tags, exts'[p][<<n, t>>] = g
      PROVE  Known(g)' /\ \E j \in DOMAIN desc[g].exts : desc[g].exts[j] = <<p, n, t>>
  <2>1. CASE exts[p][<<n, t>>] = g
    <3>1. Known(g) /\ \E j \in DOMAIN desc[g].exts : desc[g].exts[j] = <<p, n, t>>
      BY <2>1, Zenon DEF ExtInv
    <3> QED
      BY <1>4, <3>1, Zenon
  <2>2. CASE exts[p][<<n, t>>] # g
    <3>1. AddExtension(a)
      BY <1>2, <1>5, <2>2, Zenon
    <3>2. g = f /\ Known(f) /\ i \in DOMAIN desc[f].exts /\ desc[f].exts[i] = <<p, n, t>>
      BY <1>3, <1>5, <2>2, <3>1, Zenon
    <3> QED
      BY <1>4, <3>2, Zenon
  <2> QED
    BY <2>1, <2>2, Zenon
<1>6. ASSUME NEW g \in Files, NEW j \in DOMAIN desc[g].exts, Owner(g, j)' = g, Owner(g, j) # g
      PROVE  AddExtension(a) /\ g = f /\ desc[f].exts[i] = desc[g].exts[j]
  <2>1. PICK p \in Packages, n \in Names, t \in Tags :
           /\ desc[g].exts[j] = <<p, n, t>>
           /\ Owner(g, j) = exts[p][<<n, t>>] /\ Owner(g, j)' = exts'[p][<<n, t>>]
    BY <1>0, <1>6, OwnerPlace, Zenon
  <2>2. AddExtension(a)
    BY <1>2, <1>6, <2>1, Zenon
  <2> QED
    BY <1>3, <1>6, <2>1, <2>2, Zenon
<1>7. \A b \in Actors \ {a} : \A r \in Frames : Adding(b, r)' => Adding(b, r)
  BY <1>0, Zenon DEF Adding, At, Top, Alone
<1>8. ASSUME NEW b \in Actors, NEW r \in Frames, Adding(b, r)', NEW j \in DOMAIN desc[r.file].exts, j >= r.i
      PROVE  Owner(r.file, j)' # r.file
  <2> SUFFICES ASSUME NEW g, g = r.file, Owner(g, j)' = g
               PROVE  FALSE
    BY Zenon
  <2>0. g \in Files
    BY DEF Frames
  <2>1. CASE b # a
    <3>1. Adding(b, r)
      BY <1>7, <1>8, <2>1, Zenon
    <3>2. Owner(g, j) # g
      BY <1>8, <3>1, Zenon DEF ExtInv
    <3>3. AddExtension(a) /\ g = f
      BY <1>6, <1>8, <2>0, <3>2, Zenon
    <3>4. Adding(a, s)
      BY <1>3, <3>3, Zenon
    <3> QED
      BY <1>1, <2>1, <3>1, <3>3, <3>4, Zenon DEF ExtInv
  <2>2. CASE b = a
    <3>1. \/ Commit(a) /\ g = f
          \/ AddExtension(a) /\ g = f /\ r.i = i + 1
      BY <1>8, <2>2, AddingFrom, Zenon
    <3>2. CASE Commit(a) /\ g = f
      <4>1. ~Known(f) /\ exts' = exts
        BY <3>2, Zenon DEF Commit, Known, File
      <4>2. PICK p \in Packages, n \in Names, t \in Tags :
              /\ desc[g].exts[j] = <<p, n, t>>
              /\ Owner(g, j) = exts[p][<<n, t>>] /\ Owner(g, j)' = exts'[p][<<n, t>>]
        BY <1>0, <1>8, <2>0, OwnerPlace, Zenon
      <4>3. exts[p][<<n, t>>] = g
        BY <4>1, <4>2, Zenon
      <4>4. Known(g)
        BY <2>0, <4>3 DEF ExtInv
      <4> QED
        BY <3>2, <4>1, <4>4, Zenon
    <3>3. CASE AddExtension(a) /\ g = f /\ r.i = i + 1
      <4>1. Adding(a, s)
        BY <1>3, <3>3, Zenon
      <4>2. desc[f].exts \in Seq(Exts)
        BY <1>1, DescFields, Zenon
      <4>3. j \in DOMAIN desc[f].exts /\ j >= i /\ j # i
        <5>1. j \in DOMAIN desc[f].exts
          BY <1>8, <3>3, Zenon
        <5> QED
          <6>1. j \in Nat /\ j >= i + 1
            BY <1>8, <3>3, <4>2, <5>1, SeqIndex, Zenon
          <6>2. i \in Nat
            BY <1>1
          <6>3. j >= i /\ j # i
            BY <6>1, <6>2
          <6> QED
            BY <5>1, <6>3, Zenon
      <4>4. Owner(f, j) # f
        BY <1>1, <4>1, <4>3, Zenon DEF ExtInv
      <4>6. Owner(f, j)' = f
        BY <3>3, Zenon
      <4>5. desc[f].exts[i] = desc[f].exts[j] /\ i \in DOMAIN desc[f].exts
        BY <1>1, <1>3, <1>6, <3>3, <4>3, <4>4, <4>6, Zenon
      <4> QED
        BY <1>1, <4>3, <4>5, Zenon DEF Clean
    <3> QED
      BY <3>1, <3>2, <3>3, Zenon
  <2> QED
    BY <2>1, <2>2, Zenon
<1>9. ASSUME NEW b \in Actors \ {a}, NEW q \in Frames, NEW r \in Frames, Adding(a, q)', Adding(b, r)'
      PROVE  q.file # r.file
  <2>1. Adding(b, r) /\ Known(r.file)
    BY <1>7, <1>9, AddingKnown, Zenon
  <2>2. (Commit(a) \/ AddExtension(a)) /\ q.file = f
    BY <1>9, AddingFrom, Zenon
  <2>3. Commit(a) => ~Known(f)
    BY Zenon DEF Commit, Known, File
  <2>4. AddExtension(a) => f # r.file
    BY <1>1, <1>3, <1>9, <2>1, Zenon DEF ExtInv
  <2> QED
    BY <2>1, <2>2, <2>3, <2>4, Zenon
<1>10. ASSUME NEW b \in Actors, NEW c \in Actors, NEW q \in Frames, NEW r \in Frames,
              Adding(b, q)', Adding(c, r)', q.file = r.file
       PROVE  b = c
  <2>1. CASE b # a /\ c # a
    BY <1>7, <1>10, <2>1, Zenon DEF ExtInv
  <2>2. CASE b = a /\ c # a
    BY <1>9, <1>10, <2>2, Zenon
  <2>3. CASE b # a /\ c = a
    BY <1>9, <1>10, <2>3, Zenon
  <2> QED
    BY <2>1, <2>2, <2>3, Zenon
<1>11. \A g \in Files, p \in Packages, n \in Names, t \in Tags : exts'[p][<<n, t>>] = g =>
         Known(g)' /\ \E j \in DOMAIN desc'[g].exts : desc'[g].exts[j] = <<p, n, t>>
  BY <1>0, <1>5, Zenon
<1>12. \A b \in Actors, r \in Frames : Adding(b, r)' =>
         \A j \in DOMAIN desc'[r.file].exts : j >= r.i => Owner(r.file, j)' # r.file
  BY <1>0, <1>8, Zenon
<1>13. \A b, c \in Actors, q, r \in Frames : Adding(b, q)' /\ Adding(c, r)' /\ q.file = r.file => b = c
  BY <1>10, Zenon
<1> QED
  BY <1>11, <1>12, <1>13, Zenon DEF ExtInv

\* Whether files clash depends on the files only.
LEMMA CleanKept ==
  ASSUME desc' = desc
  PROVE  Clean' => Clean
<1>1. \A g : PackageNames(g)' = PackageNames(g)
  BY Zenon DEF PackageNames
<1>2. \A f, g : (Clash(f, g)' <=> Clash(f, g)) /\ (SameExt(f, g)' <=> SameExt(f, g))
  BY <1>1, Zenon DEF Clash, SameExt
<1> QED
  BY <1>2 DEF Clean

LEMMA StepCleanInv ==
  ASSUME TableInv, SourceInv, CleanInv, NEW a \in Actors, Step(a), Summary(a)
  PROVE  CleanInv'
<1>1. TypeInv /\ StackInv /\ FileInv /\ EntryInv
  BY Zenon DEF TableInv
<1>2. desc' = desc
  BY Zenon DEF Summary, Grows
<1>3. Clean' => Clean
  BY <1>2, CleanKept, Zenon
<1> SUFFICES ASSUME Clean
             PROVE  ~parent'.errsReported /\ (\A b \in Actors : ~Failed(child'[b])) /\ ExtInv'
  BY <1>3, Zenon DEF CleanInv, Failed
<1>4. ~parent.errsReported /\ (\A b \in Actors : ~Failed(child[b])) /\ ExtInv
  BY Zenon DEF CleanInv
<1>5. ~PackageCollides(a) /\ ~CommitCollides(a) /\ ~ExtensionError(a)
  BY <1>1, <1>4, NoPackageCollides, NoCommitCollides, NoExtensionError, Zenon
<1>6. parent' = parent /\ child' = child
  BY <1>5, Zenon DEF Step, Imports, ImportsDone, PackagesDone, PackageRead, PackageWrite, Seen, CommitTwice,
                     CommitAfterErrors, Commit, AddExtension, ExtensionsDone
<1>7. ExtInv'
  BY <1>1, <1>4, <1>5, StepExtInv, Zenon
<1> QED
  BY <1>4, <1>6, <1>7, Zenon

LEMMA BeginCleanInv ==
  ASSUME TypeInv, CleanInv, NEW a \in Actors, NEW e, Begins(a, e), Alone(a),
         UNCHANGED <<desc, symbols, files, exts, parent>>
  PROVE  CleanInv'
<1>1. desc' = desc /\ files' = files /\ exts' = exts /\ parent' = parent /\ (\A f : Known(f)' <=> Known(f))
  BY Zenon DEF Known
<1>2. Clean' => Clean
  BY <1>1, CleanKept, Zenon
<1> SUFFICES ASSUME Clean
             PROVE  ~parent'.errsReported /\ (\A b \in Actors : ~Failed(child'[b])) /\ ExtInv'
  BY <1>2, Zenon DEF CleanInv, Failed
<1>3. ~parent.errsReported /\ (\A b \in Actors : ~Failed(child[b])) /\ ExtInv
  BY Zenon DEF CleanInv
<1>4. \A b \in Actors : ~Failed(child'[b])
  BY <1>3, Zenon DEF Begins, Alone
<1>5. \A r : ~Adding(a, r)'
  <2>1. stack'[a] = <<e>> /\ e.pc # "extensions"
    BY DEF Begins
  <2>2. stack'[a][Len(stack'[a])] = e
    BY <2>1
  <2> QED
    BY <2>1, <2>2, Zenon DEF Adding, At, Top
<1>6. \A b \in Actors : \A r : Adding(b, r)' => Adding(b, r)
  BY <1>5, Zenon DEF Adding, At, Top, Alone
<1>7. ExtInv'
  <2>1. \A f, j : Owner(f, j)' = Owner(f, j)
    BY <1>1, Zenon DEF Owner
  <2>2. \A f \in Files, p \in Packages, n \in Names, t \in Tags : exts'[p][<<n, t>>] = f =>
          Known(f)' /\ \E j \in DOMAIN desc'[f].exts : desc'[f].exts[j] = <<p, n, t>>
    <3> SUFFICES ASSUME NEW f \in Files, NEW p \in Packages, NEW n \in Names, NEW t \in Tags,
                        exts'[p][<<n, t>>] = f
                 PROVE  Known(f)' /\ \E j \in DOMAIN desc'[f].exts : desc'[f].exts[j] = <<p, n, t>>
      BY Zenon
    <3>1. exts[p][<<n, t>>] = f
      BY <1>1, Zenon
    <3>2. Known(f) /\ \E j \in DOMAIN desc[f].exts : desc[f].exts[j] = <<p, n, t>>
      BY <1>3, <3>1, Zenon DEF ExtInv
    <3> QED
      BY <1>1, <3>2, Zenon
  <2>3. \A b \in Actors, r \in Frames : Adding(b, r)' =>
          \A j \in DOMAIN desc'[r.file].exts : j >= r.i => Owner(r.file, j)' # r.file
    BY <1>1, <1>3, <1>6, <2>1, Zenon DEF ExtInv
  <2>4. \A b, c \in Actors, q, r \in Frames : Adding(b, q)' /\ Adding(c, r)' /\ q.file = r.file => b = c
    BY <1>3, <1>6, Zenon DEF ExtInv
  <2> QED
    BY <2>2, <2>3, <2>4, Zenon DEF ExtInv
<1> QED
  BY <1>1, <1>3, <1>4, <1>7, Zenon

Inv == TableInv /\ SourceInv /\ CleanInv

LEMMA InitInv == Init => Inv
<1> SUFFICES ASSUME Init
             PROVE  Inv
  OBVIOUS
<1>1. TableInv
  BY InitTable
<1>2. \A a \in Actors : stack[a] = <<>> /\ 1..Len(stack[a]) = {}
  <2>1. \A a \in Actors : stack[a] = <<>>
    BY DEF Init
  <2> QED
    BY <2>1
<1>3. \A f \in Files : ~Known(f) /\ outcome[f] # "ok"
  <2>1. \A f \in Files : desc[f].pkg \in Packages
    BY <1>1, DescFields, Zenon DEF TableInv
  <2> QED
    BY <2>1 DEF Init, Known
<1>4. SourceInv
  BY <1>2, <1>3, OtherAssumption, Zenon DEF SourceInv, Linking
<1>5. ~parent.errsReported /\ \A a \in Actors : ~Failed(child[a])
  BY DEF Init, Handler, Failed
<1>6. ExtInv
  <2>1. \A f \in Files, p \in Packages, n \in Names, t \in Tags : exts[p][<<n, t>>] # f
    <3>1. \A p \in Packages, n \in Names, t \in Tags : exts[p][<<n, t>>] = None
      BY DEF Init
    <3> QED
      BY <3>1, OtherAssumption, Zenon
  <2> QED
    BY <1>2, <2>1, Zenon DEF ExtInv, Adding, At
<1> QED
  BY <1>1, <1>4, <1>5, <1>6, Zenon DEF Inv, CleanInv

LEMMA StutterInv ==
  ASSUME Inv, UNCHANGED vars
  PROVE  Inv'
<1>1. TableInv'
  BY StutterTable, Zenon DEF Inv
<1>2. /\ desc' = desc /\ strict' = strict /\ symbols' = symbols /\ files' = files /\ exts' = exts
      /\ parent' = parent /\ child' = child /\ stack' = stack /\ outcome' = outcome
  BY Zenon DEF vars
<1>3. /\ \A f : (Known(f)' <=> Known(f)) /\ (Ready(f)' <=> Ready(f))
      /\ \A f, g : (Imported(f, g)' <=> Imported(f, g))
      /\ \A f, j : Owner(f, j)' = Owner(f, j)
      /\ \A a, r : (Linking(a, r)' <=> Linking(a, r)) /\ (Adding(a, r)' <=> Adding(a, r))
  BY <1>2, Zenon DEF Known, Ready, Imported, Owner, Linking, Adding, At, Top
<1>4. \A r : SourceAt(r)' <=> SourceAt(r)
  BY <1>2, <1>3, Zenon DEF SourceAt
<1>5. SourceInv'
  BY <1>2, <1>3, <1>4, Zenon DEF Inv, SourceInv
<1>6. ExtInv => ExtInv'
  BY <1>2, <1>3, Zenon DEF ExtInv
<1>7. Clean' => Clean
  BY <1>2, CleanKept, Zenon
<1>8. CleanInv'
  BY <1>2, <1>6, <1>7, Zenon DEF Inv, CleanInv, Failed
<1> QED
  BY <1>1, <1>5, <1>8, Zenon DEF Inv

LEMMA NextInv ==
  ASSUME Inv, [Next]_vars
  PROVE  Inv' /\ Grows
<1>1. ASSUME NEW a \in Actors, Begin(a)
      PROVE  Inv'
  <2>1. TypeInv /\ StackInv /\ SourceInv /\ CleanInv /\ TableInv
    BY Zenon DEF Inv, TableInv
  <2>2. TypeInv' /\ Alone(a) /\ UNCHANGED <<desc, strict, symbols, files, exts, parent>>
    BY <1>1, <2>1, BeginBegins, Zenon
  <2>3. PICK e : Begins(a, e)
    BY <1>1, <2>1, BeginBegins, Zenon
  <2>4. UNCHANGED <<desc, symbols, files>> /\ UNCHANGED <<desc, symbols, files, exts, parent>>
    BY <2>2, Zenon
  <2>5. TableInv'
    BY <1>1, <2>1, BeginTable, Zenon
  <2>6. SourceInv'
    BY <2>1, <2>2, <2>3, <2>4, BeginSourceInv, Zenon
  <2>7. CleanInv'
    BY <2>1, <2>2, <2>3, <2>4, BeginCleanInv, Zenon
  <2> QED
    BY <2>5, <2>6, <2>7, Zenon DEF Inv
<1>2. ASSUME NEW a \in Actors, Step(a)
      PROVE  Inv'
  <2>1. TypeInv /\ StackInv /\ SourceInv /\ CleanInv /\ TableInv
    BY Zenon DEF Inv, TableInv
  <2>2. Summary(a)
    BY <1>2, <2>1, StepSummary, Zenon
  <2>3. TableInv' /\ SourceInv' /\ CleanInv'
    BY <1>2, <2>1, <2>2, StepTableInv, StepSourceInv, StepCleanInv, Zenon
  <2> QED
    BY <2>3, Zenon DEF Inv
<1>3. Inv'
  BY <1>1, <1>2, StutterInv, Zenon DEF Next
<1>4. Grows
  BY NextTable, Zenon DEF Inv
<1> QED
  BY <1>3, <1>4, Zenon

-----------------------------------------------------------------------------
(* Theorems.                                                               *)

\* The inductive invariant: the files of the table have what they need there
\* (FileInv, EntryInv), the calls of each goroutine have done what their place
\* says (StackInv), Link in progress is the only one for its file (SourceInv),
\* and files that do not clash have met no error (CleanInv).
THEOREM TableInvariant == Spec => []Inv
<1>1. Inv /\ [Next]_vars => Inv'
  BY NextInv
<1> QED
  BY <1>1, InitInv, PTL DEF Spec

\* No two files of the table declare the same name, and none declares the
\* name of a package of another (Symbols.Import, importResult): although every
\* lock covers the names of one package only, and names are entered one
\* package after the other.
THEOREM NamesAreUnique == Spec => []NamesUnique
<1>1. Inv => NamesUnique
  BY KnownNeverClash, Zenon DEF Inv, TableInv
<1> QED
  BY <1>1, TableInvariant, PTL

\* A file that Link accepted is in the table with all its names and extension
\* numbers under its own name, and its imports are there too (Link of
\* linker.go), whatever other goroutines did meanwhile.
THEOREM LinkedFilesAreRegistered == Spec => []LinkedIsRegistered
<1>1. Inv => LinkedIsRegistered
  BY OutcomeRegistered, Zenon DEF Inv
<1> QED
  BY <1>1, TableInvariant, PTL

\* Files that do not clash are never reported, in whatever order and by however
\* many goroutines they are linked and imported: no goroutine takes an entry of
\* its own file, or a package that another goroutine has just entered, for a
\* name that is taken.
THEOREM NoErrorIsSpurious == Spec => []NoSpuriousErrors
<1>1. Inv => NoSpuriousErrors
  BY Zenon DEF Inv, CleanInv, NoSpuriousErrors
<1> QED
  BY <1>1, TableInvariant, PTL

\* The table only grows: no step of any goroutine takes a file out of it or
\* gives a name or an extension number to another file.
THEOREM EntriesStay == Spec => [][Grows]_vars
<1>1. Inv /\ [Next]_vars => [Grows]_vars
  BY NextInv
<1> QED
  BY <1>1, TableInvariant, PTL DEF Spec
==============================================================================
