--------------------------- MODULE Importer_proofs ---------------------------
(***************************************************************************)
(* The theorems about Importer: whatever is on disk and however it is      *)
(* edited meanwhile, an import loads each id of a source once, reports     *)
(* every file it read, and of a disk that holds still returns exactly what *)
(* the directories contribute.                                             *)
(***************************************************************************)
EXTENDS Importer, WellFoundedInduction, TLAPS

\* The files of a listing are read lowest first: there is a lowest one.
LEMMA LowestIsLeast ==
    ASSUME NEW S \in SUBSET Files, S # {}
    PROVE  Lowest(S) \in S /\ \A g \in S : Lowest(S) <= g
<1>1. S \subseteq Nat
  BY FilesAssumption
<1>2. \E f \in S : \A g \in S : ~(<<g, f>> \in OpToRel(<, Nat))
  BY <1>1, WFMin, NatLessThanWellFounded, Zenon
<1>3. \A f, g \in Nat : ~(<<g, f>> \in OpToRel(<, Nat)) => f <= g
  BY DEF OpToRel
<1>4. \E f \in S : \A g \in S : f <= g
  BY <1>1, <1>2, <1>3
<1>5. QED
  BY <1>4, Zenon DEF Lowest

LEMMA SourcesTyped ==
    ASSUME TypeOK
    PROVE  /\ Len(config.sources) \in Nat
           /\ DOMAIN config.sources = 1 .. Len(config.sources)
           /\ \A i \in DOMAIN config.sources : config.sources[i].path \in Paths
<1> DEFINE Entry == [name : STRING, path : Paths, precedence : Int]
<1>1. config.sources \in Seq(Entry)
  BY ConfigsAssumption DEF TypeOK
<1>2. \A x \in Entry : x.path \in Paths
  OBVIOUS
<1> HIDE DEF Entry
<1>3. QED
  BY <1>1, <1>2

LEMMA InitIInv == Init => IInv
<1> SUFFICES ASSUME Init PROVE IInv
  OBVIOUS
<1>1. TypeOK
  BY ConfigsAssumption DEF Init, TypeOK
<1>2. ReadInOrder /\ ReadOnce /\ ErrorsOfRead /\ ImportedIsLoaded /\ IdsOnce /\ IdsOfLoaded
      /\ RefusedForLoaded /\ ReadAll
  BY <1>1, SourcesTyped
  DEF Init, ReadInOrder, ReadOnce, ErrorsOfRead, ImportedIsLoaded, IdsOnce, IdsOfLoaded,
      RefusedForLoaded, ReadAll, Loaded, LoadedFrom
<1>3. QED
  BY <1>1, <1>2 DEF IInv

\* The parts that speak of what was read and loaded alone survive every step
\* that reads nothing, also one that reports an error of a whole source.
LEMMA ReadingNothing ==
    ASSUME IInv, UNCHANGED <<config, imported, read>>,
           errors' = errors \/ errors' = errors \cup {<<next, None>>}
    PROVE  /\ Loaded' = Loaded
           /\ ReadOnce' /\ ErrorsOfRead' /\ ImportedIsLoaded' /\ IdsOnce' /\ RefusedForLoaded'
<1>1. \A i \in DOMAIN config.sources, f \in Files : <<i, f>> \in errors' <=> <<i, f>> \in errors
  BY FilesAssumption
<1>2. \A r \in read : r[1] \in DOMAIN config.sources /\ r[2] \in Files
  BY DEF IInv, ReadInOrder
<1>3. Loaded' = Loaded
  BY <1>1, <1>2 DEF Loaded
<1>4. ReadOnce' /\ IdsOnce'
  BY <1>3 DEF IInv, ReadOnce, IdsOnce
<1>5. ErrorsOfRead'
  BY <1>1 DEF IInv, ErrorsOfRead
<1>6. ImportedIsLoaded'
  BY <1>3 DEF IInv, ImportedIsLoaded
<1>7. RefusedForLoaded'
  BY <1>3 DEF IInv, RefusedForLoaded, LoadedFrom
<1>8. QED
  BY <1>3, <1>4, <1>5, <1>6, <1>7

LEMMA EditKeepsIInv == IInv /\ Edit => IInv'
<1> SUFFICES ASSUME IInv, Edit PROVE IInv'
  OBVIOUS
<1>1. UNCHANGED <<config, pc, next, listing, ids, imported, errors, read>>
  BY DEF Edit
<1>2. TypeOK'
  <2>1. disk' \in [Paths \X Files -> Contents]
    BY DEF Edit, IInv, TypeOK
  <2>2. QED
    BY <1>1, <2>1 DEF Edit, IInv, TypeOK
<1>3. ReadInOrder'
  BY <1>1 DEF IInv, ReadInOrder
<1>4. IdsOfLoaded'
  BY <1>1, ReadingNothing DEF IInv, IdsOfLoaded, LoadedFrom
<1>5. ReadAll'
  BY DEF Edit, IInv, TypeOK, ReadAll
<1>6. QED
  BY <1>1, <1>2, <1>3, <1>4, <1>5, ReadingNothing DEF IInv

LEMMA ListKeepsIInv == IInv /\ ListDirectory => IInv'
<1> SUFFICES ASSUME IInv, ListDirectory PROVE IInv'
  OBVIOUS
<1>1. /\ pc = "list" /\ pc' = "read" /\ next \in DOMAIN config.sources
      /\ listing' = {f \in Files : disk[<<Source.path, f>>] # Absent} /\ ids' = <<>>
      /\ UNCHANGED <<disk, edits, config, next, imported, read>>
      /\ errors' = errors \/ errors' = errors \cup {<<next, None>>}
  BY DEF ListDirectory
<1>2. TypeOK'
  BY <1>1 DEF IInv, TypeOK
<1>3. \A r \in read : r[1] # next
  BY <1>1 DEF IInv, ReadInOrder
<1>4. ReadInOrder'
  BY <1>1, <1>3 DEF IInv, ReadInOrder
<1>5. IdsOfLoaded'
  <2>1. LoadedFrom(next)' = {}
    BY <1>1, <1>3, ReadingNothing DEF LoadedFrom, Loaded
  <2>2. DOMAIN ids' = {}
    BY <1>1
  <2>3. QED
    BY <1>1, <2>1, <2>2 DEF IdsOfLoaded
<1>6. ReadAll'
  BY <1>1 DEF IInv, ReadAll, Source
<1>7. QED
  BY <1>1, <1>2, <1>4, <1>5, <1>6, ReadingNothing DEF IInv

LEMMA EndingsKeepIInv == IInv /\ (ReadRaises \/ NextSource \/ Finish \/ UNCHANGED vars) => IInv'
<1>1. ASSUME IInv, ReadRaises PROVE IInv'
  <2>1. /\ pc = "read" /\ pc' = "raised"
        /\ UNCHANGED <<disk, edits, config, next, listing, ids, imported, errors, read>>
    BY <1>1 DEF ReadRaises
  <2>2. TypeOK' /\ ReadInOrder' /\ IdsOfLoaded' /\ ReadAll'
    BY <1>1, <2>1 DEF IInv, TypeOK, ReadInOrder, IdsOfLoaded, ReadAll
  <2>3. QED
    BY <1>1, <2>1, <2>2, ReadingNothing DEF IInv
<1>2. ASSUME IInv, NextSource PROVE IInv'
  <2>1. /\ pc = "read" /\ pc' = "list" /\ next' = next + 1 /\ listing = {} /\ listing' = None
        /\ UNCHANGED <<disk, edits, config, ids, imported, errors, read>>
    BY <1>2 DEF NextSource
  <2>2. /\ Len(config.sources) \in Nat /\ DOMAIN config.sources = 1 .. Len(config.sources)
        /\ next \in DOMAIN config.sources
    BY <1>2, <2>1, SourcesTyped DEF IInv, TypeOK
  <2>3. TypeOK'
    BY <1>2, <2>1, <2>2 DEF IInv, TypeOK
  <2>4. ReadInOrder' /\ IdsOfLoaded'
    BY <1>2, <2>1, <2>2 DEF IInv, ReadInOrder, IdsOfLoaded
  <2>5. ReadAll'
    BY <1>2, <2>1, <2>2 DEF IInv, ReadAll
  <2>6. QED
    BY <1>2, <2>1, <2>3, <2>4, <2>5, ReadingNothing DEF IInv
<1>3. ASSUME IInv, Finish PROVE IInv'
  <2>1. /\ pc = "list" /\ pc' = "done" /\ next \notin DOMAIN config.sources
        /\ UNCHANGED <<disk, edits, config, next, listing, ids, imported, errors, read>>
    BY <1>3 DEF Finish
  <2>2. TypeOK'
    BY <1>3, <2>1, SourcesTyped DEF IInv, TypeOK
  <2>3. ReadInOrder' /\ IdsOfLoaded' /\ ReadAll'
    BY <1>3, <2>1 DEF IInv, ReadInOrder, IdsOfLoaded, ReadAll
  <2>4. QED
    BY <1>3, <2>1, <2>2, <2>3, ReadingNothing DEF IInv
<1>4. ASSUME IInv, UNCHANGED vars PROVE IInv'
  <2>1. TypeOK' /\ ReadInOrder' /\ IdsOfLoaded' /\ ReadAll'
    BY <1>4 DEF vars, IInv, TypeOK, ReadInOrder, IdsOfLoaded, ReadAll, LoadedFrom, Loaded
  <2>2. QED
    BY <1>4, <2>1, ReadingNothing DEF vars, IInv
<1>5. QED
  BY <1>1, <1>2, <1>3, <1>4

\* What reading a file does to what was read and loaded: the file is behind
\* every file still listed, was not read before, and is loaded unless invalid
\* or of an id this source has loaded.
ReadStep(t) ==
    /\ t[1] = next /\ t[2] \in listing /\ t[3] \in Constraints \cup {Invalid}
    /\ t = <<t[1], t[2], t[3]>>
    /\ t[3] = disk[<<Source.path, t[2]>>]
    /\ listing' = listing \ {t[2]} /\ \A f \in listing' : t[2] < f
    /\ read' = read \cup {t} /\ \A r \in read : ~(r[1] = t[1] /\ r[2] = t[2])
    /\ \/ /\ t[3] = Invalid \/ \E q \in LoadedFrom(next) : q[3].id = t[3].id
          /\ Loaded' = Loaded /\ UNCHANGED <<ids, imported>>
          /\ errors' = errors \cup {<<t[1], t[2]>>}
       \/ /\ t[3] # Invalid /\ t[3].id \notin DOMAIN ids
          /\ Loaded' = Loaded \cup {t} /\ DOMAIN ids' = DOMAIN ids \cup {t[3].id}
          /\ imported' = imported \cup {[source |-> Source.name, constraint |-> t[3]]}
          /\ UNCHANGED errors

LEMMA ReadFileReads == IInv /\ ReadFile => \E t : ReadStep(t)
<1> SUFFICES ASSUME IInv, ReadFile PROVE \E t : ReadStep(t)
  OBVIOUS
<1> DEFINE f == Lowest(listing)
           c == disk[<<Source.path, f>>]
           t == <<next, f, c>>
           duplicate == c # Invalid /\ c.id \in DOMAIN ids
<1>1. /\ pc = "read" /\ listing # {} /\ c \notin {Absent, Raising}
      /\ listing' = listing \ {f} /\ read' = read \cup {t}
      /\ UNCHANGED <<disk, config, next>>
  BY DEF ReadFile
<1>2. listing \subseteq Files /\ next \in DOMAIN config.sources /\ Source.path \in Paths
  BY <1>1, SourcesTyped DEF IInv, TypeOK, Source
<1>3. f \in listing /\ f \in Files /\ \A g \in listing : f <= g
  BY <1>1, <1>2, LowestIsLeast
<1>4. \A g \in listing' : f < g
  <2>1. f \in Nat /\ \A g \in listing' : g \in Nat /\ g # f /\ f <= g
    BY <1>1, <1>2, <1>3, FilesAssumption
  <2> HIDE DEF f
  <2>2. QED
    BY <2>1
<1>5. c \in Constraints \cup {Invalid}
  <2>1. <<Source.path, f>> \in Paths \X Files
    BY <1>2, <1>3
  <2>2. c \in Contents
    BY <2>1 DEF IInv, TypeOK
  <2>3. QED
    BY <1>1, <2>2 DEF Contents
<1>6. \A r \in read : ~(r[1] = next /\ r[2] = f)
  <2>1. f \in Nat /\ \A r \in read : r[1] = next => r[2] < f
    BY <1>3, FilesAssumption DEF IInv, ReadInOrder
  <2> HIDE DEF f
  <2>2. QED
    BY <2>1
<1>7. <<next, f>> \notin errors
  BY <1>2, <1>3, <1>6 DEF IInv, ErrorsOfRead
<1>8. CASE c = Invalid \/ duplicate
  <2>1. errors' = errors \cup {<<next, f>>} /\ UNCHANGED <<ids, imported>>
    BY <1>8 DEF ReadFile
  <2>2. Loaded' = Loaded
    BY <1>1, <1>6, <2>1 DEF Loaded
  <2>3. c = Invalid \/ \E q \in LoadedFrom(next) : q[3].id = c.id
    BY <1>1, <1>8 DEF IInv, IdsOfLoaded
  <2> HIDE DEF f, c
  <2>4. ReadStep(t)
    BY <1>1, <1>3, <1>4, <1>5, <1>6, <2>1, <2>2, <2>3 DEF ReadStep, c
  <2>5. QED
    BY <2>4
<1>9. CASE c # Invalid /\ ~duplicate
  <2>1. /\ ids' = [i \in DOMAIN ids \cup {c.id} |-> IF i = c.id THEN f ELSE ids[i]]
        /\ imported' = imported \cup {[source |-> Source.name, constraint |-> c]}
        /\ UNCHANGED errors
    BY <1>9 DEF ReadFile
  <2>2. Loaded' = Loaded \cup {t}
    BY <1>1, <1>7, <2>1 DEF Loaded
  <2>3. DOMAIN ids' = DOMAIN ids \cup {c.id}
    BY <2>1
  <2> HIDE DEF f, c
  <2>4. ReadStep(t)
    BY <1>1, <1>3, <1>4, <1>5, <1>6, <1>9, <2>1, <2>2, <2>3 DEF ReadStep, c
  <2>5. QED
    BY <2>4
<1>10. QED
  BY <1>8, <1>9

LEMMA ReadKeepsIInv == IInv /\ ReadFile => IInv'
<1> SUFFICES ASSUME IInv, ReadFile PROVE IInv'
  OBVIOUS
<1>1. PICK t : ReadStep(t)
  BY ReadFileReads
<1>2. pc = "read" /\ UNCHANGED <<disk, edits, config, pc, next>>
  BY DEF ReadFile
<1>3. next \in DOMAIN config.sources /\ listing \subseteq Files /\ t[2] \in Files
  BY <1>1, <1>2 DEF IInv, TypeOK, ReadStep
<1>4. TypeOK'
  <2>1. listing' \subseteq Files
    BY <1>1, <1>3 DEF ReadStep
  <2>2. \A ic \in imported' : ic.constraint \in Constraints
    BY <1>1 DEF ReadStep, IInv, TypeOK
  <2>3. QED
    BY <1>2, <1>3, <2>1, <2>2 DEF IInv, TypeOK
<1>5. ReadInOrder'
  <2>1. t \in (DOMAIN config.sources) \X Files \X (Constraints \cup {Invalid})
    BY <1>1, <1>3 DEF ReadStep
  <2>2. t[1] <= next /\ \A f \in listing' : t[2] < f
    BY <1>1, <1>3, SourcesTyped DEF ReadStep, IInv
  <2>3. \A r \in read' : r \in read \/ r = t
    BY <1>1 DEF ReadStep
  <2>4. listing' \subseteq listing
    BY <1>1 DEF ReadStep
  <2>5. QED
    BY <1>2, <2>1, <2>2, <2>3, <2>4 DEF IInv, ReadInOrder
<1>6. ReadOnce'
  BY <1>1 DEF ReadStep, IInv, ReadOnce
<1>7. ErrorsOfRead'
  <2>1. \A i, f : <<i, f>> \in errors' => <<i, f>> \in errors \/ (i = t[1] /\ f = t[2])
    BY <1>1 DEF ReadStep
  <2>2. QED
    BY <1>1, <1>2, <2>1 DEF ReadStep, IInv, ErrorsOfRead
<1>8. ImportedIsLoaded'
  BY <1>1, <1>2 DEF ReadStep, IInv, ImportedIsLoaded, Source
<1>9. IdsOnce'
  BY <1>1, <1>2 DEF ReadStep, IInv, IdsOnce, IdsOfLoaded, LoadedFrom
<1>10. IdsOfLoaded'
  BY <1>1, <1>2 DEF ReadStep, IInv, IdsOfLoaded, LoadedFrom
<1>11. RefusedForLoaded'
  BY <1>1, <1>2, <1>3, FilesAssumption DEF ReadStep, IInv, RefusedForLoaded, LoadedFrom, Loaded, ReadInOrder
<1>12. ReadAll'
  BY <1>1, <1>2 DEF ReadStep, IInv, ReadAll, Source
<1>13. QED
  BY <1>4, <1>5, <1>6, <1>7, <1>8, <1>9, <1>10, <1>11, <1>12 DEF IInv

\* What was read, loaded and refused stays in step with the position of the
\* import, for any sources, files and edits.
THEOREM ImporterInvariance == Spec => []IInv
<1>1. Init => IInv
  BY InitIInv
<1>2. IInv /\ [Next]_vars => IInv'
  BY EditKeepsIInv, ListKeepsIInv, ReadKeepsIInv, EndingsKeepIInv DEF Next, Ended
<1>3. QED
  BY <1>1, <1>2, PTL DEF Spec

\* Two files of one source never both load an id (importer.py, load_source).
THEOREM IdsAreUnique == Spec => []IdsUniqueWithinSource
<1>1. IInv => IdsUniqueWithinSource
  <2> SUFFICES ASSUME IInv, UniqueNames, NEW x \in imported, NEW y \in imported,
                      EffectiveId(x) = EffectiveId(y)
               PROVE  x = y
    BY DEF IdsUniqueWithinSource
  <2>1. PICK r \in Loaded : x = [source |-> config.sources[r[1]].name, constraint |-> r[3]]
    BY DEF IInv, ImportedIsLoaded
  <2>2. PICK q \in Loaded : y = [source |-> config.sources[q[1]].name, constraint |-> q[3]]
    BY DEF IInv, ImportedIsLoaded
  <2>3. config.sources[r[1]].name = config.sources[q[1]].name /\ r[3].id = q[3].id
    BY <2>1, <2>2 DEF EffectiveId
  <2>4. r[1] = q[1]
    BY <2>3 DEF UniqueNames, IInv, ReadInOrder, Loaded
  <2>5. r = q
    BY <2>3, <2>4 DEF IInv, IdsOnce
  <2>6. QED
    BY <2>1, <2>2, <2>5
<1>2. QED
  BY <1>1, ImporterInvariance, PTL

\* No file that was read is lost, and none is refused without a reason.
THEOREM FilesAreAccountedFor == Spec => []EveryFileAccountedFor
<1>1. IInv => EveryFileAccountedFor
  <2> SUFFICES ASSUME IInv, NEW r \in read
               PROVE  \/ /\ <<r[1], r[2]>> \notin errors
                         /\ [source |-> config.sources[r[1]].name, constraint |-> r[3]] \in imported
                      \/ /\ <<r[1], r[2]>> \in errors
                         /\ r[3] # Invalid => \E q \in read :
                               q[1] = r[1] /\ q[2] < r[2] /\ q[3] # Invalid /\ q[3].id = r[3].id
    BY DEF EveryFileAccountedFor
  <2>1. CASE r \in Loaded
    BY <2>1 DEF Loaded, IInv, ImportedIsLoaded
  <2>2. CASE r \in read \ Loaded
    BY <2>2 DEF Loaded, LoadedFrom, IInv, ImportedIsLoaded, RefusedForLoaded
  <2>3. QED
    BY <2>1, <2>2
<1>2. QED
  BY <1>1, ImporterInvariance, PTL

\* Without an edit a file was loaded from a source just if it is, of its id,
\* the first valid one of the directory.
LEMMA LoadedIsAccepted ==
    ASSUME IInv, edits = 0, pc = "done", NEW i \in DOMAIN config.sources
    PROVE  {r[3] : r \in LoadedFrom(i)} = Accepted(config.sources[i].path)
<1> DEFINE path == config.sources[i].path
           valid(f) == disk[<<path, f>>] \in Constraints
           first(g) == /\ valid(g)
                       /\ \A h \in Files : (h < g /\ valid(h))
                             => disk[<<path, h>>].id # disk[<<path, g>>].id
<1>1. \A f \in Files : valid(f) => \E r \in read : r[1] = i /\ r[2] = f
  BY SourcesTyped, ContentsAssumption DEF IInv, TypeOK, ReadAll
<1>2. \A r \in read : r[1] = i =>
          r[2] \in Files /\ r[3] = disk[<<path, r[2]>>] /\ r[3] \in Constraints \cup {Invalid}
  BY DEF IInv, ReadAll, ReadInOrder
<1>3. \A r \in LoadedFrom(i) : first(r[2]) /\ r[2] \in Files /\ r[3] = disk[<<path, r[2]>>]
  <2> SUFFICES ASSUME NEW r \in LoadedFrom(i)
               PROVE  first(r[2]) /\ r[2] \in Files /\ r[3] = disk[<<path, r[2]>>]
    OBVIOUS
  <2>1. r \in read /\ r[1] = i /\ r[3] # Invalid
    BY DEF LoadedFrom, Loaded, IInv, ImportedIsLoaded
  <2>2. r[2] \in Files /\ r[3] = disk[<<path, r[2]>>] /\ valid(r[2])
    BY <1>2, <2>1
  <2>3. ASSUME NEW h \in Files, h < r[2], valid(h), disk[<<path, h>>].id = r[3].id PROVE FALSE
    <3>1. PICK q \in read : q[1] = i /\ q[2] = h
      BY <1>1, <2>3
    <3>2. q[3] = disk[<<path, h>>] /\ q[3] # Invalid /\ q[3].id = r[3].id
      BY <1>2, <2>3, <3>1, ContentsAssumption
    <3>3. \E p \in LoadedFrom(i) : p[2] <= h /\ p[3].id = r[3].id
      <4>1. h \in Nat /\ h <= h
        BY FilesAssumption
      <4>2. CASE q \in Loaded
        BY <3>1, <3>2, <4>1, <4>2 DEF LoadedFrom
      <4>3. CASE q \notin Loaded
        <5>1. PICK p \in LoadedFrom(i) : p[2] < h /\ p[3].id = r[3].id
          BY <3>1, <3>2, <4>3 DEF IInv, RefusedForLoaded
        <5>2. p[2] \in Nat
          BY <1>2, FilesAssumption DEF LoadedFrom, Loaded
        <5>3. QED
          BY <4>1, <5>1, <5>2
      <4>4. QED
        BY <4>2, <4>3
    <3>4. PICK p \in LoadedFrom(i) : p[2] <= h /\ p[3].id = r[3].id
      BY <3>3
    <3>5. p = r
      BY <2>1, <3>4 DEF LoadedFrom, IInv, IdsOnce
    <3>6. h \in Nat /\ r[2] \in Nat /\ r[2] <= h /\ h < r[2]
      BY <2>2, <2>3, <3>4, <3>5, FilesAssumption
    <3>7. QED
      BY <3>6
  <2>4. QED
    BY <2>2, <2>3
<1>4. \A g \in Files : first(g) => \E r \in LoadedFrom(i) : r[3] = disk[<<path, g>>]
  <2> SUFFICES ASSUME NEW g \in Files, first(g)
               PROVE  \E r \in LoadedFrom(i) : r[3] = disk[<<path, g>>]
    OBVIOUS
  <2>1. PICK r \in read : r[1] = i /\ r[2] = g
    BY <1>1
  <2>2. r[3] = disk[<<path, g>>] /\ r[3] # Invalid
    BY <1>2, <2>1, ContentsAssumption
  <2>3. ASSUME r \notin Loaded PROVE FALSE
    <3>1. PICK q \in LoadedFrom(i) : q[2] < g /\ q[3].id = r[3].id
      BY <2>1, <2>2, <2>3 DEF IInv, RefusedForLoaded
    <3>2. q[2] \in Files /\ valid(q[2]) /\ q[3] = disk[<<path, q[2]>>]
      BY <1>3, <3>1
    <3>3. QED
      BY <2>2, <3>1, <3>2
  <2>4. QED
    BY <2>1, <2>2, <2>3 DEF LoadedFrom
<1>5. Accepted(path) = {disk[<<path, f>>] : f \in {g \in Files : first(g)}}
  BY DEF Accepted
<1> HIDE DEF first, path
<1>6. {r[3] : r \in LoadedFrom(i)} \subseteq Accepted(path)
  BY <1>3, <1>5
<1>7. Accepted(path) \subseteq {r[3] : r \in LoadedFrom(i)}
  BY <1>4, <1>5
<1>8. QED
  BY <1>6, <1>7 DEF path

\* An import of a disk that holds still returns just what its directories
\* contribute, whatever invalid files lie among them: the model of the service
\* takes the result of an import from this.
THEOREM QuietImportsAreExact == Spec => []QuietImportIsExact
<1>1. IInv => QuietImportIsExact
  <2> SUFFICES ASSUME IInv, pc = "done", edits = 0
               PROVE  imported = UNION {{[source |-> config.sources[i].name, constraint |-> c] :
                                           c \in Accepted(config.sources[i].path)} :
                                          i \in DOMAIN config.sources}
    BY DEF QuietImportIsExact
  <2>1. imported = {[source |-> config.sources[r[1]].name, constraint |-> r[3]] : r \in Loaded}
    BY DEF IInv, ImportedIsLoaded
  <2>2. \A r \in Loaded : r[1] \in DOMAIN config.sources /\ r \in LoadedFrom(r[1])
    BY DEF IInv, ReadInOrder, Loaded, LoadedFrom
  <2>3. \A i : \A r \in LoadedFrom(i) : r \in Loaded /\ r[1] = i
    BY DEF LoadedFrom
  <2>4. \A i \in DOMAIN config.sources :
            Accepted(config.sources[i].path) = {r[3] : r \in LoadedFrom(i)}
    BY LoadedIsAccepted
  <2> DEFINE from(i) == {[source |-> config.sources[i].name, constraint |-> c] :
                           c \in Accepted(config.sources[i].path)}
  <2>5. \A i \in DOMAIN config.sources :
            from(i) = {[source |-> config.sources[r[1]].name, constraint |-> r[3]] :
                         r \in LoadedFrom(i)}
    BY <2>3, <2>4
  <2> HIDE DEF from
  <2>6. imported \subseteq UNION {from(i) : i \in DOMAIN config.sources}
    BY <2>1, <2>2, <2>5
  <2>7. UNION {from(i) : i \in DOMAIN config.sources} \subseteq imported
    BY <2>1, <2>3, <2>5
  <2>8. QED
    BY <2>6, <2>7 DEF from
<1>2. QED
  BY <1>1, ImporterInvariance, PTL
=============================================================================
