------------------------------ MODULE Importer ------------------------------
(***************************************************************************)
(* One run of import_sources (importer.py) over the loader (loader.py),    *)
(* file by file, while the directories may change under it.                *)
(*                                                                         *)
(* disk maps every <<path, file>> to what reading it gives: Absent, a      *)
(* schema or YAML error (Invalid), an exception load_constraint_file does  *)
(* not catch (Raising: text that does not decode, a YAML scalar the parser *)
(* rejects with ValueError), or a valid constraint.  Files are numbers in  *)
(* the order of their sorted names.                                        *)
(***************************************************************************)
EXTENDS Precedence

CONSTANTS Paths, Files,          \* directories, file names as numbers
          Constraints,           \* valid constraints
          Configs,               \* configurations the import may be run with
          Absent, Invalid, Raising,
          MaxEdits               \* bound on the changes during the import

ASSUME FilesAssumption == Files \subseteq Nat /\ None \notin Files
ASSUME ContentsAssumption ==
    /\ Absent # Invalid /\ Raising # Invalid
    /\ {Absent, Invalid, Raising} \cap Constraints = {}
ASSUME ConfigsAssumption ==
    \A c \in Configs : c.sources \in Seq([name : STRING, path : Paths, precedence : Int])

VARIABLES disk, edits,           \* the directories; how often they changed
          config, pc,            \* the configuration; control
          next,                  \* index of the source being loaded
          listing,               \* files of the glob still to read, or None
          ids,                   \* result.files: id -> file, of this source
          imported, errors,      \* the lists the import returns
          read                   \* history: <<source index, file, content>> read
vars == <<disk, edits, config, pc, next, listing, ids, imported, errors, read>>

Contents == {Absent, Invalid, Raising} \cup Constraints
Lowest(S) == CHOOSE f \in S : \A g \in S : f <= g
Source == config.sources[next]

Init == /\ disk \in [Paths \X Files -> Contents]
        /\ edits = 0
        /\ config \in Configs
        /\ pc = "list" /\ next = 1 /\ listing = None /\ ids = <<>>
        /\ imported = {} /\ errors = {} /\ read = {}

Edit == /\ pc # "done" /\ pc # "raised"
        /\ edits < MaxEdits
        /\ edits' = edits + 1
        /\ \E at \in Paths \X Files, c \in Contents :
              disk[at] # c /\ disk' = [disk EXCEPT ![at] = c]
        /\ UNCHANGED <<config, pc, next, listing, ids, imported, errors, read>>

\* Mutant of ListDirectory: the ids of the source before are kept.
ListDirectoryAgain ==
    /\ pc = "list"
    /\ next \in DOMAIN config.sources
    /\ listing' = {f \in Files : disk[<<Source.path, f>>] # Absent}
    /\ pc' = "read"
    /\ \/ UNCHANGED errors
       \/ listing' = {} /\ errors' = errors \cup {<<next, None>>}
    /\ UNCHANGED <<disk, edits, config, next, ids, imported, read>>

\* load_source: a fresh result, and the directory listed once.  Nothing listed
\* is an empty directory, or none at all, which is an error of the source.
ListDirectory ==
    /\ pc = "list"
    /\ next \in DOMAIN config.sources
    /\ listing' = {f \in Files : disk[<<Source.path, f>>] # Absent}
    /\ ids' = <<>>
    /\ pc' = "read"
    /\ \/ UNCHANGED errors
       \/ listing' = {} /\ errors' = errors \cup {<<next, None>>}
    /\ UNCHANGED <<disk, edits, config, next, imported, read>>

\* Mutants of ReadFile: duplicates are loaded; invalid files are loaded;
\* duplicates are dropped without an error.
ReadFileWith(loads, reports) ==
    LET f == Lowest(listing)
        c == disk[<<Source.path, f>>]
    IN  /\ pc = "read" /\ listing # {}
        /\ c \notin {Absent, Raising}
        /\ listing' = listing \ {f}
        /\ read' = read \cup {<<next, f, c>>}
        /\ errors' = IF reports THEN errors \cup {<<next, f>>} ELSE errors
        /\ imported' = IF loads THEN imported \cup {[source |-> Source.name, constraint |-> c]}
                       ELSE imported
        /\ ids' = IF loads /\ c # Invalid
                  THEN [i \in DOMAIN ids \cup {c.id} |-> IF i = c.id THEN f ELSE ids[i]] ELSE ids
        /\ UNCHANGED <<disk, edits, config, pc, next>>
Upcoming == IF listing \in {None, {}} THEN Absent ELSE disk[<<Source.path, Lowest(listing)>>]
ReadFileTwice == LET bad == Upcoming = Invalid IN ReadFileWith(~bad, bad)
ReadFileAnyway == ReadFileWith(TRUE, Upcoming = Invalid)
ReadFileSilently ==
    LET bad == Upcoming = Invalid
        duplicate == Upcoming \notin {Absent, Raising, Invalid} /\ Upcoming.id \in DOMAIN ids
    IN  ReadFileWith(~bad /\ ~duplicate, bad)

\* One iteration of the loop of load_source, load_constraint_file included.
ReadFile ==
    LET f == Lowest(listing)
        c == disk[<<Source.path, f>>]
        bad == c = Invalid
        duplicate == ~bad /\ c.id \in DOMAIN ids
    IN  /\ pc = "read" /\ listing # {}
        /\ c \notin {Absent, Raising}
        /\ listing' = listing \ {f}
        /\ read' = read \cup {<<next, f, c>>}
        /\ IF bad \/ duplicate
           THEN /\ errors' = errors \cup {<<next, f>>}
                /\ UNCHANGED <<ids, imported>>
           ELSE /\ ids' = [i \in DOMAIN ids \cup {c.id} |-> IF i = c.id THEN f ELSE ids[i]]
                /\ imported' = imported \cup {[source |-> Source.name, constraint |-> c]}
                /\ UNCHANGED errors
        /\ UNCHANGED <<disk, edits, config, pc, next>>

\* A file that vanished after the listing, or does not decode, raises out of
\* load_source and import_sources.
ReadRaises ==
    /\ pc = "read" /\ listing # {}
    /\ disk[<<Source.path, Lowest(listing)>>] \in {Absent, Raising}
    /\ pc' = "raised"
    /\ UNCHANGED <<disk, edits, config, next, listing, ids, imported, errors, read>>

NextSource ==
    /\ pc = "read" /\ listing = {}
    /\ next' = next + 1
    /\ listing' = None
    /\ pc' = "list"
    /\ UNCHANGED <<disk, edits, config, ids, imported, errors, read>>

\* resolve_precedence and Bundle.from_constraints are functions of imported.
Finish ==
    /\ pc = "list"
    /\ next \notin DOMAIN config.sources
    /\ pc' = "done"
    /\ UNCHANGED <<disk, edits, config, next, listing, ids, imported, errors, read>>

Ended == pc \in {"done", "raised"} /\ UNCHANGED vars

Next == Edit \/ ListDirectory \/ ReadFile \/ ReadRaises \/ NextSource \/ Finish \/ Ended
Spec == Init /\ [][Next]_vars

----------------------------------------------------------------------------

\* Control, position and results are what the code's variables can hold.
TypeOK == /\ disk \in [Paths \X Files -> Contents]
          /\ edits \in Nat /\ config \in Configs
          /\ pc \in {"list", "read", "done", "raised"}
          /\ next \in 1 .. Len(config.sources) + 1
          /\ pc \in {"list", "done"} => listing = None
          /\ pc \in {"read", "raised"} => next \in DOMAIN config.sources /\ listing \subseteq Files
          /\ pc = "done" => next = Len(config.sources) + 1
          /\ \A ic \in imported : ic.constraint \in Constraints

\* Two files of one source never both load the same id, even when an edit
\* gives a later file the id of an earlier one in the middle of the load
\* ("stable identifier, unique within its source").  Sources are told apart
\* by name, which the configuration does not force to be unique.
UniqueNames == \A i, j \in DOMAIN config.sources :
                  config.sources[i].name = config.sources[j].name => i = j
IdsUniqueWithinSource ==
    UniqueNames =>
        \A x, y \in imported : EffectiveId(x) = EffectiveId(y) => x = y

\* Every file that was read is reported exactly once, loaded or in error, and
\* an id that was refused is refused for a file that loaded it.
EveryFileAccountedFor ==
    \A r \in read :
        \/ /\ <<r[1], r[2]>> \notin errors
           /\ [source |-> config.sources[r[1]].name, constraint |-> r[3]] \in imported
        \/ /\ <<r[1], r[2]>> \in errors
           /\ r[3] # Invalid => \E q \in read :
                 q[1] = r[1] /\ q[2] < r[2] /\ q[3] # Invalid /\ q[3].id = r[3].id

\* What one directory contributes: of each id the first valid file's.
Accepted(path) ==
    {disk[<<path, f>>] : f \in {g \in Files :
        /\ disk[<<path, g>>] \in Constraints
        /\ \A h \in Files : (h < g /\ disk[<<path, h>>] \in Constraints)
                               => disk[<<path, h>>].id # disk[<<path, g>>].id}}

\* An import of a disk that holds still returns exactly the accepted
\* constraints of every source, whatever invalid files lie among them; the
\* service model takes its directories' contents from this.
QuietImportIsExact ==
    (pc = "done" /\ edits = 0) =>
        imported = UNION {{[source |-> config.sources[i].name, constraint |-> c] :
                             c \in Accepted(config.sources[i].path)} :
                            i \in DOMAIN config.sources}

\* The parts of the inductive invariant, in terms of what was read so far and
\* the part of it that was loaded.
Loaded == {r \in read : <<r[1], r[2]>> \notin errors}
LoadedFrom(i) == {r \in Loaded : r[1] = i}

ReadInOrder ==
    \A r \in read :
        /\ r \in (DOMAIN config.sources) \X Files \X (Constraints \cup {Invalid})
        /\ r[1] <= next
        /\ r[1] = next => pc \in {"read", "raised"} /\ \A f \in listing : r[2] < f
ReadOnce == \A r, q \in read : r[1] = q[1] /\ r[2] = q[2] => r = q
ErrorsOfRead ==
    \A i \in DOMAIN config.sources, f \in Files :
        <<i, f>> \in errors => \E r \in read : r[1] = i /\ r[2] = f
ImportedIsLoaded ==
    /\ imported = {[source |-> config.sources[r[1]].name, constraint |-> r[3]] : r \in Loaded}
    /\ \A r \in Loaded : r[3] # Invalid
IdsOnce == \A r, q \in Loaded : r[1] = q[1] /\ r[3].id = q[3].id => r = q
IdsOfLoaded == pc = "read" => DOMAIN ids = {r[3].id : r \in LoadedFrom(next)}
RefusedForLoaded ==
    \A r \in read \ Loaded :
        r[3] # Invalid => \E q \in LoadedFrom(r[1]) : q[2] < r[2] /\ q[3].id = r[3].id
ReadAll ==
    edits = 0 =>
        /\ \A r \in read : r[3] = disk[<<config.sources[r[1]].path, r[2]>>]
        /\ \A i \in DOMAIN config.sources, f \in Files :
              /\ i < next \/ (i = next /\ pc = "read" /\ f \notin listing)
              /\ disk[<<config.sources[i].path, f>>] # Absent
              => \E r \in read : r[1] = i /\ r[2] = f
\* The inductive invariant: what was read lies behind the position of the
\* import and, while nothing was edited, is all there is; what it loaded is what
\* it returns, with each id once per source; ids holds those of this source.
IInv == /\ TypeOK /\ ReadInOrder /\ ReadOnce /\ ErrorsOfRead /\ ImportedIsLoaded
        /\ IdsOnce /\ IdsOfLoaded /\ RefusedForLoaded /\ ReadAll

\* constraint-registry-v0-spec.md:130: "A malformed constraint ... MUST NOT
\* crash import": without an edit the import comes to its end.
MalformedNeverCrashes == edits = 0 => pc # "raised"
=============================================================================
