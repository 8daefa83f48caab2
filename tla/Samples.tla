-------------------------------- MODULE Samples --------------------------------
(***************************************************************************)
(* What a mapping runs on: Resolve of internal/mapping/resolve.go, which   *)
(* reads the mapping, its input and its imports into one request for the   *)
(* isolated evaluator, and the sample directives and sibling samples of    *)
(* internal/benthos/sample.go.                                             *)
(*                                                                         *)
(* Files are read one after the other while others write them.  A sample   *)
(* has fields: a value, none when it is absent, bad when its type is       *)
(* wrong.  The text of a mapping is its directives and its imports; the    *)
(* parser that asks for the imports is external.                           *)
(***************************************************************************)
EXTENDS Naturals, SequencesExt, FiniteSetsExt

CONSTANTS
  Names,      \* names of imports
  Requests,   \* what is asked for
  Disks(_),   \* files by their path, for a request
  Others(_),  \* what another process may write to a path
  MaxReads,   \* importer calls of one resolution
  MaxBytes,   \* bytes of a request: what it imports
  MaxWrites   \* bound: writes while a request is resolved

None == "none"
Bad == "bad"
Fields == {"root", "input", "meta", "env"}
Siblings == {"json", "yaml", "yml"}
NoSample == [f \in Fields |-> None]
MissingFile == [kind |-> "missing"]

\* What can be imported, and the mapping itself, say what they import; a mapping
\* has directives.
Listed(s) == s \in Seq(Range(s))
Importing(path, file) ==
  /\ path \in Names \cup {"mapping"} /\ file.kind # "missing" => file.imports \in Seq(Names)
  /\ path = "mapping" /\ file.kind # "missing" => Listed(file.header)

ASSUME SamplesAssumption ==
  \A r \in Requests :
    /\ DOMAIN r = {"static", "file", "text", "given", "path", "imports"}
    /\ r.file \in BOOLEAN
    /\ r.text.imports \in Seq(Names) /\ Listed(r.text.header)
    /\ \A n \in DOMAIN r.imports : r.imports[n] \in Seq(Names)
    /\ \A d \in Disks(r) : \A p \in DOMAIN d :
         Importing(p, d[p]) /\ \A file \in Others(p) : Importing(p, file)

\* A request is for a mapping file or has a text.  given has the fields that it
\* supplies itself, path a sample file, imports the files it supplies; a static
\* one, for a formatter, has a text and needs its imports only.
VARIABLES
  request,
  disk,
  writes,
  stage,
  line,      \* the directive that is next
  sample,    \* the fields so far
  seen,      \* names of the directives so far
  siblings,  \* paths of the candidates for an automatic sample
  imports,   \* the snapshot: name -> imports in their order
  todo,      \* imports the parser has yet to ask for
  reads,     \* importer calls so far
  applied    \* history: what was applied to the sample, in its order

sampling == <<line, sample, seen, siblings, applied>>
importing == <<imports, todo, reads>>
vars == <<request, disk, writes, stage, sampling, importing>>

\* The directives at the head of a text: whether a space follows #!, the name, and
\* after it a value if one is present, or a path.
Header == request.text.header
Exists(path) == path \in DOMAIN disk /\ disk[path].kind # "missing"

-----------------------------------------------------------------------------
(* Samples *)

\* Mutant: a whole sample without metadata leaves what was there.
MutantTaken(s, o, field) ==
  [f \in Fields |-> IF (field = f \/ field = "sample") /\ o[f] # None THEN o[f] ELSE s[f]]

\* The fields after an object is applied: a whole sample takes the place of
\* all of them, except that a root stays when it has none.
Taken(s, o, field) ==
  [f \in Fields |->
     IF field = f \/ (field = "sample" /\ (f # "root" \/ o.root # None)) THEN o[f] ELSE s[f]]

\* applySample: what it cannot do without.
Applicable(o, field) ==
  /\ field \in {"sample", "input"} => o.input # None
  /\ field \in {"root", "meta"} => o[field] # None
  /\ field \in {"sample", "meta"} => o.meta # Bad
  /\ field = "sample" => o.env # Bad

\* loadSample: the envelope of a regular file.
Loadable(path, field) ==
  Exists(path) /\ disk[path].kind = "sample" /\ Applicable(disk[path].object, field)

Apply(o, field, sibling) ==
  /\ sample' = Taken(sample, o, field)
  /\ applied' = Append(applied, [object |-> o, field |-> field, sibling |-> sibling])

\* Resolve, up to the sample.  An inline mapping may not name files relative to
\* it, and has no siblings.
Start ==
  /\ stage = "start"
  /\ \/ /\ request.static
        /\ stage' = (IF request.file THEN "import" ELSE "size") /\ UNCHANGED request
     \/ /\ ~request.static /\ request.file /\ ~Exists("mapping")
        /\ stage' = "failed" /\ UNCHANGED request
     \/ /\ ~request.static /\ request.file /\ Exists("mapping")
        /\ request' = [request EXCEPT !.text = disk["mapping"]]
        /\ stage' = IF request.given.input # None THEN "import" ELSE "siblings"
     \/ /\ ~request.static /\ ~request.file
        /\ stage' = CASE request.given.input # None -> "size"
                      [] /\ request.given.input = None /\ request.path = None
                         /\ \E i \in DOMAIN Header : Header[i].from /\ Header[i].relative -> "failed"
                      [] OTHER -> "siblings"
        /\ UNCHANGED request
  /\ todo' = request'.text.imports
  /\ imports' = request.imports
  /\ UNCHANGED <<disk, writes, sampling, reads>>

\* Mutant: the scan reads a directive as Directive does.
ExplicitTrimmed == \E i \in DOMAIN Header : Header[i].name = "sample" /\ Header[i].present

\* A directive for a whole sample makes the automatic one unnecessary: the scan
\* wants its name right after #! and something after the name, while Directive
\* trims what follows #!.
Explicit ==
  \E i \in DOMAIN Header : Header[i].name = "sample" /\ ~Header[i].spaced /\ Header[i].present

\* The siblings of the file, or the one path that was asked for: then the
\* directives of the text do not count.
Candidates ==
  /\ stage = "siblings"
  /\ siblings' = IF request.path # None THEN {request.path}
                 ELSE {p \in Siblings : request.file /\ Exists(p)}
  /\ stage' = CASE request.path = None /\ (Explicit \/ siblings' = {}) -> "directives"
                [] request.path = None /\ ~Explicit /\ Cardinality(siblings') > 1 -> "failed"
                [] OTHER -> "sibling"
  /\ UNCHANGED <<request, disk, writes, line, sample, seen, applied, importing>>

Sibling ==
  /\ stage = "sibling"
  /\ \E p \in siblings :
       IF Loadable(p, "sample")
       THEN /\ Apply(disk[p].object, "sample", TRUE)
            /\ stage' = IF request.path # None THEN "sampled" ELSE "directives"
       ELSE stage' = "failed" /\ UNCHANGED <<sample, applied>>
  /\ UNCHANGED <<request, disk, writes, line, seen, siblings, importing>>

\* One directive of the header, or its end.
Directive ==
  /\ stage = "directives"
  /\ IF line > Len(Header)
     THEN stage' = "sampled" /\ UNCHANGED <<line, seen, sample, applied>>
     ELSE LET d == Header[line]
              name == <<d.name, d.from>>
              known == d.name \in (Fields \ {"env"}) \cup {"sample"}
              usable == /\ d.present
                        /\ IF d.from THEN Loadable(d.path, d.name)
                           ELSE Applicable(d.object, d.name)
          IN  IF known /\ name \notin seen /\ usable
              THEN /\ Apply(IF d.from THEN disk[d.path].object ELSE d.object, d.name, FALSE)
                   /\ seen' = seen \cup {name} /\ line' = line + 1
                   /\ UNCHANGED stage
              ELSE stage' = "failed" /\ UNCHANGED <<line, seen, sample, applied>>
  /\ UNCHANGED <<request, disk, writes, siblings, importing>>

\* What the request does not supply comes from the sample.
Sampled ==
  /\ stage = "sampled"
  /\ request' = [request EXCEPT
       !.given = [f \in Fields |-> IF @[f] # None THEN @[f] ELSE sample[f]]]
  /\ stage' = CASE sample.input = None -> "failed"
                [] sample.input # None /\ request.file -> "import"
                [] OTHER -> "size"
  /\ UNCHANGED <<disk, writes, sampling, importing>>

-----------------------------------------------------------------------------
(* Imports *)

\* Mutant: a file goes before what is known of it.
KnownUnlessFile(name) == name \in DOMAIN imports /\ ~Exists(name)
Known(name) == name \in DOMAIN imports

\* One call of the importer of snapshotImports, or the end of the parse: calls
\* are counted for files already read, too.
Import ==
  /\ stage = "import"
  /\ IF todo = <<>>
     THEN stage' = "size" /\ UNCHANGED importing
     ELSE LET name == Head(todo)
              inside == Cardinality(DOMAIN imports) < MaxBytes
              readable == reads < MaxReads /\ (Known(name) \/ (Exists(name) /\ inside))
          IN  /\ reads' = reads + 1
              /\ \/ /\ readable /\ Known(name)
                    /\ todo' = imports[name] \o Tail(todo)
                    /\ UNCHANGED <<stage, imports>>
                 \/ /\ readable /\ ~Known(name)
                    /\ imports' = [n \in DOMAIN imports \cup {name} |->
                                     IF n = name THEN disk[name].imports ELSE imports[n]]
                    /\ todo' = disk[name].imports \o Tail(todo)
                    /\ UNCHANGED stage
                 \/ /\ ~readable
                    /\ stage' = "failed" /\ UNCHANGED <<todo, imports>>
  /\ UNCHANGED <<request, disk, writes, sampling>>

\* requestSize of the request that is ready.
Finish ==
  /\ stage = "size"
  /\ stage' = IF Cardinality(DOMAIN imports) <= MaxBytes THEN "resolved" ELSE "failed"
  /\ UNCHANGED <<request, disk, writes, sampling, importing>>

\* Another process writes, or removes, a file.
Write ==
  /\ writes < MaxWrites /\ stage \notin {"resolved", "failed"}
  /\ \E p \in DOMAIN disk : \E c \in Others(p) : c # disk[p] /\ disk' = [disk EXCEPT ![p] = c]
  /\ writes' = writes + 1
  /\ UNCHANGED <<request, stage, sampling, importing>>

Init ==
  /\ request \in Requests /\ disk \in Disks(request)
  /\ writes = 0 /\ stage = "start"
  /\ line = 1 /\ sample = NoSample /\ seen = {} /\ siblings = {}
  /\ imports = <<>> /\ todo = <<>> /\ reads = 0
  /\ applied = <<>>

Next == Start \/ Candidates \/ Sibling \/ Directive \/ Sampled \/ Import \/ Finish \/ Write

Spec == Init /\ [][Next]_vars

-----------------------------------------------------------------------------
(* Properties *)

\* Each field of a sample is what the last directive that speaks of it says, in
\* document order, with the automatic sample before them; a directive for a
\* whole sample speaks of all fields, of the root only when it has one.  A
\* sample beside the mapping is among them exactly when no directive is for a
\* whole sample with its name right after #!: one with a space there is applied
\* on top of the automatic sample, whose root it may leave (sample.go:269,
\* sample.go:297).
Speaks(a, f) == a.field = f \/ (a.field = "sample" /\ (f # "root" \/ a.object.root # None))

Overriding(d) == d.name = "sample" /\ ~d.spaced

FieldsFromLast ==
  /\ stage = "sampled" => \A f \in Fields :
       LET speaking == {i \in DOMAIN applied : Speaks(applied[i], f)}
       IN  sample[f] = IF speaking = {} THEN None ELSE applied[Max(speaking)].object[f]
  /\ stage = "sampled" /\ request.path = None =>
       ((\E i \in DOMAIN applied : applied[i].sibling) <=>
          siblings # {} /\ \A i \in DOMAIN Header : ~Overriding(Header[i]))

\* The evaluator reads nothing but the snapshot, and finds there every import
\* it asks for, although files changed while they were read; what the request
\* supplies is never replaced by a file (resolve.go:17, resolve.go:129).
ImportsClosed ==
  stage = "resolved" =>
    /\ \A n \in DOMAIN request.imports : imports[n] = request.imports[n]
    /\ request.file =>
         \E all \in SUBSET DOMAIN imports :
           Range(request.text.imports) \subseteq all /\ \A n \in all : Range(imports[n]) \subseteq all
===============================================================================
