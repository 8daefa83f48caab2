------------------------------- MODULE ToolLint -------------------------------
(***************************************************************************)
(* lint --fix and the quick fixes of the editor: internal/lsp/tooling.go,  *)
(* with the importer whose bounds stand in for a search for cycles.  Which *)
(* fixes there are and what they do to a text is a parameter, see LintFix. *)
(*                                                                         *)
(* Other processes write the imported files at any time.                   *)
(***************************************************************************)
EXTENDS Naturals, Sequences

CONSTANTS
  Files,            \* texts, sequences of tokens
  Hosts,            \* those to begin with
  ImportNames,      \* names of files that are imported
  Disks(_),         \* what the imports of a text may read: name -> its imports in order
  ImportLists(_),   \* the imports of each mapping of a text
  Replacements(_),  \* what the findings of a text would replace
  Fixed(_, _),      \* a text with the edits that are chosen of these
  Applied(_, _),    \* a text with one of them
  Bytes(_),         \* the size of a file with these imports
  MaxImports,       \* importer calls of one validation
  MaxBytes,         \* bytes they may read
  MaxWrites         \* bound: times the imported files change

VARIABLES
  host,     \* the text of the file
  disk,     \* what its imports read
  linting,  \* lint, find, fix, report, done, diverged, or editor
  seen,     \* texts of the loop so far
  fixes,    \* what the findings of the text would replace
  writes,
  \* History.
  original, \* the text at the start
  last      \* the last validation: its text, the disk then, and what it read

lintVars == <<host, disk, linting, seen, fixes, writes, original, last>>

ASSUME LimitsAssumption == MaxImports \in Nat /\ MaxBytes \in Nat

ASSUME FilesAssumption ==
  /\ Hosts \subseteq Files
  /\ \A h \in Files :
       /\ Len(h) \in Nat
       /\ ImportLists(h) \subseteq Seq(ImportNames)
       /\ \A d \in Disks(h) :
            /\ DOMAIN d \subseteq ImportNames
            /\ \A f \in DOMAIN d : d[f] \in Seq(ImportNames) /\ Bytes(d[f]) \in Nat

\* A round leaves a text of fewer tokens with the same imports, or there is no
\* fix; so does the one rule that has a fix, which puts one call in the place of
\* two (lint.go:204), although the spaces behind its commas may add bytes.
ASSUME RuleAssumption ==
  LET files == Files IN
  \A h \in files :
    LET c == Fixed(h, Replacements(h))
    IN  /\ c \in files /\ ImportLists(c) = ImportLists(h)
        /\ IF c = h THEN Replacements(h) = {} ELSE Len(c) < Len(h)

-----------------------------------------------------------------------------
(* Validation *)

\* The imports that are still to come, the calls and the bytes so far.
Beginnings(names) == [todo |-> names, calls |-> 0, bytes |-> 0, ok |-> TRUE]

\* Mutants: the calls, or the bytes, are not counted.
UncountedRefuses(d, read) ==
  Head(read.todo) \notin DOMAIN d \/ Bytes(d[Head(read.todo)]) > MaxBytes - read.bytes

MutantRefuses(d, read) ==
  read.calls + 1 > MaxImports \/ Head(read.todo) \notin DOMAIN d

Refuses(d, read) ==
  \/ read.calls + 1 > MaxImports
  \/ Head(read.todo) \notin DOMAIN d
  \/ Bytes(d[Head(read.todo)]) > MaxBytes - read.bytes

\* The importer: it counts every call, and the bytes of every file, whose
\* imports come before those behind it.
ReadOne(d, read) ==
  LET over == read.todo = <<>> \/ ~read.ok
      called == [read EXCEPT !.calls = @ + 1]
  IN  CASE over -> read
        [] ~over /\ Refuses(d, read) -> [called EXCEPT !.ok = FALSE]
        [] ~over /\ ~Refuses(d, read) ->
             [called EXCEPT !.todo = d[Head(@)] \o Tail(@), !.bytes = @ + Bytes(d[Head(read.todo)])]

\* One call more than there may be.
ReadAll(d, names) ==
  LET read[n \in Nat] == IF n = 0 THEN Beginnings(names) ELSE ReadOne(d, read[n - 1])
  IN  read[MaxImports + 1]

\* staticDiagnostics: every mapping has an environment of its own.
Validate(h, d) ==
  [text |-> h, disk |-> d, reads |-> {ReadAll(d, names) : names \in ImportLists(h)}]

Valid(v) == \A r \in v.reads : r.ok

NoVerdict(h, d) == [text |-> h, disk |-> d, reads |-> {[Beginnings(<<>>) EXCEPT !.ok = FALSE]}]

-----------------------------------------------------------------------------
LintInit ==
  /\ host \in Hosts /\ disk \in Disks(host)
  /\ linting \in {"lint", "editor"}
  /\ seen = {} /\ fixes = {} /\ writes = 0
  /\ original = host
  /\ last = NoVerdict(host, disk)

\* Lint, up to its loop.
Start ==
  /\ linting = "lint"
  /\ last' = Validate(host, disk)
  /\ linting' = IF Valid(last') THEN "find" ELSE "report"
  /\ seen' = {host}
  /\ UNCHANGED <<host, disk, fixes, writes, original>>

\* The findings validate the text once more, without a use of the verdict.
Find ==
  /\ linting = "find"
  /\ fixes' = Replacements(host)
  /\ last' = Validate(host, disk)
  /\ linting' = "fix"
  /\ UNCHANGED <<host, disk, seen, writes, original>>

\* Mutant: one round is enough.
MutantOnce ==
  /\ linting = "fix"
  /\ host' = Fixed(host, fixes) /\ last' = Validate(host', disk)
  /\ linting' = "report" /\ seen' = {}
  /\ UNCHANGED <<disk, fixes, writes, original>>

\* One round of the loop: a candidate that is valid and new becomes the text.
Fix ==
  /\ linting = "fix"
  /\ \E candidate \in {Fixed(host, fixes)} :
       \/ /\ candidate = host
          /\ linting' = "report" /\ UNCHANGED <<host, seen, last>>
       \/ /\ candidate # host
          /\ last' = Validate(candidate, disk)
          /\ \/ /\ ~Valid(last')
                /\ linting' = "report" /\ UNCHANGED <<host, seen>>
             \/ /\ Valid(last') /\ candidate \in seen
                /\ linting' = "diverged" /\ UNCHANGED <<host, seen>>
             \/ /\ Valid(last') /\ candidate \notin seen
                /\ linting' = "find"
                /\ host' = candidate /\ seen' = seen \cup {candidate}
  /\ UNCHANGED <<disk, fixes, writes, original>>

\* The diagnostics of the text that is returned.
Report ==
  /\ linting = "report"
  /\ last' = Validate(host, disk)
  /\ fixes' = Replacements(host)
  /\ linting' = "done"
  /\ UNCHANGED <<host, disk, seen, writes, original>>

\* CodeAction: the user takes any one of the fixes.
CodeAction ==
  /\ linting = "editor"
  /\ \E e \in Replacements(host) : host' = Applied(host, e)
  /\ UNCHANGED <<disk, linting, seen, fixes, writes, original, last>>

\* Another process writes the imported files.
WriteImports ==
  /\ writes < MaxWrites /\ linting \notin {"editor", "done", "diverged"}
  /\ disk' \in Disks(host) \ {disk}
  /\ writes' = writes + 1
  /\ UNCHANGED <<host, linting, seen, fixes, original, last>>

LintNext == Start \/ Find \/ Fix \/ Report \/ CodeAction \/ WriteImports

LintSpec == LintInit /\ [][LintNext]_lintVars

-----------------------------------------------------------------------------
(* Properties *)

\* What is imported by a file, directly or through others.
Reaches(d, f) ==
  {g \in ImportNames :
     \A S \in SUBSET ImportNames :
       (\A x \in (S \cup {f}) \cap DOMAIN d : \A i \in DOMAIN d[x] : d[x][i] \in S) => g \in S}

\* An import that reaches itself ends in an error, as one that cannot be read,
\* and the bytes that are read stay within their bound (tooling.go:122).
CyclesEnd ==
  /\ \A r \in last.reads : r.bytes <= MaxBytes
  /\ Valid(last) =>
       \A names \in ImportLists(last.text) : \A i \in DOMAIN names :
         \A f \in {names[i]} \cup Reaches(last.disk, names[i]) :
           f \in DOMAIN last.disk /\ f \notin Reaches(last.disk, f)

\* lint --fix ends: no text comes back (tooling.go:328) because every round
\* leaves a shorter one.  No safe fix is left then (tooling.go:304), unless the
\* imports changed meanwhile or the text was not valid to begin with.
Converges ==
  /\ linting # "diverged"
  /\ \A t \in seen \ {host} : Len(host) < Len(t)
  /\ linting = "done" /\ Valid(last) /\ writes = 0 => fixes = {}
=============================================================================
