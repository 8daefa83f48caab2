----------------------------- MODULE SamplesProofs -----------------------------
(***************************************************************************)
(* The snapshot of imports is closed whatever graph they make and whatever *)
(* is written while they are read, and a sample has its fields from the    *)
(* last directives that speak of them, for headers of any length.          *)
(***************************************************************************)
EXTENDS Samples, TLAPS

-----------------------------------------------------------------------------
(* The imports *)

Shape ==
  /\ DOMAIN request = {"static", "file", "text", "given", "path", "imports"}
  /\ request.file \in BOOLEAN

Typed ==
  /\ request.text.imports \in Seq(Names) /\ todo \in Seq(Names)
  /\ \A n \in DOMAIN request.imports : request.imports[n] \in Seq(Names)
  /\ \A n \in DOMAIN imports : imports[n] \in Seq(Names)

Sound ==
  \A p \in DOMAIN disk :
    Importing(p, disk[p]) /\ \A file \in Others(p) : Importing(p, file)

\* What the request supplies is in the snapshot.
Supplied ==
  \A n \in DOMAIN request.imports : n \in DOMAIN imports /\ imports[n] = request.imports[n]

\* What the text and the names in all import is among them or still to be read.
Closed(all) ==
  /\ Range(request.text.imports) \subseteq all \cup Range(todo)
  /\ \A n \in all : Range(imports[n]) \subseteq all \cup Range(todo)

Snapshot == stage # "start" => Supplied /\ \E all \in SUBSET DOMAIN imports : Closed(all)

Ended == stage \in {"size", "resolved"} /\ request.file => todo = <<>>

ImportInv == Shape /\ Typed /\ Sound /\ Snapshot /\ Ended

\* What is put before the rest of a sequence takes the place of its head.
LEMMA RangeOfPrepended ==
  ASSUME NEW S, NEW s \in Seq(S), NEW t \in Seq(S), t # <<>>
  PROVE  /\ s \o Tail(t) \in Seq(S)
         /\ Range(s) \subseteq Range(s \o Tail(t))
         /\ Range(t) \subseteq {Head(t)} \cup Range(s \o Tail(t))
         /\ Head(t) \in S
<1> DEFINE u == s \o Tail(t)
<1>1. Tail(t) \in Seq(S) /\ Len(Tail(t)) = Len(t) - 1 /\ Len(t) \in Nat \ {0} /\ Len(s) \in Nat
  OBVIOUS
<1>2. u \in Seq(S) /\ Len(u) = Len(s) + Len(t) - 1
  BY <1>1
<1>3. ASSUME NEW i \in 1..Len(s) PROVE s[i] \in Range(u)
  <2>1. u[i] = s[i] /\ i \in 1..Len(u)  BY <1>1, <1>2
  <2> QED  BY <2>1, <1>2 DEF Range
<1>4. ASSUME NEW i \in 1..Len(t) PROVE t[i] \in {Head(t)} \cup Range(u)
  <2>1. CASE i = 1  BY <2>1
  <2>2. CASE i # 1
    <3>1. Len(s) + i - 1 \in 1..Len(u) /\ i - 1 \in 1..Len(Tail(t))  BY <1>1, <1>2, <2>2
    <3>2. u[Len(s) + i - 1] = Tail(t)[i - 1]  BY <1>1, <3>1
    <3>3. Tail(t)[i - 1] = t[i]  BY <1>1, <3>1
    <3>4. t[i] = u[Len(s) + i - 1] /\ Len(s) + i - 1 \in DOMAIN u
      BY <3>1, <3>2, <3>3, <1>2
    <3> HIDE DEF u
    <3> QED  BY <3>4 DEF Range
  <2> QED  BY <2>1, <2>2
<1>5. Range(s) \subseteq Range(u)  BY <1>3 DEF Range
<1>6. Range(t) \subseteq {Head(t)} \cup Range(u)  BY <1>4 DEF Range
<1>7. Head(t) \in S  OBVIOUS
<1> QED  BY <1>2, <1>5, <1>6, <1>7

LEMMA ImportInit == ASSUME Init PROVE ImportInv
<1>1. PICK r \in Requests : r = request /\ disk \in Disks(r)
  BY DEF Init
<1>2. Shape /\ Sound
  BY <1>1, SamplesAssumption DEF Shape, Sound
<1>3. DOMAIN imports = {} /\ todo = <<>>
  BY DEF Init
<1>4. Typed
  BY <1>1, <1>3, SamplesAssumption DEF Typed
<1> QED  BY <1>2, <1>4 DEF Init, ImportInv, Snapshot, Ended

\* One call of the importer.
LEMMA ImportStep == ASSUME ImportInv, Import PROVE ImportInv'
<1> USE DEF ImportInv
<1>1. UNCHANGED <<request, disk>> /\ stage = "import"
  BY DEF Import
<1>2. Shape' /\ Sound'
  BY <1>1 DEF Shape, Sound
<1>3. CASE todo = <<>>
  <2>1. UNCHANGED <<imports, todo>> /\ stage' = "size"
    BY <1>1, <1>3 DEF Import, importing
  <2>2. Typed'
    BY <1>1, <2>1 DEF Typed
  <2>3. Snapshot'
    BY <1>1, <2>1 DEF Snapshot, Supplied, Closed
  <2> QED  BY <1>2, <2>2, <2>3, <1>3, <2>1 DEF Ended
<1>4. CASE todo # <<>> /\ stage' = "failed"
  <2>1. UNCHANGED <<imports, todo>>
    BY <1>1, <1>4 DEF Import, importing
  <2> QED  BY <1>1, <1>2, <1>4, <2>1 DEF Typed, Snapshot, Supplied, Closed, Ended
<1>5. CASE todo # <<>> /\ stage' # "failed"
  <2>0. PICK name : name = Head(todo)
    OBVIOUS
  <2>1. PICK more \in Seq(Names) :
          /\ todo' = more \o Tail(todo) /\ stage' = stage
          /\ name \in DOMAIN imports' /\ imports'[name] = more
          /\ DOMAIN imports \subseteq DOMAIN imports'
          /\ \A n \in DOMAIN imports' : n # name => n \in DOMAIN imports
          /\ \A n \in DOMAIN imports : imports'[n] = imports[n]
    <3>1. name \in Names
      BY <1>5, <2>0, RangeOfPrepended DEF Typed
    <3>2. CASE Known(name)
      <4>1. todo' = imports[name] \o Tail(todo) /\ UNCHANGED <<stage, imports>>
        BY <1>1, <1>5, <2>0, <3>2 DEF Import
      <4> QED  BY <4>1, <3>2 DEF Known, Typed
    <3>3. CASE ~Known(name)
      <4>1. /\ Exists(name) /\ stage' = stage
            /\ imports' = [n \in DOMAIN imports \cup {name} |->
                            IF n = name THEN disk[name].imports ELSE imports[n]]
            /\ todo' = disk[name].imports \o Tail(todo)
        BY <1>1, <1>5, <2>0, <3>3 DEF Import
      <4>2. disk[name].imports \in Seq(Names)
        BY <3>1, <4>1 DEF Exists, Sound, Importing
      <4> QED  BY <4>1, <4>2, <3>3 DEF Known
    <3> QED  BY <3>2, <3>3
  <2>2. /\ todo' \in Seq(Names)
        /\ Range(more) \subseteq Range(todo')
        /\ Range(todo) \subseteq {name} \cup Range(todo')
    BY <1>5, <2>0, <2>1, RangeOfPrepended DEF Typed
  <2>3. Typed'
    BY <1>1, <2>1, <2>2 DEF Typed
  <2>4. PICK all \in SUBSET DOMAIN imports : Closed(all)
    BY <1>1 DEF Snapshot
  <2> DEFINE asked == all \cup {name}
  <2>5. Closed(asked)' /\ asked \in SUBSET DOMAIN imports'
    <3>1. Range(request.text.imports)' \subseteq asked \cup Range(todo')
      BY <1>1, <2>2, <2>4 DEF Closed
    <3>2. ASSUME NEW n \in asked PROVE Range(imports'[n]) \subseteq asked \cup Range(todo')
      BY <2>1, <2>2, <2>4 DEF Closed
    <3> QED  BY <3>1, <3>2, <2>1, <2>4 DEF Closed
  <2>6. Supplied'
    BY <1>1, <2>1 DEF Snapshot, Supplied
  <2>7. Snapshot'
    BY <2>5, <2>6 DEF Snapshot
  <2> QED  BY <1>1, <1>2, <2>1, <2>3, <2>7 DEF Ended
<1> QED  BY <1>3, <1>4, <1>5

\* The mapping file, if there is one, takes the place of the text.
LEMMA StartStep == ASSUME ImportInv, Start PROVE ImportInv'
<1> USE DEF ImportInv
<1>1. /\ UNCHANGED <<disk>> /\ stage = "start" /\ stage' # "start"
      /\ todo' = request'.text.imports /\ imports' = request.imports
  BY DEF Start
<1>2. /\ Shape' /\ request'.imports = request.imports /\ request'.file = request.file
      /\ request'.text.imports \in Seq(Names)
  <2>1. CASE UNCHANGED request
    BY <2>1 DEF Shape, Typed
  <2>2. CASE request' # request
    <3>1. Exists("mapping") /\ request' = [request EXCEPT !.text = disk["mapping"]]
      BY <2>2 DEF Start
    <3>2. disk["mapping"].imports \in Seq(Names)
      BY <3>1 DEF Exists, Sound, Importing
    <3> QED  BY <3>1, <3>2 DEF Shape
  <2> QED  BY <2>1, <2>2
<1>3. Typed'
  BY <1>1, <1>2 DEF Typed
<1>4. Supplied' /\ Closed({})'
  BY <1>1, <1>2 DEF Supplied, Closed
<1>5. Snapshot'
  BY <1>4 DEF Snapshot
<1>6. Ended'
  BY <1>1, <1>2 DEF Ended, Start, Shape
<1> QED  BY <1>1, <1>2, <1>3, <1>5, <1>6 DEF Sound

\* The sample only adds what the request does not supply.
LEMMA SampledStep == ASSUME ImportInv, Sampled PROVE ImportInv'
<1> USE DEF ImportInv
<1>1. UNCHANGED <<disk, imports, todo>> /\ stage = "sampled" /\ stage' # "start"
  BY DEF Sampled, importing
<1>2. \E given : request' = [request EXCEPT !.given = given]
  BY DEF Sampled
<1>3. /\ Shape' /\ request'.imports = request.imports /\ request'.file = request.file
      /\ request'.text = request.text
  BY <1>2 DEF Shape
<1>4. Ended'
  BY <1>1, <1>3 DEF Ended, Sampled
<1> QED  BY <1>1, <1>3, <1>4 DEF Typed, Sound, Snapshot, Supplied, Closed

\* Whatever leaves the request, the files and the imports alone.
LEMMA QuietStep ==
  ASSUME ImportInv, UNCHANGED <<request, disk, imports, todo>>,
         stage = "start" => stage' = "start",
         stage' \in {"size", "resolved"} => stage \in {"size", "resolved"}
  PROVE  ImportInv'
<1> USE DEF ImportInv
<1>1. Shape' /\ Sound'
  BY DEF Shape, Sound
<1>2. Typed'
  BY DEF Typed
<1>3. Snapshot'
  <2>1. ASSUME NEW all, Closed(all) PROVE Closed(all)'
    BY <2>1 DEF Closed
  <2>2. Supplied => Supplied'
    BY DEF Supplied
  <2> QED  BY <2>1, <2>2 DEF Snapshot
<1>4. Ended'
  BY DEF Ended
<1> QED  BY <1>1, <1>2, <1>3, <1>4

\* A file takes a content it may have.
LEMMA WriteStep == ASSUME ImportInv, Write PROVE ImportInv'
<1> USE DEF ImportInv
<1>1. UNCHANGED <<request, stage, imports, todo>>
  BY DEF Write, importing
<1>2. Sound'
  <2>1. PICK p \in DOMAIN disk : \E c \in Others(p) : disk' = [disk EXCEPT ![p] = c]
    BY DEF Write
  <2> QED  BY <2>1 DEF Sound
<1> QED  BY <1>1, <1>2 DEF Shape, Typed, Snapshot, Supplied, Closed, Ended

LEMMA ImportNext == ASSUME ImportInv, [Next]_vars PROVE ImportInv'
<1>1. CASE Start  BY <1>1, StartStep
<1>2. CASE Candidates  BY <1>2, QuietStep DEF Candidates, importing
<1>3. CASE Sibling  BY <1>3, QuietStep DEF Sibling, importing
<1>4. CASE Directive  BY <1>4, QuietStep DEF Directive, importing
<1>5. CASE Sampled  BY <1>5, SampledStep
<1>6. CASE Import  BY <1>6, ImportStep
<1>7. CASE Finish  BY <1>7, QuietStep DEF Finish, importing
<1>8. CASE Write  BY <1>8, WriteStep
<1>9. CASE UNCHANGED vars  BY <1>9, QuietStep DEF vars, importing
<1> QED  BY <1>1, <1>2, <1>3, <1>4, <1>5, <1>6, <1>7, <1>8, <1>9 DEF Next

\* The evaluator finds every import it asks for in the snapshot
\* (resolve.go:129), whatever texts import and others write meanwhile.
THEOREM SnapshotClosed == Spec => []ImportsClosed
<1>1. ImportInv => ImportsClosed
  <2> SUFFICES ASSUME ImportInv, stage = "resolved" PROVE ImportsClosed
    BY DEF ImportsClosed
  <2>1. Supplied /\ \E all \in SUBSET DOMAIN imports : Closed(all)
    BY DEF ImportInv, Snapshot
  <2>2. request.file => todo = <<>>
    BY DEF ImportInv, Ended
  <2>3. Range(<<>>) = {}
    BY DEF Range
  <2> QED  BY <2>1, <2>2, <2>3 DEF ImportsClosed, Supplied, Closed
<1> QED  BY <1>1, ImportInit, ImportNext, PTL DEF Spec

-----------------------------------------------------------------------------
(* The fields of a sample *)

Speaking(f) == {i \in DOMAIN applied : Speaks(applied[i], f)}

\* What was applied is a sequence, and each field is from the last that speaks.
Applied == \E S : applied \in Seq(S)

FromLast(f) ==
  \/ Speaking(f) = {} /\ sample[f] = None
  \/ \E last \in Speaking(f) :
       (\A i \in Speaking(f) : last >= i) /\ sample[f] = applied[last].object[f]

\* Stages of the sample: before anything is applied, and with the directives.
Before == {"start", "siblings", "sibling"}
After == {"directives", "sampled"}

BySibling == \E i \in DOMAIN applied : applied[i].sibling

\* The automatic sample is first; it is applied where the scan finds nothing.
Automatic ==
  /\ stage \in Before => applied = <<>>
  /\ request.path = None =>
       /\ stage = "sibling" => siblings # {} /\ ~Explicit
       /\ stage \in After => (BySibling <=> siblings # {} /\ ~Explicit)

\* Each directive that was applied had a value.
Processed ==
  /\ line \in Nat \ {0}
  /\ stage \in Before => line = 1
  /\ stage \in After =>
       \A i \in DOMAIN Header :
         i < line \/ (stage = "sampled" /\ request.path = None) => Header[i].present

FieldsInv ==
  /\ Shape /\ Listed(Header)
  /\ Applied /\ \A f \in Fields : FromLast(f)
  /\ Automatic /\ Processed

\* One more is applied: it is the last that speaks, or a field stays.
LEMMA ApplyStep ==
  ASSUME NEW o, NEW field, NEW sibling, Applied, \A f \in Fields : FromLast(f),
         Apply(o, field, sibling)
  PROVE  /\ Applied' /\ \A f \in Fields : FromLast(f)'
         /\ BySibling' <=> (sibling = TRUE) \/ BySibling
<1> DEFINE a == [object |-> o, field |-> field, sibling |-> sibling]
           n == Len(applied) + 1
<1>1. applied' = Append(applied, a) /\ sample' = Taken(sample, o, field)
  BY DEF Apply
<1>2. a.object = o /\ a.field = field /\ a.sibling = sibling
  OBVIOUS
<1> HIDE DEF a
<1>3. PICK S : applied \in Seq(S)
  BY DEF Applied
<1>4. applied \in Seq(S \cup {a})
  BY <1>3
<1>5. /\ applied' \in Seq(S \cup {a}) /\ n \in Nat \ {0}
      /\ DOMAIN applied' = 1..n /\ DOMAIN applied = 1..(n - 1)
      /\ applied'[n] = a /\ \A i \in 1..(n - 1) : applied'[i] = applied[i]
  BY <1>1, <1>4
<1> HIDE DEF n
<1>6. /\ n \in DOMAIN applied' /\ n \notin DOMAIN applied
      /\ \A i \in DOMAIN applied : i \in DOMAIN applied' /\ applied'[i] = applied[i]
      /\ \A i \in DOMAIN applied' : n >= i /\ (i = n \/ i \in DOMAIN applied)
  <2>1. /\ n \in 1..n /\ n \notin 1..(n - 1)
        /\ \A i \in 1..(n - 1) : i \in 1..n
        /\ \A i \in 1..n : n >= i /\ (i = n \/ i \in 1..(n - 1))
    BY <1>5
  <2> QED  BY <1>5, <2>1
<1>7. ASSUME NEW f \in Fields, Speaks(a, f) PROVE FromLast(f)'
  <2>1. sample'[f] = applied'[n].object[f]
    BY <1>1, <1>2, <1>5, <1>7 DEF Taken, Speaks
  <2>2. n \in Speaking(f)' /\ \A i \in Speaking(f)' : n >= i
    BY <1>5, <1>6, <1>7 DEF Speaking
  <2> QED  BY <2>1, <2>2 DEF FromLast
<1>8. ASSUME NEW f \in Fields, ~Speaks(a, f) PROVE FromLast(f)'
  <2>1. Speaking(f)' = Speaking(f)
    BY <1>5, <1>6, <1>8 DEF Speaking
  <2>2. sample'[f] = sample[f]
    BY <1>1, <1>2, <1>8 DEF Taken, Speaks
  <2>3. \A i \in Speaking(f) : applied'[i] = applied[i]
    BY <1>6 DEF Speaking
  <2>4. FromLast(f)
    OBVIOUS
  <2> QED  BY <2>1, <2>2, <2>3, <2>4 DEF FromLast
<1>9. BySibling' <=> (sibling = TRUE) \/ BySibling
  <2>1. BySibling' => a.sibling \/ BySibling
    BY <1>5, <1>6 DEF BySibling
  <2>2. a.sibling \/ BySibling => BySibling'
    BY <1>5, <1>6 DEF BySibling
  <2> QED  BY <1>2, <2>1, <2>2
<1>10. Applied'
  BY <1>5 DEF Applied
<1> QED  BY <1>7, <1>8, <1>9, <1>10

LEMMA FieldsInit == ASSUME Init PROVE FieldsInv
<1>1. Shape /\ Listed(Header)
  BY SamplesAssumption DEF Init, Shape, Header
<1>2. applied = <<>> /\ applied \in Seq({}) /\ DOMAIN applied = {}
  BY DEF Init
<1>3. \A f \in Fields : FromLast(f)
  BY <1>2 DEF Init, NoSample, FromLast, Speaking
<1>4. Automatic /\ Processed
  BY <1>2 DEF Init, Automatic, Processed, Before, After
<1> QED  BY <1>1, <1>2, <1>3, <1>4 DEF FieldsInv, Applied

\* Where nothing is applied the fields stay.
LEMMA FieldsStay ==
  ASSUME FieldsInv, UNCHANGED <<sample, applied>>
  PROVE  Applied' /\ (\A f \in Fields : FromLast(f)') /\ (BySibling' <=> BySibling)
<1> USE DEF FieldsInv
<1>1. Applied' /\ (BySibling' <=> BySibling)
  BY DEF Applied, BySibling
<1>2. ASSUME NEW f \in Fields PROVE FromLast(f)'
  <2>1. Speaking(f)' = Speaking(f)
    BY DEF Speaking
  <2>2. FromLast(f)
    OBVIOUS
  <2> QED  BY <2>1, <2>2 DEF FromLast
<1> QED  BY <1>1, <1>2

\* The text changes before its directives are read, what is given afterwards.
LEMMA RequestStep == ASSUME Sound, FieldsInv, Start \/ Sampled PROVE FieldsInv'
<1> USE DEF FieldsInv
<1>1. UNCHANGED <<sample, applied, line>> /\ stage' \notin After \cup {"sibling"}
  BY DEF Start, Sampled, sampling, After
<1>2. Shape' /\ Listed(Header)'
  <2>1. CASE UNCHANGED request
    BY <2>1 DEF Shape, Header
  <2>2. CASE Start /\ request' # request
    <3>1. Exists("mapping") /\ request' = [request EXCEPT !.text = disk["mapping"]]
      BY <2>2 DEF Start
    <3>2. Listed(disk["mapping"].header)
      BY <3>1 DEF Exists, Sound, Importing
    <3> QED  BY <3>1, <3>2 DEF Shape, Header
  <2>3. CASE Sampled
    <3>1. \E given : request' = [request EXCEPT !.given = given]
      BY <2>3 DEF Sampled
    <3>2. request'.text = request.text
      BY <3>1 DEF Shape
    <3> QED  BY <3>1, <3>2 DEF Shape, Header
  <2> QED  BY <2>1, <2>2, <2>3
<1>3. stage' \in Before => stage \in Before
  BY DEF Start, Sampled, Before
<1>4. Automatic' /\ Processed'
  BY <1>1, <1>3 DEF Automatic, Processed
<1> QED  BY <1>1, <1>2, <1>4, FieldsStay

LEMMA CandidatesStep == ASSUME FieldsInv, Candidates PROVE FieldsInv'
<1> USE DEF FieldsInv
<1>1. UNCHANGED <<request, sample, applied, line>> /\ stage = "siblings" /\ stage' # "sampled"
  BY DEF Candidates
<1>2. /\ Explicit' <=> Explicit
      /\ Header' = Header
  BY <1>1 DEF Explicit, Header
<1>3. /\ request.path = None /\ stage' = "sibling" => siblings' # {} /\ ~Explicit
      /\ request.path = None /\ stage' = "directives" => Explicit \/ siblings' = {}
  BY DEF Candidates
<1>4. ~BySibling /\ applied = <<>> /\ line = 1
  BY <1>1 DEF Automatic, Processed, BySibling, Before
<1>5. Automatic'
  BY <1>1, <1>2, <1>3, <1>4, FieldsStay DEF Automatic, After
<1>6. Processed'
  BY <1>1, <1>2, <1>4 DEF Processed, After, Shape, Listed
<1>7. Shape' /\ Listed(Header)'
  BY <1>1, <1>2 DEF Shape
<1> QED  BY <1>1, <1>5, <1>6, <1>7, FieldsStay

LEMMA SiblingStep == ASSUME FieldsInv, Sibling PROVE FieldsInv'
<1> USE DEF FieldsInv
<1>1. UNCHANGED <<request, line, siblings>> /\ stage = "sibling"
  BY DEF Sibling
<1>2. /\ Explicit' <=> Explicit
      /\ Header' = Header /\ Shape' /\ Listed(Header)'
  BY <1>1 DEF Explicit, Header, Shape
<1>3. line = 1
  BY <1>1 DEF Processed, Before
<1>4. CASE stage' = "failed"
  <2>1. UNCHANGED <<sample, applied>>
    BY <1>4 DEF Sibling
  <2>2. Automatic' /\ Processed'
    BY <1>1, <1>3, <1>4 DEF Automatic, Processed, Before, After
  <2> QED  BY <1>2, <2>1, <2>2, FieldsStay
<1>5. CASE stage' # "failed"
  <2>1. PICK o : Apply(o, "sample", TRUE)
    BY <1>5 DEF Sibling
  <2>2. stage' = IF request.path # None THEN "sampled" ELSE "directives"
    BY <1>5 DEF Sibling
  <2>3. Applied' /\ (\A f \in Fields : FromLast(f)') /\ BySibling'
    BY <2>1, ApplyStep
  <2>4. Automatic'
    BY <1>1, <1>2, <2>2, <2>3 DEF Automatic, Before
  <2>5. Processed'
    BY <1>1, <1>2, <1>3, <2>2 DEF Processed, Before, Listed
  <2> QED  BY <1>2, <2>3, <2>4, <2>5
<1> QED  BY <1>4, <1>5

LEMMA DirectiveStep == ASSUME FieldsInv, Directive PROVE FieldsInv'
<1> USE DEF FieldsInv
<1>1. UNCHANGED <<request, siblings>> /\ stage = "directives" /\ stage' \notin Before
  BY DEF Directive, Before
<1>2. /\ Explicit' <=> Explicit
      /\ Header' = Header /\ Shape' /\ Listed(Header)'
  BY <1>1 DEF Explicit, Header, Shape
<1>3. /\ line \in Nat \ {0} /\ DOMAIN Header = 1..Len(Header) /\ Len(Header) \in Nat
      /\ \A i \in DOMAIN Header : i < line => Header[i].present
  BY <1>1 DEF Processed, After, Listed
<1>4. CASE stage' = "failed"
  <2>1. UNCHANGED <<sample, applied, line>>
    BY <1>4 DEF Directive
  <2>2. Automatic' /\ Processed'
    BY <1>1, <1>3, <1>4, <2>1 DEF Automatic, Processed, After
  <2> QED  BY <1>2, <2>1, <2>2, FieldsStay
<1>5. CASE line > Len(Header)
  <2>1. UNCHANGED <<sample, applied, line>> /\ stage' = "sampled"
    BY <1>5 DEF Directive
  <2>2. Automatic'
    BY <1>1, <1>2, <2>1, FieldsStay DEF Automatic, After, Before
  <2>3. \A i \in DOMAIN Header : Header[i].present
    BY <1>3, <1>5
  <2>4. Processed'
    BY <1>1, <1>2, <1>3, <2>1, <2>3 DEF Processed
  <2> QED  BY <1>2, <2>1, <2>2, <2>4, FieldsStay
<1>6. CASE ~(line > Len(Header)) /\ stage' # "failed"
  <2>1. /\ line' = line + 1 /\ stage' = stage /\ Header[line].present
        /\ \E o, field : Apply(o, field, FALSE)
    BY <1>6 DEF Directive
  <2>2. Applied' /\ (\A f \in Fields : FromLast(f)') /\ (BySibling' <=> BySibling)
    BY <2>1, ApplyStep
  <2>3. Automatic'
    BY <1>1, <1>2, <2>1, <2>2 DEF Automatic, After, Before
  <2>4. ASSUME NEW i \in DOMAIN Header, i < line + 1 PROVE Header[i].present
    <3>1. i < line \/ i = line
      BY <1>3, <2>4
    <3> QED  BY <3>1, <1>3, <2>1
  <2>5. Processed'
    BY <1>1, <1>2, <1>3, <2>1, <2>4 DEF Processed, Before
  <2> QED  BY <1>2, <2>2, <2>3, <2>5
<1> QED  BY <1>4, <1>5, <1>6

LEMMA FieldsNext == ASSUME Sound, FieldsInv, [Next]_vars PROVE FieldsInv'
<1>1. CASE Start \/ Sampled  BY <1>1, RequestStep
<1>2. CASE Candidates  BY <1>2, CandidatesStep
<1>3. CASE Sibling  BY <1>3, SiblingStep
<1>4. CASE Directive  BY <1>4, DirectiveStep
<1>5. CASE Import \/ Finish \/ Write \/ UNCHANGED vars
  <2> USE DEF FieldsInv
  <2>1. /\ UNCHANGED <<request, line, sample, siblings, applied>>
        /\ stage' = stage \/ stage' \notin Before \cup After
    BY <1>5 DEF Import, Finish, Write, vars, sampling, Before, After
  <2>2. Shape' /\ Listed(Header)' /\ Header' = Header /\ (Explicit' <=> Explicit)
    BY <2>1 DEF Shape, Header, Explicit
  <2>3. Automatic'
    BY <2>1, <2>2, FieldsStay DEF Automatic, Before
  <2>4. Processed'
    BY <2>1, <2>2 DEF Processed, After
  <2> QED  BY <2>1, <2>2, <2>3, <2>4, FieldsStay
<1> QED  BY <1>1, <1>2, <1>3, <1>4, <1>5 DEF Next

\* A field of a sample is what the last directive that speaks of it says, and the
\* automatic sample is among them unless a directive for a whole one has its name
\* right after #! (sample.go:269, sample.go:297), for headers of any length.
THEOREM LastDirectiveWins == Spec => []FieldsFromLast
<1>1. FieldsInv => FieldsFromLast
  <2> SUFFICES ASSUME FieldsInv PROVE FieldsFromLast
    OBVIOUS
  <2>1. ASSUME NEW f \in Fields
        PROVE  sample[f] = IF Speaking(f) = {} THEN None ELSE applied[Max(Speaking(f))].object[f]
    <3>1. FromLast(f)
      BY DEF FieldsInv
    <3>2. ASSUME NEW last \in Speaking(f), \A i \in Speaking(f) : last >= i
          PROVE  Max(Speaking(f)) = last
      <4>1. Speaking(f) \subseteq Nat
        BY DEF FieldsInv, Applied, Speaking
      <4>2. ASSUME NEW i \in Speaking(f), \A j \in Speaking(f) : i >= j PROVE i = last
        BY <3>2, <4>1, <4>2
      <4> QED  BY <3>2, <4>2, Zenon DEF Max
    <3> QED  BY <3>1, <3>2 DEF FromLast
  <2>2. ASSUME stage = "sampled", request.path = None
        PROVE  BySibling <=> siblings # {} /\ \A i \in DOMAIN Header : ~Overriding(Header[i])
    <3>1. BySibling <=> siblings # {} /\ ~Explicit
      BY <2>2 DEF FieldsInv, Automatic, After
    <3>2. \A i \in DOMAIN Header : Header[i].present
      BY <2>2 DEF FieldsInv, Processed, After
    <3> QED  BY <3>1, <3>2 DEF Explicit, Overriding
  <2> QED  BY <2>1, <2>2 DEF FieldsFromLast, BySibling, Speaking
<1>2. ImportInv /\ FieldsInv /\ [Next]_vars => FieldsInv'
  BY FieldsNext DEF ImportInv
<1> QED  BY <1>1, <1>2, ImportInit, ImportNext, FieldsInit, PTL DEF Spec
=============================================================================
