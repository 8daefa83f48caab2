------------------------- MODULE DocumentLifecycle --------------------------
(***************************************************************************)
(* The documents of the language server: what internal/lsp/handler.go,     *)
(* lifecycle.go, diagnostics.go and workspace.go keep per open document,   *)
(* the validations and requests that run beside the edits, and the         *)
(* publications they leave in the outbox of DiagnosticOutbox.              *)
(*                                                                         *)
(* Every open, change, and watched-file event begins a generation of its   *)
(* document.  A generation names its context, its validation, and the      *)
(* revision of the text and of the sample that it installs, so data is     *)
(* abstracted to the generation it stems from.  Sections under h.mu are    *)
(* single actions, except an edit: the document store and the sample have  *)
(* locks of their own and are read without h.mu, so the new text is        *)
(* visible before its generation begins.                                   *)
(***************************************************************************)
EXTENDS DiagnosticOutbox, FiniteSets

CONSTANTS
  Yaml,           \* hosts whose mappings are embedded regions
  Parts,          \* parts of a mapping that a ranged request may ask for
  Requests,       \* goroutines that serve client requests
  NoHost,         \* no document
  MaxGeneration   \* bound: generations begun in a run

ASSUME LifecycleAssumption ==
  /\ Yaml \subseteq Hosts
  /\ NoHost \notin Hosts
  /\ IsFiniteSet(Hosts)
  /\ MaxGeneration \in Nat

VARIABLES
  text,         \* per host, generation of its text in the store, 0 if closed
  sample,       \* per host, generation of its sample, 0 if none
  latest,       \* latestVersion, 0 if absent
  nextVersion,  \* generations begun
  superseded,   \* generations whose context is done
  editing,      \* the host whose edit holds h.mu halfway, or NoHost
  source,       \* per generation, the generation of its text (history)
  base,         \* lastDiagnostics: what the last validation of a host read
  exec,         \* execDiagnostics: per part, the generation that failed, or 0
  trees,        \* hosts with a syntax tree in the parser, regions included
  vpc,          \* per generation, where its validation is
  vhost,        \* the host it validates
  vtexts,       \* the texts it has read
  vsamples,     \* the samples it has read
  rpc,          \* where each request is
  rhost,        \* the host it is about
  rversion      \* the generation it captured

edits == <<text, sample, latest, nextVersion, superseded, editing, source>>
validations == <<vpc, vhost, vtexts, vsamples>>
requests == <<rpc, rhost, rversion>>
vars == <<edits, base, exec, trees, validations, requests, outbox, stopped>>

Generations == 1..MaxGeneration

VPC == {"none", "debounce", "capture", "compute", "discard", "done"}
RPC == {"idle", "check", "parse", "evaluate", "discard"}

\* What a validation leaves: its generation, and the revisions it has read.
NoBase == [of |-> 0, texts |-> {}, samples |-> {}]
Base == [of : Nat, texts : SUBSET Nat, samples : SUBSET Nat]
NoExec == [x \in Parts |-> 0]
Publication == [host : Hosts, generation : Nat, base : Base,
                exec : [Parts -> Nat]]
Clear(d) == [host |-> d, generation |-> 0, base |-> NoBase, exec |-> NoExec]

\* No publication looks like the absence of one.
ASSUME PublicationAssumption == NoPublication \notin Publication

TypeOK ==
  /\ text \in [Hosts -> Nat] /\ sample \in [Hosts -> Nat]
  /\ latest \in [Hosts -> Nat]
  /\ nextVersion \in Nat
  /\ superseded \subseteq Generations
  /\ editing \in Hosts \cup {NoHost}
  /\ source \in [Generations -> Nat]
  /\ base \in [Hosts -> Base]
  /\ exec \in [Hosts -> [Parts -> Nat]]
  /\ trees \subseteq Hosts
  /\ vpc \in [Generations -> VPC]
  /\ vhost \in [Generations -> Hosts \cup {NoHost}]
  /\ vtexts \in [Generations -> SUBSET Nat]
  /\ vsamples \in [Generations -> SUBSET Nat]
  /\ rpc \in [Requests -> RPC]
  /\ rhost \in [Requests -> Hosts \cup {NoHost}]
  /\ rversion \in [Requests -> Nat]
  /\ DOMAIN outPending \subseteq Hosts
  /\ outPending \in [DOMAIN outPending -> Publication]
  /\ order \in Seq(Hosts)
  /\ wake \in BOOLEAN /\ stopped \in BOOLEAN
  /\ sender \in SenderPC
  /\ sending \in Publication \cup {NoPublication}
  /\ shown \in [Hosts -> Publication]
  /\ lost \in [Hosts -> BOOLEAN]

----------------------------------------------------------------------------
\* h.mu is free between two critical sections.
Unlocked == editing = NoHost

Open(d) == text[d] # 0
OpenHosts == {d \in Hosts : Open(d)}

\* documentContexts[d] is the context of the latest generation.
\* Mutant: a context is canceled where there is none.
ContextOfAnybody(d) == {latest[d]}
ContextOf(d) == {latest[d]} \ {0}

\* Execution diagnostics of a region are stored, never published.
Shareable(d, e) == IF d \in Yaml THEN NoExec ELSE e

\* Parse: a closed parser has no trees.
Parsed(d) == IF stopped THEN trees ELSE trees \cup {d}

\* discardClosedDocumentTrees
\* Mutant: the trees of a document that was never opened again stay.
DiscardedNone(d) == trees
Discarded(d) == IF Open(d) THEN trees ELSE trees \ {d}

----------------------------------------------------------------------------
\* DidOpen, DidChange: the store takes the text, then the generation begins.

SetText(d) ==
  /\ Unlocked /\ ~stopped
  /\ nextVersion < MaxGeneration
  /\ text' = [text EXCEPT ![d] = nextVersion + 1]
  /\ editing' = d
  /\ UNCHANGED <<sample, latest, nextVersion, superseded, source, base, exec,
                 trees, validations, requests, outbox, stopped>>

DidOpen(d) == ~Open(d) /\ SetText(d)
DidChange(d) == Open(d) /\ SetText(d)

\* beginDocumentVersion, the sample, the caches and scheduleValidation, for
\* the hosts D.  f gives each its generation.  The contexts are canceled
\* before the samples change, so nobody who saw the one without the other can
\* publish, and one step stands for the rest of the critical section.
\* Mutant: execution diagnostics outlive the edit.
ClearedNone(D) == exec
ClearedExec(D) == [d \in Hosts |-> IF d \in D THEN NoExec ELSE exec[d]]

CanceledContexts(D) == superseded \cup UNION {ContextOf(d) : d \in D}

BeginVersions(D, f) ==
  LET New == {f[d] : d \in D}
      HostOf(g) == CHOOSE d \in D : f[d] = g
  IN  /\ nextVersion' = nextVersion + Cardinality(D)
      /\ latest' = [d \in Hosts |-> IF d \in D THEN f[d] ELSE latest[d]]
      /\ superseded' = CanceledContexts(D)
      /\ source' = [g \in Generations |->
                      IF g \in New THEN text[HostOf(g)] ELSE source[g]]
      /\ sample' = [d \in Hosts |-> IF d \in D THEN f[d] ELSE sample[d]]
      /\ exec' = ClearedExec(D)
      /\ trees' = trees \cup D
      /\ vpc' = [g \in Generations |->
                   IF g \in New THEN "debounce" ELSE vpc[g]]
      /\ vhost' = [g \in Generations |->
                     IF g \in New THEN HostOf(g) ELSE vhost[g]]

FinishEdit(d) ==
  /\ editing = d
  /\ editing' = NoHost
  /\ BeginVersions({d}, [e \in {d} |-> nextVersion + 1])
  /\ UNCHANGED <<text, base, vtexts, vsamples, requests, outbox, stopped>>

\* The open documents get their generations in the order of the store's map.
DidChangeWatchedFiles ==
  /\ Unlocked /\ ~stopped
  /\ OpenHosts # {}
  /\ nextVersion + Cardinality(OpenHosts) <= MaxGeneration
  /\ \E f \in [OpenHosts ->
                 (nextVersion + 1)..(nextVersion + Cardinality(OpenHosts))] :
       /\ IsInjective(f)
       /\ BeginVersions(OpenHosts, f)
  /\ UNCHANGED <<text, editing, base, vtexts, vsamples, requests, outbox,
                 stopped>>

\* DidClose does not look at h.stopped.
DidClose(d) ==
  /\ Unlocked /\ Open(d)
  /\ superseded' = superseded \cup ContextOf(d)
  /\ latest' = [latest EXCEPT ![d] = 0]
  /\ text' = [text EXCEPT ![d] = 0]
  /\ sample' = [sample EXCEPT ![d] = 0]
  /\ trees' = trees \ {d}
  /\ exec' = [exec EXCEPT ![d] = NoExec]
  /\ base' = [base EXCEPT ![d] = NoBase]
  /\ Enqueue(d, Clear(d))
  /\ UNCHANGED <<nextVersion, editing, source, validations, requests, sending,
                 client, stopped>>

Shutdown ==
  /\ Unlocked /\ ~stopped
  /\ superseded' = superseded \cup UNION {ContextOf(d) : d \in Hosts}
  /\ latest' = [d \in Hosts |-> 0]
  /\ trees' = {}
  /\ StopOutbox
  /\ UNCHANGED <<text, sample, nextVersion, editing, source, base, exec,
                 validations, requests, sending, client>>

----------------------------------------------------------------------------
\* The validation of generation g.

GotoV(g, label) == vpc' = [vpc EXCEPT ![g] = label]

\* scheduleValidation: the timer, or the context, whichever select takes; the
\* context is looked at again after the timer.
Debounce(g) ==
  /\ vpc[g] = "debounce"
  /\ GotoV(g, IF g \in superseded THEN "done" ELSE "capture")
  /\ UNCHANGED <<edits, base, exec, trees, vhost, vtexts, vsamples, requests,
                 outbox, stopped>>

\* validateDocument up to its first unlock
Capture(g) ==
  /\ vpc[g] = "capture"
  /\ Unlocked
  /\ IF Open(vhost[g]) /\ latest[vhost[g]] = g
     THEN /\ GotoV(g, "compute")
          /\ vtexts' = [vtexts EXCEPT ![g] = {text[vhost[g]]}]
     ELSE /\ GotoV(g, "discard")
          /\ UNCHANGED vtexts
  /\ UNCHANGED <<edits, base, exec, trees, vhost, vsamples, requests, outbox,
                 stopped>>

\* One of the unlocked reads: sampleDiagnosticsFor, getSample, and for YAML
\* regions(), which takes the text from the store again.
ReadAgain(d) == IF d \in Yaml /\ Open(d) THEN {text[d]} ELSE {}

Read(g) ==
  /\ vpc[g] = "compute"
  /\ vtexts' = [vtexts EXCEPT ![g] = @ \cup ReadAgain(vhost[g])]
  /\ vsamples' = [vsamples EXCEPT ![g] = @ \cup {sample[vhost[g]]}]
  /\ trees' = Parsed(vhost[g])
  /\ UNCHANGED <<edits, base, exec, vpc, vhost, requests, outbox, stopped>>

\* It stops early when it finds its context done.
Abandon(g) ==
  /\ vpc[g] = "compute"
  /\ g \in superseded
  /\ GotoV(g, "discard")
  /\ UNCHANGED <<edits, base, exec, trees, vhost, vtexts, vsamples, requests,
                 outbox, stopped>>

\* The second critical section, and publishDiagnostics.
\* Mutant: the result is published without looking at the version again.
StillCurrentUnchecked(g) == ~stopped
StillCurrent(g) ==
  latest[vhost[g]] = g /\ g \notin superseded /\ ~stopped

Publish(g) ==
  LET d == vhost[g]
      b == [of |-> g, texts |-> vtexts[g], samples |-> vsamples[g]]
  IN  /\ vpc[g] = "compute"
      /\ vsamples[g] # {}
      /\ Unlocked
      /\ GotoV(g, "discard")
      /\ IF StillCurrent(g)
         THEN /\ base' = [base EXCEPT ![d] = b]
              /\ Enqueue(d, [host |-> d, generation |-> g, base |-> b,
                             exec |-> Shareable(d, exec[d])])
         ELSE UNCHANGED <<base, queue, sender>>
      /\ UNCHANGED <<edits, exec, trees, vhost, vtexts, vsamples, requests,
                     sending, client, stopped>>

DiscardValidated(g) ==
  /\ vpc[g] = "discard"
  /\ Unlocked
  /\ trees' = Discarded(vhost[g])
  /\ GotoV(g, "done")
  /\ vtexts' = [vtexts EXCEPT ![g] = {}]
  /\ vsamples' = [vsamples EXCEPT ![g] = {}]
  /\ UNCHANGED <<edits, base, exec, vhost, requests, outbox, stopped>>

----------------------------------------------------------------------------
\* The requests: hover, completion, inlay hints, code lenses.

GotoR(r, label) == rpc' = [rpc EXCEPT ![r] = label]

\* revisionContext.Err
ContextDone(r) == rversion[r] \in superseded

\* requestDocument.  Without a document the handler returns at once, through
\* its deferred done().
Snapshot(r, d) ==
  /\ rpc[r] = "idle"
  /\ Unlocked
  /\ GotoR(r, IF Open(d) /\ ~stopped THEN "check" ELSE "discard")
  /\ rhost' = [rhost EXCEPT ![r] = d]
  /\ rversion' = [rversion EXCEPT ![r] = latest[d]]
  /\ UNCHANGED <<edits, base, exec, trees, validations, outbox, stopped>>

\* The handler looks at the context when it begins, and every evaluation of a
\* statement looks again (ExecuteThroughContext).  No lock is held from here to
\* the parse, so the document may be closed in between.
CheckContext(r) ==
  /\ rpc[r] \in {"check", "evaluate"}
  /\ GotoR(r, IF ContextDone(r) THEN "discard" ELSE "parse")
  /\ UNCHANGED <<edits, base, exec, trees, validations, rhost, rversion, outbox,
                 stopped>>

\* The text of the snapshot is parsed, whatever became of its document.  A
\* hover parses its expression too, without another look at the context.
ParseRequested(r) ==
  /\ rpc[r] \in {"parse", "evaluate"}
  /\ GotoR(r, "evaluate")
  /\ trees' = Parsed(rhost[r])
  /\ UNCHANGED <<edits, base, exec, validations, rhost, rversion, outbox,
                 stopped>>

\* Hover and completion publish nothing; without a sample nothing is parsed.
Answer(r) ==
  /\ rpc[r] \in {"parse", "evaluate"}
  /\ GotoR(r, "discard")
  /\ UNCHANGED <<edits, base, exec, trees, validations, rhost, rversion, outbox,
                 stopped>>

\* The client cancels: the request ends at its next look at the context, and
\* what it still does until then is a step it may have taken before.
CancelRequest(r) ==
  /\ rpc[r] \in {"check", "parse", "evaluate"}
  /\ GotoR(r, "discard")
  /\ UNCHANGED <<edits, base, exec, trees, validations, rhost, rversion, outbox,
                 stopped>>

\* publishExecDiagnosticsVersion.  A code lens evaluates every part, an inlay
\* request the parts of its range; the errors E it found replace what was
\* known of the range and leave the rest.
\* Mutant: the version is not compared.
PublishableUnchecked(r) == ~stopped /\ Open(rhost[r])
Publishable(r) ==
  /\ ~ContextDone(r) /\ ~stopped
  /\ latest[rhost[r]] = rversion[r]
  /\ Open(rhost[r])

PublishExec(r, scope, E) ==
  LET d == rhost[r]
      e == [x \in Parts |-> IF x \in E THEN rversion[r]
                            ELSE IF x \in scope THEN 0 ELSE exec[d][x]]
  IN  /\ rpc[r] = "evaluate"
      /\ Unlocked
      /\ GotoR(r, "discard")
      /\ IF Publishable(r)
         THEN /\ exec' = [exec EXCEPT ![d] = e]
              /\ IF d \in Yaml THEN UNCHANGED <<queue, sender>>
                 ELSE Enqueue(d, [host |-> d, generation |-> rversion[r],
                                  base |-> base[d], exec |-> e])
         ELSE UNCHANGED <<exec, queue, sender>>
      /\ UNCHANGED <<edits, base, trees, validations, rhost, rversion,
                     sending, client, stopped>>

\* done(), deferred by the handler before its first look at the context.
\* Mutant: a request that was superseded leaves without it.
ReleasedIfCurrent(r) ==
  IF ContextDone(r) THEN trees ELSE Discarded(rhost[r])
ReleasedBy(r) == Discarded(rhost[r])

DiscardRequested(r) ==
  /\ rpc[r] = "discard"
  /\ Unlocked
  /\ trees' = ReleasedBy(r)
  /\ GotoR(r, "idle")
  /\ rhost' = [rhost EXCEPT ![r] = NoHost]
  /\ rversion' = [rversion EXCEPT ![r] = 0]
  /\ UNCHANGED <<edits, base, exec, validations, outbox, stopped>>

----------------------------------------------------------------------------
\* The sender, with the handler's part of its check.

\* Mutant: a publication of generation 0 is never current, so nothing clears
\* a document that was closed.
WantedOpen(p) == latest[p.host] # 0 /\ latest[p.host] = p.generation
Wanted(p) == latest[p.host] = p.generation

CheckWanted == Unlocked /\ SenderCheck(Wanted(sending))

SenderStep ==
  /\ \/ SenderWake \/ SenderExit \/ SenderNext \/ CheckWanted
     \/ Deliver \/ FailToDeliver
  /\ UNCHANGED <<edits, base, exec, trees, validations, requests>>

----------------------------------------------------------------------------
Init ==
  /\ text = [d \in Hosts |-> 0] /\ sample = text /\ latest = text
  /\ nextVersion = 0
  /\ superseded = {}
  /\ editing = NoHost
  /\ source = [g \in Generations |-> 0]
  /\ base = [d \in Hosts |-> NoBase]
  /\ exec = [d \in Hosts |-> NoExec]
  /\ trees = {}
  /\ vpc = [g \in Generations |-> "none"]
  /\ vhost = [g \in Generations |-> NoHost]
  /\ vtexts = [g \in Generations |-> {}] /\ vsamples = vtexts
  /\ rpc = [r \in Requests |-> "idle"]
  /\ rhost = [r \in Requests |-> NoHost]
  /\ rversion = [r \in Requests |-> 0]
  /\ outPending = [d \in {} |-> 0]
  /\ order = <<>>
  /\ wake = FALSE /\ stopped = FALSE
  /\ sender = "none"
  /\ sending = NoPublication
  /\ shown = [d \in Hosts |-> Clear(d)]
  /\ lost = [d \in Hosts |-> FALSE]

Edit(d) == DidOpen(d) \/ DidChange(d) \/ FinishEdit(d) \/ DidClose(d)

Validate(g) ==
  \/ Debounce(g) \/ Capture(g) \/ Read(g) \/ Abandon(g) \/ Publish(g)
  \/ DiscardValidated(g)

Serve(r) ==
  \/ \E d \in Hosts : Snapshot(r, d)
  \/ CancelRequest(r) \/ CheckContext(r) \/ ParseRequested(r) \/ Answer(r)
  \/ \E scope \in SUBSET Parts : \E E \in SUBSET scope : PublishExec(r, scope, E)
  \/ DiscardRequested(r)

Next ==
  \/ \E d \in Hosts : Edit(d)
  \/ DidChangeWatchedFiles
  \/ Shutdown
  \/ \E g \in Generations : Validate(g)
  \/ \E r \in Requests : Serve(r)
  \/ SenderStep

SafeSpec == Init /\ [][Next]_vars

----------------------------------------------------------------------------
\* Publications that are pending, being written, or shown by the client.
Publications ==
  {outPending[d] : d \in DOMAIN outPending} \cup ({sending} \ {NoPublication})
    \cup {shown[d] : d \in Hosts}

\* A validation reads the text under h.mu, and the sample, and for YAML the
\* text once more, without it.  What it publishes was nevertheless read from
\* one revision: the text and the sample of its own generation.
Coherent ==
  \A b \in {p.base : p \in Publications} \cup {base[d] : d \in Hosts} :
    b.of # 0 => b.texts = {source[b.of]} /\ b.samples = {b.of}

\* A superseded request never restores execution diagnostics: those that are
\* kept stem from the current generation, those that are published from the
\* generation of their publication.
FreshExec ==
  /\ \A d \in Hosts, x \in Parts : exec[d][x] \in {0, latest[d]} \/ stopped
  /\ \A p \in Publications, x \in Parts : p.exec[x] \in {0, p.generation}

\* When nothing of a document is pending or being written and no write failed,
\* the client shows what the server has: nothing for a closed document, and
\* for an open one the current diagnostics once they have been computed.
AtRest(d) ==
  /\ ~stopped /\ ~lost[d] /\ editing # d
  /\ d \notin DOMAIN outPending
  /\ sending = NoPublication \/ sending.host # d
Settles ==
  \A d \in Hosts : AtRest(d) =>
    /\ ~Open(d) => shown[d].base = NoBase /\ shown[d].exec = NoExec
    /\ Open(d) /\ vpc[latest[d]] \in {"discard", "done"} =>
         /\ base[d].of = latest[d]
         /\ shown[d].base = base[d]
         /\ shown[d].exec = Shareable(d, exec[d])

\* A syntax tree of a document that is closed has somebody who will release
\* it: a validation or a request that looked at its context before the close
\* and parsed after it.  A closed parser has none.
TreesOwned ==
  /\ \A d \in trees :
       \/ Open(d)
       \/ \E g \in Generations : vhost[g] = d /\ vpc[g] \in {"compute", "discard"}
       \/ \E r \in Requests : rhost[r] = d /\ rpc[r] \in {"parse", "evaluate", "discard"}
  /\ stopped => trees = {}

\* Fairness: a goroutine that can run does, the debounce timer fires, and a
\* write to the client returns.  Nobody has to edit, ask or shut down.
Spec ==
  /\ SafeSpec
  /\ \A d \in Hosts : WF_vars(FinishEdit(d))
  /\ \A g \in Generations :
       /\ WF_vars(Debounce(g)) /\ WF_vars(Capture(g)) /\ WF_vars(Read(g))
       /\ WF_vars(Abandon(g) \/ Publish(g)) /\ WF_vars(DiscardValidated(g))
  /\ \A r \in Requests :
       /\ WF_vars(CheckContext(r)) /\ WF_vars(ParseRequested(r))
       /\ WF_vars(Answer(r)) /\ WF_vars(DiscardRequested(r))
  /\ WF_vars(SenderStep)

\* Each generation's own diagnostics reach the client, unless an edit, the
\* close or the shutdown supersedes them or the transport fails.
Shown ==
  \A d \in Hosts, g \in Generations :
    latest[d] = g ~> latest[d] # g \/ lost[d] \/ shown[d].base.of = g

\* The syntax trees of a closed document are released.
TreesReleased ==
  \A d \in Hosts : ~Open(d) ~> Open(d) \/ d \notin trees

\* After the shutdown every validation ends, and so does the sender.
ShutdownEnds ==
  stopped ~> /\ sender \in {"none", "exited"}
             /\ \A g \in Generations : vpc[g] \in {"none", "done"}
=============================================================================
