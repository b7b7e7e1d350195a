# RouteDoc in TLA+

A verification development kept beside RouteDoc. RouteDoc is a command-line
program that probes one HTTP(S) target from the machine it runs on (and can look
at the machine's own listening sockets), turns what it saw into evidence with
explicit provenance, applies a few diagnostic rules, and prints one validated
report. The modules here are translated from the Go source; `PROJECT.json` maps
each definition to the lines it stands for.

    tlc -workers 2 -config ProbeThree.cfg ClientProbe     # one run
    tlapm SelectionProofs.tla                             # one proof module
    tlapm ReportProofs.tla                                # the largest one: some minutes

## 1. The system

| Component | State it keeps | Operations | Talks to |
|---|---|---|---|
| Client probe run (`internal/clientprobe`: `diagnose.go`, `probe.go`, `transport.go`) | resolution facts, one TCP/TLS/HTTP fact per strategy, the open connections, the contexts | resolve; dial in up to three goroutines; collect and sort; TLS handshake beside a watcher goroutine; certificate verification; one HTTP exchange over the same connection | hands its facts to assembly |
| Evidence assembly and status (`assemble.go`, `status.go`, `probe.go`) | none: a function of the facts | entities, observations, edges, branches, check executions; report status | canonicalizer, evaluator, command line |
| Rules and evaluator (`internal/rules/...`) | the registry of rules; the derived half of a run | TCP refusal, certificate host-name mismatch, missing listener; candidate to claim; `Evaluate`, `Reevaluate` | selection, validators |
| Blocker selection (`internal/selection`) | the `Selection` field of every finding | `Apply`: leaf loop, global pass | `GlobalPrimaryProof` |
| Evidence validation (`internal/model/validate_*.go`) | none | references, lifecycle/verdict pairs, check graph, branch forest, paths, visibility, limitations | assembly, evaluator, schema |
| Evaluated-run validation (`validate_evaluated.go`) | none | claims, justification graph, findings, selection, generated IDs | evaluator, schema |
| Canonicalization (`canonicalize.go`) | none | canonical orders of an evidence run and an evaluated run | both validators |
| Local diagnosis (`internal/localdiagnosis`) | one inventory of sockets and processes | scan procfs, attach processes to sockets, run the client probe, assemble local evidence | listener rule, command line |
| Listener absence (`internal/model/listener_absence.go`) | none | is an absence of a matching listener proven by the inventory? | listener rule, both validators |
| Command line (`cmd/routedoc`) | none | probe, local, validate, render, explain; exit codes | everything |
| Report schema v1 (`internal/schema/v1`) | none | JSON in and out, closed schema, version gate | model |
| Rendering (`internal/render`) | none | text and JSON output, explanations of a finding | model |
| Model data types (`internal/model`) | none | enumerations, records, IDs | everything |

### Where it is hard

- **Client probe run.** Three dialling goroutines finish in any order. A watcher
  goroutine waits for either the end of the handshake or the end of its context,
  and both may be ready. Five nested deadlines share one total budget. A
  connection changes owner twice (loop, transport, pool) and must be closed by
  exactly one of them. It is correct when no HTTP is spoken over an unverified
  https connection, no fact is lost or invented by an order of events, no
  deadline is overrun, every goroutine ends, and every connection is closed.
- **Assembly and status.** Attempts can end differently at one endpoint, retained
  addresses may have no attempt, a normal dial may reach an address nobody
  planned, and TLS failures may come with or without peer certificates. It is
  correct when no check disappears, every reference leads to an observation, and
  SATISFIED and BLOCKED mean what they say.
- **Selection.** A field is overwritten leaf by leaf, then by a global pass, and
  the result is judged by a validator that knows nothing of how it was made. It
  is correct when a primary is earned on some leaf, the global primary blocks
  every leaf, and the order of visits does not show.
- **Local diagnosis.** Two tables, the process list, every descriptor list, every
  link and every name are separate reads of a host that does not stand still: a
  socket is bound or closed while its table is read, a process exits, another
  takes its PID, a descriptor is reused. A listener that serves both families shows
  in one table only, and the target need not be served from this host at all. It is
  correct when an absence is only reported for a table that was read
  whole and was true while it was read, an owner is a process that held the
  socket, and the client's verdict is what it would be without the inventory.
- **Evaluator.** Rules answer in any order with keys of their own; claims and
  findings are renumbered. It is correct when the order does not show, no finding
  is given another candidate's claims, and a re-evaluation leaves nothing of the
  old derived half.
- **Validation, canonicalization, schema, commands.** A report is read back from
  a file anybody may have edited. It is correct when what is accepted has one
  form, has acyclic graphs, rests on evidence, and is accepted by all commands
  alike.

`PROJECT.json` lists the hazards at their lines, with the properties that watch
them; four have none, for the reasons given there.

## 2. Modules

    ProbeFacts  <---- ClientProbe ---- refines ---> ProbeContract
        ^                 ^
        |                 +-- ClientProbeProofs
        |  (FactsAsPromised: what ClientProbe ends with
        |   is what Diagnosis starts from)
        +------------ Diagnosis <--- DiagnosisProofs
                          |
                          | INSTANCE
                          v
    Selection --------> Blockers <------------------------+
        ^    INSTANCE     ^                               | INSTANCE
        |                 | INSTANCE                      |
        +-- MCSelection   |                LocalDiagnosis <--- LocalDiagnosisProofs
        +-- SelectionProofs                   |       |
                      ReportRules             |       v
                       ^   ^  |               |   ProcScan
           MCReport -> Report +-> ListenerEvidence
                       ^   ^
                       |   +-- OrderProofs <- ReportRulesProofs <- EvaluatorProofs
                       |                                                 ^
                       +------------------------ ReportProofs -----------+

- **ProbeFacts** - the facts themselves: `retainAddresses`, `planEndpoints`, the
  choice of strategies, and `AttemptFacts`, the set of facts one attempt can leave
  behind.
- **ClientProbe** - the run. `pc` is where the `diagnose` goroutine is, `dial` and
  `tcp` the dialling goroutines and their results (`dial[s] = "sent"` is a result
  lying in the buffered channel), `pending` and `cur` the sorted sequential loop,
  `tlsCtx`, `hsDone`, `watcher` the handshake's context, channel and watcher
  goroutine, `sock` the owner of each connection, `dials` the one-use dial closure,
  `now`, `due`, `began` the clock and the deadline of the blocked call. Actions
  follow the code: `ParseTarget`, `ResolveCompleted`, `DialAccepted`, `Receive`,
  `VisitTLS`, `HandshakeCompleted`, `CloseHandshakeDone`, `CancelTLS`, the
  watcher's own steps, the steps of the HTTP transport, `LoopDone`, and the
  deadline of each blocking call. `Tick` advances time and cannot pass the
  deadline of a blocked call.
- **ProbeContract** - the abstract specification: attempts start together, are
  settled once, are not taken further until all have connected or failed, are asked
  for HTTP only over a connection the scheme allows, and the run ends when all are
  settled. No clocks, goroutines or sockets.
- **Blockers** - selection and `GlobalPrimaryProof` as pure operators on one set of
  branches and findings. **Selection** - the loop of `Apply` that overwrites as it
  goes, one action per leaf, the global pass, and the validator's verdict.
- **Diagnosis** - the pipeline after the facts: `Assemble`, `Validate`,
  `EvaluateRules`, `SelectPrimaries`, `Accept`, `Report`, with the branches, their
  ordered edges, every check execution with the observations it cites, the two
  client-side rules and the status. It uses `Blockers!Selected` in place of the
  loop; `LoopIsSelected` proves that the loop computes exactly that.

- **ProcScan** - `collectWithProcFS`: `pc` is the next read, `rows` and `tableOK`
  the two tables, `queue`, `proc`, `slots`, `found` where `attributeWithProcFS`
  is, `owners` and `complete` its answer. Host actions (`Bind`, `Share`, `Close`,
  `Exit`, `Start`) come between any two reads; `BeginTable`, `EndTable`,
  `StatNamespace`, `ListProcesses`, `ListDescriptors`, `ReadLink` and `ReadName` are
  the reads, each of which may fail, be cut short or meet damage. Three history
  variables say what was true: `span` (the sockets open throughout a table's read,
  and those open at some time in it), `held` (who ever held which socket) and
  `steady` (the descriptors that kept one socket all along).
- **ListenerEvidence** - `listener_absence.go` and `validateVisibility`: when a
  visibility assessment is complete for its scope, when that proves an absence,
  and which issue is reported otherwise. Used by the rule and by the validators,
  as in the code.
- **LocalDiagnosis** - `routedoc local`: the scan, then the client probe, then the
  local evidence, its validation, the listener absence rule beside the TCP rule,
  the selection, the exit code and the sentence of the text report about listeners. The
  history variable `server` says which socket of the namespace answered a destination,
  if one did.
- **ReportRules** - the evaluator, `canonicalize.go` and the validators as operators
  on one run: the canonical order of every collection, `EvidenceAccepted`,
  `ClaimsAccepted`, `FindingsAccepted`, `Accepted`, and `Evaluate`. The walks of
  the code (three-colour search for cycles, the stack of `claimPathReachesBase`, the
  rounds of `canonicalBranches`, the queue of `BuildExplanation`) are kept as walks, so
  that the properties can compare them with definitions that do not walk. A walk is a
  function from a state to the next (`Visit`, `Justify`, `Round`, `Lineage`, `Walk`) and
  `After` takes as many of its turns as the loop of the code can need; where the code
  leaves early, the remaining turns change nothing. Sorting is by position: `Ordered`
  lists positions by their keys, equal keys in the order they had, `SortBy` the elements.
- **Report** - the life of a report: `EvaluateRules`, `Write`, edits of the file
  (`SetField`, `Drop`, `Swap`, `SetVersion`, `SetShape`), `Read`, and the commands
  `Validate`, `Render`, `RenderJSON`, `Explain`, and `Reevaluate`. **MCReport** gives
  it one evidence run, the answers of three rules and the values of the edits.

### Abstractions

- Addresses are numbers in the order of `netip.Addr`; the port is the target's in
  every fact and is left out; IPv6 zones are not modelled (one hazard says so).
- The run's context is `context.Background()` in the code (`diagnose.go`), so no
  cancellation from outside is modelled; deadlines are.
- URL parsing, X.509 verification and the bytes of HTTP are nondeterministic
  outcomes: the set of results the code distinguishes.
- All mismatched peers are one peer in a finding's statement. Two mismatch findings
  never stand at the same place of a path, so sameness is never asked of them.
- In `Selection` a finding that is no blocker and a suspected one are one level: the
  code treats them alike.
- In `ProcScan` an address is 0.0.0.0, 127.0.0.1 or another IPv4 address, `::`, `::1`
  or another IPv6 address, or the IPv4-mapped form of one of the first three, which
  `/proc/net/tcp6` lists and the code keeps as it is; only rows on the target's port
  are there. Rows, processes
  and descriptors beyond the code's limits are a fault, as is a line that does not
  parse: what counts is that something is missing and that the code knows.
- The client probe is one step of `LocalDiagnosis`. Any destination may answer, refuse
  or fail, whatever the inventory holds, since the target is any URL: a remote host,
  another namespace or a forwarded port may be what answers. If a socket of the
  namespace answers, it is one that is open and whose address reaches the destination:
  an IPv6 wildcard may take IPv4 too, an IPv4-mapped bind takes IPv4 only. A target
  whose host is written as an IPv4-mapped literal is left out.
- A report file is the run it holds and a shape: exactly the members of schema
  1.0.0, an unknown member too, or something missing, doubled or unknown. That
  encoding and decoding a member are inverse to each other is taken for granted.
- Where the code picks the next node of a walk by its place in a list or on a stack,
  `Visit` and `Justify` take any one; the verdict does not depend on it.
- IDs in `ReportRules` are numbers in the order of the ID strings; an entry of
  `missing_evidence` is a number; every observation has a vantage; labels,
  timestamps, limitations, coverage and the parameters of claims are left out.
- Observation, entity and claim IDs in `Diagnosis` are names of what they stand for; spelling of
  IDs, labels, entity tables, coverage and the resolution's own check are left out
  of that module.

## 3. Runs

| Run | What it asks | Bounds |
|---|---|---|
| `ProbeBudget` | unverified HTTP, overrun deadlines, facts as promised, starvation of the first connection, and which connection may stay open; refinement of `ProbeContract`; the run and all its goroutines end | one address, normal + pinned dial, both schemes, deadlines in the proportions of the code |
| `ProbeThree` | completeness of the facts, and when a watcher closes its connection, for every order of events | one address of each family, all three strategies at once, every timeout one unit |
| `ProbeLeak` (violation) | "the one-use connection is always closed" | as `ProbeBudget` |
| `SelectForest` | the whole of `Apply` | every forest of three branches, two findings at every level, statement and set of positions, a position outside a branch included |
| `SelectLeaves` (violation) | "selects confirmed blockers independently by branch" | same |
| `SelectCoPrimary` (violation) | "preserves co-primary non-equivalent blockers" | same |
| `DiagnoseRun` | what is lost, what SATISFIED and BLOCKED mean, primaries, no check disappears | every answer over three IPv4 addresses and one IPv6 address, two retained per family, every combination of attempt facts |
| `DiagnoseSkip` (violation) | "a failed prerequisite causes dependent checks to be explicitly skipped" | same, one more certificate result |
| `DiagnoseLost` (violation) | "no live network failure escapes as an internal error" | same |
| `LocalRun` | is an absence ever untrue of its table; are owners holders; what costs the report | two sockets, two processes of one descriptor, 127.0.0.1 and `::`, targets with none and one destination, two changes of the host or bad reads at any two moments |
| `LocalProbe` | what the probe's answers contradict, does the verdict stay the client's, is the text right | two sockets, one process, binds of every kind (0.0.0.0, 127.0.0.1, `::`, IPv4-mapped, another IPv6 address), targets with none, one and two destinations answered from this namespace, from elsewhere or not at all, one change or bad read |
| `ReportRun` | does any order show; do findings keep their claims; what is accepted after edits; do the commands agree; does re-evaluation restore | two branches, three checks, four observations, three rules of at most two candidates, two edits of any kind |

Why the bounds are enough. Three strategies are the code's maximum
(`maxConcurrentStrategies`), so `ProbeThree` has every goroutine there can be; a
watcher exists per accepted https connection, so up to three live at once. In
`ProbeBudget` the proportions of the timeouts are the code's (5:5:5:10:30; the
first connection's stages fit into the total, those of the second do not), which is what makes both
"first never starved" and "a later one starved" happen. One address is enough for
two connections there; in `ProbeThree` the normal dial may settle on either of two.
That an address may lie beyond the retention bound is met in `DiagnoseRun`, and the
theorems about the probe hold for any set of addresses and any bound. Three branches give every
shape in which a finding sits above, at, or beside a split and a nearer attachment
hides a farther one; two findings are what one comparison of the loop needs. In
`DiagnoseRun` three addresses of a family exceed the retention bound of two, so an
address can be truncated, retained without an attempt, pinned, or reached by the
normal dial only; two certificate results suffice because any other one is a
failed check that no rule reports.
The real retention bound is larger; nothing compares it with another number.
In `LocalRun` two upsets are what each hazard takes: a fork that shares a socket
and an exit, an exit and a reuse of the PID, a bind between the tables and a torn
table. Two sockets are needed for a process to be labelled by one and own the
other; 127.0.0.1 and `::` are two bindings of different tables, each with a bucket of
its own. `LocalProbe` gives up the second process and the second upset for the
binds: both kinds that answer across the families are there (`::` and a mapped
address), a wildcard and an exact bind that do not, and destinations that are
loopback and not. `ContradictionIsCrossFamily` and the last sentence of
`TextAndFindings` speak of a host that stands still, so a bad read is the only upset
they need. In `ReportRun` two edits are what it takes to empty a
claim's support and let another claim lean on it, or to close a cycle of two; the
values of the edits include every reference that breaks a rule of the validators,
and a rule answers each thing the evaluator must refuse.

### Fairness

Only `ProbeBudget` assumes any, for `AllGoroutinesExit`. Weak fairness is put on what the Go runtime and the
standard library promise: a runnable goroutine runs, a timer whose time has come
fires, time passes, and a call that takes a context or a connection with a
deadline returns after that deadline. Nothing is assumed of the network: a peer
need never accept, answer or close. So `AllGoroutinesExit` rests on the code's
deadlines alone.

### What the violated runs show

1. **A connection can be left open** (`ProbeLeak`). `diagnose` leaves closing a
   verified TLS connection to the HTTP transport. When the total budget is spent
   as the exchange starts, the request ends before the transport dials, and nobody
   closes it. `LeakOnlyWhenBudgetSpent` shows that this is the only such case.
2. **A leaf can lose its primary** (`SelectLeaves`). With a finding on two leaves
   and an equivalent, earlier-sorted one on the later leaf only, the later leaf
   makes the first finding ADDITIONAL and the earlier leaf has no primary left.
   It takes a finding on two leaves. Those of the client probe stand on one flat
   branch each, so two that say the same either share their only branch or, as one
   bad certificate at two endpoints does, contest no common leaf; `FindingsMeet`
   proves it, and with it the hypothesis of `LeafOrderInvisible` for that evidence.
3. **A co-primary finding can lose its place** (`SelectCoPrimary`). Two findings
   that say different things at one place before the split are both primaries of
   every leaf. The global pass has two candidates, makes the first by level, rule and
   ID the global primary and the other ADDITIONAL. The text promotes "a single"
   global finding only and preserves co-primaries.
4. **A failed exchange over plain http ends as an internal error** (`DiagnoseLost`):
   its execution cites an observation that only completed exchanges have.
   `OnlyPlainFailureIsLost` shows that these runs, and no others, are lost.
5. **Dependent checks are not always skipped** (`DiagnoseSkip`): after a handshake
   that failed with the peer's certificate known, peer and certificate checks run.

### Disagreements seen without a run of their own

These are recorded here because each is a matter of one line of code and one
line of text rather than of an interleaving.

- A PID that is reused between the reading of a link and of `comm` gives the socket
  a name of a later process (`procfs.go`); `OwnersAreHolders` says exactly that much.
- A process name that `safeProcessLabel` lets pass and `validateDisplayLabel` does not
  makes the whole local report an internal error; `LostOnlyToLabels` shows that nothing
  else in procfs does.
- A dual-stack `::` listener, or one bound to an IPv4-mapped address, answers IPv4
  connections and yet an IPv4 absence is inferred in the same report: the rule asks the
  IPv4 table only. `ContradictionIsCrossFamily` shows that on a host which stands
  still no other socket of the namespace answers beside an absence of the family it
  is reached over. An answer from outside the namespace (a remote target, say) may
  stand beside any absence; the rule speaks of this namespace only.
- A watcher that reaches its select only after `close(handshakeDone)` and `cancel()`
  finds both cases ready, may take `ctx.Done` and closes a connection that was verified
  and is lent to the HTTP exchange by then (`transport.go:159-169`). The run reports it
  as an exchange that failed, hence a working target as one that is not.
  `WatcherClosesOnDeadlineOrLate` names this as the one exception to "a watcher closes
  only at the deadline".
- The text "no listener-absence conclusion is drawn" can stand beside absence
  findings, exactly if one of the two tables was complete (`TextAndFindings`).
- A claim with no supporting evidence is accepted when read from a file
  (`AcceptedIsGrounded` has it as its exception), though docs/architecture.md:239-242
  wants every claim to have a path to base evidence.
- Positions of one finding that name a branch twice are accepted in any order
  (docs/architecture.md:836 has one position per branch): the reason why
  `OneCanonicalForm` speaks of reports with one.
- A selected finding may rest on a suspected claim through another claim: only the
  claims it cites itself are looked at (docs/architecture.md:1001).
- The listener rule looks for visibility references on the edges of a path, where
  the validator refuses them: its findings are attached to no branch.
- A result that contradicts an absence is looked for among results about exactly the
  port, not among those whose port range contains it.
- `explain --json` does not ask for the exact schema version, `render --json` does.

## 4. Proofs

Every theorem holds for all values of the constants that the named assumptions
allow: `AddressAssumption` and `ValueAssumption` (any finite sets of addresses of the
two families, in the order of `netip.Addr`, any retention bound and concurrency),
`TimeoutAssumption` (any positive timeouts), `SelectionAssumption` (any finite forest
and number of findings), `ScanAssumption` (any finite sets of sockets, processes and
descriptors and any number of upsets), `TargetAssumption` (any targets over
127.0.0.1, `::1` and another address of each family, whether of this host or not) and `ReportAssumption` (any accepted evidence, any finite
set of rules with any answers of the Go types, any values for an edit to write, any
number of edits). One theorem, `FirstIsUnstarved`, has a hypothesis of its own.

**ClientProbeProofs.** `TypeCorrect` is the base.

- `HTTPIsVerified` follows from `Ladder`, which ties the program counter, the facts
  still pending, the connection being worked on and the facts of every strategy
  together. `VerifiedHTTP` alone is not inductive: a step of the transport only sees
  that a connection was handed to it, not why. `FactsAreComplete` needs nothing more.
- `BudgetIsKept` rests on `DeadlinesKept`: the deadline of the blocked call is the
  smaller of its own timeout and the total, and time never passes it.
- `FirstIsUnstarved` rests on `FirstBudget`, which says how much of the total may
  have been spent at each stage as long as no connection has been worked on. It
  assumes that the timeouts of resolution, dial, handshake and exchange add up to no
  more than the total one; policy.go has 5 + 5 + 5 + 10 s and 30 s. The
  theorem thus says which relation between these constants a change must keep.
- `OnlyTheStarvedLeak` rests on `SocketsKept`: only the exchange lends a connection
  out; until the transport has dialled no time has passed since the exchange began;
  and what the loop has left open is a verified connection whose exchange began on
  a spent budget. `WatchersWait` rests on `SignalledFirst`: when the context is
  cancelled, `handshakeDone` is already closed and no watcher is parked, so the
  cancellation is met only by a watcher that has not reached its select yet.
- `FactsAreAsPromised` rests on `AttemptsInOrder` as well, which says what each
  dialling goroutine can have sent.
- `ProbeRefinesContract` maps every action to a step of the contract or a stutter.

**SelectionProofs.** `SelectionTyped`, `SelectionNeverRefused`,
`GlobalReachesEveryLeaf`, `PrimariesAreEarned`, `SelectedAreConfirmed` and
`LeafOrderDoesNotShow` follow from invariants about the leaves still to be
visited: what a finding's field says is what the last visited leaf it contests
says. The hypothesis of `LeafOrderDoesNotShow` is about findings that contest a common
leaf; `FindingsMeet` (DiagnosisProofs) discharges it for the client probe.
`LoopIsSelected` (invariant `LoopInv`, lemma `LastLeafDecides`) shows that the
overwriting loop computes the loop-free `Selected`, which is what lets `Diagnosis`
and `LocalDiagnosis` use that operator.

**DiagnosisProofs.** The pipeline is deterministic once the facts are given, so its
inductive invariant, `DiagnosisInv`, says what each variable holds at each phase, and
the work lies in lemmas about the operators that make it:

- `FactsHaveShape` turns `AttemptFacts` into what an attempt knows of its endpoint,
  its handshake and its exchange; everything else starts from there.
- The path of a branch holds an observation exactly if an attempt at that endpoint
  made it (`PathHolds`), so every reported one has a place on its path
  (`FindingStands`), and the findings' numbers differ (`NumbersDiffer`). From both,
  `Placed`: a finding stands on one branch, at a place no other finding of that
  branch has. Then the selection has a closed form, and `OnePrimary` and `FindingsMeet` follow.
- `RefusedWhenLost` compares the state and the citations of every execution with what
  the validators ask and with the observations made: `LostToPlainFailure`. `SatisfactionEarned` and
  `BlockedSoundly` read the status back through the executions to the facts
  (`SatisfiedWhenReached`, `CoveredIsBlocked`); `ChecksAccountedFor` counts the executions.

**LocalDiagnosisProofs.** The host may change between any two reads, so each claim
of the scan needs its own strengthening.

- `OwnersHeld` (`OwnerInv`): whoever holds a socket now is in the history, and the
  socket whose owner is being named was held by that PID.
- `HoldersFound` (`CompleteInv`): processes are visited in ascending order, and a
  descriptor that kept a listed socket all along is accounted for, still to be
  visited, or the scan knows that it may have missed something.
- `AbsenceIsTrue` and `OnlyTheOtherTableContradicts` (`LocalInv`): a table marked
  complete holds every socket that was open throughout its read, and on a host that
  stands still those are all there are. `Answered` adds that a socket which answered is
  open and reaches what it answered; nothing is assumed of the other answers.
- `LostToLabels`, `TextAgrees`, `VerdictIsTheClients` and `LocalTyped` follow from
  `ReportMade`, the closed form of findings and selection of a report.
- `AbsenceIssueAgrees` is about the code's two formulations of the absence
  condition: the rule's predicate and the validators' issue code agree on every run
  and assessment.

**OrderProofs, ReportRulesProofs, EvaluatorProofs.** What the operators of `ReportRules`
compute, for all their arguments.

- `AfterInvariant`: what every turn of a loop keeps, the loop keeps. An invariant is a
  set of states, so that no induction theorem with an operator parameter is needed: the
  least turn that leaves the set is the counterexample. The same argument about the
  least position carries the rest.
- `OrderedLists`, `SortByFacts`: a sort lists every position once, in the order of the
  keys. `SortBySame`: sequences with the same elements, each as often, are sorted alike
  if the keys tell the elements apart. `FlattenPositions`: where an element of a part
  stands in the flattened sequence.
- `NoCycleFound`: a finite graph in which the visits find no cycle is well-founded. The
  invariant of the visits is that every done node leads to done nodes only and every
  non-empty set of done nodes has one that leads out of it; finding all nodes done then
  gives the claim. `CanonicalBranchesPlaced` and `CanonicalBranchesSame`: the rounds
  put parents first, and give one order for every order of their input.
- `CanonicalRun`, `InOrderFacts`: what `Canonical` answers is a run with the same rows in
  order, list by list; an accepted run has that order.
- `EvaluateRun`: what `Evaluate` answers is a run the validators accept. `EvaluateSame`:
  it sees evidence and answers but not their order; more than `OrderInvisible` says,
  which only looks at the opposite order.
- `AnswersPlaced`, `ClaimsKept`, `GivenCounted`: a one-to-one correspondence between
  answered candidates and compiled ones, what each finding of the report cites, and how
  many there are.

**ReportProofs.** The inductive invariant is `Inv` (`Invariance`). It says of each phase
where its values come from: the report is what `Evaluate` answers for this evidence and
these answers and the codec accepts it; what a command has read is the run of the file
and `Accepted`; a report derived anew is `Reevaluated` of an accepted file; an exit code
matches what was read. `TypeOK` is part of it and not inductive without it: that a report
is a run is a fact about `Evaluate`. TLC agrees with `Inv` on the instance of `ReportRun`
(one edit), where an evaluation per state makes it too slow to be a run of its own. Each
property then follows from `Inv` and a theorem about accepted runs:

- `AcceptedIsAlwaysAcyclic`: `NoCycleFound` for the checks, the rounds of the forest for
  the branches, and for the claims the rule that a reference leads to an earlier claim.
- `AcceptedIsAlwaysGrounded`: the claims `claimPathReachesBase` meets stay in every set
  closed under support, hence in the ancestry of the claim (`BaseIsReached`).
- `AbsenceIsAlwaysProved`: `AbsenceHolds` follows the issue code of
  `validateListenerAbsenceClaim` from the claim to its assessment and its basis.
- `CommandsAlwaysAgree`: the queue of `BuildExplanation` holds claims of the run only,
  and whatever evidence it collects is looked up in it (`ExplanationHolds`).
- `CanonicalFormIsOne`: two accepted runs of one content are equal (`OneForm`). Each
  collection is in order, its bag fixes its elements, and the inner lists by the bags in
  them. The hypothesis about positions is needed: two positions on one branch have equal
  keys, so a stable sort keeps them in either order.
- `OrderStaysInvisible` and `ReevaluationAlwaysRestores` are `EvaluateSame` for reversed
  evidence and for the evidence of a report, which is in canonical form already.
- `FindingsAlwaysKeepTheirClaims`: through `AnswersPlaced` each given finding is one of a
  compiled candidate, and `ClaimsKept` says what it cites.

Only model-checked:

- `AllGoroutinesExit`: liveness under fairness needs ENABLED, which the prover does
  not reason about. Every invariant and refinement of the passing runs is a theorem;
- that the violated properties are violated: a counterexample is a behaviour of TLC's.

What the theorems about reports do not say: that the validators accept enough. That
every acyclic graph passes `NoCycle`, or every well-formed report `Accepted`, is shown by
`ReportRun` only so far as its reports are accepted.

## 5. Not modelled, and what could follow

Left out, because they hold no state and take no decision that a property here
tells apart:

- the member-by-member JSON mapping of the schema (`union_decode.go`,
  `union_encode.go`, `wire_shape.go`), the layout of the text output, the writers' errors;
- reading the report file (its errors, the refusal of `-`),
  argument parsing, the version command;
- the checks of single values in the validators: timestamps and their order, scalar
  ranges, the union member a tag calls for, labels, limitations, coverage, claim parameters;
- in local evidence, the syntax of a procfs row, UIDs, capabilities, and the entity
  and label tables;
- what the Go libraries do: URL parsing, X.509, HTTP.

Four hazards have no property. IPv6 zones and the expected conditions of check
definitions would be needed for two of them. The other two are that the tables are
dated with the end of the run and taken as of one moment: `AbsenceWasTrue` says what
is true at the time of each table's own read, which is all the code makes sure of.

Worth adding: zones in `ProbeFacts`, with the endpoints a pinned attempt may then
settle on; the limitations of a run and which of them `BLOCKED` must mention; the
converse of `NoCycleFound` and of `BaseIsReached`, so that the walks of the validators
are proved to decide what they stand for.
