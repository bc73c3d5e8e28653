# ApiVoy in TLA+

ApiVoy is an API workbench. Its user interface (React, in a browser or in a
desktop shell) edits, sends and keeps requests, designs interfaces and shares
workspaces. A Rust engine runs the requests over many protocols and streams
events; a local agent serves the engine to the web interface over HTTP and keeps
a SQLite store with large bodies in files; a gateway runs scheduled jobs on the
same engine; a Java server keeps the workspaces of a team. This directory models
the parts where handlers, tasks, failures and restarts meet, checks them with
TLC on small instances and proves the most important invariants with TLAPS for
all instances.

Paths below are relative to `src/`. `PROJECT.json` maps every definition to the
lines it models, lists the runs, a mutant for each property, the hazards and the
theorems.

## 1. Inventory

| part | state | operations | interacts with |
|---|---|---|---|
| execution engine `crates/execution-engine/src/engine.rs` | registry of cancellation tokens; per execution: a task, a tee channel, a forward task | `start_with`, `cancel`, `execute_collect` | drivers (same task), consumers (bounded channel) |
| event stream `crates/event-stream` | bounded channel of events | `emit`, `recv` | between all of the above |
| drivers `crates/driver-*` | per execution only | `validate`, `execute` | a peer, the token, the tee |
| scripts, assertions, variables, auth | none | pure functions of request and response; may fail, one may panic | the engine's task |
| local agent `apps/local-agent/src/main.rs` | slots of running executions, sessions, mock rules, TCP tickets, the store behind one mutex | about 60 HTTP handlers; a pump task per execution | engine, store, capture proxy, plugins, secrets |
| local store `crates/local-store` | tables of workspaces, projects, modules, collections, requests, environments, executions, definitions, scripts, blobs; blob files | create, move, delete with cascades, record, repair on open | agent, desktop |
| capture proxy `crates/capture-proxy` | running, bind, token, generation, ring of exchanges | start, stop, clear; an accept loop and connection tasks | agent, captured clients |
| protocol gateway `apps/protocol-gateway` | job map, `jobs.json`, permits, results | create and delete jobs, remote run, scheduler tick | engine |
| web agent client `apps/web/src/agentClient.ts` | the session promise of a page; one result under construction per execution | every call to the agent | agent |
| workbench tabs `packages/ui/src/WorkbenchDeck.tsx` | open tabs, the active one, a stash of requests on their way into a tab | open, create, close, save, delete | all workbenches |
| HTTP workbench `HttpWorkbench.tsx` | the form, the run under way, its result, the last request, what the request looked like when it was opened | edit, send, cancel, open, save, cases | tabs, agent client |
| interface design `InterfaceLifecycle.tsx` | a definition as fields, responses, text and last valid text, per tab | edit, switch mode, import, save, bind | HTTP workbench (hydration), store |
| explorer and front ends `WorkspaceExplorer.tsx`, `apps/web/src/App.tsx`, `apps/desktop/src/App.tsx` | the tree last read, a sequence number (web) | about 20 handlers, each a sequence of commands and a refresh | store, tabs |
| history page `RequestHistoryPanel.tsx` | list, filter, opened records, an edited copy with a result for each | list, open, send again, save | store, explorer |
| socket workbenches, desktop executions | a socket in a ref; the execution followed | connect, close; send, cancel | agent, engine |
| environment editor `EnvironmentEditor.tsx` | all sections, the active one, what was last loaded | load, edit, save, create, delete | store |
| shell `AppShell.tsx` | module shown, open dialogs, explorer width | navigation, shortcuts, drag | mounts and unmounts the pages |
| preferences `userPreferences.ts` | keys in local and session storage; a copy in each open page | set, notify, reset | all windows |
| import `packages/import-export` | counters against limits | resolve, convert | explorer |
| collaboration `services/collaboration-server`, `TeamWorkbench.tsx` | one document with a revision per workspace; the page's revision | push, pull, accept | store (snapshot) |
| plugin runtime, secret store, command line, deployment | three files per plugin; a cache before the keychain; none; none | | |

What is hard here, and what must hold of it:

* *Engine.* Three tasks joined by two bounded channels; a cancellation that may
  arrive at any await; a response captured by one task and judged by another. No
  event may be lost, nobody may wait for ever, the verdict must be told once.
* *Agent.* A third channel and a client that may be slow, leave, or never come.
  What the client is told and what the history says must agree.
* *Store.* Each statement commits by itself and bodies are files: any operation
  can be cut between two of its steps. No reference may lose its content, and
  cascades must release what they delete. The tree must stay a tree.
* *Capture proxy.* Calls that overlap around an await and loops that end late.
* *Gateway.* Restarts, failed writes, permits, clients that leave.
* *User interface.* Nothing is locked. A handler goes on after an `await` with the
  state of the render it was created in, while other handlers have changed tabs,
  forms and the store; a listener keeps the closure it was installed with; an
  unmounted page cannot stop what it has started. What is shown must belong
  together (a response to its request, a form to its identity, a tree to the
  store), and what is saved must be what was shown.
* *Two representations of one thing.* Query rows and address, form and envelope,
  fields and definition text, schema and validator: each pair is converted both
  ways by separate code and must agree after every sequence of edits.
* *Collaboration.* Concurrent transactions, lost answers, pages that know an old
  revision. Nobody may overwrite what he has not seen.

The complete list of hazards, each at its line, is in `PROJECT.json`.

## 2. Modules

| module | models | extends |
|---|---|---|
| `Engine` | one execution: task, driver (HTTP, SSE, WebSocket), forward task, token, registry entry | |
| `Collect` | `execute_collect_with_scope`, the consumer used by CLI, gateway and debug endpoint | `Engine` |
| `AgentExecution` | the agent's pump, slot and history, and the web client | `Engine` |
| `BlobStore`, `MCBlobStore` | blobs, their counts and files, and the rows that refer to them | |
| `WorkspaceTree`, `MCWorkspaceTree` | workspaces, projects, modules, collections, environments | |
| `CaptureProxy` | start, stop, accept loops, connections, the ring | |
| `Gateway` | jobs, scheduler, runs, permits, `jobs.json`, restarts | |
| `Deck` | `WorkbenchDeck`: tabs, the stash, drafts, saves | |
| `HttpWorkbench` | the run, the result and the identity of an HTTP form | |
| `RequestForm` | the fields of the form, the request built from them and the way back | |
| `FieldTree` | the field list of a design and its editing | |
| `DesignMerge` | the design in the request that is being debugged | `FieldTree` |
| `DesignSync` | a response validated against the design | `DesignMerge` |
| `Definition` | the design panel: modes, texts, loading, saving, binding | |
| `ResourceStore` | the tables as the interface sees them, one command per step | |
| `Explorer` | the tree on screen and the handlers that change it | `ResourceStore` |
| `TreeView` | the abstract specification of a view of a store | |
| `HistoryPanel`, `Dispatch`, `LiveSession`, `EnvironmentEditor`, `Shell`, `ImportDoc`, `TeamSync`, `AgentSession`, `Preferences` | one part each | |
| `App`, `MCApp` | the application: these parts and `Explorer` together; what an imported file becomes is a constant of `App` that `MCApp` takes from `ImportDoc` | all of the above |
| `ExecutionProofs` | proofs about the engine with both of its consumers | `Collect`, `AgentExecution` |
| `CopyProofs` | lemmas about the trees, scripts and commands of the explorer | `Explorer` |
| `AppProofs` | proofs about the application and the team's workspaces in it | `App`, `CopyProofs` |
| `ServiceProofs` | proofs about two services that stand alone and about the tables of the store | `CaptureProxy`, `Gateway`, `WorkspaceTree` |
| `DesignProofs` | proofs about interface designs: their fields, their validator and their texts | `DesignSync`, `Definition` |
| `WorkbenchProofs` | proofs about the HTTP form: its run and its fields | `HttpWorkbench`, `RequestForm` |
| `BlobStoreProofs`, `DeckProofs` | proofs | the module of their name |

`CaptureProxy`, `WorkspaceTree`, `Definition` and `RequestForm` carry a name of
their own in their initial condition, next-state relation and variables
(`CaptureInit`, `TablesInit`, `DefinitionNext`, `FormNext`, ...), so that one
module of proofs can extend them together with another.

**Engine.** `pc` is the place of the spawned task in `run_driver` or inside
`driver.execute`; `todo` holds the events it must still emit before it goes on,
because every `emit(..).await` can block. `tee` and `rx` are the two channels,
`fwd`, `fheld` and `seen` the forward task. An event is its kind, a response is
what has been seen of it. The driver's control is one set of actions with the
differences between the three protocols in `CancelEvents`, `CompletionEvents`,
`FinalPreview` and the guards (HTTP and WebSocket retry a failed attempt, SSE and
WebSocket reconnect after an end, only HTTP has a timeout). Executions share only
the registry, keyed by id, so one stands for all. `Collect` and `AgentExecution`
are two compositions of this module with a consumer.

**AgentExecution.** The pump receives an event, notes what it will store, sends
it on while a client is connected, joins the task, closes the stream and then
writes the history. `slot` follows the receiver: registered after the pump was
spawned, taken by at most one client. `ClientState` is what
`executeEnvelopeViaAgent` shows.

**BlobStore.** The mutex of the store makes operations sequential, so `pc`, `op`,
`puts`, `held` and `releases` belong to the one under way, and each step is one
statement or one file operation. `puts` says of each slot (the body of a save,
the snapshot, response and preview of an execution) which body is still to be
stored, `held` which blob a stored one got, and `releases` which blobs are still
to be given back; a release is a token of the row that owed it, because an
operation can owe several of one blob. `Crash` may come between any two, and each
step can fail. Contents are model values (equal contents share a row and a file,
as in the code, which addresses files by hash). `NoExecution` stands for no row or
for a row without blobs. The tree of collections is constant here: it is
`WorkspaceTree` that changes it.

**WorkspaceTree.** One row per possible id. `Subtree` is the recursive query, in
a form that needs no recursion: d is below c when every set of live collections
that is closed under parents and holds d also holds c.

**CaptureProxy.** A start is three critical sections (check, bind, install) and
an accept loop; a stop is two (take the token, cancel it). `gen` is the
generation that the loop remembers. `StartDropped` is a caller that goes away
before it has installed its listener.

**Gateway.** `writing` is the holder of the job mutex while it writes; a run goes
through permit, execution, recording and the update of its job; `task` is the
engine's task, which outlives a dropped run: "ends" for one that a deadline or an
answer ends, "waits" for one that reads from its peer for as long as that keeps
the connection open. A start reads the file or, when it cannot (`load_jobs`),
begins without jobs over a file that still has them; `forgotten` remembers the jobs
of such a file until a start has read them. Authorization is left out, and of
`run_execution` the truncation of retained events.

**Deck.** A step is a handler with the render it causes. What a handler reads is
its *view*: the tabs and the active tab of the render it was created in, which
for the window listeners is an older one, and for a handler that has awaited the
one it started with. `shown` is the content of each tab and whose it is,
`pending` the payload that a tab takes when it mounts. `overtaken` is history: a
request was opened into the tab while its save was under way, or a request was
deleted while a save of it was.

**HttpWorkbench.** A form is the request it came from, its address and its
fields. `run` is the `handleSend` under way, through its send, the reload of the
history and its end; `awaiting` holds the handlers that await a save or a load.
`armed` is the form that the shortcut listener captured. Texts, headers and
assertions are in the fields, a small number. `mixed` is history: the tabs whose
form and run, or result, come from two requests; `tainted` are the requests that
were saved from such a tab.

**RequestForm.** The other half of the same source: five tables of rows, the
address, body modes with their own editors, credentials and options.
`BuildRequest` is `buildRequest` with the encodings, `KeepRequest` what the store and
the history keep of a request, `ApplyRequest` the way back, which guesses the
body mode. Texts are told apart by how the code reads them. `Misread` names exactly
the requests that come back as another one: by their body (`BodyMisread`, null
arguments included) or by their credentials (`AuthMisread`: an editor draws the
references of an OAuth code when it is mounted, and `OpenAnothers` opens a request
that carries those of another). `ReadQuery` ends the query at a second question
mark, as `queryRowsFromUrl` does.

**FieldTree, DesignMerge, DesignSync.** A field is a record with scope, type, name, parent and
response; ids are numbers in the order of creation, which is the order of the
list. One action per edit the visual editor offers. The other two add the
functions `mergeDesignIntoHttpDraft` and `validateDesignedResponse`, evaluated in
every design the editor reaches. A typed value of a draft may hold what the merge
rewrites, a variable and a second equals sign (`Mixed`). The validator's `visit` and the schema's
`renderSchemaField` follow the fields down; they are recursive functions of the
field, the first from its parent (what it is called with), the second from its
children (the sample).

**Definition.** A design has five parts (fields, responses, security, body mode,
version), each a small number; a text is the design that its parser would find,
or invalid. `panel` holds the four representations of the panel, `saving[t]` the
saves of a tab that are under way, each with what it captured, `loading[t]` its
reloads. Leaving the tab unmounts the panel but stops no save (`Left`): it goes
on without a panel to tell, and showing the tab again mounts a new panel, not
busy, beside it. A reload asks for the definitions and the binding in two calls
that are answered at moments of their own (`lists`, `links`). `drift` is history:
the parts in which the text and what is shown have come apart; so are `raced`
(the panel was shown while a save was under way) and `excused`. A save that
reports an error is taken to have written nothing.

**ResourceStore, Explorer, TreeView.** A command is one transition of the store.
A handler is a list of commands computed from the tree it captured, then a
refresh; `calls` holds the handlers under way. `store.version` and `tree.version`
count changes, so that `TreeView` (a view never shows what never was, and an
ordered view never goes back) is the abstract specification that `Explorer`
implements under the mapping `View`. `finished` describes the operation that
has just ended undisturbed.

**The other parts of App.** Each has its state, `...User` (what the user does),
`...Async` (what answers do) and where the code handles failures `...Fault`.
`App` adds what joins them: the shell mounts and unmounts pages, a change of the
tree renders the history page (which resets it), a save from the history is a
handler of the explorer, an imported file becomes a handler too. A scenario of
`MCApp` says which parts the user works with, and for how many steps; answers
are not counted.

## 3. Runs

TLC explores these completely.

| run | states | what it shows |
|---|---|---|
| `collect` | 310,092 | for the three drivers, all request shapes, retries and cancellations: no event lost or reordered, the result complete, the response judged whole, and the caller answered |
| `agent` | 1,446,532 | the same drivers through the agent, with a store that fails and a client that cancels or leaves at any time: the stream is faithful, client and history agree, the pump ends |
| `blob` | 599,500 | saves, executions, moves and cascades with one fault anywhere: references stay readable; without faults nothing leaks |
| `tree` | 399,052 | forest, homes, no orphans, with two faults or restarts |
| `capture` | 122,012 | overlapping starts and stops: honest status, stops that end what they took |
| `gateway` | 432,788 | creations survive restarts and failed writes unless a start cannot read the file, one run per interval, runs end or wait for their peer or behind runs that do |
| `deck` | 1,673,746 | opening, restoring, saving, deleting and closing in seven steps with late answers: a tab holds the content of the request it saves to, and a request has one tab |
| `http` | 684,370 | two sends and six steps with a late save, load and replay: what is shown and saved as an answer is the answer to the request next to it; every send settles |
| `design` | 213,180 | all designs of three fields and two responses: the list is a forest, merging keeps what was typed but for what section 6 names, and twice is once, a conforming response is accepted |
| `definition` | 1,766,924 | three edits, imports or saves in both modes, an imported document saying one thing, with loads, saves and bindings that come late or fail, the tab left and shown again at any moment: what is reopened is what was shown at the save, unless a save was under way then; a retried save makes one definition, unless the tab was shown again before its first one was bound |
| `form` | 1,337,113 | three edits of a form in any body mode, kept and reopened, over whatever form was there before: the same request goes out, with the exceptions of `Misread` and no others; rows and address agree up to a second question mark |
| `app` | 1,059,270 | the eleven properties of the application, below |

The properties of `app`, each over the scenarios in which its part has steps:

* `TreeIsStored`: when all is quiet the tree on screen is the store's;
  `TreeIsView`: it always was the store's at some time, and in the web never goes
  back (refinement of `TreeView`).
* `CopiesFaithful`: clones, imports, restored snapshots and swaps produce the tree
  they promise when nothing disturbs them.
* `HistoryFaithful`: the list is that of its filter, a tab shows its record, and a
  case saved from the history has the answer to its own request.
* `OwnEventsOnly`, `NoOrphanSocket`: executions and sockets end up with the
  workbench that started them.
* `EnvironmentKept`: saving one section leaves the others alone.
* `ImportResolves`: within the limits every reference is resolved, beyond them
  the file is refused, and cycles end. All parts of the document arrive, but for
  those that the siblings of a reference replace or override (`LostOn`).
* `NoBlindOverwrite`: no push replaces a document that its page has not received.
* `SessionUsed`: one session per page and module, and no call before it.
* `PagesAgree`: windows and pages show the stored preference when all is quiet.

Many of these except states that are listed in section 6: each exception is a
history variable that is set by the step that goes wrong (`overtaken`, `mixed`,
`unseen`, `crossed`, `lost`, `doubt`, ...), so that the property still speaks of
every behaviour without that step, and where possible (`ReopensAsSent`) it says
that nothing else goes wrong.

**Bounds.** `Cap = SseCap = 1` is the capacity at which every emit can block; a
larger channel only blocks later (the theorems cover every capacity). Two chunks
reach the states after none, one and several; one retry (`collect`) reaches the
second attempt. `MaxPersisted = 1` is exceeded by the second chunk. Two requests
with two bodies and one execution, which has a snapshot and a response, can share
a blob in every combination. Three collections are the fewest with a subtree to
move below another, and the fewest on which a move below a grandchild could close
a cycle that a look at the parent alone would miss. `MaxModules = 1` gives a
project two modules. `MaxFaults`, `MaxCrashes` and `MaxErrors` bound failures, so
that "a failure while another is repaired" happens in `tree` and a single one
elsewhere. `MaxMismatches = 1`: one request saved with a project that is not its
collection's. `MaxExchanges = 2` with three requests overflows the ring. One
permit and two runs make a run wait. `MaxTime = 1` lets one interval pass, so a
job is due once before and again after a restart; `MaxResults = 1` is exceeded by
the second run.

In the user interface the user's steps are bounded and answers are not
(`MaxSteps`, `MaxEdits`, `budget`); an imported definition differs from the default
in `MaxFileParts = 1` part, and edits add to it. Two tabs, an interface, a case and a socket
request are the fewest on which identity can be lost; three ids leave one to be
made after both tabs, and two saves under way (`MaxSaves`) can return in either
order. One tab is enough for `http` and `definition`, since tabs
meet only in the store, where another tab's save is the same step as a late one
of this tab. Three fields reach an array with items below an object. Two handlers
(`MaxCalls`) overlap in every way a refresh can; three records have one of
another protocol and one without a snapshot; two windows and two pages of one key
make an echo possible. `IMPORT_MAX_*` are scaled down so that documents of five
nodes reach each limit; among them are arrays and plain values that a
reference with siblings leads to, and siblings with a key of their target.

Symmetry is used only in `blob` and `tree`, which check no liveness, and only
over ids that no constant tells apart.

**Deadlock** is checked in `collect`, `agent`, `blob` and `tree`. An execution can
be cancelled at any time, also after its end, so for the first two it is `Returns`
and `Settles` that rule out tasks waiting for each other. The others may stop:
calls, run ids or the user's steps are used up.

**Fairness.** Weak fairness of the engine's task, the forward task, the collector
and the pump: tokio polls every ready task. A step that waits for an SSE or
WebSocket peer is excluded (`WaitsOnPeer`), because those waits have no timeout;
HTTP has one. Nobody is obliged to cancel. The client is fair until it leaves.
Writing to a WebSocket peer is assumed not to block for ever. `CaptureProxy`
assumes that calls under way and cancelled loops are polled, nothing of clients.
`Gateway` assumes strong fairness of a run, since tokio's mutex and semaphore
serve waiters in order, but nothing of a task that waits for its peer
(`OwedStep`): the gateway registers the SSE, WebSocket, TCP and MQTT drivers
(`protocol-gateway:156`), whose reads have no deadline. `RunsEnd` excepts such a
run, and a run that waits for a permit while such runs hold all of them.
`HttpWorkbench` assumes that the
promises of `handleSend` settle, which the agent's timeouts and the browser
justify; nothing is assumed of the user.

## 4. Proofs

Checked by TLAPS for every value of the constants that the named assumptions
allow. Those are `CapAssumption` (every channel holds an event),
`DriversAssumption`, `BoundsAssumption`, `AgentAssumption`, `TreeAssumption`,
`BlobStoreAssumption`, `CaptureAssumption`, `GatewayAssumption`,
`FieldTreeAssumption`, `DefinitionAssumption`, `DeckAssumption`,
`HttpWorkbenchAssumption`, `EditsAssumption`, `TeamAssumption`, and for the application
`DispatchAssumption`, `HistoryAssumption`, `EnvironmentAssumption`,
`ShellAssumption`, `PreferenceAssumption`, `ScenarioAssumption`,
`NoneAssumption`, `ImportsAssumption` and `OriginAssumption`. They say that
bounds are numbers, that an imported file lists paths of names, that the rows counted in a blob store are finitely many, that
"none" is none of the values, and that the rows the code creates by itself (a
default collection, a default environment) exist; TLC evaluates them in the runs.

**`ExecutionProofs`.** `EngineInv` is about the engine alone and so holds under
both consumers. `NoEventLost` is not inductive: the task writes to `tee` inside
the driver and to `rx` outside of it, and the order would break if something were
left in the tee when it writes to `rx`. `ForwardOwnsTee` (the tee and the forward
task hold events only from the call of the driver to the join) and `SinkOwned`
(the channel is closed when, and only when, nothing is left to emit) add what is
missing. `HeadUnderWay` and `PreviewUnderWay` follow the head and the preview of
a response through `todo`, `tee` and the forward task into `seen`, which gives
`ScriptsSeeResponse` (`[]WholeResponseJudged`). `CollectInv` adds the collector:
`EventsInOrder` (`[]NoEventLost`), `CollectsEverything` (`[]CollectedAll`) and
`TypeCorrect`. `PumpInv` adds the agent: `StreamReachesClient`
(`[]StreamIsFaithful`), `HistoryIsTrue` (`[]HistoryMatchesOutcome`),
`ClientHearsVerdict` (`[]ClientToldVerdict`) and `AgentTypes`. Its parts say where
pump and client can be together (`PumpPlace`, `ClientPlace`), that the client has
been sent, or is about to be, everything that was emitted (`AllTold`) and nothing
else but a warning and the end of a panicked task (`ToldIsEmitted`), and that an
execution announces the end that it has (`Verdict`). Lemmas about concatenation
say what each move of an event does to the pipeline; one step per action does the
rest.

**`BlobStoreProofs`.** `EveryBodyReadsBack` (`[]ReadsBack`), `NothingLeaks`
(`[]NoLeak`), `BlobTypes`. The core of `BlobInv` is a count, `Counted`: the
`ref_count` of a blob is at least the number of table rows that refer to it, plus
the references the operation under way holds, plus the releases it owes; it is
exactly that number while nothing has failed and no request is in another project
than its collection (`Clean`). A release moves one unit from "owed" to nothing and
takes one from the count, so the row that is deleted when the count goes from one
to zero is referred to by nobody. Failures only lose what is held or owed, and so
can only make the count too large: a leak, never a dangling reference.
`FilesKept` says the same of files, with the two moments at which a file is ahead
of its row or behind it. The cardinalities are handled by a few lemmas on adding
an element to and removing it from one of the five sets that are counted.

**`ServiceProofs`.** Of the proxy: `StatusIsHonest` (`[]StatusHonest`),
`CaptureTypes`. An accept loop that ends clears the status if the counter still
holds its number. That this is about its own listener takes `Generations`
(installed listeners have different numbers, not above the counter), and that a
stop never cancels the listener that is shown takes `TokensAreOld` (a token that
was taken belongs to a listener before the last start or stop).

Of the gateway: `AcknowledgedJobsSurvive` (`[]CreatedJobsPersist`), `JobsRunOnce`
(`[]OncePerInterval`), `GatewayTypes`. A restart takes the next times from the
file, so `NextIsLater` says of map, file and the tick that is being written that
they are after all runs of the job, also when a start could not read the file;
`WriteSound` says what the holder of the mutex
is about to write, `Fresh` that an id nobody was given is used nowhere.

Of the tables of the store: `CollectionsAreAForest` (`[]Forest`),
`TreesHaveOneHome` (`[]Homes`), `NothingIsOrphaned` (`[]NoOrphans`), `StoreTypes`.
`TreeInv` joins forest and homes with the type of the rows, because each needs the
other: that a subtree moves as a whole uses the forest, and that a deleted project
leaves no child behind uses the homes. The forest is stated as well-foundedness
(every nonempty set of collections has one whose parent is outside), which makes
"no cycle" first-order. `SubtreeFacts` says that being below c is inherited by
children, `MovedKeeps`, `Created` and `Deleted` that the three kinds of change
keep the invariant. `StoreInv` adds workspaces, projects and environments and what
a create that is half done has already checked (`TargetType`).

**`DesignProofs`.** Of the fields: `DesignIsForest` (`[]TreeShape`) and
`DesignTypes`. Deleting and retyping remove the descendants of a field, defined as
the smallest set closed under children; `DescendantsClosed` says that what is left
has no child of a removed field, `Kept` that any part of a list that is closed in
this way keeps its shape, `Grown` that one new field below a suitable parent does.
The invariant also says that ids are below the next one, without which a new field
could become the child of itself. `MergeKeepsTyped` (`[]MergeKeepsValues`) is about
merging a design into the debug form and needs no invariant: it holds of any
design. What the merge rewrites, it leaves alone the second time
(`EncodedTwice`, `SplitTwice`), on which the last part rests.

`SchemasAgree` (`[]OwnSchemaAccepted`): the sample of a field is given by those of
its children, and the values the validator visits for a field by those it visits
for its parent. Since parents stand first, which is `TreeShape` again, both
equations have a solution (`SamplesUnfold`, `VisitedUnfold`), and by the same order
nothing is visited for a field but its sample, or the string in an array of which
nothing is said (`VisitedSamples`). The validator's limits on depth and nodes are
not in the model.

Of the definition: `RequestsHaveOneDefinition` (`[]OneDefinition`),
`DesignsReopenAsSaved` (`[]ReopensAsSaved`), `DefinitionTypesHold`. The first needs
to know where the id of a tab's only definition is at each moment (`Knows`): in the
panel once that has loaded, and bound to the request, where every reload will find
it, before; that a save without a panel behind it is of the definition that is
bound (`CurrentSave`); that a save which will make a definition is alone
(`MakesOne`); and that no other tab ever learns of it (`Owned`, `StoredOwned`).
The second follows a text around: `Honest` says when the text of a panel shows its
design (always in the visual editor, and in the source editor until it is typed
in), `OwnSave` the same of a text that is being saved, `Unedited` of one that is
stored, and that a panel nobody has edited since it loaded, with no save under way
then, holds the stored text. What a save writes while a reload waits is in the
lists that `OwnLoad` and `CurrentLoad` speak of; `StoreGrows`, `SaveEnds` and
`PanelTold` carry the invariant over the steps of a save whose panel may be gone.
`GeneratedFacts`, `ReparsedFacts`, `UnreadFacts` and `ParsedFacts` say of each
conversion between text and design which parts it keeps.

**`WorkbenchProofs`.** `AnswersBelongToRequests` (`[]AnswersBelong`),
`WorkbenchTypes`. `Belongs` joins fields that are set at different times: what is
shown answers the form, the run under way was sent from it, its answer is the one
shown, and the request kept beside a response is the one sent for it.
`StoredFaithful` and `CallsFaithful` say the same of what is stored and of saves
that are awaited, which keep what they began with. Looking for the invariant
showed an exception that `mixed` lacked: a case that was saved from a mixed tab
brings its answer into the next tab it is opened in, and saved on from there as
another case, into a third (thirteen steps, out of the run's reach; section 6).

Of the fields of the form: `FormReopens` (`[]ReopensAsSent`), `FormRowsMatchUrl`
(`[]RowsMatchUrl`), `FormInvariant`. An opened request is the kept one, so the
invariant has to say what can be kept: `Keepable` lists which body, encoding, kept
text and credentials `buildRequest` writes together (`Carried`), without cookies
or bearer token, for any values of the fields (`Forms`). Reopening is then a
function of one such request and any form, and its proof (`Reopened`) has four
parts. `RoundTrip`: the rows made from the pairs of a table are sent as these
pairs. `HeadersBack`: so are headers, with the cookies of a design. `DetectedMode`
spells out the mode that is guessed, one equation per rule. `BodyBack` goes through
what can be kept once more and shows that each body is built again unless
`BodyMisread` holds, and never if it does; the credentials are compared kind by
kind (`AuthFits`). The proof found one case that `Misread`
lacked, a file that is sent with the content type of MessagePack, which the run's
values of headers did not contain; it has been added to both (section 6).

Rows are filtered by `Selected`, which says where the i-th selected element
stands instead of recursing, and facts about tables of any length are proved by
the least counterexample (`Least`) where one would write an induction.

**`DeckProofs`.** `TabsShowTheirRequest` (`[]TabShowsItsRequest`),
`RequestsHaveOneTab` (`[]OneTabPerRequest`), `DeckTypesHold`. What an open finds
in its view is true of the tabs as long as `ViewsKnown` holds: the listeners' tabs
are the open ones, and the tab a handler found active is closed or still of the
same workbench. A save that returns gives a tab an identity, so `SavesFit` says of
each save under way that it agrees with its tab in request and content, unless the
tab was overtaken or the request deleted meanwhile; two saves of one tab then
agree with each other. `CasesKnown` and `ContentsKnown` say that an interface or
socket request is stored, drafted and stashed as no case, since a case is opened
after an await, without a second look. The steps that render go through one lemma
(`RenderKeeps`), the tabs that a step does not touch through another (`TabsStay`).
Looking for the invariant showed the exception that `overtaken` makes for deleted
requests, ten steps deep and so out of the run's reach (section 6).

**`AppProofs`.** The specification is the whole application, and `AppInv` the
conjunction of one invariant per part; that the steps of the other parts leave a
part alone is a step of each proof, because the shell mounts and unmounts them.

* `TreeShowsStore` (`[]TreeIsStored`): `TreeInv` says that the tree is the store's
  or something owes a look at it (`Owed`): a handler that has changed the store and
  will refresh, a refresh that will be shown and has not read yet or has read what
  is stored now, an error on screen, or one of the exceptions of section 6.
* `TreeRefinesView` (`TreeIsView`): the refinement of `TreeView`, from the same
  invariant. Every step of the application is a step of the view or leaves it
  alone; that a view of the web never goes back is `ReadsInOrder`.
* `NoSocketOrphaned` (`[]NoOrphanSocket`), `SendsHearTheirOwn`
  (`[]OwnEventsOnly`; `IdsOwn` says that every id a send knows, its cancellation
  included, is one of its own executions), `AppOverwrites` (`[]NoBlindOverwrite`;
  `TeamOverwrites` is the same of `TeamSync` alone). The check of the revision and
  the write are one transaction but two steps, so the invariant must say of each
  push under way what its page knew when it started (`SyncsSound`), of each page
  that it knows its revision's document (`PagesKnow`), and of the accepted changes
  that their revisions lie behind the row's (`ChangesBehind`).
* `SessionsAreUsed` (`[]SessionUsed`): a page makes one exchange per module because
  its promise is made in the step that starts it (`OneExchange`,
  `ExchangePending`); what the token is at each moment is `TokenSwapped`, and
  `SteadyPage` that the agent still knows it.
* `PagesShowPreferences` (`[]PagesAgree`): a page shows what is stored, or an
  effect, a text that was not rendered or a storage event of its window is due.
* `HistoryIsShown` (`[]HistoryFaithful`): `PanelInv` has a part for the list
  (`ListSound`: the newest load is of the filter, and what it brings is shown), for
  the detail under way (`DetailSound`), for the tabs (`TabsSound`) and for the
  dialog of a case (`DraftSound`). Rendering keeps all four, which is proved once.
* `EnvironmentIsKept` (`[]EnvironmentKept`): the dialog has no invariant of its own
  fields alone, because what it remembers goes stale with every write of another
  dialog. `KnowsStored` says that a dialog without doubt remembers what is stored,
  or, once its write was applied, will when the answer comes (`VariablesAfter`,
  `RefsAfter`, `ListAfter`); `Remembers` that a save carries what the dialog
  remembers of the section it does not edit. So each write under way spares the
  other sections or is in doubt, also once its dialog is closed.
* `CopiesAreFaithful` (`[]CopiesFaithful`): what a handler promises is told when it
  starts. A handler that nothing disturbs finds the store as its own commands left
  it, so `Foretold` says of the commands that are left that *every run of them from
  the store as it is now* ends in a store that keeps the promise (`Leads`). A
  command takes its head off such a script and moves the store along the run; a
  command of another handler mixes this one, about which nothing is said any more;
  and when the refresh is all that is left, the promise holds of the store itself.
  What remains is that each script leads where it should when it is written, from
  any tree that is sound: `CloneForetold`, `ImportForetold`, `RestoreForetold` in
  `CopyProofs` and `SwapForetold`. That the tree shown is sound is `StoreInv`: in
  the store, the tree on screen, what refreshes have read and the snapshot, the
  collections are a forest within their projects with ids below `nextId`, and the
  ids that handlers under way will make are in nobody's store or script. This part
  is inductive only together with the scripts themselves (`Fits`), and was checked
  with TLC on the run `app` before it was proved.

**`CopyProofs`.** No steps, only the operators of `Explorer` and `ResourceStore`.
`AfterCoherent`: a command that fits leaves a sound store sound, for moves because a
parent outside the subtree makes no cycle, for cascades because they leave a set
closed under parents. `ChainUnfold` and `PathStep` give the equations that chains
and paths solve. The scripts are built by recursive functions over the collections
listed, and each is followed with an invariant of the commands so far and of every
run of them: `Grown` for a clone (each copy has a twin below the twin of its parent,
after those of its earlier siblings; while one is not copied, one is ready,
`SomeReady`), `Filing` and `Counted` for an import (every folder that was made is
the only one of its name, and below each path there are as many new requests as the
file has so far), `Regrown` for a restore (after n passes all collections of depth n
are there). That the numbers of interfaces of a folder and of its copy agree
(`SameCounts`) is a bijection between the requests below them. Every induction, over
depth, position or round, is by a least counterexample, because the induction
theorems of the library cannot be instantiated here.

**Only model-checked.** Liveness under fairness (`Returns`, `Settles`, `StopEnds`,
`RunsEnd`, `SendSettles`), which like ENABLED is outside the prover's reach.
`ImportResolves` compares what the importer makes of a file with what the file says;
the importer is recursive and a constant of `App`, so that no theorem about `App` can
say more of it than an assumption would. `ImportDoc` keeps its RECURSIVE operators,
which the modules under proof avoid.

## 5. Not modelled

* Data that no property tells apart: what requests look like on the wire, TLS,
  redaction, previews, texts, the rendering of the user interface, drag and drop
  geometry, selection, menus.
* Drivers other than HTTP, SSE and WebSocket: each is one more sequence of events
  with the same cancellation points, over external libraries.
* The agent's mock rules, TCP tickets, plugins and cookies; the plugin runtime;
  the secret store, whose behaviour is mostly the keychain's; the command line's
  loop; scripts and versions of the store.
* Of the interface: test suites and the script library, the command palette's
  search, OAuth pop-ups, the cookie table, exports (conversions without state),
  Postman and cURL beyond the walk over folders.
* Of the collaboration server: users, roles, comments and subscriptions.
* The AI assistant: one stateless call.

## 6. Where code and text disagree

Met while modelling. Where the models contain such a behaviour, a property
that it would violate names it as an exception. None is a run of its own.

Engine, agent, store, proxy, gateway:

* Cutting a long body inside a multi-byte character panics
  (`assertions.rs:103`); the registry then keeps the execution's token, though a
  test says "token should be removed after finish" (`engine.rs:703`).
* When nobody asks for the events of an execution, the pump blocks on the SSE
  channel (`local-agent/src/main.rs:2242`), the engine behind it, and cancelling
  does nothing, although `docs/PHASE_PLAN.md:145` says that the core can be
  cancelled. `Settles` speaks of streams that were taken.
* A request saved with the default project in another project's collection
  (`local-store:1330`) is deleted with that project, and its blob stays
  (`local-store:1258`); the test at `local-store:2274` says otherwise of requests
  in general.
* Of two overlapping starts of the capture proxy on different addresses the first
  listener cannot be stopped (`capture-proxy:85`).
* A client that leaves gives its permit back while its execution goes on
  (`protocol-gateway:270`); `docs/PHASE_PLAN.md:132` lists a cap on concurrency.
* A cancelled WebSocket execution emits no `Cancelled` event
  (`driver-websocket/src/lib.rs:124`), which the engine's test asserts
  (`engine.rs:697`); the web client then shows "completed". `ClientToldVerdict`
  excepts this driver.
* The default collection can be put under another one (`local-store:852`) and the
  default environment be given to another project (`local-agent:1431`); deleting
  those takes them along, although deleting them directly is refused
  (`local-store:954`, `1892`).
* A connection accepted before a stop of the capture proxy is served and captured
  after it (`capture-proxy:97`).
* A `jobs.json` that cannot be read or parsed counts as an empty one
  (`protocol-gateway:428`), and the next change overwrites it: acknowledged jobs
  are gone. `CreatedJobsPersist` excepts the jobs of such a file (`forgotten`).
* A run whose peer keeps its stream open and silent holds its permit for ever
  (`protocol-gateway:270`): as many of them as there are permits stop the gateway.
  `RunsEnd` excepts the runs behind them.
* A cancelled execution is stored as "failed" (`local-agent:2332`), and the
  desktop stores no failed execution at all (`src-tauri/src/lib.rs:344`).

Tabs and the HTTP workbench:

* The window listeners are installed again only when the tabs change
  (`WorkbenchDeck.tsx:301`): a request opened from outside may be restored into a
  blank tab that the user has left (257-264) and is not in front, contrary to
  `docs/UX_WALKTHROUGH.md:723`. A case can be opened twice, and a save that
  returns after another request was opened takes the old identity back. A save
  that returns after its request was deleted stores it again
  (`WorkbenchDeck.tsx:507`, 155-165); when the request had been saved and opened
  elsewhere meanwhile, two tabs hold it.
* Ctrl+Enter sends the form of the render in which address or `loading` last
  changed (`HttpWorkbench.tsx:1044`), in every mounted tab
  (`SettingsDialog.tsx:260`, `docs/UX_WALKTHROUGH.md:1393` promise the current
  request).
* A request opened while a send is under way gets the response of that send
  (`HttpWorkbench.tsx:1185-1219`, 1303-1337); a case saved then holds an answer to
  another request, and so does every case that is saved from it later.
* A failed reload of the history after a successful send shows the send as failed
  (`HttpWorkbench.tsx:1324`).
* `Misread`: a content type of forms or GraphQL with another body, a typed body
  that looks like GraphQL or JSON-RPC, packed text that looks structured, and a
  file sent with the content type of MessagePack, come back in another mode
  (`HttpWorkbench.tsx:1092-1107`). Null variables or params come back as `{}`
  (1107-1108). A request with an OAuth code goes out under the references of the
  editor that shows it, not under those it was kept with (670-671, 778-779), and
  an empty redirect comes back as the default (1142). SOAP comes back as XML. Query
  rows, cookies and credentials of the request before stay when a request of
  another workbench is opened.
* The rows show the query up to a second question mark (`HttpWorkbench.tsx:371`),
  and the next change of a row cuts the rest from the address (377).
* The environment chosen in the form never reaches the wire: `toEnvelope` writes
  a constant (`agentClient.ts:152`), while `docs/ISSUES.md:408` says that a send
  reads the request's `environmentRef`.

Interface design:

* The validator looks for `items` as a property of each element of an array
  (`designedResponseValidator.ts:135`), while the editor names the child of an
  array that way (`InterfaceFieldHierarchy.test.ts:17`): a conforming array of
  objects is refused. `OwnSchemaAccepted` speaks of designs in which no
  array has items.
* The merge into the debug form (a test says "without replacing existing values")
  writes the braces of variables in the query in percent code and drops the
  fragment (`InterfaceLifecycle.tsx:1195-1202`), cuts a cookie at its second equals
  sign and keeps one of each name (1212-1230), and replaces every typed
  Content-Type (1254-1261). `MergeKeepsValues` says what is left.
* Items made for an array in a response carry no response id
  (`InterfaceLifecycle.tsx:655-668`) and survive the deletion of the response.
* The design tab can be left and shown again while a save awaits (374-381, 1605,
  1623): the new panel may load the text from before the save, and when the first
  definition of the request is not stored or not bound by then, the panel finds
  none and its next save makes a second one. `ReopensAsSaved` and `OneDefinition`
  except these panels (`raced`, `excused`).
* A 2.0 text keeps no body mode; a save before the load has answered, or after it
  failed, makes a second definition (1566, 1586); hydration reaches the debug
  forms of all tabs (1351); a change of the design rebuilds form bodies over what
  was typed (1262-1277). Edits that were not saved go when the tab is left (369).

Explorer, history, executions, sessions:

* A collection moved into another one keeps its sort order; two equal orders make
  moving up and down do nothing. Half of a swap may fail. Renaming and moving
  write the parent and order of the tree they captured, renaming and duplicating
  a request save it into the captured collection: they undo a move, or bring a
  deleted request back.
* Cloned cases keep naming the interface of the source; cloned collections all go
  to the default module. A restored snapshot overwrites requests that still exist
  with redacted ones. The desktop's refresh has no sequence number.
* Every render of the history page resets edits and results in all its tabs; on
  the desktop also the filter. A failed send of another protocol leaves the old
  response in place, and a case saved then records it.
* On the desktop a send follows, and its cancel button ends, the execution that
  was announced last in the window.
* A WebSocket or TCP workbench that goes while it is connecting leaks its socket.

Environment, shell, import, team, agent session, preferences:

* After a failed load, saving wipes the variables; after a reload that removed the
  active environment, Save writes its variables over the global ones
  (`EnvironmentEditor.tsx:113`). On the desktop saving an environment is always
  refused: `App.tsx:319` sends `environment`, the command
  (`src-tauri/src/lib.rs:857`) takes `request`.
* Events for the deck are lost while the history or the settings are shown.
  Ctrl+K and Ctrl+, open over the environment dialog, and Escape closes all.
  Leaving the module while the explorer's handle is dragged leaves it dragging.
* A document with a recursive schema is refused as a whole; siblings of a
  reference to something that is not an object replace it (`import-export/src/index.ts:229`), others override what
  the target has under their keys (230), and both count twice against the limits.
  `ImportResolves` excepts these parts. Disabled Postman headers are imported.
* Changing the workspace id keeps the revision (`TeamWorkbench.tsx:36`), so that a
  push may replace a document of another workspace with the same number unseen.
  Accepting the remote version only fills the text box: the next push exports the
  local tree (32). A pull sets the revision before the restore is confirmed.
* A rejected exchange is kept, and all later calls of the page fail
  (`agentClient.ts:126-134`); so do they after a restart of the agent, until the
  page is loaded again. A new agent address takes effect at once, the token not.
* The settings dialog writes all keys from a draft that may be old
  (`SettingsDialog.tsx:68-72`); a late write-back effect may undo a value saved in
  between (`TeamWorkbench.tsx:22`, `GatewayWorkbench.tsx:26`).

## 7. Plan

Done: the engine with its consumers, the store, the proxy, the gateway; the
workbench with its forms, designs and definitions; the application around it; the
team's workspaces, and the proofs of section 4. Next, in this order:

1. The rest of `InterfaceLifecycle.tsx` (test suites) and of `HttpWorkbench.tsx`
   (OAuth, cookies), where they keep state over an await.
2. `MockRules`, `TcpTickets`, `PluginStore`, `SecretStore`, and the comments and
   subscribers of the collaboration server.
