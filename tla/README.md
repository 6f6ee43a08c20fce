# Verification of dawnpy

dawnpy is the Python tooling of the Dawn firmware framework: it turns YAML
descriptors into device images and C++ sources, builds firmware with NuttX, and
talks to devices over a small framed protocol. This directory holds TLA+
models of its core logic, the TLC configurations that check them on small
instances, and TLAPS proofs. Source paths below are relative to
`src/src/dawnpy/`; `PROJECT.json` maps every definition to its lines.

## Inventory

| Component | State | Operations | Correct when |
|---|---|---|---|
| instance automation, decoding (`descriptor/definitions/objects.py`, `descriptor/client.py`) | the spec (changed in place), counters per type, decoded objects | `prepare_spec_instances`, `decode_objects`, `load_client_descriptor` | no two objects get one id unless the user wrote it; explicit values are kept; generators and client agree |
| device client, console (`cli/`), protocol (`simple_protocol.py`) | link, `connected`, `discovered_ios`, the command loop | connect, discover, read, seek, write, disconnect | no leaked link, no read of a stale frame, no write to a read-only object, seekable reads complete, every command ends |
| build workflow (`dawn/workflows.py`, `cmake.py`, `kconfig.py`, `build_dir.py`) | build directories: cache, `.config`, image | build, batch, kconfig | only validated configurations are built, success is reported for what was built, remaining items are tried |
| binary and C++ back ends (`descriptor/encoding/`, `descriptor/generation/`, `descriptor/handlers/`) | id map, word array, counts | desc-bin, desc-gen | counts match the items, references reach the right object, both agree |
| program handlers (`descriptor/handlers/prog_*.py`, `_prog_config_cpp.py`) | the items of one program in each image | check, encode, generate | the two images say the same; the announced count is true; owned targets are reached; inputs that are merged stay apart |
| protocol handlers (`descriptor/handlers/proto_*.py`) | the items of one protocol | check, encode, generate | as above; register blocks of one address space stay apart; a resource has a dtype its name allows; reports show what is bound |
| IO handlers (`descriptor/handlers/io_*.py`, `_serialize_io_object`, `generation/io_codegen.py`) | the items of one IO | encode, generate | as above; values and limits have the words of their dtype |
| workspace init (`dawn/workspace_init.py`, `config.py`), projects (`dawn/project.py`) | source trees, symlink, `.dawnrc` | `run_init_request`, `Project.resolve` | nothing is lost without `--force`; `.dawnrc` names only whole trees; a command stays in one checkout |
| YAML includes (`descriptor/support/vars.py`) | include stack, inputs, namespaces | expansion | ends on cycles; names unique; promoted outputs resolve |
| object ids (`objectid.py`, `definitions/summary.py`, `handlers/_base.py`) | none | encode for the image, resolve for the console, graph and desc-compat | both give one id; two objects have two |
| validator (`descriptor/validation/validator.py`, `validate.py`) | values read, files visited, errors | desc-valid, the check of a build | accepts exactly what the build will enable |
| descriptor slots, compatibility (`commands/cmd_desc_bin.py`, `cmd_desc_compat.py`, `validation/compat.py`) | `descriptor*.bin` | desc-bin, desc-compat | the files on disk are one descriptor's; the verdict is that on the image |
| heartbeats (`cli/multi_device.py`), key conflicts | liveness, tables | wait, compare | not modelled, see below |
| header definitions, reports, templates, plugins, command line | caches | parsing and printing | not modelled, see below |

The components interact by calls in one thread. What makes them hard is outside
the process: a device that answers late or not at all, external tools that
fail, directories left by killed invocations; and, inside, two back ends that
must agree without sharing code, and numbering that depends on the order of
entries. The hazards, each at its line, are listed in `PROJECT.json`.

## Modules

- `InstanceAutomation` - `_automate_instances` as one action per loop branch
  (`SkipUntyped`, `FillMissing`, `KeepExplicit`, `IgnoreUnreadable`), the four
  lists of a spec walked in order (`NextList`), then decoding by a generator
  (first error raises) or by the client (bad entries skipped). `spec` is
  changed in place, `given` is the history variable with what the user wrote,
  `next` is the dictionary of counters. An entry is its type, its instance and
  one flaw standing for the other reasons `from_spec` refuses it.
- `InstanceAutomationProofs`, `BuildWorkflowProofs`, `DeviceSessionProofs`,
  `ObjectImageProofs`, `DeploymentProofs`, `WorkspaceInitProofs`,
  `IncludeExpansionProofs`, `DescriptorImageProofs` - the theorems.
- `DeviceSession` - one console over one link. A client call is a record whose
  `pc` is the exchange it is at; `Send` puts a request on the wire, the device
  (external) answers it or not, and a handler of the operation takes the next
  frame or nothing. `connected`, `discovered`, `phase` and `running` are the
  attributes of `SimpleDeviceClient` and `ConsoleBase`. The transport and the
  device are external, modelled from how the package calls them; `stray`
  tells a link that keeps late frames from one that drops them.
- `ConsoleSession` - what a console promises of its session, in five variables
  and six actions: commands only by a client that holds the device, no link left
  open between calls that nobody will close, a snapshot that is replaced whole.
  `DeviceSession` implements it: `Stage` maps `phase`, `running` and the call to
  its stages, the link, `connected` and `discovered` to `up`, `held` and `cache`.
- `WorkspaceInit` - `dawnpy init` by its stages (`resolve`, `prepare`, `fetch` of
  each tree, `link`, `rc` cut and `dump`ed), each of which may fail or be killed;
  the user removes trees, keeps files and edits the rc file in between.
  `DawnRoot`, `NuttxRoot` and `ProjectRoot` are what `Project.resolve` makes of
  the result for a command started at any of the roots.
- `BuildWorkflow` - the three build commands as items worked through one tool
  at a time: `Configure`, `SetSymbol`, `Refresh`, `Check`, `Validate`, `Build`,
  each with its failure, `Killed` between any two. Directories keep their
  state between invocations.
- `DescriptorImage` - one descriptor through both back ends, entry by entry:
  `Serialize...` writes the binary, `Generate...` the C++ text, `Compile` what a
  compiler makes of it. A reference is the position of the entry it reaches.
- `ProgramHandlers` - the 35 program handlers as a table: which fields each type
  has, in which order each back end writes them, which check `decode_objects`
  makes of the objects it refers to and which targets it owns. A field has one
  of fifteen shapes, and a shape says how its words are read from the config,
  when the binary omits it and what makes either back end raise.
- `ProtocolHandlers` - the eleven protocols whose config is flat or a list of
  groups, as a table over the same kind of fields, with shapes of its own: an
  option, bindings (strict, named, unnamed), the objects of can and the register
  blocks of modbus. Here the two back ends know different fields of a type, so a
  handler has a list for each. `ContextRaises` is the overlap check of
  desc-gen, its address spaces and widths given by constants.
- `NimbleHandlers`, `WakaamaHandlers` - the two protocols whose configs are trees:
  services with entries and metadata, LwM2M objects with resources and servers.
  Both back ends, which name and select things in ways of their own, the checks
  with and without the descriptor, and what graph, summary and allocation report.
- `IoHandlers` - the 36 IO types other than config, likewise: the fields all IOs
  share (device, notify, limits), those of the type, and the words of a value by
  dtype. `BinaryDtype` is the dtype a variant forces, which only the binary
  takes. The bits of a float are a number that no integer of the model has.
- `ObjectImage` - one program, protocol or IO through both: `Accept` or
  `Refuse`; then `Encode` field by field into binary items, with its errors
  (`EncodingRaises`); then `GenerateHeader` (the count, and the binding the
  generator writes for programs without one), `Generate` field by field, and
  `Compile`, which resolves the names. `OfKind` picks the registry, and `known`
  is what the binary pass has given ids when it comes to the object.
- `IncludeExpansion` - the recursion over included files as a stack of loads:
  `EnterInclude` starts one, `FinishBlock` returns it to its caller, which
  `Instantiate`s it: inputs bound, objects renamed, outputs exported, all by
  replacing strings as the code does. Every refusal is a disjunct of its own.
  `ResultIsWhole` says what the result should be by the walks through the
  includes (`Along`), without expanding. An id is a sequence of atoms, so that `a__b` arises in two ways as in the code.
- `IncludeScopes` - the reference for it: what each reference means under
  lexical scoping, defined recursively without any renaming.
- `ObjectIds` - the id of an entry as the binary writes it (`BinaryId`) and as the
  resolver works it out for the console, the graph and desc-compat (`SummaryId`),
  as records of fields whose widths are kept.
- `DescriptorValidation` - the validator: Kconfig files read line by line with
  their includes on a stack (`ReadAssignment`, `ReadInclude`, `EndFile`...), the
  defaults of choices (`Imply`), and the three checks. Beside it, external, what
  the build makes of the same files (`Denoted`, `DenotedOn`, `Runs`).
- `Deployment` - composes the two: in one directory the user edits the descriptor
  and runs desc-valid or the check of a build, desc-bin (slot after slot
  serialized, then file after file opened and filled), desc-compat, and the
  discovery of a console. Failures and kills leave files that last.
- `MC...` modules give the constants their values for TLC.

## Runs

| Run | Shows |
|---|---|
| `instances` | the numbering properties for every spec of up to three entries in a decoded list and one in a list the client ignores |
| `device_session` | that the session implements `ConsoleSession`; access checks, chunked reads and termination under lost, late, refused and malformed answers and interrupts |
| `device_stray` | finding: a late answer is printed for another object |
| `build_workflow` | what is built, reported and left alone, over three invocations with failures and kills |
| `batch_abort` | finding: an exception while a project is resolved ends a batch that was to carry on |
| `descriptor_image` | counts, references, refusals, write grants and the agreement of both back ends on what they treat alike |
| `back_ends_differ` | three findings in one trace: config IOs differ between the back ends, and the fields of leds and adc_stream are not in the binary, though "handled by standard path" and left to "the generic encoder" |
| `object_image` | for every program type, 13 protocols and 36 IO types: counts, owned targets and reports, what the checks let through, causes of errors, and exactly when the two back ends agree on the fields no handler leaves to another path |
| `include_expansion` | renaming block by block agrees with scoping, nothing is lost, cycles and only cycles are refused as such, expansion ends |
| `workspace_init` | what two inits, with failures and kills at every step and a user beside them, may destroy, report and leave to `Project.resolve` |
| `deployment` | whether the validator's verdict is the build's, what desc-bin leaves on disk when it dies, and whether the console and desc-compat speak of the objects of the image |
| `include_capture` | finding: an input named like an object of the block reaches that object |

### Properties

`InstanceAutomation`: an automatic number exceeds all earlier ones of its type,
and exceeds one of them by exactly one unless it is 0 (`AutomaticIsNext`);
objects that clash do so by the user's hand (`ClashIsExplicit`: the later of the
two has an explicit number, which the docstring "Fill in missing instances while
reserving explicit user values" of `_automate_instances` does not say: a number
is reserved only from the entry that holds it on); only missing instances are
ever written (`ExplicitKept`).

`DeviceSession`: every behaviour is one of `ConsoleSession` (`SessionKept`); on a
link without stray frames nothing is written to read-only objects
(`NoWriteToReadOnly`), blocks are read in chunks (`BlocksReadInChunks`) and a
printed seekable value has every byte once (`SeekAssembled`); every command ends
(`CommandEnds`).

`BuildWorkflow`: every image comes from a configuration that was validated
(`ElfValidated`); an item reported as built is there, with its configuration
and overrides (`BuiltAsAsked`); the exit code and the items tried are those the
options promise (`ReportsOutcome`); a step touches only its item's directory
(`OnlyItsDirectory`); invocations end (`InvocationEnds`).

`WorkspaceInit`: an init takes away what others delivered only under `--force`,
beneath its own root and once it knows what will come instead
(`OnlyForceLoses`); success means whole trees of the refs asked for, their link
and an rc file that names them (`SuccessIsComplete`); the rc file comes to name
only what was delivered (`RcNamesDelivered`); whatever is torn, moved or
overwritten, no command builds one checkout against another's NuttX or takes it
for another's project, unless someone named one of the two (`OneCheckout`).

`DescriptorImage`: a binary that was written can be walked by its counts, and the
walk finds the references of the descriptor in order (`BinaryWhole`); its
refusals have a cause (`RaisesForCause`); write bits are granted by a config IO
(`WritableIsGranted`); what both back ends treat alike comes out alike
(`AlikeAgree`). That what a protocol offers is the same in both images
(`BackEndsAgree`) is refuted by `back_ends_differ`.

`ObjectImage`: the C++ array holds the items it announces, but for an absent
bound of saturate and a service of nimble of which nothing is emitted
(`ItemsCounted`); the two images of an object are the same exactly when every
field is written in a form both back ends read, refers to objects known to the
binary pass, and is one both write (`AgreeIffWhole`, an equivalence: every other
form does make them differ; it is about all fields but the four that a handler
leaves to another path, `Deferred`, of which more below); what one part of the tool says of an object holds
for the image another makes - the targets a program owns the shape of are in it,
but for a binding with an end that is not there; and what an image of nimble refers
to, the graph and the summary show, but for metadata, groups of aios with a type and
groups under a key of the header that is none of the four lists (`ClaimsHold`); what the checks let through is sound: values move between IOs of
one dtype, merged inputs take up separate bits, register blocks of an RTU bus
share no register, and an LwM2M resource with a rule is bound to a dtype of it,
unless it was given by its number (`AcceptedIsSound`); errors have one of the
known causes (`RaisesForCause`).

Four IO types have a field that `encode_binary` does not write because another
path does: `init_val` of leds and rgb_led ("No per-instance binary encoding -
init_val handled by standard path", `descriptor/handlers/io_leds.py:32`, and
`io_rgb_led.py:32`), `batch_size` of adc_stream ("Defer to the generic encoder
(batch_size is a plain int field)", `io_adc_stream.py:34`) and `trigger_freq` of
adc_sync (the same, `io_adc_sync.py:34`). No such path exists:
`_serialize_io_object` writes device, notify and limits before it calls the
handler and nothing after it, so a value that is in the C++ array is lost in the
binary without a word. That is a disagreement of the code with what it says, so
`AgreeIffWhole` says nothing of these fields, and `BackEndsAgree` of
`DescriptorImage` states the claim for the whole pipeline. Its run has one
descriptor to take: a leds with an `init_val`, an adc_stream with a
`batch_size`, a config IO that names the adc_stream, and a protocol that binds
the three. The binary pass refuses a protocol that binds a name it has not seen, so the trace
has all of them, and its last state has three objects of no items in the binary beside
one, one and two items in the compiled array: one finding for each.

What `AgreeIffWhole` lists is also what a reader of the code should know, since
one of the two images is then not what the descriptor says, although nothing in
the repository says otherwise. The binary never holds the own fields of
lte_signal, sensor and sensor_producer, whose encoders say that there is no
encoding; the C++ text of control and trigger drops device, notify and limits; limits of an IO whose
variant forces a dtype are written with different words; a notify that is no
mapping is written only in C++, with defaults. Likewise the overlap check passes
over a block without a type, which the C++ text then writes as holding
registers. Of nimble, the binary knows a sensor entry by one of its names and
drops the others, and writes the items of aios, ess and imds whatever they
contain; of wakaama, `queue_mode` is only in the C++ text.

`IncludeExpansion`: every reference of the result reaches exactly the object it
means where it is written (`ReferencesReach`); every entry of every inclusion is
in the result once and in order, and a cycle, and nothing else, is refused as a
cycle (`ResultIsWhole`); expansion ends (`ExpansionEnds`). The first is said of files
whose blocks export no input they do not declare, and of inputs not named like an
object of the block (`include_capture` shows why). An undeclared `@INPUTS.x` is looked
for in the entries of a block only; exported, it passes into the including file, and
means that file's input x if it has one.

`Deployment`: the validator accepts a configuration exactly when the one the build
makes of the same files enables every include and every object, with the dtype
its id has in the image (`VerdictMatches`); when desc-bin succeeds every slot up
to the first gap has its file of this descriptor, when a slot is refused no file
changes, and when it dies the new files are those of the first slots, one of
them perhaps cut short (`SlotsTogether`); of a descriptor whose image is on disk,
the id that the console, the graph and desc-compat work out is the one in the
image exactly if the object is `Faithful`, and then the console asks for just
the IOs of the image and desc-compat's verdict is that on the image
(`IdsTell`). The exceptions these properties name are what a user of the tool
should know. The validator reads an include only the first time, takes
"# CONFIG_X is not set" for a comment, and applies defaults of choices in one
pass, or not at all without the firmware's sources (`ReadOtherwise`); it looks into no file of several slots and at no dtype
that a variant forces. The ids differ where an IO with a dtype of its own does
not repeat it, for control and trigger not written as uint8, and for sysinfo,
systime and boardctl, whose numbers the resolver fixes (`DtypeRepeated`,
`OnlyInstance`). Two objects share an id beyond the width of the field, by the
user's hand, or as `stats` and `statsavg`, one class counted under two names.

### Bounds

- `instances`: three entries suffice for every property, each of which relates
  at most three of them (a clash, and a third entry that moved the counter);
  two types, negative, zero and positive instances, and unreadable ones.
- `device_session`: one object of each access and one block object; sizes up
  to 2 in chunks of at most 1 byte give empty, exact and several-chunk reads;
  one waiting frame is enough for a stray answer to meet the next request.
- `build_workflow`: three invocations (`MaxRuns`), which is what it takes to
  leave a rejected `.config`, reuse it and reconfigure it; batches of three
  items, one of them unresolvable, one not found, and two in one directory.
- `descriptor_image`: four entries, so that an IO, a program, a control or
  config IO and a protocol that refer to each other meet; names that point
  ahead, to nothing, and to a redefined name; IOs whose handler writes their field
  and IOs whose handler does not.
- `object_image`, programs: every type; each field in every form the back ends tell apart
  (absent, a name, a repeated entry, a list for a single reference, an element
  of the wrong kind, a number missing from a row, too few and too many words),
  with every choice of which of five objects the descriptor defines: IOs of
  three dtypes, a program, and a protocol, which has no id yet when programs are
  encoded. Widths and ranges are scaled down (2 and 4 bits, 0..3 and -4..4);
  only comparisons with them matter. Protocols: options given or not; bindings by
  name, alias, `{io: ...}` and none; can objects and register blocks with type,
  start and setting given, missing or unknown, two blocks in every combination
  of types, which is what an overlap takes; the default seekable window is 1
  and the end of the file numbers 4, for 8 and 65535. IOs: each shared field
  absent, malformed, partial and whole; values and limits in six dtypes, one for
  each way they are treated; every variant that forces a dtype in another way;
  targets that stand before, after or nowhere, or are no names. The model was also
  compared with the code: for every one of these programs, protocols and IOs the
  real handlers refuse, raise, announce and write what the final state of the
  model says.
  Of nimble, every service alone and pairs of them, entries under every name the
  code knows, each kind of metadata, a service that is no mapping (of imds: an empty
  list, null, and a list that names a sensor); each aios entry
  is a group of its own, and a string is one number repeated for its words. Of
  wakaama, objects and resources by symbol, number, unknown symbol and nothing,
  with every access and binding; servers and the old single one.
- `workspace_init`: one workspace with both layouts in it, which overlap as they
  do on disk; two refs, one without a library and one whose apps are occupied;
  two inits, one to leave something and one to meet it. One init runs at a time.
- `deployment`: numbers of up to 3, so that the fourth object of a class wraps; a
  defconfig of up to three lines with a fragment of two, over the symbols of one
  object, every way to include, set, unset and override them, and two choices of
  which one opens the other; one entry for each way ids and requirements are
  worked out, alone with each requirement missing, and in pairs; slots {0},
  {0, 1}, {0, 2} and {0, 1, 2}, one of them refused; two commands and one edit,
  which is what it takes to write over an earlier image and to ask about it.
- `include_expansion`: two levels of blocks and a file that is missing, which
  is what it takes to forward an input, export an export, include a block twice
  and meet a cycle. No given input is named like an object of its block: those
  projects are the ones of `include_capture`. `MaxDepth` exceeds the number of
  files and is never reached (`TypeOK` says that no file is loaded inside
  itself).

### Fairness

`BuildWorkflow`, `IncludeExpansion` and the calls of `DeviceSession` are loops of
one thread that nothing waits for: weak fairness of their own next steps.
`receive_frame` returns, at the latest by its timeout, so a call has a next step
whether or not the device answers; nothing is assumed of the device, the user or
the link. External build tools are assumed to terminate. The other modules state
no liveness and no fairness: their properties are of states and steps. The
systems really stop: a finished decoding or image, a console that was left and
the last allowed invocation or command have no next step, hence
`CHECK_DEADLOCK FALSE` where it is set.

## Proofs

`InstanceAutomationProofs` proves, for every order of lists, every set of types
and entries and lists of any length, type correctness (`TypeCorrect`), two
invariants (`Numbering`, `NoAutomaticClash`) and one action
property (`ExplicitValuesKept`). The assumptions are those the module declares:
the lists have distinct names and the markers for a missing or unreadable value
are no integers. The invariants are not inductive alone: the counters are local
to the walk, so the strengthening says that, in the list being walked, the
counter of a type exceeds every readable instance of the type already visited
(`CounterAhead`) and is 0 or one past one of them (`CounterTight`), that the
entries passed are filled (`FilledWhenPassed`) and the spec otherwise keeps the
shape of what was given (`SameShape`), and that the decoded objects mirror, in
order, entries of the numbered lists (`ObjectsMirror`, `ObjectsInOrder`). Each
action then disturbs at most the entry at `pos` and one counter.

`BuildWorkflowProofs` proves, for any configurations, symbols, directories and
invocations of any length, with any failures and kills, the run's four
invariants (`TypeCorrect`, `OnlyValidatedBuilt`, `BuiltAsReported`,
`OutcomeReported`) and its action property (`DirectoryConfined`). Assumed are
that each invocation has an item and that the markers are no values. The
properties speak of finished invocations, so the invariant says what a running
one has established: `AtAnItem` (it works at an item of its request, and failed
items lie behind it only under `--continue-on-error`), `Configured` and
`Overridden` (the `.config` of the item is for its configuration and holds the
first `k` overrides, all of them from the refresh on), `OnlyBuilds`, `Validated`
(what is about to be built was accepted) and `StillBuilt` (earlier items are
still as asked unless an item since shares their directory). A step inside an
item disturbs only the facts of that item (`WithinKeeps`), one that ends it
turns them into `StillBuilt` or the outcome (`ItemDoneBuilt`, `ItemDoneKeeps`),
and one lemma per action establishes its own. `OneMoreApplied` is the lemma on
overrides: setting the next one keeps those before it that are not for the same
symbol.

`DeviceSessionProofs` proves, for any objects, lists, sizes, chunks and answers,
that a session keeps its types (`TypeCorrect`) and implements `ConsoleSession`
(`SessionImplemented`: the initial states map to initial states and every step to
a step or a stutter), and its three invariants on a link that drops late frames
(`ReadOnlyKept`, `BlocksChunked`, `SeekShown`). What makes the mapping inductive
is `SessionInv`: how far a call has come says whether the link is up and the
client holds it (`Serving`, `Holding`), and which objects a discovery has found
and has yet to ask (`Collecting`). For the invariants, a waiting frame answers
the request under way (`Matched`), and a call past its access check or in the
middle of a seek knows what it was told (`PlainReads`, `MayWrite`, `Assembling`).
`ConsoleSession` states no fairness, since ENABLED under a mapping is out of the
prover's reach; that calls end is `CommandEnds`, which TLC checks.

`ObjectImageProofs` proves five of the run's six properties, for any objects, configs and
defined names. `ItemsAlwaysCounted` (`ItemsCounted`): a compiled program, protocol or IO of
any type has as many items as were announced for it, unless a bound it may leave out is
absent or a service of nimble has nothing to write. The code announces the number
before it writes and counts in one place what it writes in another, so the invariant
carries the difference (`Counting`): the items there and those announced for the fields
still to come add up. A step takes the first field off (`TotalOfTail`) and must write
what was announced for it: one lemma per kind of object says so (`ProgramItemCounted`,
`ProtocolItemsCounted`, `NimbleItemsCounted`, `WakaamaItemsCounted`, `IoItemsCounted`), and
for a list of entries of which each gives one item, `FlattenOfSingles`. `RefusedForCause`
(`RaisesForCause`): whatever a back end refuses of a program, protocol or IO, it refuses
for a cause its handler knows. The causes are stated over whole configs while a pass
takes one field after the other, so the invariant says what a pass knows so far
(`Passing`): the fields it is done with do not raise, and what an IO's wrote is in the
text; when it ends, it tells of all of them (`Told`). One lemma per kind of object
then goes from the field that raises to the cause (`ProgramHasCause`,
`ProtocolHasCause`, `NimbleHasCause`, `WakaamaHasCause`, `IoHasCause`). They need to know
which fields a type has in which order (`HandlersNameFields`, `ProtocolsNameFields`,
`OthersNameFields`, `IosNameFields`), what the names in a config resolve to
(`ReferencesRight`, `KnownRight`, `FlattenRight`), and for the register blocks of RTU
that the bindings take up the sum of their widths (`TotalUnfolds`, `SpanRight`) and that
two blocks meet just where the one does not end before the other (`RangesMeet`). These
operators are recursive functions, whose values are shown to exist and then compared by
least counterexample. Assumed is the shape of configs (`ProgramAssumption`,
`ProtocolAssumption`, `IoAssumption`): values are tables, what is no list is one row, a
row of a program's field is empty or complete, the cells of a nimble service and the
symbols of an LwM2M object are of the kind their place says, and an entry is of the
kind it says; and references are no numbers. The proof found a cause the
property had missed: a seekable block without bindings that starts beyond the register
file is refused although no register of it lies outside.

The other two compare the finished images with the config, so they need to know what
is in them (`Written`): an item of the binary is one that some field of the type gives,
an item of the text one of a field that did not raise, or the binding of the header,
and a text that is done has those of every field. `AcceptedStaysSound`
(`AcceptedIsSound`) then goes from the checks that desc-gen and the validation made
(`Told`) to the words. For types that move values, every field but a control is one of
two sides with different shapes (`Mover`, `SidesWritten`), which the check compared
(`MovedRight`); that register blocks are apart is what the check of their ranges says
(`BlocksApart`); the inputs of bitmerge are compared one after the other with what is
taken so far (`CheckedApart`), where input i of the item is some input of the config
further on, since others are dropped (`FlattenOfTriples`); and an LwM2M resource is
written as two numbers in one word that split again (`LowOfPair`, `ResourcesRight`).
`ClaimsAlwaysHold` (`ClaimsHold`) goes from what reports say to the words: for each
type that owns targets there is a field that writes them, or the binding of the header
(`HandlersOwn`), each such field writes all that it refers to (`SinglesReached`,
`ListsReached`, `OutputsReached`, `BindsReached`); and the words of each service of
nimble are numbers and references that are shown or left out by name (`OnlySensor`,
`ServicesShown`). To say it of every config, two properties had to be stated more
sharply than the runs had asked: one complete binding of a gateway says nothing of
another whose end is missing (`Incomplete`), and the report leaves out groups of aios
by two different criteria (`Unlisted`).

`TypeCorrect` (`TypeOK`) says what an image may consist of: items named after a field of
the type's handler, a limit or the header's binding, of words that are numbers, objects
of the descriptor, or the one symbol that no header declares and the compiler refuses. It
holds only of what was accepted and did not raise: the number of an absent port, a
resource the enum does not have or a block without a start would be no word at all. So
the invariant (`Typed`) is kept together with `Passing`, which knows that the checks were
passed and that the field at hand does not raise, and one lemma per kind of object goes
through its shapes (`ProgramItemsMade`, `ProtocolItemsMade`, `NimbleItemsMade`,
`WakaamaItemsMade`, `IoItemsMade`): a field of a program has a default for each number it
is read as (`HandlersFormed`), every setting of an LwM2M server is a number
(`ServerMentions`), an entry's ids are numbers unless the binary refuses or the compiler
will (`EntryNumbers`), and the flags of an IO are a sum of powers (`MaskIsInt`). The
proof made the assumptions say which cells a place of a config may have: a scalar is a
number, a limit a number or missing, and a row has the cells its shape reads.

`DeploymentProofs` proves `SlotsStayTogether`: for any descriptors, edits and
sequences of commands, a desc-bin that succeeds leaves every slot before the first
gap in its own file, one that refuses a slot changes no file, and one that dies
leaves the files of the first slots, at most the next one cut short, and all others
as it found them. The property speaks of a run that ended, so the invariant says how
far a running one has come: nothing is touched while it serializes (`Serializing`),
then the files of the first `written` slots hold this descriptor and the others are
as before, but for one that is open (`Writing`), and what was serialized is the
slots in order (`Serialized`). That the loop which counts slots stops at the first
gap is `LeadingCounted`, for which one of 1..n must be missing from a set of n
numbers with 0 (`GapExists`); that writing one slot's file leaves those of the
others alone is `PutKeeps`, from `PathsApart`. Assumed are the shape of projects
(`ValidationAssumption`: finitely many slots, `descriptor0` among them, without which
a file is no such file) and that edits stay among them (`DeploymentAssumption`).

Also proved there, with the same invariant as a part, are `IdsToldTruly` (`IdsTell`) and
`TypeCorrect`. What the two codecs make of one entry is compared in `IdsAgree`; from it
`SummaryTold` says what a console or desc-compat is told of a slot, and `SharedIds` when
two objects share an id. The numbering is a recursive function, of which the prover
knows nothing until it has a value: that one exists is `NumbersExist`, that it is the
only one and rises along the objects of a type is `InstanceRises`, both by least
counterexample from `RuleLocal` (a number depends on those before it). The invariant
carries this from the descriptor to the disk and the report: a run holds images only of
slots it could serialize (`Held`), a whole file not older than the last edit is the
image of its slot (`OnDisk`), and a report is about the descriptor (`Answered`). For the
types, no Kconfig file is open twice and what was read has the shape of its lines
(`ReadTyped`), and images, files and reports are those of slots (`Shaped`).

`VerdictsRight` (`VerdictMatches`) compares the reader of Kconfig files, which goes line
by line with a stack of open files and a set of visited ones, with the text that the
includes stand for. That text is defined by splicing up to a depth; that it exists at
every depth is `TextsExist`, by least counterexample. The invariant `Judging` says that
either a file has been included a second time (one way to read otherwise, which the
property excepts), or the
stack lies at places in the spliced text (`Places`), each where the file below it opens
the next, and the values are what the lines before them set last (`LastSet`): a line
read moves the last place on, an include opens a place where its text begins, and a
file that ends leaves the place behind it (`PlaceAdvanced`, `PlacePushed`,
`PlacePopped`). No file is opened deeper than there are files, since every one on the
stack was visited once, and so the splicing is deep enough. The defaults and what they
imply follow in rounds (`OneRound`), and with the same values the checks find nothing
just where the build enables everything (`SameFindings`, `JudgingTells`). Assumed beyond the shape of projects is that a file
with one descriptor has the slot 0 and no other (`IsProject`).

`WorkspaceInitProofs` proves all five properties of the run, for any roots and
nesting, refs, trees and requests: `TypeCorrect`, `OnlyForceDestroys`,
`RcFollowsDelivery`, `SuccessMeansComplete` and `CheckoutsTogether`. The last two
speak of what an init leaves, after a history of inits that failed anywhere, so the
invariant `InitInv` says how far the one under way has come: after `prepare` the
target holds nothing (`Cleared`), each fetch adds its tree to those before it
(`Arriving`), and the rc stages are reached only with all of them (`AtRc`); a link is
only beside apps (`LinksLead`) and an rc file names NuttX only where it names Dawn
(`RcTogether`), from which `CheckoutsTogether` follows in every state. What a
removal leaves that stops anywhere is `RemovalParts`. Assumed is what the module
declares (`WorkspaceAssumption`): markers are no values, and requests are requests.

`IncludeExpansionProofs` proves, for any files that include each other in any way,
type correctness with no file inside itself (`TypeCorrect`), that loads nest no
deeper than there are files (`NestingBounded`, so that the model's bound takes
nothing away) and `NothingLost`, which is `ResultIsWhole`. The stack is tied to the
includes that led to it (`Route`); the files it holds then show a cycle to be one
(`CycleFound`), and what has been expanded to be on none (`Settled`, with
`IncludesEnd`). `Gathered` says that the objects of a load are those beneath the
includes it has instantiated, in order, and that a block has all beneath its own
(`Covers`). `CoversMore` is the step from one include to the next and `EndCovers` that
from the includes to the file; both rest on `WalkUnique`, that a path leads through
one sequence of files. That the bounded paths of the property are all there are is
`PathsSuffice`: a path as long as there are files would lead to a cycle
(`LongPathsCycle`). Assumed are finitely many files and that projects have the
shape of descriptors (`IncludeAssumption`).

`DescriptorImageProofs` proves all five invariants of the run, for any names, any
choice of entries and descriptors of any length: `TypeCorrect`, `RefusedForCause`,
`WrittenWhole`, `WriteBitsGranted` and `BackEndsAgreeAlike`. The properties speak of
finished images, so the invariant `ImageInv` says what an unfinished one holds: the
metadata and the first n entries, each as its handler writes it from the descriptor
alone (`BinRight` with `Serializes`, `TextRight` with `Generates`), and that the table
of names knows just the programs and the entries before the one at hand (`KnownFor`).
The order of the four lists makes that enough: an IO or a program a program refers to
is known when it is reached (`EarlyKnown`), and what is unknown is left out with the
others kept in order (`KeptInOrder`, `LeftOut`); `Kept` is a recursive function, whose
value is shown to exist (`KeptExists`) and then compared by least counterexample.
`BackEndsAgreeAlike` rests on `NamesApart`: with distinct names the position the
serializer has for a name is the entry the compiler's macro stands for; `EntriesMatch`
then compares what the two handlers of an entry write, item by item. Counts, of
objects and items, follow from the same invariant. Assumed is what the module
declares (`DescriptorAssumption`): the entries are entries, and a config IO has one
target.

Model-checked only: the three liveness properties, which need ENABLED; `ReferencesReach`,
whose reference reading in `IncludeScopes` is recursive, so that what it says of any files
is an induction over them; and `AgreeIffWhole` of `ObjectImage`. The last compares the
words of both back ends in either direction for some eighty types, and holds of the configs
the run takes, not of any: where two fields or two entries of a nimble service differ by
words that make up for each other, the images agree although neither is whole. A theorem
would have to assume that away field by field.

## Not modelled, and why

Header parsing, reports, value formatting, templates, plugins and the command
line are conversions of text without state. Two dawnpy processes on one build
directory or one workspace are not modelled: no lock exists and none is
documented. Frame layout, CRC and value packing are left out, since a frame is
whole or lost to the session above them, and so are the words of a scalar and
the 10-bit size in a config id: the images are compared by the words' meaning.

Of the validator: the runtime check of desc-valid, which decodes the descriptor
and prints it, the warnings on unused symbols, and the scan of the firmware's
Kconfig for choices, whose result is a constant. `BuildWorkflow` takes the verdict
as a set of contents it rejects. desc-compat is modelled as the command calls it,
without the size of the image. Key conflicts and the conflicts of plugins' devices
compare tables in one pass. The waiting for heartbeats depends on trackers that
no file of the repository updates: a model would check an invented environment.

Of the program handlers: the sub-fields of sequencer that the config references of
other objects use, write bits (`DescriptorImage` has them), scalars of more than
one word, references written as `{io: ...}` or `{ref: ...}`, fields that want a
list and hold something else, and program types without a handler, which only
out-of-tree plugins define.

Of the protocols, allocation reports but those of nimble, includes, and UUIDs and
strings beyond telling two apart; a string counts as one word. Of the IOs, the config type
(`DescriptorImage` has its references), the class of a type, subtype and
variant, negative and fractional values, and an IO that targets itself.

Of the includes, variables and Kconfig values are
resolved before expansion and enter as files that cannot be loaded; a file with
several descriptors, each expanded on its own, is left out, and so are the
strings of an entry other than its id and references, although the code renames
these, too, when they equal an id of the block.

## Plan

1. An abstract specification of a build directory, implemented by `BuildWorkflow`.
2. The 10-bit size of config items, where an image of more words than it can say
   would be cut.
