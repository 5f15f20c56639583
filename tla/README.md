# A TLA+ verification of protoc-gen-go-plainjson

The plugin turns a protobuf message type into Go code that writes a message as one
flat JSON object. It works in three stages, each with a state of its own:

1. **plan** — walk the message tree from one type, flatten it, and collect an ordered
   list of *entries*, each a write of one key (`src/generator/plan.go`, `oneof.go`,
   `rules.go`, `fields.go`, `options.go`);
2. **analyse and emit** — decide which entries contest a key, choose the machinery
   that settles it at run time, and write one encoder function per message and
   formatting scope (`analyse.go`, `emit*.go`, `generator.go`);
3. **encode** — the generated function writes a message through that machinery
   (the code `writer.write` emits, and `src/plainjsonpb/object.go`).

Nothing runs concurrently: the plugin works through a request in one goroutine, and
an encoder runs in the goroutine that calls it and shares no state with another call
(its tracker, buffer and flags are local variables). What is hard here is sequential:
decisions made in one stage that a later stage trusts, three mechanisms stacked on
one write, contexts inherited along a path, recursive types, and tables filled in the
order things happen to be met.

## Inventory

| component | state | operations | talks to | what is hard | what makes it correct |
|---|---|---|---|---|---|
| collision analysis, `analyse.go` | the plan's tracker, buffer and guard decisions | `analyse`, `firstConflict`, `exclusiveOf` | reads the plan, is trusted by the emitter | it must foresee which writes can meet | refuses exactly the real clashes, names a real pair |
| encoder collision machinery, `emit.go`, `emit_collection.go`, `object.go` | flags, `Keys.seen`, `Object.order` and `values`, the bytes written | `write`, `writeDynamic`, `Claim`, `Set`, `Spread`, `Encode` | driven by the entries in order | flags, tracker and buffer on one key; errors half way | no key twice, no key lost, errors name the first clash, the policy is obeyed |
| option scopes, `options.go`, `buildPlanWith` | the scope record copied down the walk | `applyFile` … `applyField`, `interiorScope`, `fingerprint` | read at every step of walk and emission | what a nested type inherits and what is its own | formats follow the path; equal fingerprints give equal encoders |
| plan walk, `plan.go`, `oneof.go` | entries, `oneofSeq`, the recursion's contexts | `walkMessage`, `walkOneof`, `walkField`, `descend` | calls rules, fields, scopes; feeds the analysis | recursive types, bounds, oneofs walked at their first branch, inherited ids | ends; declaration order; nothing lost or twice; ids shared only by exclusive entries |
| rules, `rules.go` | resolved merges and groups | `addConstants`, `resolveMerges`, `resolveExclusiveGroups`, `appendMerges` | before and after the walk | a source leaves the walk only where the walk meets it | sources written once, by the rule |
| field options, `fields.go` | none | `addPick`, `addLifts`, `addCollection`, validation | the walk | three ways to make a collection entry | an entry that invents keys is dynamic |
| generator and emitter, `generator.go`, `emit.go`, `emit_struct.go` | `names`, `queue`, `enums` | `declareEnums`, `emitMethods`, `encoderName`, `flush`, `emitBody` | builds a plan per encoder | encoders shared across use sites; names by order; a queue that refills itself; helpers declared by a walk of their own | names distinct, calls and helpers resolve, sharing is right, generation ends |
| key naming, `options.go:263` on | prefixes, suffixes, segments | `push`, `key`, `applyCase`, `guardVar`, `lowerCamelPath`, `stripEnumPrefix` | the walk, the emitter | casing twice; suffixes the other way round; names made from names | nothing of a name lost; distinct names stay distinct |
| value emission, `emit.go:250` on, `emit_value.go`, `emit_collection.go`, `emit_struct.go` | the message, Go's map order | `entry`, `openBranchGuards`, `scalar`, `collection`, `oneofValue`, `merge` … | inside `write` | presence of optional, oneof and collection fields; inactive branches; elements that fail | what is held is written, what is not is silent; one branch of a oneof at a time; merge priority |
| run-time formatting, `encode.go`, `wkt.go`, `maps.go` | none | `Timestamp`, `Duration`, `SortedKeys`, `PickStruct`, `Any` … | called by encoders | 64-bit overflow, signs, digit grouping, map order | the value written is the value meant, the same each time |
| entry point, option protos, tests, examples | – | – | – | – | – |

## Modules

| module | what it is |
|---|---|
| `Analysis` | the operators of `plan.analyse` on any sequence of entries with a key, a mode and an id |
| `PlanEntries` | entries, the writes one message makes through each, and the promises about them |
| `FlatObject` | abstract: what a collision policy promises, with no machinery |
| `ObjectWriter` | one plan from analysis to the end of one encode |
| `Scopes` | option records, inheritance, root scopes, the fingerprint |
| `Schemas` | the message types, their rules and their validation |
| `PlanWalk` | building the plan of one message, on `Schemas` and `Scopes`, ended by `Analysis` |
| `Generator` | one file: names, queue, and `PlanWalk` run for each encoder |
| `Formats` | times, durations, integers, floats and bytes as JSON, in int64 arithmetic |
| `Values` | the JSON of any scalar or well-known value; `jsonShape`; sorted map keys; `PickStruct` |
| `Emission` | what each kind of entry offers for a message, on `Values` |
| `KeyNaming` | `keyParts`, casing, and the names made from names |
| `Encoder` | `PlanWalk` and `ObjectWriter` composed: from a message type to the object of a message |
| `MCObjectWriter`, `MCPlanWalk`, `MCGenerator`, `MCEmission`, `MCKeyNaming`, `MCEncoder` | the small instances TLC checks |
| `LeastElements` | least and greatest elements of sets of naturals, for the proofs |
| `ObjectWriterProofs`, `ScopesProofs`, `PlanWalkProofs`, `PlanShapeProofs`, `EncoderProofs`, `GeneratorProofs`, `EmissionProofs` | theorems |

`ObjectWriter` and `PlanWalk` meet in `Analysis`: the first checks what the analysis'
decisions do at run time for *every* plan, the second which plans the walk produces
and whether the ids in them mean what the analysis takes them to mean. `ObjectWriter` and
`Emission` meet in what an entry offers: `ObjectWriter` takes `writes` as given, any that
fits `PlanEntries` and keeps the promises or not; `Emission` computes the offers from a
message, and its `OffersFitPlan` and `BranchesExclusive` say that they fit: an entry that
is not a spread offers at most one pair under its own key, and two branches of one oneof
never both offer any, nulls aside. The keys of objects that are spread are any, as they
are in `ObjectWriter`: an element's encoder may write one twice, and what an index, a
separator and a key make (`SpreadKey`) may be what others make. What becomes of two offers of one key is not asked
again in `Emission`. `Encoder` puts the first two together, with messages whose oneofs
hold one branch at most.

### ObjectWriter

`plan`, `writes`, `policy` and `wins` are chosen at the start: an entry list, what each
entry writes for some message (nothing when it is empty or its branch is not active),
and the root scope's policy. `Reject` and `Accept` are the two ends of `plan.analyse`;
`needsTracker`, `needsBuffer` and `guarded` are what it decided. Then `i` and `k` point
at the next write. `wrote` holds the flags of `guardVar`, `seen` is `Keys.seen`,
`order` and `values` are `Object`'s, `out` is what went to the encoder.

| action | code |
|---|---|
| `SkipGuarded` | `if !wroteKey` of `writer.write` |
| `ClaimRefused`, `ClaimFails` | `Keys.Claim` finding the key, silently and strict |
| `WriteField` | `FieldStart` and the value |
| `SetField` | `Object.Set` |
| `ValueFails` | the value's encoder returns an error after the key was claimed |
| `ElementFails` | `Encoded` or a merge conflict returns an error before a key is offered |
| `NextEntry`, `Close` | the loop of `emitBody`; `writer.close` |

Three modes of entry tell apart which of these a write meets: `static` entries go
through `writer.write` and are compared by the analysis; `spread` entries go through
`writeDynamic` or `Spread`, which know the tracker and the buffer and not the flags;
`pick` entries (EXPLODE over scalars) count as dynamic for the analysis and go through
`writer.write`.

### PlanWalk

The recursion is a stack of levels. A level has the message, the positions of its
fields still to walk, the oneofs already walked (`done`), and `walkCtx` (scope, path,
depth, types seen, inherited exclusivity id). A oneof whose branches are walked is a
level of its own. Each action is one way through `walkOneof`, `walkField` or `descend`:
`SkipOneof`, `OmitOneof`, `TagOneof`, `SingleKey`, `WalkBranches`; `DropField`,
`RejectField`, `WriteLeaf`, `WriteCollection`, `Pick`, `Lift` and their rejections;
`Nest`, `Cycle`, `Descend`, `Return`; `Begin`/`RejectRules` before the walk and
`Finish`/`Refuse`, which append the merges and run the analysis, after it.

Messages are records of options, fields, oneofs, constants, merges and groups; a field
is the pair of its message and position, a path a sequence of those. An entry's key is
its last segment (KEY_FROM_LEAF, no prefix or suffix, casing the identity on names that
are atoms); options that only propagate are one function, `format`. A map is treated as
a repeated field and a well-known type as a leaf, as in `isWellKnown`. The validations
that need a tag, a prefix or a map cardinality are the flag `invalid` of a field.

### Generator

`names` is `emitter.names` with the fingerprint as a record; the text between the two
separators is known, so only their concatenation is ambiguous, and the record keeps
exactly that. `EmitMethods` is one message of the loop in `GenerateFile`, `StartBody`
one turn of `flush`, `PlanStep` a step of `PlanWalk`, `EmitCall` one call of
`encoderName` from the body being written, `EndBody` the end of `emitBody`. `CallSteps`
are the fields an entry's code calls encoders for, by position; `call` is the position of
the last of these calls written, 0 before the first. A Go
identifier is a sequence so that appending `_N` can meet a message that is called so.
The order in which MERGE_CONFLICT_LAST_NON_EMPTY reverses its sources, and with it the
order of their calls, is left out.

Before any body, `declareEnums` walks all messages a generated one can reach and declares
the helpers of each enum it meets (`DeclareRoot` starts it on the next message of the
file, `DeclareMessage` and `DeclareField` go on from `agenda` and `seen`);
`HelperCalls` are the helpers a body then needs, and `HelpersResolve` compares the two
walks. `ValueSteps` are the fields whose values the body writes: all sources of a merge,
whatever its cardinality, but for a collection that is counted.

### Encoder

`Walk` is a step of `PlanWalk`. `Call` takes the entries of a finished walk as the plan
of `ObjectWriter` (`Planned`: key, mode, id, and the branch the id is of, which the code
does not keep) and chooses a message: a branch or none for each oneof on the way to an
entry (`Holdings`), then which entries write: all that `MustWrite` (a constant, a oneof's
own key when the oneof holds a branch or its null is not omitted) and some of those that
`MayWrite` (a merged key, a field when every branch above it is held). `Write` is a step of `ObjectWriter`. So what `ObjectWriter`
assumes of plans and messages is here a property, `PromisesKept`, and `ObjectKeysOnce`
holds without assuming it. Types have no declared groups, whose promises only the user
can keep, and encoders are generated without `emit_empty`.

### Emission, Values, Formats

A message is the function `held` from paths to `Unset` or a value; `Consistent` says
which messages Go's types allow: nothing is held below what is not, and one branch of a
oneof at most. A case is a plan and the messages to run it on. `Offers` has one operator
per generated block (`ScalarOffers`, `ObjectOffers`, `CollectionOffers` with one per
cardinality, `DiscriminatorOffers`, `OneofValueOffers`, `MergeOffers`,
`StructPickOffers`); `Worth` is the presence test of a scalar, `Present` the one of a
merge source, two pieces of code that decide the same question; `Reached` is what
`openBranchGuards` puts around an entry.

| action | code |
|---|---|
| `SkipInactive` | a guard of `openBranchGuards` not entered |
| `MergeFails` | more than one live source under MERGE_CONFLICT_ERROR |
| `Emit` | the block of one entry |
| `EmitFails` | a value whose encoder, `Any` or `Encoded` returns an error: what was offered before stays, nothing follows |

A JSON value is its JSON type and its content; text is kept as the parts it is made
from, so that a time can be read back and compared with the one held. A failure is a
value too until the entry that meets it ends the encode. `order` gives for each of
`KeySets` the order in which Go happens to list such keys, chosen once; `Deterministic`
compares it with every other. `SortedKeys` arranges them so that none is before a lesser
one, which is all that `sort.Slice` promises. `PbLevels` are the `google.protobuf.Value`s
by how deep they nest, and `PbJSON` is the recursion through `Struct`, `ListValue` and
`Value`. `Down` is the loop of `PickStruct`, `LiveTo` the one that gathers the live sources
of a merge.

`Formats` is arithmetic on integers of `Word` values on either side of zero, wrapping as
Go does, with a second of `Kilo` milliseconds: TLC takes 4 and 128, small enough that
nanoseconds overflow, the proofs take 1000 and any `Word` of 64 bits or more.

### KeyNaming

A text is a sequence of characters, each a letter and its class. `Push` is
`keyParts.push`; `Raw` and `Key` are `key` before and after `applyCase`. `SplitWords` says
where words begin and end instead of looping over characters. `GuardVar`,
`LowerCamelPath` and `StripEnumPrefix` are the other places that make a name from a name.
`IndexedKey` and `IndexPrefix` are what `collectionIndexed` puts before the keys of an
element; that keys of two elements differ (`IndexedKeysApart`) needs a separator that
does not begin with a digit, as the default one does not.
The invariants evaluate them on the segments pushed so far, that is on all pairs.

## Runs

All runs assume what the code is: sequential. Fairness is `WF(Next)` on the whole next
step, that is, the plugin or the encoder is not stopped half way; no single action is
assumed fair. `CHECK_DEADLOCK FALSE` is set everywhere because every run of the program
ends: with a plan, a file, an object or an error. The liveness properties are what say
that it does not stop anywhere else. `Emission` and `KeyNaming` have no loop that could
fail to end, each step is one entry or one level further, and state no fairness; nor
does `Encoder`, whose two parts are known to end.

| run | instance | shows |
|---|---|---|
| `ow_any` | plans of up to 3 entries over 2 keys, 2 groups of 2 branches (1 group, of static entries, in plans of 3), spreads of 1 or 2 keys or of one key twice, 3 policies, both winners, every message | promises kept or broken: `NoKeyLost`, `CollisionReportIsFirst`, `StrictMeansUnique`, each encode ends (`Terminates`); promises kept: `KeysOnce`, `GenerateRefusesClashes`, and where LAST meets no dynamic entry the encoder implements `FlatObject` (`ImplementsPolicy`) |
| `pw_plans` | 2 mutually recursive types with all boundary modes and bounds unset, lifted, 1 and 2; 2 levels of 3 fields with every oneof mode, groups, merges, picks, lifts and enum formats; the same under ERROR_GENERATE with one level of oneofs and no groups | the walk ends (`WalkEnds`) and its depth is bounded; ids mean exclusion (`SharedIdMeansExclusive`); declaration order; nothing twice or lost; formats from the path; a refusal is never about two branches of one oneof (`RefusalIsJust`) |
| `gen_file` | 3 types nested in each other under different formats, bounds and cardinalities, equal symbols; 2 enums of one Go symbol, one of them with omitted values; a merge of an enum and a list of the other, indexed, counted or under KEYS | names, calls, enum helpers, sharing, termination |
| `enc_objects` | holders of 3 fields, two of them in a oneof of each mode, one a message with fields or a oneof of its own; keys that meet in the oneof, behind it, in its tag, in constants, merges and spreads; 3 policies and both winners; every choice of branches | what `ObjectWriter` assumes the walk provides (`PromisesKept`); no key twice (`ObjectKeysOnce`); of the fields of one key the first declared wins, or the last (`DeclaredFirstWins`) |
| `em_values` | every kind of entry in turn; every type, presence and format for a scalar; lists and maps of up to 2 elements under every cardinality and pick that Go compiles; a oneof inside a branch of a oneof with all its entries at once; merges of 2 sources of any type and of 3; Structs of depth 2; on every message those fields allow | what is written is what is held (`PresenceDecides`, `MergeResolves`, `TimesReadBack`, `PickReadsStruct`), fits what analysis and rules assumed (`BranchesExclusive`, `OffersFitPlan`, `ShapeAsChecked`), never depends on map order, and fails only for cause |
| `kn_names` | all names of up to 2 characters over a, A, b and _, and 16 longer or with digits and wide letters; 2 levels, 3 affixes; separators with and without a digit, indices 1, 10 and 11 | affixes nest, casing keeps the text and is stable, flags, mask paths and enum names stay apart, and so do the keys of two elements |

Two keys suffice because every mechanism is per key and two are needed for order; three
entries because a third is what makes tracker, buffer and contested pair meet. Two
types make every cycle (direct and mutual), and a bound of 2 lets a walk pass one bound
inside another. Three types let one encoder be called from two others. Two elements are
the fewest that have a first, a last and an order; two levels of oneof the fewest where a
branch's own guard is not enough; three merge sources the fewest where the last is
neither the first nor the second. The cardinality
of a spread is bounded by `MCRuns`, depth bounds by `MaxBound`, plans by `MaxEntries`, pushes by `MaxDepth`;
no other counter grows.

### Where code and documents part

Each of these runs checks one statement of the documentation or of a comment, and TLC
finds a behaviour of the code against it.

| run | statement | what happens |
|---|---|---|
| `ow_broken_promise` | a broken promise falls back to `collision_wins` (OPTIONS.md:979) | both members are written: the key is there twice |
| `ow_last_tracked` | LAST: a later write replaces an earlier one (OPTIONS.md:1052) | with any dynamic entry in the plan the tracker refuses the later write |
| `pw_merge_nested` | merge sources reach the output only through the rule (OPTIONS.md:880) | a source inside a nested object, or taken by a pick or lift, is written there too |
| `pw_nested_oneof` | different branches are never reported (README.md:257) | a oneof inside a branch replaces the id of the outer one |
| `gen_exhausted` | past the bound a subtree keeps its shape (`plan.go:261`) | a field's own `flatten` hoists it |
| `enc_unset_tag` | no key is written twice, whatever the collision policy decided (`invariants.go:52`) | a discriminator inside a branch, with `omit_if_unset` off, writes null while the branch is not active (there is no guard without `emit_empty`, `emit.go:254` says there is one); having the id of the branch it is exempt from the others, and their key is written beside it |

The rest of what was met has no run of its own. Each of these is either a premise of a
property above, which says so in its comment, or a place the models leave out:

- The fingerprint joins separators with commas: two pairs of separators that contain one
  can have one fingerprint, and then two formats share an encoder. The instances have no
  comma in a separator and `SharedScopeSound` has that as its premise.
- Entries inside one branch of a oneof share the id that exempts different branches, so
  their clashes are not reported; `Honest` assumes the keys of a branch distinct.
- A name that `encoderName` numbers is not checked again, so a message called `X_2` can
  meet the second encoder of `X`. Names and enum helpers are unique in one file only: two
  generated files of one Go package can declare the same one.
- Nanoseconds overflow int64 for times beyond 1677 to 2262 and durations beyond 292 years;
  `TimestampExact` and `DurationExact` except exactly that.
- Casing is not idempotent for words of one letter or that begin with a digit (`a_b_c`,
  `aBC`, `aBc`), and cuts a first letter of several bytes in half; `CasingStable` and
  `CasingKeepsText` have these as premises. Keys that differ only in separators get one
  flag, declared twice (`FlagsApart`).
- `jsonShape` calls bytes under ARRAY a string, a field mask an object, NaN a number, and
  knows nothing of COUNT, JOIN or FIRST (`Misjudged` in `ShapeAsChecked`).
- A merge source that is a map or a list of messages counts as present when it is not
  nil, OPTIONS.md:895 says non-empty (`MergeHolds`); one that is a plain message is
  written as `{}`; one that is a scalar branch, like an optional bytes field anywhere,
  gives Go that does not compile.
- Omitted enum values: an optional field of such a type loses an explicit zero, and under
  `emit_empty`, in oneofs, collections and merges omitted values are written
  (OPTIONS.md:1075-1079, 1276-1280). `PresenceDecides` leaves such enums out.
- A pick through a message that ends on a list is not marked dynamic (`addPick`): under
  INDEXED or EXPLODE its encoder claims keys from a tracker it does not declare.
- FIRST, LAST and EXPLODE write nothing for an empty collection, `emit_empty` or not
  (OPTIONS.md:1081); a nil element under EXPLODE or INDEXED ends the encode.
- KEYS and VALUES inherited by a list, JOIN over well-known types, EXPLODE over a map and
  a lift that ends on a list make code that does not compile; the payload of an Any may
  bring an `@type` of its own; enums with aliases have one Go case twice, and
  `strip_prefix` can make two names equal.

## Proofs

What TLC shows on the instances above, these theorems show for every value of the
constants: any number of keys, entries, types, fields, bounds.

- `TypeCorrect` and `WalkTypeCorrect`: type invariants. The second needs more than
  `TypeOK`, because `path`, `excl` and the scopes of an entry come from the level on top
  of the stack: `WalkInv` adds that levels are *safe* (their fields exist in their
  message, their depth is below `MaxBound` plus the number of types seen), that the
  schema is one of `Schemas` and the root's bound at most `MaxBound`, that paths, picks
  and merge sources go through fields the plan's message can reach, and that the index
  separator of every scope is one somebody set or the built-in one.
- `WalkDepthBounded`: from `WalkInv`. `Descend` adds a level only when the type is new,
  so both sides grow by one, or when there is a bound and the new depth is within it.
- `FormatsPropagate`: `Spec => []FormatsFromPath`. `LevelsInv` says how far a level is
  walked: a level of branches has those of one oneof, any other has only fields left that
  come after those behind it, whose oneofs it has met. `FormatsInv` then says that the
  scope of a level formats as its path does, and every entry as the part of its path that
  was walked: a pick or a lift goes further without asking what it passes.
- `SharedIdsExclude`: `Spec => []SharedIdMeansExclusive`, for message types with at most
  a thousand declared groups (`FewGroups`): `nextExclusive` starts above 1000 and nothing
  checks that the groups stay below. `IdsInv` is about all that bears an id, entries and
  levels that still have fields: a group's id is borne in the group only, and two bearers
  of a oneof's id have that oneof, of one message, as the innermost one on the part of
  their paths that was walked. Every step hands an id down, takes a group's, or gives out
  the next one (`NewIds`).
- `PromisesAreKept`: `EncoderSpec => []PromisesKept`, which discharges for the plans of the
  walk what `ObjectWriter` assumes of plans. Its premises are that no group is declared,
  whose promise is the user's, and that unset oneofs are omitted: without the second
  `enc_unset_tag` shows the promise broken. To `IdsInv` it adds `IdsApart`: the id of a
  oneof written under one key is borne by that entry alone, since it would write whichever
  branch is held, and no rule has an id. Two other entries with one id share their
  innermost oneof, so the branch each `BranchOf` names is the one it was walked through,
  and `OneBranchHeld` concludes: a message that reaches both holds both branches, hence one.
  `CallInv` ties the message and the plan to the finished walk while the encoder runs.
- `KeysOncePerObject`: `EncoderSpec => []ObjectKeysOnce`, from a message type to the
  bytes. Once called, the encoder of a walked plan *is* a machine of `ObjectWriter`:
  `Machine` instantiates `ObjectWriterProofs` with the entries' names for keys and the
  root scope for the policy, every step of the encoder is a step of it (`SameSteps`), the
  plan and the message it is called with are among those it takes (`PlannedType`,
  `CalledMessage`), and the promise it assumes is the one `PromisesAreKept` proves. So
  what is proved of the machinery for all plans is cited, not proved again (`MachineInv`).
- `DeclaredFirst`: `EncoderSpec => []DeclaredFirstWins`, for types that satisfy
  `LiftsApart` too. `WinnersAsAsked` says which write of a key the object has, by place in
  the plan, and `OrderInv` that places in the plan are places in the declarations.
- `RefusalsJust`: `Spec => []RefusalIsJust`, for message types with three properties the
  code does not check. No oneof comes to be inside a branch of another along fields that
  can be inlined (`FlatOneofs`): the inner one's id replaces the outer one's, and
  `pw_nested_oneof` shows two branches refused. Declared groups have no members inside
  oneofs (`GroupsOutside`), whose id a group's replaces in the same way, and lifts take
  nothing from inside oneofs (`LiftsOutside`), which the walk does not pass through and so
  gives no id. `OneIdInv` is the converse of `IdsInv`: whatever is inside one instance of
  a oneof bears one id, and not zero. A new id is given out only for a oneof that nothing
  written or pending is in yet (`OneofUnmet`), which `AheadInv`, the part of `OrderInv`
  that needs no `LiftsApart`, knows from the places: all that is written comes before what
  is pending, and a place does not come before a path through it (`NotBeforeItself`).
  `ChainsInv` says that the walk follows types, each step a field of the message the one
  before leads into, and what a pick or a lift adds to that; so the oneof of two different
  branches is the only one, hence the innermost, on both paths (`SoleOneof`), and where
  only a lift goes there is none (`BeyondWalk`).
- `DeclarationOrder` and `ValuesWrittenOnce`: `InDeclarationOrder` and `NoValueTwice`, for
  message types whose lifts take no value twice and none from inside another
  (`LiftsApart`): the code allows such a lift, and writes the value twice because it is
  told to. `OrderInv` orders three things by where their paths part (`Sooner`): what is
  pending on an inner level comes before what is pending on the outer ones, every entry
  before what is pending anywhere, and the entries before each other. The path of the field
  whose turn it is separates what is written from what is to come (`PathAhead`). It needs
  that the fields of a oneof are declared together, as protoc demands: the branches walked
  at the first of them then come before the next field. A discriminator stands where the
  first branch does and begins its path, which is why entries *precede* rather than part.
- `FieldsAccountedFor`: `Spec => []NothingDropped`, for all message types and options.
  `SettledInv`: on every level the walk has been to (`Trail`: levels on the stack, and the
  levels above an entry up to a pick or a lift) each field is accounted for, or is still
  to come on a level of that path. A new level starts with all its fields to come; a
  step takes from those only the field it writes, drops or descends into, or the oneof it
  has dealt with (`HereAwaits`), and a plan is complete when the stack is empty.
- `KeysDistinct` and `ClashesRefused`: `Spec => []KeysOnce`: in honest executions no key is written twice.
  The inductive invariant `DistinctInv` says, for each of the three ways a plan can be
  handled, where a written key is remembered: in `seen` with a tracker, in `order` with a
  buffer, in `wrote` for a guarded key; and with none of them, that no write still to
  come can repeat a key, because the only entries sharing it are exclusive and the
  message keeps its promise.
- `KeysKept`, `StrictUnique`, `CollisionFirst` and `RefusalsReal`, whether promises are kept
  or not. `KeptInv`: what a flag, the tracker or the buffer remembers is in the object,
  and every write passed has its key there. `StrictInv`: in an ERROR_RUNTIME encode the tracker
  knows exactly the writes so far and no two of them share a key; a failed encode ends at the
  first that would, with the source the tracker kept. `RefusedForConflict`: the refusal
  is still the conflict the analysis found.
- `WinnersAsAsked`: in honest executions each pair of a finished object is the first
  write of its key of all there were, or the last if a buffer takes them and no tracker
  refuses any. To `DistinctInv` and `KeptInv` its invariant `WinnersInv` adds that each
  value in the object so far is the one that counts among the writes passed (`Winning`),
  and that a tracker knows all their keys (`SeenAll`). A write that passes flag and
  tracker is the first of its key (`FirstOfItsKey`), and a buffer that is to keep the last
  is never told to skip one (`LastSkipsNothing`).
- `PolicyImplemented`: `Spec => ImplementsPolicy`, that is `Promised!Spec` wherever the
  promises are kept and LAST meets no dynamic entry, step by step, under the same kind of
  invariant (`SimulationInv`), with the object mapped to the buffer's pairs
  or to what has been written. `FlatObject` promises safety only.
- `SharedScopeSound`: equal fingerprints give a message the same root scope, provided
  the index separators hold no comma: only then does the text of the two separators split
  in one way.
- `OwnScopeIsRoot`: planning a type under its own interior scope gives that scope.
- `GenTypeCorrect`, `EveryCallResolves` and `EveryHelperResolves`: for all files. `GenInv`
  has four parts. `DeclInv`: what `declareEnums` has walked is closed under fields, but for
  what is still on its agenda, and every enum in it has its helpers, under one name each.
  `NamesInv`: a name is the message's own or carries a number below the size of the table.
  `JobsInv`: each call is of an encoder in the table, and each encoder of the table is
  queued, being written or written. `PlanInv`: the walk under way has `WalkInv` (its steps
  are those of `PlanWalk`, so `PlanStepInv` is used as it stands) and is the plan of the
  encoder taken from the queue. `EveryHelperResolves` needs the first and the last: what a
  body's entries reach, through paths, picks, oneofs and merges, `declareEnums` reached.
- `EncoderNamesDistinct`, provided no message's Go name is another's with `_N` at its end
  (`NoNumberedSymbols`): the numbered name is not checked against the table, so the premise
  is what the code relies on. `Apart` is its invariant: queue, body under way and bodies
  have different names.
- `SharedEncodersAgree`: from `Apart`, `JobsInv` and `SharedScopeSound`, so under both
  premises, that one and comma-free separators (`NoCommaSeps`).
- `BranchesApart`: `Spec => []BranchesExclusive`, for all plans, fields and messages. The
  analysis exempts entries in different branches of a oneof from every check; this is why
  it may. The inductive invariant `ActiveInv` says that what has offered something has
  active branches on its whole path. One lemma per kind of entry shows it
  (`ScalarIsActive`, `CollectionIsActive`, `OneofKeyIsActive` …): with `emit_empty` from
  the guards (`GuardedIsActive`), without from the presence test, since what is held shows
  that everything above it is (`HeldAbove`). `ApartNotActive` then finds the two branches
  in one message that `Consistent` rules out. A oneof's own null is the exception
  (`WritesUnset`), the one `enc_unset_tag` is about.
- `PresenceAsHeld`: `Spec => []PresenceDecides`, for the same. `OfferedInv` says that each
  entry an encode has passed was reached and has made the offers of its kind, or was not
  and has made none. `ScalarPresence`, `ObjectPresence` and `CollectionPresence` then say
  for each kind when its offers hold a write. A field that holds something is reached, for
  what is above it is held too (`ValueIsReached`, by `HeldIsActive`), and under
  `emit_empty` to be reached and to have active branches are the same (`ActiveIsReached`,
  `GuardedIsActive`).
- `RulesResolve`: `Spec => []MergeResolves`, on `OfferedInv`. That a source is `Present`
  when it holds a value is `PresentHolds`; which source is tried first is the least place
  of the list, or of the reversed one, where that is so. That ERROR leaves at most one is
  by counting: `LiveTo` gathers one path for each place that holds a value (`LiveListed`).
- `WrittenAlike`: `Spec => []Deterministic`. Two arrangements of one set of keys without
  an inversion are equal (by the first place where they would differ), so `SortedKeys`
  gives one list for every order of Go's; then by the least level of `PbLevels` on which
  a value could be written in two ways, none is; then kind by kind of entry.
- `EntriesFitPlan`: `Spec => []OffersFitPlan`, on `OfferedInv` and `PartsInv`, for every
  `SpreadKey`. Where each element has one key (`KeyPerElement`), the keys differ because
  indices do, and map keys as text do (`KeyOrder`). Objects that are spread under INDEXED
  or EXPLODE are left out: their keys can meet, in one element or across two.
- `FailuresHaveCause`: `Spec => []FailureHasCause`. A value is *sound* when it is a failure
  or has none in it; each operator of `Values` and each kind of entry makes sound values
  from what messages hold (`Consistent` says what a nested encoder or an `Any` gives), and
  only a spread makes the failure of an element that is no object. `ErrInv` ties `err` to
  the entry at `at`.
- `ShapesAsChecked`: `Spec => []ShapeAsChecked`. Each type is written in the JSON type
  `jsonShape` names (`ScalarShaped`, `ValueShaped`), and the sources of a rule have one
  shape (`LegalSources`).
- `PicksReadStructs`: `Spec => []PickReadsStruct`. Member by member down the path, what
  `PickStruct` holds and what is written at that place stay *together*: written values of
  held ones, nothing on both sides once a member is missing. Keys of a written Struct are
  distinct because `KeyString` of text keys is.
- `TimestampsReadBack` and `DurationsReadBack`: for the real constants (`RealConstants`: a
  thousand, and a word that holds 64 bits), all times in protobuf's ranges and all
  formats, the intermediate sums that wrap come out right when the final one fits.
  `TimesAsHeld`: from them `Spec => []TimesReadBack`, provided the times the messages hold
  are valid and in those ranges (`TimesAllowed`, which holds of the messages `em_values`
  has). `PartsInv` is what it needs of encodes that fail: an entry has offered all it has
  to offer, nothing, or what came before the failure.

Assumptions: the ASSUMEs of `PlanEntries`, `Encoder`, `Scopes`, `Schemas`, `PlanWalk`, `Formats`,
`Values` and `Emission`: plans are sequences of entries, unset is not a value, message
types are finitely many, schemas are well formed in the way protoc guarantees (the fields
of a oneof are declared together, for one), `MaxBound` bounds every `max_depth` set, and
the entries of a case are of the shapes the walk makes (`LegalEntry`: what leads to an
entry are messages, a branch is no collection; the sources of a merge have one shape, as
`checkMergeSourceTypes` demands, and none is a scalar branch, which makes Go refuse the
code; `KEYS`, `VALUES` and `INLINE_KEYS` are asked of maps only). `KeySetsAssumption`,
`PbAssumption` and `MapOrdersAssumption` say what Go's types do: the keys of one map are
of one type, the parts of a Value nest less deep than it, a map is listed with each key
once. TLC evaluates each of them. `Consistent` includes what the encoder finds in the
values of a message: a Struct's content is a struct, and what a nested encoder gives are
pairs, any of which may have the key of another.
`LeastElements` supplies what Min and Max return, by well-founded induction on `<`.

Only model-checked: all liveness (the prover has no ENABLED), and `KeyNaming`, where casing
compares texts split and put together again by folds. The types of `pw_plans` under
ERROR_GENERATE are among those `RefusalsJust` is about; the ids of oneofs inside oneofs
are left to `pw_nested_oneof`, where the property is false.

## Not modelled

- `main.go`, a loop over files; the option protos and the code generated from them; tests,
  examples and test data.
- The text of the generated code and its imports: whether it compiles is outside the
  models, and entries whose code does not are left out of the cases of `em_values`.
- In `PlanWalk` a key is its last segment and a map is a repeated field; the validations
  that need a tag, a prefix or a map are one flag. Two files of one Go package.
- In `Values` uint and float types are their int and double families, SECONDS is exact
  where the code rounds to a double, the digits of a double and the calendar of a
  timestamp are opaque. A plain message is known by its pairs, whether its encoder fails,
  and what a pick finds in it.
- In `KeyNaming` a letter of several bytes has no case, and the mappings of Unicode that
  change a text's length are left out.
- Crashes, lost messages, retries and concurrency: the code has none of them.

The PROJECT.json hazards without a property say for each what is missing.

## Plan

Done: the encoder's collision machinery and its refinement, proved; scopes, walk and
generator, proved, with the order, ids and formats of plans; what collisions cost and
report, and who wins them, proved; the walk and the encoder together, with the promise of
the ids, distinct keys and the order of winners proved;
refusals proved just for message types without nested oneofs;
value emission and formats, every property of them proved; key naming.

Next, in this order:

1. Proofs: key naming, as far as it needs no induction over texts.
2. The composition with `Emission` and `KeyNaming` in it: the writes of `Encoder` computed
   from a message instead of chosen, with `emit_empty`, and keys made of whole paths.
3. Maps as fields of their own in `Schemas`, with the cardinalities that need keys, and
   the validations that are one flag now.
4. `main.go`: two files of one package, and the first error that ends a request.
