# A formal model of rustevm

rustevm is a toolchain that compiles Rust contracts to EVM bytecode: a backend
library (`evm-codegen`: an assembler, a disassembler and the EIR intermediate
representation), an instruction table (`evm-isa`), a target library for contract
authors (`std-evm`, its ABI crate and its macros), a test kit over the revm
interpreter (`evm-testkit`), and the skeleton of a rustc codegen backend. There are
no threads and nothing is persisted by the program itself. What is hard is of four
other kinds:

* long sequences of legal calls on a mutable object with a *sticky* error (`Asm`,
  `FunctionBuilder`) whose state is several arrays that index into one another;
* bytes that mean different things depending on where decoding starts;
* numeric edges (widths of immediates, addresses cut to 16 bits, words wider than the
  integers they hold, offsets taken from untrusted input);
* and, at run time, the call tree of a transaction, in which a contract is reentered
  and frames are undone half-way.

The modules here are TLA+ specifications of that code, configurations that check them
with TLC on small instances, and proofs checked by TLAPS for all instances. Source
paths are relative to `src/src/`.

## 1. Inventory

| part | source | state | operations | what makes it correct |
|---|---|---|---|---|
| instruction table | `shared/evm-isa` | none (a constant table) | lookups by byte and mnemonic, forms, fork gates | a byte has one row; widths and gates agree with the EVM |
| assembler | `backend/evm-codegen/src/asm.rs` | code, bound labels, references to patch, next label, first error | `op push dup swap label bind push_label finish` | the bytes decode as the instructions asked for, before and after patching; every reference is its label's whole address; labels are jump targets; the fork is respected; the first error sticks |
| disassembler | `.../asm/disasm.rs` | position, code | `next`, `jumpdests` | covers any bytes exactly, terminates, truncates only at the end, finds the jump targets an EVM does |
| EIR types and repairs | `.../ir/types.rs`, `inst.rs` | none | `default_repair`, `for_convert` | every value is masked or sign-extended to its type although most repairs are left out; code computes what Rust computes |
| function builder | `.../ir/builder.rs`, `func.rs`, `entity.rs` | three arenas, current block, last instruction, first error | the methods of `FunctionBuilder` and `InsBuilder` | the arenas are a slot map; a function is lists of instructions that only grow; no operand is undefined; no later call escapes the first error |
| IR module | `.../ir/module.rs` | signatures, bodies, entry | `declare define set_entry verify` | a module that verifies has no call site that disagrees with its callee |
| effects | `.../ir/effect.rs` | none | `of_opcode`, `effects`, set operations | what the classes let a pass reorder or remove changes nothing |
| deployer | `tooling/evm-testkit/src/link.rs` | the offset being computed | `deployer` | converges; the initcode, run, leaves the runtime code |
| test harness | `harness.rs`, `outcome.rs`, `fork.rs` | the database, the caller, the gas limit, whether to trace | `set_balance set_storage set_code call run deploy_runtime` | state persists from call to call and only what was asked for changes, whatever becomes of a transaction; an outcome says what happened, its revert reason included |
| tracer | `trace.rs` | steps, open frames | the hooks of revm's `Inspector`, `finish` | the steps of a frame are told from those of another; costs are what the frames lost |
| opcode bindings | `target/evm-sys*` | none | extern declarations | |
| storage | `target/std-evm/src/storage` | none of its own | slots, mappings, handles | no two names share a word; a value read is the one written |
| transient guards | `.../storage/transient.rs` | flags in transient storage, live guards | `acquire`, `Drop` | a flag is set exactly while its guard lives; the lock excludes |
| dispatch | `std-evm/src/{dispatch,method,guard,contract}.rs` | none | `dispatch`, `deploy` | every call reaches the method it names |
| contract macros | `target/std-evm-macros` | the arms and roles collected so far; the slots handed out | expansion of an impl block, of a layout | each role taken once, no method lost, no selector twice |
| ABI codec | `target/std-evm-abi` | head and tail being built; position | `encode_tuple`, `decode_args`, `encode_error`, `encode_panic` | reading back; wrong input is an error, never a panic |
| rustc backend | `backend/rustc_codegen_evm` | none yet | a skeleton | |

How they interact: the deployer drives an `Asm`; the disassembler reads what `Asm`
returned; the builder looks mnemonics up in the table, types its instructions with the
repairs of `inst.rs`, and takes the signatures of calls from a `Module`, into which
`define` puts its finished functions; the macro's expansion calls `Method::dispatch`,
which calls the codec; the methods it calls take the transient guards and go through the
accessors of the layout macros to storage. The harness drives the deployer, lends its
database to the EVM and installs the tracer; it reads back the revert data the ABI crate
wrote. The hazards, each at its line, are listed in `PROJECT.json`.

## 2. Modules

```
EvmIsa ─ Asm ─ AsmHistory ─┐                     EvmIsa ─ Deployer ─ Deployment ─┐
   └ Decoding ─────────────┴ AsmDisasm ─ Disasm           Tracer ────────────────┴ Testkit ==> Chain
EvmIsa ─ Effects                                 Transient <== Storage
EvmIsa, IrTypes ─ EirValues
EvmIsa, IrTypes ─ FunctionBuilder ==> FunctionBody        IrModule     Contract     Codec
```

A line is `EXTENDS` or a composition, a double arrow a refinement. A module `MCx` with its
`.cfg` instantiates `x` for TLC (`MCAsm` is `AsmDisasm`), and `xProofs` holds its theorems
(`AsmProofs` those of `Asm`, `AsmHistory` and `AsmDisasm`, `IrProofs` those of
`FunctionBuilder`, `IrModule`, `Effects` and `EirValues`, `TestkitProofs` those of `Deployer`
and `Testkit`, `ContractProofs` those of `Contract` and `Codec`).

**EvmIsa** is `table.rs` as a set of rows (byte, mnemonic, stack arity, width of the
immediate, first fork, category, terminating), with `by_byte`, `by_mnemonic`, `op_form`
and the predicates of `spec.rs`. Gas is left out: nothing computes with it.

**Asm** has a variable per field of `Asm` plus `outcome`, what `finish` returned. One
action per method: `Op`, `Push`, `Dup`, `Swap`, `NewLabel`, `Bind`, `PushLabel`,
`Finish`. Each has a disjunct that does nothing because an error is recorded (`Sticky`),
one per way to fail, and the one that emits. As in the code, `bind` records the label
before it emits, and `push_label` emits its `PUSH2` without the fork check. `finish`
consumes the assembler. An address is two digits of base `AddressBase` (256 in the code),
so that the limit of 16 bits can be met by a program of ten bytes.

**Decoding** defines the decodings of a byte string as sets of opcode offsets, with
`immediate_width` from the disassembler. **AsmHistory** adds a history variable, the
call and the argument that emitted an instruction at each offset, and states the assembler's
properties with it: `Answers` says whether an opcode and an immediate are what the call there
asked for, a mnemonic of the table, a word pushed in any width, or a label's address.
**Disasm** is the iterator, one action per call of `next`. **AsmDisasm** composes the two:
once `finish` has returned, an iterator reads the code (`INSTANCE Disasm WITH bytes <- code`).

**Deployer** is the loop of `deployer`: one action per round, with `push` reduced to what
the prologue needs (digits of base `ByteBase`). **Deployment** is the frame the initcode it
returns runs in, with the EVM's four instructions, which are external.

**Testkit** is the harness: `Configure` is its builder methods, `Seed` the setters, `call`,
`run_with` and `deploy_runtime` send a transaction, for which `transact` lends the database
away, and `transact_end` takes it back before a rejection panics. Between the two is the EVM,
external as revm is: it validates (`Validate`), executes frames that call one another with a
share of their gas (`Plain`, `Open`, `Close`) or the initcode, instruction by instruction
(`InitcodeRuns`, `InitcodeEnds`), and commits its journal (`Committed`).
Called code is opaque, and what it changed is the journal: any accounts, each with any record
of the constant `Written`.
Each step of it makes the calls of the inspector's hooks that revm makes. **Tracer** has the
hooks and `finish` as operators on the tracer's record. **Chain** is what all of it promises,
with an action per operation: a setter changes the field it names of the account it names;
code to run is planted before its transaction; a transaction that is rejected, reverts or
halts changes nothing, a creation leaves a code at the address it gives and changes nothing
else, and only a call of code that succeeds changes whatever that code did.

**IrTypes** is the type lattice, the repairs and when each operation needs one.
**EirValues** gives them meaning: the raw EVM word of an operation, then the repair the
builder attached; beside each word runs the integer that Rust's operation yields. A word has
its bits as a set (`Bits`), so that the bitwise opcodes are set operations.
**FunctionBuilder** has the arenas, the current block, the last instruction and the sticky
error; one action per method or per group that differs only in the operation named.
`Panics` is the index out of bounds of `value_type`. **FunctionBody** is the abstract
specification: lists of instructions per block, one block open, one mistake remembered.
`BuildsBody` is its `Spec` under the refinement mapping that reads the lists out of the
arenas. **IrModule** is `module.rs`, with an action for bodies built beside it.

**Effects** has the classes as sets and `MayReorder`, the rule the comments of `effect.rs`
give for them, beside a machine with memory and its length, a slot of storage and of
transient storage, an environment that calls change, logs, and calls to unknown code.

**Transient** is the reentrancy lock and the flag guards in the tree of calls of a transaction:
frames are pushed by `Call`, ended by `Return` (which drops what is alive) or by `Fail` (which
drops nothing and restores what the frame was entered with, as the EVM does). The contract's
state is one value there, and flags are a set. Beside its guard a flag has a raw setter
(`set_flag`, `layout.rs:137-152`), which any frame of the contract may call at any time; a
history variable, `raw`, has the flags it wrote last. **Storage** is the same contract on the
EVM's words: `SlotOf` is the slots the layout macros give to fields and entries, `decode` the
reading of a word as a value of a type, `Set` and `SetTransient` the accessors (the latter also
the raw setter of flags), and the guards write words. Its abstraction is the function from names
to the values read (`Named`) and the set of guarded slots that are not zero (`FlagsSet`), and
under it `Storage` implements `Transient`.

**Contract** is the macro: the impl block is expanded one method per step, with every
refusal, and the contract it yields is deployed and called. **Codec** encodes an argument
list one component per step, lets the bytes arrive whole, cut short, or with a wrong byte,
and decodes one argument per step; a single string or number is also sent as a revert
payload, which `revert_reason` reads with bounds checks of its own.

Definitions whose name ends in a capitalised word after an underscore (`Bind_Late`,
`Place_FromTail`)
are faults: plausible wrong versions of the definition that follows them, kept so that each
property can be seen to fail when the code is wrong in that way. No specification uses them.

## 3. What is checked

Deadlock checking is on for `eir_values`, `ir_module`, `storage` and `effects`, which never
stop. The other systems do: a builder is consumed by `finish`, an iterator ends, an
encoding is decoded, an expansion fails, a test makes its last call. Model bounds are named
constants (`Max...`) or the constraint `Bound` of an `MC` module.

* **assembler** — programs of any calls up to four bytes, two forks (without and with `PUSH0`
  and `TLOAD`), mnemonics of every form and one that does not exist, immediates of zero, one and
  two bytes among them `0x5b` and `0x61` (which read as `JUMPDEST` and `PUSH2` if decoded
  alone), depths out of range. Four bytes hold a reference of three bytes and an instruction
  beside it, which is what it takes for an overlap. Programs of `JUMPDEST`, references and data
  that reads as one, with a label of another assembler that is an alias of their second, grow to
  nine bytes with two labels and to ten with one: with base-three addresses a label at nine can
  no longer be addressed, so `finish` has to refuse some. What finishes is disassembled. The
  opcode and the immediate of every instruction are compared with the call that emitted it, in
  the bytes and in what the disassembler returns: `DecodesAsEmitted`, `EveryOpcodeExistsOnFork`,
  `BoundLabelsAreJumpdests`, `ReferencesResolve`, `ReadsBack`, `JumpsAreLegal`, and the action
  properties `FirstErrorWins`, `EmittedBytesStand`.
* **disasm** — every string of up to five bytes over seven: with and without an immediate,
  shorter and longer than the string, a `JUMPDEST`, a byte outside the table.
  `ItemsTileTheCode`, `OnlyTheTailIsTruncated`, `JumpdestsAreTargets` (against the EVM's rule,
  which knows no table), and `Terminates` under weak fairness of `next`: a caller that stops
  calling is not a property of the iterator, one that goes on must reach the end.
* **testkit** — deployments of runtime codes of 0 to 40, 255 and 300 bytes, immediates in base
  two, so that the width of an offset changes many times in that range, and a fork without
  `PUSH0`: `DeploysVerbatim`, and `DeploymentReturns` under fairness. With one of the codes,
  everything else: any two operations, so that each meets what the other left, with three
  accounts (the caller, the contract, the address a creation gives), three codes, and gas limits
  that reject, that run out during the initcode, and that suffice: `ImplementsChain`, a
  refinement, where code that succeeds changes any subset of the accounts in every field.
  Traced, a transaction executes up to five instructions, which is a call, its child, a call or
  a sibling, and what the callers do next; the gas a child leaves goes back to its parent, the
  transaction's own frame is announced or not, and children fail: `FramesTold`, `CostsAddUp`.
  The fairness is weak fairness of the steps of a call of the harness: it is a sequential
  program that runs on, and the gas limit ends any execution.
* **eir_values** — a five-bit machine: every integer type of up to five bits, signed and
  unsigned, every operation on every pair of values, chained. Five bits hold a narrow, a
  middle and the full width of both signs, and shift amounts beyond the width.
  `WellFormed`, `ComputesRust`, `FreeExactlyWhenSafe`.
* **builder** — up to two blocks, two instructions, three values: two definitions in two
  blocks, with a parameter and a two-result operation, are enough for indices to be mixed up.
  Every method and terminator is called in functions of one block; in larger ones a few
  kinds stand for the rest (the constraint `Bound`). `SlotMap`, `OperandsExist`,
  `RawOpcodesAreOrdinary`, `NoteOnNewest`, and the refinement `BuildsBody`.
* **builder_placeholders** (a violation) — see section 5.
* **ir_module** — three functions, two signatures, two bodies waiting to be attached:
  one caller, one callee, and a body that does not match. `CallsResolve`, `VerifiedStands`.
* **storage** — three live frames (the holder, a foreign frame or the one that reenters, one
  more to fail in), two mappings of one key (one of them transient), one of two keys, a value,
  and a flag with its guard; words and keys are three numbers that are slots as well, so that a
  key taken for a base would show, and an address is less than a word. At most one name holds a
  value other than zero at a time (`Bound`, with what a failing frame would restore), over any
  number of transactions: whatever two names are mixed up, one of them is written while the
  other is zero. A flag its raw setter wrote counts as such a name. `FlagsMatchGuards` (which
  excepts a flag that its raw setter wrote last, and never the lock), `NoInterference`, the
  refinement `ImplementsNames`, and the action property `AccessorsIndependent`.
* **effects** — every pair of operations the builder can make, with one of each kind for
  those that only compute, operands of two cells, in every state of the machine. Two cells are
  an alias and no alias. `EffectsCommute`; `RemovableIsPure`, over every step. `GAS`, which the
  comments say never reads the same, is not among them.
* **dispatch** — impl blocks of up to three methods: all attributes and their combinations,
  colliding selectors, private and ill-formed methods, one argument or none; calls with a
  selector nobody has, short calldata, with and without value. Three methods are a role, its
  duplicate and a method that should not be affected. `TypeOK` says that no method has two
  roles, `PlainMethodsAnswer` and `RolesAnswer` who answers.
* **dispatch_receive** (a violation) — see section 5.
* **codec** — up to three arguments of six kinds, words of two bytes, a `usize` of one, so that
  an offset word can exceed a `usize` and an offset plus a length can overflow. The input is cut
  at every byte, or one byte is replaced; a revert payload likewise. Of a cut payload the reason
  or none is read: a cut in the padding still gives the reason. `ReadsWhatWasWritten`,
  `NeverPanics`, `ReasonReadBack`.

Type invariants are mostly left to the proofs, and to properties that fail when a value is of
the wrong kind.

## 4. What is proved

The theorems hold for every value of the constants, under the named assumptions of the modules:
forks are those of `fork.rs`, arguments are well typed, a base is at least 2 and `Powers` are
its powers, runtime codes are shorter than what `MaxWidth` digits hold, a label handle is a
number, the hash is injective and clear of small numbers, the name of a raw opcode is no
operation's (`NamesAssumption`), the caller, the contract and the created address are accounts,
amounts and gas limits are numbers with a greatest one, codes are bytes, what called code leaves
of an account is a record with its code under its hash (`WrittenAssumption`), and `None` is no
database. The provers know nothing of `^`, so `PowersAssumption` (in `Codec` and `EirValues`)
states its recursion for the powers that occur; TLC evaluates it on the instances. Some say what
callers do:

* raw opcodes compared by `Effects` are of the table, and none is `GAS` (`RawOpcodesAssumption`);
* an argument encoded by `Codec` is a Rust value of its type, and the encoding of as many as
  there can be is no longer than a `usize` counts (`ArgumentsAssumption`): it is built in memory;
* literals of `EirValues` are in the form of their type (`LiteralsAssumption`), which
  `inst.rs:173` leaves to a `verify` that is to reject others, and raw opcodes have full-width
  types (`RawTypesAssumption`), since the builder repairs none. Both are what a caller can break:
  they are listed as hazards, and what happens then is in section 5.

Every leaf is checked; nothing is assumed beyond those.

* **DecodingProofs** — facts about the table and decodings. `DecodingUnique`: a byte string
  has at most one decoding from offset zero, by the least offset at which two would differ.
* **AsmProofs** — `TypeCorrect`, `CodeDecodes`, `LabelsAreJumpdests`, `OpcodesExist`,
  `LabelReferencesResolve`, `ErrorIsSticky`, `BytesStand`. `BoundLabelsAreJumpdests` is not
  inductive: patching could overwrite a label. The invariant `IInv` adds that instructions do
  not overlap (`NoOverlap`), that each reference is a `PUSH2` in the code with its address bytes
  inside (`FixupsInPlace`), and that references stand in the order of their offsets
  (`FixupsOrdered`), from which no two share an address byte, hence `finish` rewrites immediates
  only. A call is shown to emit one whole instruction that its fork has, or nothing
  (`MethodSteps`), once for all properties. A second invariant, `AInv`, ties the bytes to the
  calls: every instruction answers the call recorded for it (`Answered`), which is shown per
  method when it emits, is kept by later calls since they append, and by `finish` since it
  rewrites addresses of references only, and with what their labels are bound to. For the
  composition, `ReadBack` and `JumpsLegal`: while reading, what was returned is the emitted
  instructions before the position, and the position is where one starts; with `AInv` each is
  the one that was asked for.
* **DisasmProofs** — types, `DisasmTiles`, `DisasmTruncatesTail`, from an invariant on the
  returned instructions and the position; `JumpdestsLegal`, from one on the offsets returned
  (`JInv`): they are those no earlier one pushes over. That set is a solution of the EVM's
  recursion (`RuleSolved`), and by the least offset on which another would differ the only one
  (`RuleIsStarts`).
* **IrProofs** — of the builder `SlotMapHolds`, `OperandsAlwaysExist`, `RawOpcodesStayOrdinary`,
  `NotesOnNewest`, and `ImplementsBody`, the refinement. One invariant carries them: every entry
  of the arenas has an owner and every index that is kept is below the length of the arena it is
  an index of; a method is shown to append an instruction with its results, to append a value,
  to close a block or to do nothing, each of which maps to a step of `FunctionBody` or a
  stutter. Of the module, types, `CallSitesResolve`, `VerificationStands`: call sites carry the
  declared signature, declarations do not change, bodies are attached under it. Of the effects,
  `ClassesCommute` and `RemovableArePure`, for any opcodes and a memory of any cells; the
  invariant (`Sound`) is the machine's type. What an operation yields depends only on what its
  class says it reads (`Depends`), and it leaves alone what its class does not say it writes
  (`Undisturbed`); two that the classes leave unordered then agree component by component. Of
  the values, `ValuesAreWellFormed`, `CodeComputesRust`, `CastsAreFree`, for a word of any
  width: TLC's five bits become 256. Neither of the first two is inductive, since a missing
  repair is right only if the operands were well formed, and a word that is well formed need not
  be the right one; `Represents` says both at once, that the integer is one of the value's type
  and the word is its two's complement. There is one lemma per opcode that the raw word is that
  of an integer which Rust's wraps to the same, and which is in range already where
  `default_repair` leaves the repair out (`ArithmeticAgrees`, `DivisionAgrees`, `PowerAgrees`,
  `BitwiseAgrees`, `ShiftAgrees`). They rest on arithmetic modulo a power of two (`Repairs`:
  masking and sign-extending is wrapping), on the well-formed words of a type being those of its
  integers (`WordsOfIntegers`, `IntegersOfWords`), and, for `AND`, `OR`, `XOR` and `SELECT`, on
  a word being determined by its bits (`OneWordOfBits`, `WordOfBits`) and well-formedness being
  a property of the high ones (`WellFormedBits`). Where `for_convert` makes a repair, `Unsafe`
  has a word that needs it.
* **TestkitProofs** — of the deployer, types, `OffsetsClimb`: `push` is monotone in its
  argument's width (`WidthMonotone`, `PushMonotone`, `PrologueMonotone`), hence the offset is
  never more than the length of its prologue, hence a round never goes back.
  `DeploymentVerbatim` follows the frame the initcode runs in: instruction by instruction
  (`FirstStage` to `LastStage`) the stack holds what the prologue pushed, for which a sequence
  of digits is shown to be pushed as the number it denotes (`PushRuns`, `DigitsSum`, by the
  least position at which the sums would differ), so that `CODECOPY` copies the runtime code,
  all of it, and `RETURN` returns it. `ChainImplemented` is the refinement to `Chain`: each call
  of the harness is the action of its kind (`AskingOnChain`), the end of a transaction is
  `NotSucceeded`, `Called` or `Created` by its result (`AnsweringOnChain`), and every other
  step, lending the database away included, changes nothing (`ChainStep`); it needs that a lent
  database is typed and the code of an account is under its hash (`KitInv`), and that what is
  committed as created is the runtime code. `FramesAreTold` and `CostsAreCharged` are about the
  trace, for any number of frames and instructions and any gas, whether the transaction's own
  frame is announced or not. What the tracer knows when the transaction ends it cannot know
  before, so the invariant (`Consistent`) relates three things at every instruction: the
  tracer's stack of frames is the EVM's (`Mirrors`), frames are numbered as they are opened
  (`Nested`), a frame has what its latest instruction left it (`Paid`, `Held`), a frame with a
  child stands at a call that was charged at least what the child ever had (`Handed`), and a
  recorded cost is the charge unless it is that of a call whose frame may still go on (`Known`).
  There is one lemma per hook (`Charging`, `Pushing`, `Bouncing`, `Returning`, `Ending`);
  `Finishing` is `charge_frame_openers`, where the frame's next instruction has what the call
  left.
* **TransientProofs** — `FlagsSound`, `LockExcludes`. Neither property is inductive, since a
  failing frame restores an *earlier* state: the invariant says of every live frame that its
  saved flags are those of the guards below it, but for flags a raw setter wrote (`SavedFlags`),
  and that the state saved above the holder is the one the holder knows (`SavedViews`), with
  `GuardsUnderLock` and `OneHolder`.
* **StorageProofs** — `SlotsDistinct`: two names of one slot are one name, by the number of
  keys each has: a number, the hash of a key and a number, the hash of a key and such a hash.
  From it `WriteReads` (a write is seen under its own name only) and one lemma per action that
  it maps to a step of `Transient` or a stutter (`SetMaps`, `TakeMaps`, ...), where the stack of
  frames is mapped frame by frame (`NamedPop`, `NamedPush`, `NamedUpdate`). `Implements` is the
  refinement, for any layout of up to two keys and any call depth; the invariant it needs is
  typing and `Transient`'s own `IInv`, so that `WordsOfFlags` and `LockKeepsWords` are what
  `TransientProofs` proves, of words. A write to the word of a flag is its raw setter, one to
  another word of the struct a stutter (`FlagsWritten`, `SetTransientMaps`). `AccessorsApart`
  follows from `WriteReads`.
* **ContractProofs** — `RolesSeparate`, `MethodsAnswer`: after each method the arms are
  exactly the plain public methods taken so far (`Taken`), no two with one selector
  (`Distinct`), and calls come when all were taken (`Complete`). `RolesAreAnswered` needs in
  addition that after `check_at_most_one` an attribute is on one method (`AttributesUnique`, from
  the cardinality the check compares), so that no later method takes a role from an earlier one
  (`RolesKept`). Of the codec, `CodecNeverPanics`, `WrittenIsRead`, `ReasonRead`, for words,
  integers and a `usize` of any widths and for argument lists of any length. The invariant
  (`CodecInv`) follows the encoding as it grows: each argument taken so far has its word in the
  head, and the bytes an offset there names hold its length and itself, where they stay as
  the tail grows (`Written`, `OneMore`); what arrives, unless a byte is wrong, is a beginning of
  that message (`Begins`), and each argument decoded from it so far is the one written, or the
  last is an error (`ReadSoFar`). That a word reads back as the number it was written from is
  `DigitsRead`, with the value of a string of digits as the sum of its weights.

Only model-checked: what needs fairness, which is beyond the provers (`Terminates`,
`DeploymentReturns`). Everything else the passing runs check is a theorem.

## 5. Where the code and its documentation disagree

Shown by a run:

* **builder_placeholders**: `builder.rs` says that the values handed back after an error are
  safe to go on with. `convert`, `store`, `sstore` and `tstore` look up the type of their
  operand before the error, and a placeholder is value 0: in a function that has no value,
  they panic (`builder.rs:329`).
* **dispatch_receive**: the generated receive branch tests `calldata.is_empty()`, but the
  calldata a dispatcher is given no longer contains the selector. A call with value of a
  payable method without arguments runs the receive method instead (`contract.rs:81`).

Seen while modelling, without a run: `asm.rs:68-69` says that constants are checked against
`bit_width`, which admits a signed literal that is not sign-extended, against the invariant of
`types.rs:11-12`; a raw opcode of a narrow type is not repaired (`builder.rs:452`,
`types.rs:18`); the number of results of a raw opcode is the caller's word (`builder.rs:451`,
`inst.rs:132-133`); `revert_reason` promises `None` for any other encoding and adds 32 and a
length to an untrusted offset unchecked (`outcome.rs:147`): in the model, as in a debug build,
one wrong byte in a payload makes it panic; `MSIZE` is classified as a read of memory like
`MLOAD` and `KECCAK256`, which extend what it measures (`effect.rs:111`), so that
`EffectsCommute` fails without its exception `Meters`; `guard_not_payable` has no body yet; a
private `#[fallback]` counts as a duplicate and is then dropped.

## 6. Not modelled

The opcode bindings are declarations whose bodies are `unreachable_unchecked`, under an
attribute macro that returns its item unchanged: what one does is the EVM's. The rustc backend
is a skeleton, the example a use of the library. Text is left out everywhere: names, dumps,
mnemonics in error messages, signature strings and the selectors hashed from them. So are gas
figures (the table's are read by nothing; an instruction of the harness costs one unit), the
table of revm's forks, the typed accessors of an outcome, and the logs in it.

The handles of `std-evm` (`Storage`, `WriteCap`, `with_storage`) are types without state. The
layout macros' refusals (tuple structs, a `Mapping` without two arguments) and mappings of more
than two keys, whose views have no `get`, are no inputs of `Storage`. It takes two disciplines
of the contract's author for granted: the persistent state is written under the lock (`Set`),
and a guard on a flag is taken under the lock and once (`guard`), so that the documented mistake
of two live guards on one slot is not made. Scratch memory that `derived_slot` overwrites is not
a component of `Storage`: nothing else in the repository uses memory yet.

In the IR, `AddMod`, `MulMod` and `ExtractByte` have no builder method, and what `Call` and
`Alloca` yield is decided by a stackifier that does not exist yet. Handles of one function
used in another are not an input of the builder's model: nothing detects them and nothing is
promised. Two instructions of `Effects` are compared as neighbours; what a pass makes of longer
ranges is up to the pass, and there is none yet.

## 7. Plan

Done, in the order of importance: the assembler with its proofs; the disassembler; their
composition; the deployer; the IR values, builder and module; the transient guards; the
contract macro; the codec; storage and its refinement; the harness with the tracer; revert data;
the effects; and proofs of all of their safety properties.

Left, when the code gets there or a reader needs it:

1. The stackifier and the frame allocator behind `Call` and `Alloca`, once they are written.
2. Passes over `Effects`, once one exists, on ranges of instructions.
3. Two `#[storage]` structs in one contract, which the macros number from zero each.
