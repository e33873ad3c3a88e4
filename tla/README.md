# Verification of tpmaead

TLA+ models of `tpmaead`, a Go library that offers a `cipher.AEAD` whose AES-CTR
and HMAC keys never leave a TPM; TLC configurations that check the models on
small instances; and theorems about them checked by TLAPS. Paths below are
relative to the repository (`src/`).

## 1. Inventory: the system and what can go wrong in it

| Component | Source | State it keeps | Operations |
|---|---|---|---|
| AEAD calls | `tpmaead.go` | per call: Go's stack of deferred functions, handles in local variables, the data computed so far; per instance: two key files, the parent's password, the `Session` (immutable) | `NewKey`, `NewAESCTRHMAC`, `Seal`, `Open` |
| Sessions | `sessions.go` | none (values) | `GetSession(trial)` of four implementations: no policy, PCR, AuthValue, both |
| TPM transport | `util.go` `openTPM` | an open connection per call | open, wait, lose, close |
| Command loops | `util.go` `encryptDecryptSymmetric`, `tpmhmac` | the IV carried from command to command, the output so far | one `EncryptDecrypt2` per 1024 bytes; `HmacStart`, `SequenceUpdate`*, `SequenceComplete` |
| MAC input | `tpmaead.go:390-404`, `:516-529` | - | encoding of nonce, additional data and ciphertext |
| Byte slices | `util.go` `extendSlice`, `tpmaead.go:290, 446, 576` | the caller's arrays | results of `Seal` and `Open` |
| PCR maps | `util.go` `GetPCRMap` | - | parse `index:hex,...`, digest of the values |
| Key files | `util.go:20`, go-tpm-keyfiles (outside the repository) | PEM strings in JSON | marshal, unmarshal |
| TPM, resource manager | outside the repository | slots of objects and sessions, PCRs, owner hierarchy | the TPM 2.0 commands the library uses |
| Examples | `examples/` | a key file, a message file | `newkey`, `encrypt`, `decrypt` for each kind of session, and `test_vector` |
| Tests, CI | `tpmaead_test.go` | - | straight-line use of the library |

**How they interact.** Each of the four calls opens its own connection, and every
step of it after that is one TPM command, a function call that blocks until the
device answers. There are no goroutines, locks or channels in the library: the
concurrency is between *clients* (goroutines or processes) that share one TPM.
On a `host:port` path (swtpm, used by the tests and the examples) the device serves
one connection at a time and knows nothing of who loaded what; on
`/dev/tpmrm0`, which `README.md:37` recommends, commands of all clients
interleave freely, each in a handle space of its own that the kernel empties when
the connection closes.

**What is hard here.** Not the straight line through a call but everything else:
a command that fails with one to three objects and a session loaded (each early
return, and each panic of `Seal`, must run exactly the right deferred functions);
handles that are flushed explicitly *and* by a deferred function while the device
reuses handle numbers; the TPM's handful of slots; a policy session that the TPM
resets after the first command it authorised; PCRs, passwords and the owner's
seed that change between calls or between two commands; a connection that breaks, a
TPM that restarts, a client that dies; and clients that wait for each other's
connection. `PROJECT.json` lists these hazards at their lines.

**What makes each component correct.**

- Calls: everything a call loads it releases, on every way out, and it never
  releases anything else's; the device's slots suffice; whoever holds the right
  passwords and PCRs succeeds; `Open` accepts only what `Seal` made.
- Sessions: a key pair can be used by whoever satisfies the session it was made
  with; a session that could not be set up is closed.
- Transport: a connection ends with its call; no client waits forever.
- Loops and MAC input: chunks are put together in order with a chained IV;
  different inputs are encoded differently.
- Slices: results are those of the arguments as they were given, though a call reads
  them several times with TPM commands in between; nothing is written where the caller
  gave no room, and nothing at all by an `Open` that refuses.
- PCR maps: the digest is the one the TPM computes of the same PCRs.
- The library as a whole: a call takes effect as a whole or not at all.
- Examples: `newkey`, `encrypt`, `decrypt` in a row work, whatever earlier runs that
  failed or were killed had left behind; nothing is printed that was not sealed.

## 2. Modules

| Module | Models |
|---|---|
| `TPM.tla` | the device: slots, handles, objects, sessions, PCRs, hierarchy, connections of both transports (external code, as the library uses it) |
| `Programs.tla` | the straight line through each call as a sequence of steps, with the number of commands of the two loops for data of a given length |
| `TPMAEAD.tla` | the state machine: clients that work off programs, succeed or fail at each step, and unwind; the environment; the properties; the invariant of a call's stack |
| `TPMAEADInvariants.tla` | the inductive invariants behind the other properties of `TPMAEAD` |
| `MacEncoding.tla` | the bytes `Seal` and `Open` authenticate |
| `AEADService.tla` | the abstract specification: what the library promises its callers, without a TPM |
| `TPMAEADService.tla` | the refinement mapping from `TPMAEAD` to `AEADService` |
| `SliceMem.tla` | what `Seal` and `Open` read and write in the arrays of their callers |
| `PCRMap.tla` | `GetPCRMap`, and the sessions and keys made of its result |
| `Examples.tla` | the programs in `examples/`, which share two files and a TPM |
| `CommandLoops.tla` | the loops of `encryptDecryptSymmetric` and `tpmhmac`, byte by byte |
| `MC*.tla`, `*.cfg` | small instances |
| `*_proofs.tla` | theorems and proofs |

`TPMAEAD` composes `TPM` and `Programs`. It abstracts from bytes: a tag is a record
of what was authenticated, and a ciphertext is encrypted in so many commands.
`MacEncoding` (equal bytes mean equal messages) and `CommandLoops` (pieces are
encrypted and hashed as one, in the number of commands `Programs` says) show
that it may. `TPMAEADService` composes `TPMAEAD` with `AEADService`; `Examples` takes a
call of the library as one step that may fail, which is what `AEADService` promises.
`SliceMem` stands beside `TPMAEAD`: the same calls, their TPM commands reduced to the
moments at which they read and write memory.

### From the code to the state

| Code | Model |
|---|---|
| the call in progress and its arguments | `call[c]` |
| where it is in the function | `todo[c]`, the steps still to come |
| `defer` stack | `defers[c]`: handles to flush, `CloseConn` for `rwc.Close()`; last in first out |
| `cPrimary`, `aesKey`, `policySessionHmac`, `rspHS.SequenceHandle`, ... | `var[c]`, a handle per variable |
| `dgst`, `aCreate`, `rciphertext`, `hm` | `work[c]`: policy digest, keys, keys that encrypted the data, tag |
| a returned error, a panic | `outcome[c].why` (its cause), `.at` (the command) |
| keys on file, AEAD instances | `pairs`, `aeads` |
| everything `Seal` ever returned | `sealed`, a history variable |
| connections | `conns`, and `served` for those the device is listening to |

Each TPM command is one action (`CreatePrimary`, `Load`, `EncryptDecrypt2`, ...):
`Executes` is its success, `CommandRefused` the device's own refusal (`Refused`
lists the reasons: memory, handle, auth, integrity, value, policy), `CommandFault`
any other error, `CommandLost` a command on a broken connection. The errors of the
flushes in the middle of a call and of deferred functions are ignored by the code
and so by `FlushContext` and `DeferredFlush`. `Fail` is every early return and
every panic: it drops the rest of the program, and the deferred functions run.

Data are abstract. A byte string is a record of an identity and a length (only
the length decides what the code does); a ciphertext is a record of keys, IV and
plaintext; a tag is a record of the key and what was authenticated, so two tags
are equal only if all of that is. A policy digest is the sequence of assertions in it.
A handle names a slot of a handle space. `owner` of an object or session is a
ghost: the client whose call loaded it, as long as that client could still flush it. When on a
socket the connection breaks or the process dies, or when the next call of the client starts,
what is left in swtpm becomes `NoClient`'s, and `outcome[c].cut`, a ghost too, remembers the
first two for the call. The properties about what calls leave behind except such calls
(`CutOff`): what they had loaded stays, and no code of the library could change that. What it
must not do is disturb others (`FlushesOwn`, `HandlesStayValid`), and it may cost them a slot
(`SlotsSuffice`).

`MacEncoding` and `CommandLoops` have the bytes. In `MacEncoding` they are
numbers, and `Shifts` spells out the little-endian `binary.Write` of a length. In
`CommandLoops` a byte is a set of symbols, the exclusive or of which it is, one per
plaintext byte and one per byte of key stream; the counter block is a number, and a
nonce with its four zero bytes is a multiple of `CounterBlocks` (2^32 in AES-CTR with
a 12-byte nonce in front). `op`, `data`, `taken`, `iv`, `out` are the loops' `decrypt`,
`data`, the part of it before `rest`, `iv` and `out`; `turns` counts commands, and
`results` remembers what was encrypted.

The abstract service has the requests, their replies, and the three sets `pairs`,
`aeads`, `sealed`. `TPMAEADService` maps `call` to `request` and `outcome`, with the text of
an `Open`, to `reply`; the sets are those of `TPMAEAD`. A step of a program, a deferred
flush, a fault or an event is a stutter; the step in which a call returns is the
step of the service (`MakeKeys`, `MakeAEAD`, `SealMessage`, `OpenMessage`, `Refuse`).

In `SliceMem` an array is a sequence of cells and a slice a window on it (`arr`, `off`,
`len`, `cap`). `todo[c]` lists the reads and writes of a call in their order (`Extend`,
`TakeIV`, `CryptPiece`, `CopyText`, `BuildMAC`, `CopyTag`, `Return`, and `Verify` in `Open`), and
`work[c]` holds its locals. One cell stands for a nonce, a tag, or a piece of text that
goes into one command; in-between cells do not matter to what can overlap. The MAC
input is read in one step, and an array that `append` or `extendSlice` allocates has
no room to spare. The caller's contract (`Undisturbed`) is what `cipher.AEAD`
asks for and no more: no concurrent call writes what this one uses, and `Seal`'s output
does not go over its nonce or additional data.

In `PCRMap` an input is a sequence of entries, each an index and a string of bytes of any
length, as `GetPCRMap` takes them, or a malformed one (splitting and hexadecimal are in the
parser, not in the model). `hashed` is the string of bytes that was written to the hash, in
which one cannot see where a value ends, and two digests are the same if the strings and the
algorithms are; `pcrMap` is the map; `bank` is the PCRs of the device,
and `Asserted` what the session's policy compares: the digest given with that of the
bank in the session's SHA-256, in index order.

In `Examples` a program is its list of steps, its session, its flags and what it does with
an error (`Main`). `runs` remembers every program that was started with what
it read and made; `cur[p]` and `todo[p]` say where shell `p` is. A file is a whole key
file or message, is missing, empty (or shorter than a nonce), or torn. `os.WriteFile` is two
steps, `os.ReadFile` one. `WriteFails`, `LibraryFails` and `Kill` end a run early.

## 3. Runs

All runs check for deadlock except `slices`, `pcrmap`, `sha1` and `examples`, in which the
callers stop after a bounded number of calls, entries or programs.

| Run | Instance | Question |
|---|---|---|
| `rm` | two clients on `/dev/tpmrm0` that seal and open with two instances, whose keys differ but have the same PCR policy; one dies, or a PCR changes | Do the keys or results of one client get into a call of the other? Do entitled callers succeed? Is every behaviour one of `AEADService`? |
| `tamper` | one client, three instances that share keys pairwise, two sealed messages, every recombination of their parts, nonces of 12 and 8 bytes | Does `Open` accept only what was sealed? |
| `keys` | one client on a socket whose TPM hands out any free slot, from `NewKey` on; every kind of session, right and wrong passwords; any two of: command fault, crash, TPM2_Clear, new owner password | Are pairs consistent and usable? Do the slots suffice after failures, however they are chosen? Is what a call has computed always that of its steps (`DataInv`), and what it has loaded where it expects it (`LoadInv`)? Does a call to which nothing happens fail with an excuse only (`SuccessInv`)? Is every behaviour one of `AEADService`? |
| `live` | two clients that call all the time over swtpm's socket, with a PCR policy and one session slot; a command fault, a broken connection or a restart | Does every call end and get its answer? Does a call that keeps its connection release everything, and no call anything of others? |
| `encoding` | any two of 110 messages: additional data and ciphertexts of zeros and ones, with lengths around the end of a block | Is a MAC input the input of one message only, and is the padding right? |
| `loops` | two nonces next to each other; 0, 1024, 1025 and 2064 bytes, the last up to the next nonce | Are pieces encrypted, decrypted and hashed as the whole, without reuse of key stream? |
| `slices` | two goroutines; any two of 52 calls on seven arrays: room behind `dst` and behind the nonce, output over the text or shifted, nonces of one pool, unauthentic and too short inputs; a failing command anywhere | Are results those of the arguments? Is anything written that should not be? |
| `pcrmap` | all lists of up to three entries on three PCRs with two values, and of up to two entries with values of no, half and twice a PCR's length as well, with all four algorithms' names; PCRs extended before and after the key is made | Is a key bound to the PCRs named, and to all of them? |
| `examples` | two shells, at most three runs, of the programs for one kind of session, two command lines with different passwords, PCRs, texts and additional data; one of: a run killed, failing to write, or refused by the library, a PCR, the owner's password or seed changing | Do the three commands work in a row? Are the files, and what is printed from them, in order? |
| `large` (violation) | a policy key and 1025 bytes | see finding 1 |
| `leak` (violation) | a PCR digest that does not match | see finding 2 |
| `sha1` (violation) | SHA-1 PCR maps | see finding 3 |

**Properties.** `TypeOK`; `KeysReleased`, `LeaksAtMostOne`, `FlushesOwn`,
`HandlesStayValid`, `SlotsSuffice` (an action property) about handles and slots;
`SealedUnderOwnKeys`, `OpenAuthentic`, `PairsConsistent` about the data;
`EntitledSucceeds` about availability: a call by an entitled caller that fails,
although nothing happened while it ran, is one that was too long for its policy
session (finding 1). `Implements` (runs `rm` and `keys`): the library implements `AEADService`;
`ImplementsLive` (run `live`, under `FairSpec`): it does so and every call gets its
answer. `EncodingInjective`, `CiphertextAligned` about the MAC input; `OnePass`,
`RoundTrip`, `KeyStreamFresh`, `HashesAll`, `TurnsAsProgrammed` about the loops. `SealedFromArguments`, `OpenedFromArguments`, `ResultsKept`, and the action
properties `WritesInFootprint`, `OpenWritesAuthentic`, about the caller's memory.
`BoundToNamedPCRs`, `UsableMeansAllHashed`, `NothingPartial` about PCR maps.
`ThreeCommandsWork`, `OnlyNewKeyStrands`, `OnlySealedPrinted`, `WholeFiles`,
`PanicsOnlyOnUnfinished` about the programs. `PROJECT.json` gives, for each property of each
run, a mutant of the model (a dropped deferred function, a wrong handle flushed, a
password not passed on, data left out of the tag ...) that it catches.

The keys and instances of `InitPairs` and `InitAEADs` are those that earlier calls made;
`MadeBefore` is how many keys that took, so that new ones are different from them.

**Bounds and why they are enough.** Two clients: the interference between calls is
through slots, handles and the one socket, all of which a second client is enough
to exercise; everything is symmetric in the clients. Slots: three objects is what
swtpm and the kernel offer and exactly what a call needs, one session is the least
that lets a call through, so nothing is hidden by spare room. Lengths 0, 20, 1024
and 1025 give no command, one, one and two; nonces of 12 and of 8 bytes the two
outcomes of the check. Events (`MaxEvents`), keys, instances and messages are
capped in the guards; two events (`keys`) are a failure followed by another
during the recovery or the next call, and one (`live`, `rm`) a failure of one client that
the other has to live with. Session values are chosen so that right and
wrong PCR values (`rm`) and passwords (`keys`) occur. In `rm` the two instances differ in nothing
but their keys: with other policies a call that got hold of the other's key would be refused
by the device, here only the result shows it (the mutant `KeyFileShared`). They share one
nonce, text and additional data, which a call gets as arguments of its own; that it
uses those is `DataInv`, proved for any number of clients and checked in `keys`. The commands of
`NewKey` interleave with others in the theorems only.

In `loops`, lengths are those before, at and after the end of a piece, and 129
blocks between nonces instead of 2^32 let the longest message run up to the next
nonce, which in the code takes 64 gigabytes; nothing in the code stops a longer one, and a
longer one is left out (`LengthAssumption`). The caller's promise never to use
a nonce twice is the guard of `BeginEncrypt`. Every theorem below about the loops is for any
lengths.

In `slices`, interference is between two calls, and a third would add nothing that one of
the other two does not see; texts of one and two cells give one and two commands. In
`pcrmap`, two entries out of order or equal need a list of two, and a third one an
index between them; a PCR has two bytes (`Size`), the fewest for a value that is shorter and not
empty, and two values of odd lengths are the fewest that add up to a PCR or to two. In `examples`, three runs are newkey, encrypt and decrypt, or two of
them and one that overwrites a file of theirs at the same time; keys imported for the test
vector are on file at the start. The programs of different directories are not mixed (`Suite`).
All key files of one program and password have one length, so mixed ones come from
`WriteFails` only. One of the texts is longer than one `EncryptDecrypt2` command takes, and so only the programs
without a policy can encrypt it (finding 1; `Fits`). A list that does not parse is left to `pcrmap`.

**Fairness.** `FairSpec`: weak fairness of `Advance(c)`, because a running call is
a goroutine that the Go runtime schedules and a command that the device answers
or that fails with the connection; strong fairness of `Accept(c)`, because swtpm
takes connections from its listen backlog in order, while whether it is free
comes and goes. New calls and the environment have no fairness. `ImplementsLive` has the
same assumptions: `AEADService!LiveSpec` promises an answer to every request without
fairness of its own, and `FairSpec` must provide it.

## 4. Proofs

All theorems hold for every value of the constants that satisfies the named
assumptions of the modules (`ASSUME ...Assumption`, which TLC evaluates in every run):
the types of the constants; `NoClient` is not a client and `NoPassword` is a password;
`KeyAssumption`, keys made earlier have different identities; `PairAssumption`, pairs made
earlier are as `NewKey` makes them, and instances made earlier are of such keys.

### The library: `TPMAEAD*_proofs`

| Module | Inductive invariant | Theorems |
|---|---|---|
| `TPMAEAD_proofs` | `IInv`, `HandleInv` | `TypeCorrect` (`TypeOK`), `ReleasesKeys` (`KeysReleased`), `FlushesOnlyItsOwn` (`FlushesOwn`) |
| `TPMAEADService_proofs` | `DataInv` | `SealsUnderOwnKeys` (`SealedUnderOwnKeys`), `KeepsPairsConsistent` (`PairsConsistent`), `OpensOnlySealed` (`OpenAuthentic`), `ImplementsService` (`Implements`) |
| `TPMAEADLoads_proofs` | `LoadInv` | `LeaksOnlyOne` (`LeaksAtMostOne`), `HandlesStay` (`HandlesStayValid`), `SlotsAreEnough` (`SlotsSuffice`) |
| `TPMAEADLoads_proofs` | `SuccessInv` | `EntitledCallersSucceed` (`EntitledSucceeds`) |

They hold for any number of clients, slots, events, messages, keys and PCRs, any sessions,
passwords and lengths, and both transports, but for the hypotheses of three of them: `HandlesStay`
is about runs in which nobody clears the TPM behind a resource manager's back (`NoClear`:
a socket, or no TPM2_Clear; what a clear takes away, a command does not find),
`SlotsAreEnough` is about devices with at least three object slots and one session slot, and
`EntitledCallersSucceed` about resource managers that give every connection so many
(`SlotsEnough`; on a socket it needs no hypothesis, because `EntitledSucceeds` excuses a lack of
room there).

`ReleasesKeys` and `LeaksOnlyOne` are about what calls leave behind by a result, an error or a
panic; on a socket a call whose connection broke or whose process died is not covered
(`CutOff`), on a resource manager it is.

**`IInv`.** `KeysReleased` speaks of finished calls and is not inductive. `IInv` adds what
is true in the middle of one: `ProgramOK`, the steps to come are commands of the function
that was called; `ResultOK`, what a result is made of has been computed or is still to
come; `StackOK`, the deferred close is the first thing deferred, is there as long as there is a
connection, and nothing is deferred between calls; `Covered`, a loaded primary or key
whose owner is running has its flush on the owner's stack.

**`HandleInv`.** That a deferred flush hits nothing of others needs to know where handles
come from. `OrderOK`: the steps to come are an end of the call's program, in its order
(`SealPlace` and the like number the steps; a program depends on the session and on
lengths, which add repetitions only). `UniqueHandles`: one thing per handle. `HandlesOK`:
a client holds handles of its own space, and none before its connection is served.
`OwnersOK`: what is loaded for a call is in its space and on its connection, and while
it is served nothing else is at its handles. On a socket all clients share one
space, and `OneServed` takes its place. These proofs begin with the order of the programs
(`NewKeyPlaces` ... `OpenPlaces`, `Position`, `Proceeds`): which steps are behind when a given one
is taken is what most later proofs turn on.

**`DataInv`.** `ContentOK`: from the step that loads a key, a sequence, a primary or a trial
session to the last that uses it, what is at the handle is what the call put there.
`WorkOK`: what the call has computed is what its steps so far give. `ArgumentsOK`,
`OutcomeOK`, `HistoryOK`: instances, pairs and sealed messages come from earlier calls, and
key identities are not reused. With that, the step in which a call returns has just the
result the service gives (`MakeKeysStep`, `SealMessageStep`, `OpenMessageStep` and so on), every other step
changes nothing a client sees, and `ImplementsService` follows action by action.

**`LoadInv`.** `LeakOK`: at most one thing a call has loaded is not deferred: the session
`GetSession` is still making, or the sequence of `tpmhmac`; so that is all a failure can
leave behind. `SlotsOK`: what a call has loaded is at handles of variables in use, and when it is
about to load an object only the primary and the HMAC key can be (`UseAtLoads`), because the
AES key and its session are flushed first; hence three slots and one. `PresentOK`: it
is there, at different handles, so that no command names one that is gone.

**`SuccessInv`.** That an entitled caller succeeds needs, for every reason for which a call can
give up, that it is absent or that something has happened since the call began
(`Calm`: the environment has done nothing since). `Suited` is `Entitled` without a condition on `Open`'s input, whose tag is compared in
the middle of the call. `FailureOK` says that a call that fails although it is suited, modest
(no policy, or data for one command) and calm is `Excused`: a socket had no room, or the tag `Open`
computed is not the one it was given, which `SealedUnderOwnKeys` then refutes for sealed
input. One lemma refutes each other reason:
- an authorisation that is not the owner's, a key of another parent: `AuthMet`, `IntegrityMet`, the latter from
  `PrimaryFresh`, a primary loaded is of the present hierarchy, which only TPM2_Clear changes;
- PCRs that are not as the caller says, a policy that is not met: `ValueMet`, `AuthorizationMet`, from
  `SessionThere`, a session between its start and the command it authorises has the assertions its
  steps so far made, the password the call gave it and the PCRs' update count. The command
  that uses a session empties it: `OnceOK` says that data that fit one command are encrypted
  by one, and without it the property is false (finding 1);
- a handle that is gone, no room with a resource manager: `NotRefused` and `SlotsLeft` from `LoadInv`, and `RMOK`,
  a resource manager keeps nothing that no connection answers for;
- a connection that is gone: `StillConnected`, from `ConnectedOK`; and the library's own checks: `ChecksMet`.

Each module has a lemma per action, or per group of actions that do the same to the
invariant, and one that puts them together (`NextInvariant`, `NextHandles`, `NextData`,
`NextLoads`, `NextSuccess`). TLC checks `DataInv`, which contains `HandleInv` and `IInv`, `LoadInv`,
which is inductive together with `HandleInv`, and `SuccessInv`, inductive together with
both, in the run `keys`.

### The caller's memory: `SliceMem_proofs`

`SliceMem_proofs.tla` proves the five properties of `SliceMem`: `SealReturnsTheSealed`
(`SealedFromArguments`), `OpenReturnsTheOpened` (`OpenedFromArguments`), `ResultsStay`
(`ResultsKept`), `WritesStayInFootprint` (`WritesInFootprint`) and
`OpenWritesOnlyAuthentic` (`OpenWritesAuthentic`), for any number of goroutines and
calls, any arrays and slices of them that share cells in any way, any lengths of text,
nonce and tag. The assumptions say that requests are slices of the arrays
(`ArraysAssumption`, `RequestAssumption`) and that sizes are positive
(`SizeAssumption`). The properties of results speak of calls that nobody disturbs
(`Undisturbed`): the footprints of the calls that run at the same time do not meet what
it reads or writes, nor its own output its nonce and additional data.

**`IInv`** (checked by the run `slices`) says what is known in the middle of a call, in
two layers. `PlacesInv` holds whoever disturbs whom: a call's steps to come are an end
of its program (`ProgramOK`), its output is `dst` extended in place or an array that
nobody else has (`RetOK`, `OwnOK`), as many pieces are gathered as the steps to come
leave (`PiecesOK`), and of two calls that ran at the same time the earlier knows of the
later (`TogetherOK`). From it follows what a step writes (`WritesStayInFootprint`), and
so that the step of one call leaves the cells of a call it does not disturb as they are
(`OthersKept`, `OthersData`), and results that are out (`OldKept`).

`DataOK` holds for an undisturbed call: its arguments are still as they were given, for
as long as it reads them (`ArgumentsHold`); its nonce, pieces and MAC input are what
follows from them (`LocalsOK`); and so is what it has written into its output
(`OutputOK`). It is not inductive without `PlacesInv`, and the properties of results are
not without it: at `Return` they are just `OutputOK`.

The lemmas at the beginning of the module are about slices: what `extendSlice`, a copy
and an `append` leave of the contents of a window.

### The algorithms

`MacEncoding_proofs.tla` proves `EncodingInjective` (`TagsOneMessage`, from the lemma
`Injective`) and `CiphertextAligned` (`Aligned`) for any set of messages whose lengths
fit a uint64. The lengths in front are of fixed size and give back the lengths of
the additional data and the ciphertext (`PutUint64` is injective below 2^64), and with
these every other part is at a known place.

`CommandLoops_proofs.tla` proves `OnePass`, `RoundTrip`, `HashesAll`, `TurnsAsProgrammed` and
`KeyStreamFresh` for any nonces, lengths and counter range. The inductive invariant
`IInv` says that, before the last turn, a whole number
of pieces is behind: 1024 is a multiple of the block size, so the counter block that
came back is exactly the one of the next byte (`StreamGoesOn`, `PartGrows`). The last
piece may be shorter; its counter block is never used. Decryption undoes
encryption because the key stream is added twice (`CTRInvolution`). `StreamInv` (checked by
the run `loops`) adds that plaintexts are the caller's, each under a nonce of its own;
`SymbolsOf` then counts the places of the key stream in a ciphertext.

`PCRMap_proofs.tla` proves `BoundToNamedPCRs`, `UsableMeansAllHashed` and `NothingPartial` for any
PCRs, values of any length and inputs. What a digest says of the PCRs it says of a string of bytes. Whatever
is listed, the PCRs of a usable key spell the listed values one behind the other
(`Spell`); that each listed PCR holds *its* value needs that every value is as long as a PCR
(`Sized`), which `GetPCRMap` does not check. `IInv` (checked by the run `pcrmap`) says that map and hash
are those of the entries read, and that a key is bound to the whole map. The
library hashes in the order of the input, the TPM in that of the indexes; that the two are
the same for an increasing list is a fact about finite sets of numbers: a list in increasing
order puts every number at its rank (`RankInList`), so there is only one
(`ListedOnce`), and `InOrder` is it (`InOrderLists`).

### The example programs: `Examples_proofs`

`Examples_proofs.tla` proves the five properties of `Examples` for any number of shells, runs,
files and events, any command lines, passwords and PCR values, and whatever keys are on file
at first: `ThreeCommandsInARow` (`ThreeCommandsWork`, for texts of any length if there is no policy and of one
`EncryptDecrypt2` command if there is), `OnlyNewKeyStrandsMessages`
(`OnlyNewKeyStrands`), `PrintsOnlyWhatWasSealed` (`OnlySealedPrinted`), `FilesStayWhole`
(`WholeFiles`) and `OnlyUnfinishedFilesPanic` (`PanicsOnlyOnUnfinished`). The first two have
the hypothesis `FilesApart`: no command line gives one name to a key file that another gives
to a message file. Without it `encrypt` overwrites keys, and both are false.

**`IInv`** is about runs and about files; it implies `TypeOK` (`TypeCorrect`). TLC finds it invariant
too when it is written for `TypeOK` in `examples.cfg`, which makes that run half as long again.

- Of a run it says where it is in its program (`InOrder`) and what it has got hold of by then:
  its keys (`PairOK`), the message it has sealed (`SealedOK`) or read (`ReadOK`), what it has
  printed (`PrintedOK`). As long as no event has happened since the run began, keys and message
  suit the device as it is. `BesideOK` says who ran beside whom, so that a file that changed
  can be put down to a run.
- Of a file, `FileOK` says that a message on it was sealed by some run, and who is to blame if
  it is empty or torn: a run about to write it, one that gave up, or two at the same time.
  `WrittenOK` is the other direction: the last run to write a file, if it was alone, finds it
  empty when it writes and leaves there what it meant to write.
- With `FilesApart`, `KeysKept` says that the keys of a message stay on file until newkey is
  run, and `HandedOn` that a run that follows another, with nothing but decrypting in between,
  works with that one's keys and message. `FindsOnFile` derives from these what such a run
  reads, and `MovesSucceed` that no step of it can be refused.

The module begins with the programs' lists of steps, which all follow one order (`Rank`,
`KindFacts`); `ShellTakes` then puts every step of a shell into one form (`Moves`, with `Well` or
`Wrong`), and the invariant is proved for that, for the start of a program and for a change of
the device (`ShellKeeps`, `StartKeepsAll`, `DeviceKeepsAll`).

### Only model-checked

The liveness in `ImplementsLive` (`Implements` is its safety) is out of TLAPS's reach. Every safety property of
every passing run is proved.

## 5. Findings

1. *Policy keys encrypt at most 1024 bytes* (run `large`). `README.md:166` says PCR and
   password conditions hold "whenever you encrypt or decrypt data", and
   `encryptDecryptSymmetric` splits long data into several commands. The one policy
   session that authorises all of them is back in its initial state after the first:
   with a PCR or AuthValue policy the second command is refused, `Seal` panics and `Open`
   fails. The test of long data uses the session without a policy.
2. *A session that could not be set up stays open* (run `leak`). `GetSession` returns its
   closer together with an error of `PolicyPCR` or `PolicyAuthValue`; `NewKey`, `Seal`
   and `Open` drop it. On swtpm's socket nobody closes that session any more.
3. *Keys bound to SHA-1 PCRs cannot be used* (run `sha1`). `GetPCRMap` hashes SHA-1 values with
   SHA-1 (`util.go:87`), while every session is opened with SHA-256 (`sessions.go:53, 59`), so the TPM
   compares a SHA-256 digest. A trial session does not compare; `NewKey` succeeds, and
   every `Seal` and `Open` is refused.

One more deviation is modelled as the code has it, without a run of its own: `Seal` lays out
"existing dst + ciphertext + tag" (`tpmaead.go:289`), as `cipher.AEAD` does, but returns
`append(nonce, ret...)`, so the result starts with the nonce, and a `dst` that is not empty
ends up between nonce and ciphertext. `SealedFromArguments` states this layout. With
room behind the nonce the result goes into the nonce's array; `WritesInFootprint` and
`ResultsKept` say what that can overwrite. And `GetPCRMap` takes values that are no PCR
value: `15:,23:<PCR 15 and PCR 23>` gives the digest of the two PCRs, and a key bound to it is
usable, which `UsableMeansAllHashed` states as it is.

## 6. Not modelled

- Key files (PEM, ASN.1) and go-tpm's marshalling and authorisation HMACs: outside
  the repository; a key pair is a value, a command either reaches the device or not.
- A lost *response* (the command ran, the answer did not arrive) is not a step of its own: to the
  caller and to the device it is the command followed by a broken connection, which is
  modelled after every command, as long as the caller does not use the answer. Flushes
  fail only on a broken connection or an absent handle. The dictionary-attack lockout, unsupported key sizes, and keys of
  the wrong kind passed to `NewAESCTRHMAC`.
- The hexadecimal and the commas of a PCR list; two PCR banks in one selection (the
  library never makes one); a selection of PCRs without a digest, for which the TPM takes the
  PCRs as they are (`NoDigest` goes with an empty selection, which is what `GetPCRMap` returns
  for no list).
- File reads that see half of a write; permissions; the same file as keys and message.
- Tests: straight-line clients.

## 7. Plan

In order; each module gets an MC module and a run, the starred ones theorems.

1. Done: `TPM`, `Programs`, `TPMAEAD` and the theorems of section 4.
2. Done: `MacEncoding`* (what the comments at `tpmaead.go:390` and `:516` write as
   `Nonce || AdditionalData || Ciphertext` is in short for the encoding modelled; by
   itself it would not be injective).
3. Done: `CommandLoops`*.
4. Done: `SliceMem`, `PCRMap`, `AEADService` with `TPMAEADService`, `Examples`.
5. Done: theorems about `TPMAEAD` (`TPMAEAD_proofs`, `TPMAEADService_proofs` with the
   refinement, `TPMAEADLoads_proofs` with `EntitledSucceeds`), `KeyStreamFresh`, `PCRMap`*, `SliceMem`* and `Examples`*.
