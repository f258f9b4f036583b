# A verification of the srpg code

TLA+ models of the parts of this repository that have code with state, order or
an algorithm: the `rrpc` library under `common/rrpc/`, its predecessor in
`common/rrpc/old/`, the spreadsheet tool under `tools/excel_tool/`, and the search
of the game logic.
TLC checks the models on small instances. For thirteen of them (chains and nested
chains, connection, pool, RPC session, RPC packages, datagram, archives, byte order, container
device, column types and both searches) TLAPS proves the safety properties, and two
refinements, for every instance. The repository has no tests and almost no documentation: what the
properties state comes from the comments (`/// @brief ...` of `async_ops.hpp`
above all) and from what each piece of code relies on.

Paths below are relative to the root of the repository (`src/` in
`PROJECT.json`, which also lists for every definition the lines it models).

## The system

| component | state | operations | what makes it correct |
|---|---|---|---|
| call chain, `async_ops.hpp` | links (`chain_impl`): deferred handlers, counter of completions, mutex, reference counts | `then`, `any`, `all`, `wrap`, `run`, destruction; `complete()` on io_service threads | handlers run once, not before those they are chained to, and in the end |
| TCP connection, `connection.hpp` | send queue, size word, head buffer, read size, read buffer | `send`, completion handlers of read and write | packets leave whole, once and in order; the sender never stops |
| object pool, `object_pool.hpp` | lock-free queue, shared and weak pointers | `construct`, `destruct`, automatic destruction, end of the pool | no object in two hands, none leaked, no use of a pool that is gone |
| RPC session, `old/session.hpp`, `old/connection.hpp`, `old/idl.hpp`, `old/package.hpp` | map of waiting promises, package, batch flag, bound interface | `request`, `begin_batch`, `end_batch`, `bind`, `_invoke`, `_response` | a call gets its own answer; calls are invoked in order |
| datagram retry, `session.hpp` | timer, operations going on | `send`, `handle_send`, `handle_time_out` | one retry cycle; it ends |
| RPC packages, `old/package.hpp`, `old/connection.hpp`, `old/header.hpp` | sizes of the packets, stream buffer, running totals | `begin_packet`, `end_packet`, `pack`, `consume`, the read loop | the other end reads what was written, where it was written |
| encoding, `encode.hpp`, `decode.hpp`, the archives | a position in the bytes | `operator<<`, `operator>>` of every built-in type | decoding inverts encoding |
| byte order, `conversion.hpp` | none | `reorder`, `native_to_little` ... | a number survives any two hosts |
| container device, `container_device.hpp` | container, position | `read`, `write`, `seek` | it is a file |
| compile-time sequences, `old/integer_sequence.hpp` | none (templates) | `shift_left`, `shift_right`, `push_ladder`, `partial_sum` | they compile, to what their names say |
| spreadsheet tool, `tools/excel_tool` | tables, constraints that remember, shared types | `define_tpl`, `check_tpl`, `convert`, type expressions | a bad table is reported, a good one is not; a cell is read by its grammar; a column gets its own indices |
| search of the game logic, `src/logic/visitor.h` | list of vertices; status with a history | `breadth_first_search`, `think` | everything reachable, nearest first; the best line, and the status as it was |
| lock-free queues, `mpsc_queue.hpp` | two indices packed in one atomic word | `push`, `consume_thread` | not modelled |
| game map and data, endpoints, coroutines | declarations | - | not modelled |

How they interact: a session writes packets into a package and gives it to its
connection; the connection writes it with asynchronous operations whose
handlers run on the threads of an `io_service`, takes packages of the peer apart
and calls back into the sessions. The chain orders handlers on the same
`io_service`. The pool is shared by threads. The archives, the byte order and the
container device are called by one thread at a time, with bytes that arrive when
they like. The spreadsheet tool and the search are sequential programs whose
state lives longer than one call.

What is hard here: completion handlers of several threads racing for one list
(chain); destructors that run code when the last of many references goes (chain,
pool); memory that asynchronous operations refer to (connection); ids that are
used again (session); a timer racing a late answer (datagram); bytes read out of
step (packages, archives); sets and objects that remember an earlier call
(spreadsheet tool); unsigned arithmetic at 0 (sequences). `PROJECT.json` lists the
places under `hazards`, with the properties that watch them. A few more have no
property because the code says nothing they could contradict: the read buffer of
`connection.hpp` (110) is never consumed and grows; the same packet object sent
twice is consumed under the second write (158); a recycled object of the pool is
returned as its last owner left it (`object_pool.hpp` 20); `end_batch()` without a
call sends a null package (`old/session.hpp` 199); `make_session` returns a
reference into a vector that the next call may move (`old/connection.hpp` 173); a
constraint `Foreign` always raises (`constraint.py` 62).

## The modules

| module | models | checked by |
|---|---|---|
| `Chain` | the call chain | `MCChain` with `chain_safety`, `chain_live`; proofs: `ChainProofs` |
| `NestedChain` | chains as handlers of a chain | `MCNestedChain`, run `nested`; proofs: `NestedChainProofs` |
| `Connection` | one direction of a TCP connection | `MCConnection`, runs `connection`, `connection_mark`, `connection_once`; proofs: `ConnectionProofs` |
| `ObjectPool` | both pools, with clients on threads | `MCObjectPool`; proofs: `ObjectPoolProofs` |
| `Allocator` | what a pool promises (abstract) | refined by `ObjectPool` (checked and proved) |
| `RpcSession` | remote calls between a session and its peer | `MCRpcSession`, runs `rpc`, `rpc_unbound`; proofs: `SessionProofs` |
| `Package` | the bytes of the packages in one direction | `MCData`; proofs: `DataProofs` |
| `Datagram` | sending one datagram again until it is sent | `MCDatagram`, run `datagram`; proofs: `SessionProofs` |
| `Archive` | the encoders and decoders | `MCData`; proofs: `DataProofs` |
| `ByteOrder` | the byte order conversions | `MCData`; proofs: `DataProofs` |
| `ContainerDevice` | the device over a container | `MCData`; proofs: `DataProofs` |
| `File` | what a device promises (abstract) | refined by `ContainerDevice` (checked and proved) |
| `IntegerSequence` | the instantiation of the templates over `seq` | `MCData` |
| `TableChecker` | defining and checking tables | `MCTools` |
| `TableText` | reading the text of a cell | `MCTools` |
| `SheetTypes` | the types of the columns and their indices | `MCTools`; proofs: `ToolsProofs` |
| `Think`, `Visit` | the two searches of `visitor.h` | `MCTools`; proofs: `ToolsProofs` |
| `Tools` | `SheetTypes`, `Think` and `Visit` side by side, without the modules that have `RECURSIVE` operators | extended by `MCTools` and `ToolsProofs` |
| `SequenceLemmas` | nothing: facts about sequences that several proofs need | - |

`MCData` and `MCTools` each hold several parts that have nothing to do with each
other: `part` says which of them moves in a behaviour, and the others stay where
they were put. The states are the sum of those of the parts, not the product, and
every property is that of the part's module. They share a run because each is
small, and a property checked there is usually the conjunction of what its module
states part by part. Those modules state their assumptions on the constants as definitions, which `MCData`, `Tools`,
`MCTools` and `MCDatagram` assume of their instances. `MCDatagram` also gives what
`Datagram` promises names of its own, so that `SessionProofs` can speak of it beside `RpcSession`.

Operators marked "Fault" in a module are not part of its specification: each is
a definition as a plausible mistake would have made it, used to see that a
property notices (`mutants` in `PROJECT.json`).

### Chain

A link is a `chain_impl`. `deferred[l]` is its `_deferred_handlers`,
`required[l]` its counter; `wraps[h]` is the link whose `complete()` the chained
handler `h` calls after `_first()`. A handler moves from a deferred list to the
`batch` of a run (the local vector after the swap), from there, one at a time, to
the io_service (`ready`), and to a thread (`running`).

`Main` is the thread that builds the chain. It holds chain objects (`handles`),
adds links with `Then`, `AnyOf` and `AllOf`, hands out wrapped handlers with
`Wrap`, forces the root with `Run`, and lets chain objects go (`Drop`).
The threads of the io_service do `Dequeue`, `First` (or `Throw`, when the handler
throws out of `io_service::run()`), `Complete`, `Post` for every handler of the
batch, and `Return`. `Complete` is the critical section of `complete()` up to the
`guard.unlock()` of `run(guard)`; posting happens outside it, so other threads
come in between, as they do in the code.

Lifetime is modelled as the code has it: `Referenced(l)` holds while a chain
object, or a copy of a handler that wraps `l`, exists anywhere, and `Destruct`
may happen at any time after that; it runs what is still deferred in `l`.

`post()` does not take the mutex. The model adds links only while no handler has
left the deferred lists (`Building`), which is the use the class allows; adding
later is a data race, which no property here is about.

- `Barrier` is the promise of `any`, `all` and `then`.
- `AtMostOnce` fails as soon as the swap under the mutex is not one step.
- `CompletesLiveLink` depends on the `shared_ptr` bound into the chained handler.
- `NothingHeldBack` says that the early return is not taken once too often.
- `EveryHandlerRuns` (liveness) includes handlers behind links whose count can
  never be reached, and those behind a handler that threw: the destructors run
  them.

Instance: three links, three handlers (two for liveness), two threads, `required`
up to 2, so a link may need fewer, as many or more completions than it has
handlers, two completions may race, and the last reference may go anywhere. A
link is the root, has a predecessor or a successor: three links have every
kind. Symmetry is used for the safety run only. Fairness: threads inside
`io_service::run()` do not stop while there is work, and the chain objects, being
local variables, are destroyed in the end. Nothing is assumed about which handler
a thread takes.

### NestedChain

`wrap_and_post` with a chain as the handler (`async_ops.hpp` 386-412): the last link
of the inner chain gets a handler that does nothing, wrapped by the next link of
the outer one, and a handler that runs the inner chain takes its place in the
current link. The program builds
`chain(service).then(front).any(c_1 ... c_n, need).then(after)`, for any range of inner
chains, each with an `io_service` of its own or none, may run the outer chain or an
inner one itself at any time, and lets its chain objects go in any order. A chain
that has an `io_service` keeps it when it is wrapped, one that has none gets the
outer chain's (399). The object of the outer chain holds the last link and the root
(393-394); the links between are gone with the temporaries of that expression
unless a handler refers to them, so the one behind an empty `any()` is
destroyed at once. Running a handler with its completions is one step:
the interleavings inside it are those of `Chain`.

- `AfterWaits` (`AfterInner` and `FrontFirst`) says what `any` of chains promises, and when the
  program breaks it by running an inner chain itself.
- `NoNullService`: a null `io_service` is used only by a program that runs an inner
  chain while that has none, or under an outer chain that has none. When neither has one,
  lines 399-400 bind a reference through a null pointer, which may crash or pass;
  after that `post()` (119) crashes.
- `EverythingRuns` (liveness) covers an empty range, a `need` of 0 and one that
  is never reached: the destructors of the links run what waits.

Instance: two inner chains, ranges of none, one and two, any of the chains with an
`io_service` of its own, `need` from 0 to one more than there are. Fairness: the threads of the io_service go on, a link nobody
refers to is destroyed at once, the program builds what it began and lets its
chain objects go.

### Connection

One direction: the sender of one end and the read loop of the other. The point
of this model is that a gathered write refers to memory: `ops` holds names of
buffers (the size word, the head, packets), and `Transmit` appends what
the name stands for *now*. So the model sees when a packet is consumed, or the size word
rewritten, under a write that is going on.

`Send` and `HandleSend` are the two ways into `PostWrite`; `HandleSendError` is the branch
with the `TODO`. A write may fail with any part of it written, at any time. `TotalSize` adds
up the sizes of the packets in the queue by counting their bytes.

Two places disagree with the comment on their own line, and two runs show it:

- `connection_mark`: `_sendPackageSize &= 0x80000000; // mark as multi-packets`
  (144) clears the size and sets no mark.
- `connection_once`: `/*packetNum*/ 1` (150): a write of several packets takes
  one off the queue, and the others are written again.

`WritesStable` says that the memory a write refers to stays as it was until it has been
transmitted, and that nothing is written after a failed write.
`SinglePacketsDelivered` speaks of what the reader got as long as every write
carried one packet. Instance: four packets with none, one and two bytes, bytes
below 16 and words of two bytes: the empty packet, the single write, the write
of up to three packets and everything that can be queued during it occur. The
bounds on the sizes and on the number of packets in `ConnectionAssumption` keep each
size, and the count in the head, a varint of one byte. Fairness: the io_services complete what the socket has done.

### ObjectPool and Allocator

Clients are threads that hold the pool (`pools`), objects by `shared_ptr`
(`holders`) and objects from `construct()` (`raw`). A deleter takes four
steps: `Lock` the weak pointer, `Push` into the pool or `Delete`, and `Unlock`, which may
be the end of the pool. The pool may be dropped between any two of them.
`AllocatorSpec` says that all this is an allocator: `Acquire`, `GiveBack`,
`Delete`, over the objects owned and the objects that exist. Line 58 builds the
weak pointer as `weak_ptr<T>`; the model takes it as the pointer to the pool it is
initialised with, the only reading that compiles. `InnerLifetime` says that `inner_` lives
exactly as long as someone uses it: no pushed object is lost and the objects do not
keep the pool.

Instance: three objects, three threads.

### RpcSession

A call is `Send` (`begin_packet`, `write`, `end_packet`) and `Wait` (the promise goes into
`_waitMap`); `between` has what was sent and is not yet waited for. `FreeOid` is the loop of
`get_free_operation_id`. The peer handles a package (`HandleRequests`) and answers it with one package
(`HandleResponses`). It invokes what is in its `_invokeMap`, which `Bind` fills at any
time, perhaps after packages have come, and only methods its interface has
a stub for (not `Unimplemented`).

Four things go wrong because nothing in the code prevents them, and the model has them all:

- *Arguments left.* `ignore()` is empty, so a packet that is not invoked leaves its arguments in the
  buffer, in front of what is read next. A call without arguments (`Bare`) leaves nothing, is
  passed over (`skipped`), and the loop goes on with the next packet.
- *A response before its `wait()`* (`overtaken`). `request()` is `wait(send())`, and the write begins in `send()`:
  the response may find no promise, and is left in the buffer.
- *A second call before the `wait()` of the first* (`doubled`), from two threads or from a program
  that calls `send()` and `wait()` itself: both get one id, and the second promise is broken.
- *Mixed writes* (`mixed`). `connection::send` starts an `async_write` whatever goes on (`Write`). A write is
  over at the latest when its package has been read.

A reader that has lost its place (`misread`) goes on, here as there: `ReadGarbage` takes any packet of `Stray`
for one that was sent, invokes it or sets a promise with it. That it may by chance find its place
again adds nothing: the packets that follow are among those it may take for others.

The properties say that these four are the only ways. `AnswersRight` and `IdsApart`: while no reader has lost its place and
no two calls were sent before a `wait()`, every call gets its own result; and
a reader loses its place for these reasons only. `InvokedInOrder`: the peer takes the calls in the order of `request()`, each once, up to and with
the first one whose arguments it leaves. `EveryCallAnswered`: every future becomes ready, unless the connection is lost,
the peer passed the call over, or one of the four came about. `rpc_unbound` shows that arguments are
left, against the comment "discard left bytes of this packet".

The functions of the session are steps. Called from two threads at once
they race for `_waitMap` and `_package`; that is undefined behaviour and not modelled.

Instance: four calls (one of a void method, two without arguments), two operation ids and
two outstanding calls: all ids in use, ids used again, a void call with an id that
another call has. More outstanding calls than ids break a promise (the `TODO: error`
of `get_free_operation_id`), hence `MaxWaiting`. One packet is read from a wrong place
(`MaxGarbage`), enough to answer a call with the result of another, or twice. Fairness: the io_services run, the program waits for
what it sent, a batch that holds calls is ended.

### Datagram

One datagram, the transport as "completes once, any time", the timer as "may
expire any time" (its expiry is nowhere set). The strand is a queue of handlers.
`MaxExpired` bounds how often the timer expires, because the code does not; with five,
a late completion overtakes and is overtaken by every later retry. `RetryCycle`: at most
one wait of the timer is going on, and only while an answer is to come. No fairness is
assumed for the timer.

### Package

What `RpcSession` takes as whole packages, in units of the wire: the size word, the
list of the packets' sizes, and the fields of the packets. `WritePacket` is
`begin_packet` to `end_packet`, `Send` is `pack()` and the start of the write,
`Transmit` and `HandleSend` the write itself, `ReadPackageSize` and `ReadPackage` the
read loop. A number is whole here: the byte order it travels in (`package.hpp` 59, 163) is
`ByteOrder`'s subject. Nothing in `old/connection.hpp` keeps two writes apart (162), so
several may go on and their buffers mix. What a handler does not read stays in the
buffer.

`InStep` says when the reader is in step and what can bring it out:
overlapping writes, a write that failed, a packet nobody reads. The loop over the packets of a
package (`TakePackets`) is a recursive function. Even then, as long
as writes do not overlap, the packages stay framed (`PackagesFramed`): the sizes of
the packages do not depend on what is read of the packets.

Instance: a request, a response and a request nobody reads, in up to three
packages. Package objects are interchangeable and symmetric.

### Archive

The writer puts values of any schema into a stream; the bytes arrive one at a time or
many; the reader decodes the next value at any time, whether it has arrived or not, as
the code does. `Var` and `ReadVar` are the variable length code with its sign bit for
signed numbers, `ReadFixed` what `io::read` gives of a fixed integer, `ReadVector` the
loop of the vector decoder, which decodes each element by the decoder of its type.
At the end of what has arrived `io::get` returns -1, and the code goes on with it.

Writer and reader do not have the same types. An enum has a decoder and no encoder (it
is commented out): boost saves it as an `int`, with a sign bit, and it is read as its underlying
type; so one of a signed type (`enum`) comes back and one of an unsigned type (`uenum`)
comes back doubled, which is `Returned`. A string is written by the archive, size
and bytes, and no decoder reads it: a program reads it as a vector of elements it chooses.
The model has the three choices that are near: `fixed<char>` (`string`), which always works;
`unsigned char` (`bytes`), which decodes each character as a number in groups and works for
characters without the high bit; and `fixed<wchar_t>` for wide strings (`wstring`), of which
only half is written. Vectors themselves are written by boost's serialization, which is not
here. All integers have one width in the model.

`ReaderRight` has three parts. `RoundTrip` and `EofIsEarly` make precise what the two `TODO`s of `decode.hpp` leave
open: the reader is right exactly as long as it begins no value before all of it
is there, and none of those that `Strays` names is among them: a `float`, of which
nothing is read, a wide string, and a string of `bytes` with the high bit in one of
them. `ShiftInRange` is the undefined behaviour of a shift by the width or more.

A byte is `2 * Base` values, a group of bits `Base` of them; a shift by `n` groups is one by the
width or more when `Base ^ n >= Mod`. `MaxLength` is how many elements there is memory for: `resize()`
throws for more, which a size read out of step may ask for. Instance: three values of nine types;
groups of 3 bits and numbers of two bytes of four bits, so that
the last group is cut as 64 bits are by groups of 7; the numbers where the
length changes and the extreme ones.

### ByteOrder

`Reorder` (in place, by a loop of exchanges from the ends to the middle) and `ReorderCopy` (from both ends) and the functions
that call them on a host that is little or big. `NumberKept`: whatever order two hosts have,
and however often a number is sent and converted, it stands for the same
number. The copying functions of a big host (`conversion.hpp` 198-201) name variables that
are not declared, so the header does not compile there: the model takes them with the names
of their parameters, and what it says of a big host is what the header was meant for. Instance: numbers of 2, 4 and
8 bytes, the widths of the code.

### ContainerDevice and File

`Write`, `Read` and the three ways of `Seek`, by any program. `DeviceIsFile` is the
refinement `FileSpec` with two invariants. `FileSpec` says that the
device implements `File` call by call (`AsFile`: a `Seek` from the end is one of the file from the end, and so on) until a write crosses the end (it
overwrites and then inserts again), a seek leaves the container, or a seek is one from the current position
(`cur` adds to a variable that was not set: any position may
come out, so `SeekTo` does not depend on the distance, and `unset` remembers it). `TornOnlyCrossing` and `StaysInside` say that nothing else goes wrong,
after such a seek, too.
Instance: containers up to 4 elements, writes up to 2, old contents of none,
one and two.

### IntegerSequence

The compiler is the program here: `inst` is the template instance wanted, a step
instantiates it, and an instance that comes to need itself does not compile.
`size_t` wraps. A shift by a multiple of the size makes `(dist % size) - 1` the
greatest `size_t`, and whether the recursion ever ends depends on the size
(`ShiftsCompile`). When it ends, the rotation is right (`ShiftsRotate`), but for one
case: after a whole turn the rest of the distance is `2^Width - 1`, so that the elements have moved
by `2^Width` in all, which is nowhere only for a size that is a power of two. A sequence of any other size
may be rotated silently. Instance: sequences of up to seven elements, arguments up to
eight, a `size_t` of four bits: powers of two, sizes that do not compile and sizes that are
rotated all occur.

### TableChecker

`DefineTpl`, `check_tpl` and its records, fields in any order (they come from a
dictionary), with a file that loads or does not. `seen` is what the `Unique`
constraints keep, for ever; `stack` what `push_check_pop` pushed, where a check that
raises leaves its element. `PassesRight` and `FailuresRight` say for which tables a verdict can be
relied on, and for which not: the constraints on a list after its first item, a
second check of the same table, a `Unique` below an `Or`, every report after a check
that raised. The code has no remedy for these: the properties mark their extent and do
not say that they cannot happen. Instance: two tables (one of
scalars, one of lists or tuples), up to two records, four calls.

### TableText

`convert` and `convert_toplevel` of `type2.py` with all their end checks, and
`erlang_to_python` of `parse.py`. The grammar is written down independently; the
conversion of each text must be that of the grammar (`CellsRight`). This module and `TableChecker` use recursive operators,
which is why they stay with TLC. Instance: every text of
up to five out of twelve pieces (brackets, blanks, parts of numbers and strings),
read as seven types.

### SheetTypes

The cell under a column's name is evaluated operator by operator: a shared type, a
template around it, a property on either. Objects share lists, and properties are
appended in place; `set_readonly` protects the shared types. A property is an `Index` or
a constraint, and only the indices go into the table (`type.py` 115-118).
`DumpsWhatWasAsked` says that sharing never shows. Instance: two indices and a constraint, three columns, two objects made, two properties
on one type: enough for a template and a type of its own beside the shared ones.

### Think and Visit

`Think` has the recursion of `calculateBestOperation` as a stack of frames over one
status, for an AI that adds up gains and one that plays against the other.
`Worth` and `BestLine` are recursive functions on the positions.
`ThinkCorrect`: `AnswersBestLine` compares with the best line by its definition, and `StatusRestored` says
that the status is as it was at the end of every call. `Visit` is `breadth_first_search`: its
loop condition `i <= stack.size()` reads behind the end in its last turn, where the
model stops (`past`); until then every reachable vertex was processed once, the nearest
first (`VisitsInOrder`); "once" rests on the visitor, which is taken to remember what it
found. The visitor, the AI and the status are declarations only: they are modelled by how they are used and
marked external. Instance: two moves, two deep, gains of 0 and 1 for each of the six
positions, any of them the end of the game; all graphs of four vertices without
self-loops, which find nothing.

## Proofs

Every theorem holds for any values of the constants that satisfy the assumptions
of the module: any sets of links, handlers, threads, packets, calls or objects, any
number of operation ids, numbers of any width, any finite map, any depth of the
game. Each component has an inductive invariant, lemmas that show that its actions keep
it, and the theorems as consequences. TLC found each property true on the instance of its run
before it was proved.

| module | theorems |
|---|---|
| `ChainProofs` | `TypeOK`, `AtMostOnce`, `CompletesLiveLink`, `Barrier`, `NothingHeldBack` |
| `NestedChainProofs` | `AfterWaits`, `NoNullService` |
| `ConnectionProofs` | `TypeOK`, `OneWriteWhileSending`, `NothingSkipped`, `SinglePacketsDelivered`, `WritesStable` (of steps) |
| `ObjectPoolProofs` | `TypeOK`, `OnePlace`, `NoLeak`, `InnerLifetime`, `AllocatorSpec` (a refinement) |
| `SessionProofs` | of the RPC session `TypeOK`, `InvokedInOrder`, `IdsApart`, `AnswersRight`; of the datagram `DatagramTypeOK`, `RetryCycle` |
| `DataProofs` | `InStep`, `ReaderRight`, `NumberKept`, `DeviceIsFile` (a refinement and two invariants) |
| `ToolsProofs` | `DumpsWhatWasAsked`, `VisitsInOrder`, `ThinkCorrect` |

### SequenceLemmas

What the others share: `ToSet`, injectivity and counts of sequences, `FlattenSeq` and
`Spread` (the concatenation of what a function gives for each element) of an appended
or a taken element, how a prefix of a concatenation is cut. The counting rests on
`FS_Subset`, `FS_AddElement` and `FS_CardinalityType` of the library.

Several of these are about recursive definitions, which the library's induction theorems
cannot reach: they take an operator as a parameter, which none of the provers can
instantiate. `SetInduction` is used instead: induction over the *set* of numbers a statement was shown for,
derived from the well-foundedness of the strict subsets of an interval. `Iterate`,
`IterateOnce` and `IterateAlways` give from it that a function defined by `f[0] = b`, `f[n] = step[f[n - 1]]` exists, that it is
the only one, and that it exists on all numbers; `ComputedFromDeeper` that a function exists whose value
at a point is computed from those at deeper points, when there is a deepest; `LeastNumber`
that a nonempty set of numbers has a least
one. So the loops of `ByteOrder`, `Package`, `Archive`, `Visit` and `Think` and the
`FlattenSeq` of the community modules, which are recursive *functions*, are within
reach. `RECURSIVE` operators and folds whose operator is a parameter are not.

### ChainProofs

Assumed is `ChainAssumption` only: the root is a link, there are finitely many handlers,
`MaxRequired` is a number, and the names used for frames differ.

None of the five is inductive. The inductive invariant `IInv` has three layers:

1. `PlaceInv`: a handler is in one place. While it is in a deferred list it is in no
   rest of a batch, not in the io_service and with no thread, and it was not
   executed (`DeferredOnce`, `TodoOnce`, `ReadyOnce`, `RunningOnce`); a busy worker has a chained handler
   (`Busy`); one that wraps nothing is nowhere (`Unused`). `AtMostOnce` follows.
2. `LiveInv` and `HeldInv`: chain objects hold live links, a handler that exists
   anywhere keeps the link it wraps alive (`KeptAlive`), and no handler vanishes
   without having been executed (`NotLost`). `CompletesLiveLink` follows.
3. `CounterRight`: what a link needs is at most what its counter still shows plus the
   number of handlers that were executed *and* are past `complete()`. When the
   counter is 0, enough handlers were executed; when the link dies, nobody who
   wraps it is left, so (`NotLost`) all were. `Barrier` follows by `ReleasedRightly`: a handler that
   was released stays rightly released, because executed handlers stay executed
   (`StepKeeps`) and only three steps release any (`WaysOut`).

### NestedChainProofs

Assumed: there are finitely many inner chains. `PlaceInv` says which handlers a link may
have, `ReachInv` that no handler is lost, `NoopInv` that each inner chain tells the outer one
once, so that `need <= required[next] + Cardinality(Told)`, and `OrderInv` what was executed before
a handler left its link. All the ways a handler leaves a link (a completion, a run by
the program, a destructor) are one relation, `Release(L)`, with one lemma for
each part of the invariant. The argument about destructors is `UnreferencedRan`: a link is
destroyed only when no handler refers to it, no handler is lost, so those that
referred to it were executed. That is why the exceptions in `AfterWaits` are the
only ones.

### ConnectionProofs

`WriteInv` adds to `OneWriteWhileSending` that a failed write leaves the queue closed (nothing
starts another, since it is not empty) and that the packet at the head of the queue
was written or is in the write that is going on. `QueueInv` ties the queue to the
history of `send()` by positions. `LeftInv`: a stream buffer holds its whole packet or is
consumed. `WritesStable` follows step by step: a step that rewrites the size word, the head or
a stream buffer is one after which no earlier write refers to them.
`TypeOK` needs the arithmetic of words and bytes (`Numbers` and the lemmas after it), with
`Base` unspecified.

`SinglePacketsDelivered` has an invariant of its own (`StreamInv`), about positions in the stream: piece
`2n + 1` is the size word of the packet `n + 1`, piece `2n + 2` its body. What the reader has taken is a number of whole
pieces, what is on the wire is the slice between those and what was written, and the size it waits for is
that of the packet whose size word it took. A write that fails may have written some bytes of its
pieces: they are cut inside (`CutInside`), and the reader takes nothing of a piece that is not
complete. An empty packet needs care: the reader may be past its body before the write is over.

### ObjectPoolProofs

`OnePlace` and `NoLeak` are stated object by object. They are not inductive: that the last
`shared_ptr` of an object is the last way to reach it needs `RawAlone` (what `construct()` gave to
a client is with nobody else), and that a deleter's object is nobody else's needs
`ArgHeld`. `NextRefines` maps each step to a step of `Allocator`, or a stutter; `PoolIsAllocator` follows.

### SessionProofs

`OrderInv` needs no assumption: as long as the peer has not lost its place there are positions in `issued` at
which the packages on their way begin, the first where `handled` ends (`Placed`); if it lost it otherwise than by mixed writes, a call among those
it took left its arguments. `IdInv` is about the answers, while nothing disturbs the session: a packet whose
answer may still come has the id under which its call waits, or will wait as soon
as its `wait()` comes (`Expected`); the id of that call is free. The last is what
`get_free_operation_id` gives if there is a free id, hence the hypothesis `MaxWaiting <= OidCount` of
`IdsStayApart` and `AnswersAreRight`. It is what the program has to respect, not something the code ensures:
with all ids taken the loop of `get_free_operation_id` gives 0 (its `TODO: error`), two calls share an id
and a promise is broken. There is a free id because `waitMap` is
injective on the ids in use and the waiting calls are fewer than the ids, so the ids in use
are not all. `LeastNumber` gives that the scan finds it. From `IdInv` follows, too, that a response nobody waits
for is one whose `wait()` is to come (`NobodyWaits`), and so the second part of `AnswersRight` (`CauseInv`, `NextCause`).

Of the datagram, `RetryCycle` is inductive with the types and with `NotStarted`. As at most one wait is going on,
an expiry or a cancellation adds at most one handler to the strand, and a send adds
a wait only where the handler of one was taken out. `MaxExpired` plays no role in it.

### DataProofs

Four components, each with its specification from its own instance in `MCData`. Assumed is
`DataAssumption`: of the archives, that a group has at least one bit (`Base >= 2`), that a fixed integer has a byte,
that the values of a type are among those it holds, and that the memory for a vector (`MaxLength`) ends before the sizes a number can say.

The device: `TornOnlyCrossing` and `StaysInside` are inductive with the types. The
work is in the arithmetic of `write()`: unless the write crosses the end, the amount that
fits is all or nothing, and what is inserted at the end is what overwriting there
gives (`WrittenInside`, `OverwriteAtEnd`).

The byte order: `ReorderReverses` proves the loop of `reorder()` with its loop invariant (after `n` turns the
first and the last `n` elements are exchanged, the others in place) and that the even length
leaves none between; `CopyReverses` the copying one. `NumberKept` follows because reversing twice
changes nothing, on any two hosts.

The packages: `InStep` needs both ends. `WriterInv` says what the buffers of a package and the bytes on the wire are in
terms of the packets written so far (`FrameOf`: size word, list of sizes, bodies); `ReaderInv`
that, as long as nothing overlapped or failed, what the reader holds and what is on
its way together are the frames not yet read, and what was handled is what the
frames before them contain; `LeftInv` what packets nobody reads leave in the buffer: units
of their bodies, none of which can be taken for a list of sizes. `Loop` proves the loop over the packets of a package, turn by turn
(`TurnInPlace`, `TurnBroken`).

The archives: `Encode` and `Decode` are loops over recursive functions. `VarGroups` says what `Var` gives: the groups
of the number from the low one up (`Left` is what remains after each), with the high bit in each but the
last; it goes by induction over the number, as `Var[n]` uses `Var[n \div Base]`. `Sums` is the loop invariant of the reader:
what was put together so far and what remains, times the power, make up the number; so `ReadVar` gives it back, stops at
the last group, and does not shift too far (`ReadNumber`), and meets the end when not all groups are there
(`ReadNumberCut`). The same is shown of fixed integers and signed numbers. Of a vector `LoopIs` is the loop invariant: after
`n` turns it holds the first `n` characters and stands behind them, or has met the end (`VectorLoop` shows that the loop is a
computation at all, wherever it begins). All are put together in `EncodingIs`.
`ArchiveInv` is the inductive invariant: as long as none that `Strays` names is among the
values, their bytes lie one behind the other (`Laid`), and the reader has the first values and stands behind the
last of these, or began one too early and met the end (`InPlace`). After that nothing is said of where it
stands, and `ReaderRight` says nothing either.

### ToolsProofs

Column types: objects share property lists, and `AddProps` appends in place. The invariant `SheetInv`
says who may refer to what: every object has a list of its own (`OwnList`), the
shared types are read-only and bare (`SharedPlain`), and the value of the cell being
evaluated is the type of no column unless it is read-only (`ValueInv`). So what is appended is
appended to one column's type only.

Breadth-first search: the list is injective (`VisitInv`), each vertex in it was put there by one before it
(`Linked`), all that processed vertices lead to is in it (`Closed`), and no vertex comes
before one that fewer steps lead to (`Ordered`). When the loop has gone through the list, closure gives
that everything reachable is there, by induction over the steps (`ReachedListed`).

Search for a move: `Worth` and `BestLine` are recursive in the length of the position, so they exist and are unique
by `ComputedFromDeeper` (the recursion goes to deeper positions, and there is a deepest). `SearchInv`
describes every frame of the stack: the moves judged so far, the best of them
by their worth and its line; the status is the path to the top frame. `ThinkCorrect` is the
case of the last frame.

### Left to TLC

- Every liveness property (`EveryHandlerRuns`, `EverythingRuns`, `EveryPacketWritten`,
  `EveryCallAnswered`, `ReleasedInTheEnd`): fairness and ENABLED are out of the prover's reach.
- `PassesRight`, `FailuresRight` and `CellsRight`: `TableChecker` and `TableText` use
  `RECURSIVE` operators, which put a module beyond the prover.
- `SequencesRight`: it compares with a sum of the community modules, a fold whose operator is a parameter, and counts modulo
  the length of a sequence, which is not linear arithmetic.
- The types of `Archive` (part of `TypeOK` of `MCData`), which hold of a reader that is out of step, too: within
  reach by the same means, not proved.

## Not modelled

- `mpsc_queue.hpp` is a draft that no build can contain: `N` is not declared, `push`
  assigns to `x.wp + 1` and calls a `compare_exchange` atomics do not have,
  `consume_thread` calls `inc_rp` without its argument, and the position that is read
  back is in the half of the word `inc_rp` does not count. Nothing includes it.
- `idl.hpp` and `packet.hpp` of the new library, `options.hpp`, `export.h`: templates and macros
  without run-time behaviour, and code in comments. The commented-out parts of
  `old/streambuf.hpp` and `old/integer_sequence.hpp` are not code either.
- `connection_old.hpp` is an earlier copy of `connection.hpp`, and `old/conversion.hpp`
  the same file as `conversion.hpp`.
- `endpoint*.hpp`, `local_client.hpp` and most of `src/`: declarations without behaviour; the game
  loop is a comment, `vertex_group.cpp` is disabled, `redo` and `undo` are empty.
- `tools/CoroutineEx.cs` does not compile, and as it is written a coroutine never becomes
  valid, so that no operation on it does anything.
- Pure input and output: the XML of the spreadsheets, the text of the generated
  code, the command line, the ad-hoc calls of `main.cpp`.
- In modelled components: several sessions on one connection, the growth of the read buffer, contents of recycled objects,
  `object_pool::construct_with_auto_destruct`, the serialisation of the new
  library's headers.

Undefined behaviour is modelled where the code reaches it by itself (a seek that adds to
an unset variable, a read outside a container, a shift that is too wide) and
excluded by the guards named above where only a program that breaks the rules
of a class reaches it (`Building`, `EndBatch`).

## Plan

1. Done: the call chain and chains inside it; connection, pool, sessions and
   packages, datagram; encoding, byte order, device with its file, sequences; the
   spreadsheet tool; the searches.
2. Done: the proofs above.
3. Next: the types of `Archive`, for a reader that is out of step, too; of `Chain`, that it
   implements the handlers of `NestedChain` that are run in one step.
