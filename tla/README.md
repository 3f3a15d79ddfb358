# surrealdb.c in TLA+

`surrealdb.c` is a C interface to the Rust SDK of SurrealDB. A C program opens
a connection, calls blocking functions on it from any of its threads, gets
allocations back that it must free, and builds values to send. The crate is a
thin layer: nearly everything that can go wrong is at the boundary. Who owns an
allocation, what a return code says about what happened, what another thread or
a panic does to a call in progress, what is copied and what is shared.

This directory holds TLA+ modules of that layer, the TLC configurations that
check them, and proofs that TLAPS checks.

## 1. The system

### Components

| Component | State | Operations | Correct when |
|---|---|---|---|
| Connection harness, `src/src/lib.rs` (`with_surreal_async`, `connect`, `disconnect`, `check_null!`, `write_error`) | `Surreal { db, rt, ps }` behind a leaked `Box`; the C variables behind `err_ptr` and the out pointer | connect, disconnect, the steps of every call: null checks, load of `ps`, `block_on` in `catch_unwind`, the match on the outcome | the code, the error string and the result tell the same story on every path, and a call says ok only after its request was carried out; every call returns; a poisoned handle is not used |
| Operations of a connection, `lib.rs` `impl Surreal` | none of their own; the SDK's session (namespace, database, user, variables, transaction) | the 31 `sr_*` functions | they look at their statement's outcome, and write a result exactly when they return success |
| Foreign values, `types/value.rs`, `array.rs`, `object.rs`, `string.rs`, `bytes.rs`, `geometry.rs`, `thing.rs`, `number.rs`, `result.rs`, `utils.rs` | allocations behind `Value`, `Object`, `Array`, `ArrayGen`, `string_t`; the C variables that point to them | constructors, insert, push, keys, results, the free functions, conversion to the SDK's values | one owner for every allocation, no dangling pointer, no leak after freeing everything; a C program sees value semantics |
| Live query streams, `types/stream.rs`, `notification.rs`, `lib.rs` `select_live`, `kill` | `Stream { inner, rt }`, a `Handle` to the connection's runtime; the SDK's queue behind `inner` | `sr_select_live`, `sr_stream_next`, `sr_stream_kill`, `sr_kill` | notifications arrive in order and once; `SR_NONE` means closed; who waits is woken when the connection goes; kill ends the query |
| RPC context, `rpc.rs`, `types/stream.rs` (`RpcStream`) | `SurrealRpc { inner: RwLock, rt, ps }`, the datastore's notification channel, its receivers | `sr_surreal_rpc_new`, `_execute`, `_notifications`, `_free`, `sr_rpc_stream_next`, `sr_rpc_stream_free` | as the harness; no notification is lost; `SR_CLOSED` only after the last one |
| RPC options, `opts.rs` | none | none: two timeouts passed on to the datastore; `strict` is read nowhere | not modelled: a request cut short ends as any other `Err` |
| CBOR codec, `rpc.rs` | none | `parse_cbor_request`, `cbor_to_value`, `value_to_cbor` | what CBOR can say comes back as it went out; the rest changes once and then no more |
| Session and credentials, `lib.rs`, `types/credentials.rs` | the session every thread on a handle shares | `sr_use_ns`, `sr_use_db`, `sr_signin`, `sr_signup`, `sr_authenticate`, `sr_invalidate`, `sr_set`, `sr_unset`, `sr_begin`, `sr_commit`, `sr_cancel` | a call runs in the session its thread set up |
| Records by name, `lib.rs` (`parse_resource`, `create` ... `upsert`), `types/thing.rs` | the records of the database | the twelve functions that take a resource, beside clients that speak CBOR | one name means one record in every function; a failed call has done all it was asked for or nothing |
| Conversions, `types/value.rs`, `number.rs`, `string.rs`, `duration.rs`, `uuid.rs`, `geometry.rs`, `thing.rs`, `object.rs`, `array.rs` | none | `From` impls in both directions | a value that is read and written back is the same, but for what C cannot say; none of them panics on what the database holds |
| Build, header, packaging; C tests and examples | - | - | not part of the running program |

### How they interact

* A C thread calls an exported function with a handle and pointers to its own
  variables. `with_surreal_async` runs the SDK's future on the handle's own
  runtime; threads on one handle share `db`, `rt` and `ps`, nothing else.
* Results are Rust allocations leaked to the C side (`Box::leak`,
  `CString::into_raw`, `make_array`), freed by another exported function that
  takes them back (`Box::from_raw`, `CString::from_raw`, `into_vec`).
* Values travel to the SDK through `From<Value> for sdbValue`, applied to a
  clone of what the caller's `const` pointer points to.
* Streams outlive the call that made them. `Stream` keeps a handle of the
  connection's runtime, `RpcStream` a receiver of the datastore's channel.

### What is hard

Sequences of calls that reuse C variables, where one function writes and
another assigns; operations that fail after their statement ran, or after a part of it,
or whose reply is lost; threads in
`block_on` on one runtime with a panic among them; a poison flag; clones that
are deep for one kind of value and shallow for the next; streams and the
runtime that goes away under them; pointers lent into containers that change;
one name read by two parsers; widths and boundaries in the conversions. `PROJECT.json` lists each under "hazards" with
its line and the properties that cover it.

## 2. The modules

| Module | Models | Remarks |
|---|---|---|
| `CallHarness` | `with_surreal_async`, `connect`, `disconnect`, `check_null!`, `write_error`, and what a C program does with what comes back | one action per step; written over `Op`, so that `rpc.rs`, whose `with_async` is the same text, composes it too |
| `SurrealOps` | one row per operation of `lib.rs`: checked pointers, result, codes, what it does with its statement's outcome | pure definitions |
| `Surreal` | `CallHarness` with the rows of `SurrealOps` and the token variable of `sr_signin` and `sr_signup` | the properties are here |
| `CallContract` | abstract: what a call promises its thread | `Surreal` implements it |
| `CallHarnessProofs` | lemmas about the harness | shared by the proofs of everything that composes it |
| `SurrealProofs` | theorems about `Surreal` | |
| `ForeignHeap` | the allocations behind values, arrays and objects, one action per operation | also holds its invariants |
| `ValueStore` | abstract: variables with value semantics, no addresses | |
| `ForeignValues` | the mapping of `ForeignHeap` to `ValueStore`: the tree one finds by following pointers from a variable | |
| `TreeLemmas` | lemmas about any heap in which each allocation has one owner: what a replacement, a copy or a new owner leaves of that | says nothing of this code |
| `ForeignHeapProofs` | theorems about `ForeignHeap` | |
| `ForeignValuesProofs` | that `ForeignHeap` implements `ValueStore` | |
| `RpcContext` | `rpc.rs` and `RpcStream`: `CallHarness` with requests, the notification channel, streams and `sr_surreal_rpc_free` | |
| `RpcContextProofs` | theorems about `RpcContext` | |
| `LiveStreams` | `Stream`: `Surreal` with listening threads, the queues of their streams and what `disconnect` does to them | composes everything of `lib.rs` |
| `LiveStreamsProofs` | theorems about `LiveStreams` | |
| `NotificationFeed` | abstract: what a reader of a feed is promised | `RpcContext` implements it with one feed that all streams share, `LiveStreams` with a feed for each stream |
| `Conversions` | what the `From` impls and the CBOR codec make of a value | pure operators |
| `Records` | the functions on records by name, over a database that other clients write too | what becomes of contents is a parameter |
| `RecordValues` | `Records` with the operators of `Conversions` for that parameter | |
| `NamedStore` | abstract: a store of records that names stand for | `Records` implements it |
| `RecordsProofs` | theorems about `Records` | |
| `Maps` | finite maps: the ones `Records`, `NamedStore` and `ForeignHeap` update | definitions the prover can expand, where `@@` of the library has none |
| `MCSurreal`, `MCLiveStreams`, `MCForeignValues`, `MCRpcContext`, `MCRecords` | instances for TLC | |

An operator whose comment says "Variant" is a small wrong version of the one
below it. No specification uses it; it stands in for that definition to see
which property notices.

### CallHarness and Surreal against the code

A thread's call is a record `call[t]`: where it is (`pc`), the operation, the
handle, what was passed as `err_ptr` (`ep`), whether a result is asked for
(`want`), how much of the request took effect (`done`: nothing, a part or all,
which the code does not know and the properties need), and the code (`ret`).

| Action | Code |
|---|---|
| `check_null` | `check_null!`: `write_error` and `SR_ERROR` |
| `Invoke`, `Enter` | the checks passed; `db.ps.load`, abort or `block_on` |
| `Serve` | the database carries out the request while the call waits, or a part of one that has parts (`InParts`: the statements of a query or a file) |
| `Resolve`, `FutureErr`, `Misfit` (in `Answer`), `Panic` | how the future ends: `Ok`, once the request was carried out unless nobody looks; `Err`, at any time; `Err` although the answer came (`sr_create`); a panic anywhere before the end |
| `Answer` | the closure writes its result and returns the code; `AssignToken` is `*token_ptr = token`, which drops what the variable held |
| `Report` | the two error arms: `err_ptr.write(..)` without a null check, `SR_ERROR` or `SR_FATAL`; a null `err_ptr` is written through (`process = "crashed"`) |
| `Connect`, `Connected` | `connect`, which has its own copy of the match |
| `disconnect` | `Box::from_raw` and drop |
| `GiveBack` | the C program's part, as the tests and examples do it: after a negative code free the error string, otherwise free the result |

`FutureErr` leaves `done` as it is. The code makes `SR_ERROR` of every `Err` of
the SDK, and a connection may be to a remote server (`lib.rs:116`), where a
reply can get lost after the request was carried out. So nothing is claimed of
the effect of a call that returned `SR_ERROR`; what `CallContract` promises is
the other direction, that `ok` means carried out, for the operations that look
at their outcome (`Looks`). `sr_kill`, `sr_begin`, `sr_commit` and `sr_cancel`
do not. `sr_query` does: its request is carried out when all its statements were
run, and whether each one succeeded is in its `ArrayResult`.

A C variable is what it holds: `unset`, `owned`, `empty` (the pointer of an
array of length 0) or `stale`. `lost` records that an owned allocation was
overwritten. `process = "faulted"` records that something not owned was freed.

### ForeignHeap against the code

`holds` maps live addresses to contents. Which kinds have a `Drop`, a deep
`Clone` and a consuming conversion differs in the code from type to type, and
the three sets `Dropped`, `Copied`, `Consumed` are that table. The actions are
the exported functions; `pass` is any operation on a connection that takes a
value, `receive_*` any that returns some, `receive_results` that of `sr_query`.

`Reached(V, kinds)` is what a recursive Drop, Clone or conversion of the values
`V` gets to: the least set of allocations that holds what they point to and is
closed under what lies inside, through values of `kinds` only.

`lent` is the one borrowed pointer the program keeps, from `sr_object_get` or
`sr_array_get`: an allocation and a place in it. Whatever takes a value can be
given it, `insert` into the object it points into included. The program
forgets it when it changes or frees the variable it came from, as the comment
at `array.rs:208` asks; `NoDangling` says that this is enough.

### RpcContext against the code

The requests `execute` and `notifications` are calls of `CallHarness`; the
steps differ where the closures do. `sr_rpc_stream_next` is a call too, of the
operation `next` with a null `err_ptr` (it has none) that never enters the
harness: `Receive` or `Closed` are the two outcomes of `recv_blocking`,
`Encoded` and `NotEncoded` those of `into_writer`. Between `Receive` and the
return the notification is the thread's `note`. A stream is a receiver of its
context's channel, and each thread has one stream variable. `rpc_free` drops
the sending end with the context; `Gone` is what a receiver sees of that once
the channel is empty.

The datastore is external: a request makes any number of notifications
(`owed`), and `Notify` puts one into the channel when there is room, at any
time until the context is freed. Whether a request waits for that is decided
in the SDK, and the model does not let it. After `SR_ERROR` from `execute` the
request may have been carried out (`Serve` before `FutureErr` or
`Unimplemented`).

### LiveStreams against the code

A thread's stream from `sr_select_live` is an owned result like any other until
`hand_over` gives it to a listener; before, killing it is freeing it. A
listener only calls `stream_next` and `stream_kill`, which run outside the
harness: no flag, no `catch_unwind`. `NextItem` and `NoItemEver` are the
outcomes of `inner.next()`, `Heard` is the listener's own. The queue is the
SDK's (`Send`, `QueryEnds`). It holds items, each with the number it entered
under and whether the SDK decoded it; `hears` keeps the number of the item that
was told, so that the order of answers and the place of errors are in the state. A `Stream` holds a `Handle`, which does not keep
a runtime alive: `disconnect_feeds` drops the runtime and with it the tasks
that hold the sending ends, so the queue drains and then ends.

Both stream functions may be called after `sr_surreal_disconnect`: `block_on`
on a `Handle` polls the future in the calling thread, and a queue needs no
driver of the runtime.

### Records against the code

A name is its text and the parts its first colon cuts it into. `parse_resource`
is what `split_once(':')` makes of it: a record with a string key, or, when a
side is missing, a table whose name is the whole text (`WholeTable`).
`sr_create` and `sr_relate` splice the same text into a statement instead. What
the statement takes it for is the database's syntax and external: `Spliced`
asks the parameter `Reads` which keys an id may stand for, several for one like
`rand()`, none for one that is refused. A key is a number, a string or something
else, since `1` and `"1"` are two records. `Addressed`, `FreePlaces`, `Write`
and `Elsewhere` are the database: which records a resource stands for, where a
new one may go, and other clients that write in between.

Each action is a call from the conversion of its content to its rows.
`Panicked` is a content that `Duration::new` panics on; `Refused` is a failure
without effect, a name that is none or the database's own reasons. `Unheard` is
a failure with it: `sr_create` finds no object in the answer to its statement,
or the reply to any of the functions is lost. `sr_insert_relation` is given
names of tables, as its parameter says. `execute` writes what
`parse_cbor_request` reads out of a request.

`Conversions` treats a text or a date as a word. `CText`, `Utf8`,
`ReadDecimal`, `ReadDatetime` and `WrittenDatetime` are tables of what the
code's parsers and printers make of the words that meet a special case: a NUL,
ill-formed UTF-8, a decimal with a sign or an exponent, a date with an offset
or five digits in its year, a text that is no date.

### Abstractions

* At most one pointer of a call is null. `check_null!` tests them one after
  the other and the outcome is the same.
* A result is freed as a unit in `Surreal`; what is inside is `ForeignHeap`'s.
* In `Surreal` a stream of `sr_select_live` is freed like any other box; `LiveStreams` has the rest of its life.
* An array's header and buffer are one allocation in `ForeignHeap`; they are
  made and freed together in every function. An object is its map.
* Addresses are taken lowest first. No operation compares addresses, so this
  is a choice of names; TLC has fewer states for it.
* `CallHarness` has three switches for the caller. `ErrPtr` says whether null
  is passed as `err_ptr`; `Obedient` says whether a handle is given up after
  `SR_FATAL`; `TidyToken` says whether the token variable is `NULL` while it
  owns nothing. The code is the same in all; they say which C programs are
  looked at.
* A C program never uses a handle after `disconnect`, and does not disconnect
  while another thread is in a call on it, as the documentation demands.

* In `Records` a request for one record that is not there answers with no rows.
  The code wraps the single `None` that the SDK may return into an array of
  one value, which says no more.
* A record's `id` field and its copy in every row are left out of contents; its
  place stands for it. An edge has its `in` and `out`.
* A patch names a field of the content; paths that lead deeper, and arrays, are
  the database's.

## 3. The runs

| Run | Instance | Shows |
|---|---|---|
| `live_streams` | 1 thread, 1 listener, 2 handles, all 31 operations, 2 items per query, `FairLiveSpec` | `TypeOK`; `MemorySafe`: no order of calls and outcomes frees what is not owned, writes through null or aborts; `NothingLost`: none overwrites an allocation still owned; `AnswersAgree`: each return leaves an error string or a result according to the code, never both; `StreamTypeOK`: also, nothing of a killed stream stays; `StreamKeepsFeed` (refinement of `NotificationFeed`: every item told once, in the order sent, an error in the place of each that was not decoded and of no other, `SR_NONE` last); `ListenersWake`: closing the connection wakes the listener blocked on its stream |
| `contract` | 2 threads, 1 handle, one operation of each shape, `sr_create`, `sr_kill` and `sr_import` among them, `FairSpec` | `CallerMemory` (the inductive invariant of the proofs); `KeepsContract` (refinement of `CallContract`); `CallsReturn` |
| `heap` | 3 variables and a borrowed pointer, 6 addresses, scalars and record ids | `TypeOK`, `NoDangling`, `OneOwner`, `NoLeak`; `OthersKept`: no step changes more than one variable with what lies behind it; `ValueSemantics` (refinement of `ValueStore`) |
| `rpc` | 2 threads, 1 context, a channel of one notification, two notifications, `FairSpec` | `TypeOK`, `MemorySafe`, `NothingLost` for requests and streams together; `KeepsFeed` (refinement of `NotificationFeed`: each notification to one reader, in order, `SR_CLOSED` last); `ReadersWake`: freeing the context wakes every blocked reader |
| `records` | 5 names over 2 records, contents with each special case of a conversion in both directions, 8 requests | `TypeOK`; `KeepsStore` (refinement of `NamedStore`, whose calls may fail before their change or after it); `WriteBackKeeps`: what a program reads and writes back is unchanged but for what C cannot say, never panics, and settles; `RpcWriteBackSettles`: the same over CBOR |
| `record_names` | 5 names, among them `t:1`, `t:rand()` and `t:[1]` | counterexample to lib.rs:306: `sr_create` makes a record at the number 1, `sr_select` and the others look for the string "1" |
| `poison` | 2 threads, callers that go on after `SR_FATAL` | counterexample to lib.rs:76, "use will cause the program to abort": `ps` is loaded by every call and never stored |
| `null_err` | callers that pass a null `err_ptr` | counterexample to lib.rs:94, "errors ignored if null" |
| `token` | an uninitialised token variable, as in the documented example | `sr_signin` frees what the variable happens to hold |
| `kill` | 1 thread | `sr_kill` returns 0 though its statement failed |
| `heap_geometry` | geometry values | their coordinates are never freed |
| `heap_bytes` | bytes values | passing one to an operation frees the caller's buffer |

The seven that end in a violation are the "findings" of `PROJECT.json`, each with the line that says
otherwise.

**Bounds.** `live_streams` has two handles, since one C variable can be reused
for results of different handles and one connection closed while the other
works, and results of length 0, 1 and 2 (`MaxLen`), since 0 is the length at
which nothing is allocated. Longer results take the same path. A stream has one
listener by its documentation ("must not be aliased", `stream.rs:16`), streams
share no state, and two items (`MaxNotes`) make an order. `contract` needs two
threads to interleave and one handle for them to share; the threads only meet
in the handle's fields, and the proofs cover any number. In `heap` a value in
an array in a value needs three addresses and its copy two more; three
variables are what `array_push` takes at most (source array, value, result); a
thing has two allocations, so that the copying of several at once is
exercised (a boxed one, an object and the copy in it are six addresses), a
scalar none, so that there is room to copy out of the results of a query;
one key suffices for an insert that replaces. The constraint `FewWhenFull`
follows a state in which all three variables hold something only if at most
four allocations are live; states beyond it are reached and checked, and two
variables are followed with all six. In `records` the five
names are a table, a record, a name with two colons and two that lack a side of
theirs; `Random` has the one id the database makes up, and `Reads` is the table
`SurrealQL` of how a statement takes each id in use: a word, digits, a call, an
array, or not at all. Several unusual values share one array of a content; those that C or CBOR
cannot say are apart from those that must come back as they were. `NanosPerSec`, `MaxSecs` and `IntRange` are 10^9,
2^64 - 1 and 2^63, scaled down to where a carry, an overflow and a wrapped
integer happen. The constraint `OneOfAKind` lets one record at a time hold
something else than the plain content; the conversions treat each record by
itself. In `rpc` two threads
compete for the feed, one may free the context under the other, and two
notifications with a channel of one (`Capacity`, `MaxNotes`) make the second
wait. `MaxLen` bounds an array at two elements. `MaxCode` bounds the
lengths returned as codes.

**Deadlock** is checked in the runs of `Surreal`. In those of `ForeignHeap` it
is not: with all addresses in use a program may have nothing left to do, and
address space is a bound of the model. `records` never stops. Nor is it checked in `rpc`: a handle names one
context there, so a program that freed it is over, and one whose threads all
wait for notifications nobody will cause waits for ever in reality too.

**Fairness.** `WF_vars(Step(t))` for each thread: the operating system
schedules threads, and the SDK's futures resolve. The program itself owes
nothing: it may stop calling. A call that has been made goes on by itself, and
no step of another thread disables one of its own, so weak fairness is enough.
(In `rpc` another reader may take the notification a thread waits for, so
nothing is claimed of a reader whose context is open.) Nothing is assumed of
`Notify`. `FairLiveSpec` assumes the same of listeners, `WF(StreamStep(l))`,
and nothing of `Send` or `QueryEnds`: a listener whose query is alive may wait
for ever.

## 4. The proofs

TLAPS checks the theorems below for every set of threads, handles, names and
contents and for every bound: what the runs check on a small instance holds on
all of them.

`SurrealProofs`:

* `TypeCorrect`: `Spec => []TypeOK`.
* `CallersNeverMisfree`: for callers that pass an `err_ptr` and keep their
  token variable `NULL` (`ErrPtr = {"valid"}`, `TidyToken`), `MemorySafe`,
  `NothingLost` and `AnswersAgree` hold in every reachable state. The two
  assumptions are needed: `null_err` and `token` are what happens without.
  None of the three is inductive. A call that is about to write its result
  must know that the variable owns nothing, which depends on how the previous
  call ended and what was freed after it. `CallerMemory` says so: at every
  step of every thread, its variables own exactly what the call it is in has
  handed over, and the poison flag is down.
* `MemoryAccounted` states the inductive invariant itself, `CallerMemory`.
* `ContractKept`: for the same callers and all operations `Spec` implements
  `CallContract!Spec`, each action one of the contract's or a stutter. Two more
  invariants are needed: `Looked`, that a call past its future was carried out
  if its operation looks; and `Fits`, that a returned call owes its caller what
  its code and its request call for, which follows from `CallerMemory`. In a
  step of one thread the others look as before (`OthersUnseen`).

Nothing about the effect of a failed call is assumed or proved: `FutureErr` may
come before, in the middle of or after it.

`RpcContextProofs`:

* `RpcTypeCorrect`: `Spec => []TypeOK`, with it that no channel holds more than
  `Capacity`.
* `RpcCallersNeverMisfree`: `MemorySafe` and `NothingLost` for callers that
  pass an `err_ptr`. The invariant is `CallerMemory` again, said of this
  composition: `next` never enters the arms of the harness, and a notification
  received but not yet written out is the thread's own.
* `FeedKept`: `Spec` implements `NotificationFeed`, however many readers and
  streams take from a channel. The refinement needs `FeedOrder`: a channel
  holds the last notifications that entered it, in the order of their numbers
  (`InOrder`); a context that is not open owes none and a request keeps its
  context open (`Attended`, `OpensAlone`), so that nothing enters after the end.

`LiveStreamsProofs`:

* `StreamTypeCorrect`: `LiveSpec => [](TypeOK /\ StreamTypeOK)`.
* `StreamCallersNeverMisfree`: the conclusion of `CallersNeverMisfree` when
  streams are handed from the thread that made them to listeners that kill
  them. It follows from the same invariant: what `hand_over` takes from a
  thread is a box it owned.
* `StreamFeedKept`: `LiveSpec` implements a feed for each stream, across kills,
  ends of queries and `disconnect`. It needs the invariant `StreamOrder`: the
  queue holds the last items that entered it, in the order of their numbers.
  `BadAppended` and `BadTaken` say what that makes of the numbers of undecoded
  items when one enters and when the first leaves.

`RecordsProofs`, for any conversions that keep contents contents
(`ContentsAssumption`):

* `RecordsTypeCorrect`: `Spec => []TypeOK`.
* `StoreKept`: if a statement takes every name's id for the string it is, or
  refuses it (`Reads(n.id) \subseteq {Key("string", n.id)}`), `Spec` implements
  `NamedStore`, with calls that fail after their change as well as before. The
  lemma `Agreement` says that `Spliced` and `parse_resource` then read each name
  alike, which is what the refinement of `sr_create` beside the other functions
  rests on; the invariant `Named` that each place in use is one a name stands
  for. `record_names` is what happens without the assumption.

`ForeignHeapProofs`, for any variables, any finite sets of addresses and keys,
and arrays of any bound of two at least that has room for an object's keys
(`HeapAssumption`):

* `HeapTypeCorrect`, `NeverDangling`, `EachOwnedOnce`: `TypeOK`, `NoDangling` and
  `OneOwner` hold in every reachable state, if no value is of the kind bytes
  (`NoBytes`).
* `OthersUntouched`: then also `OthersKept`: variables share nothing. That a
  copy equals what it was made from is in the next theorem.
* `ValuesAreCopied` (in `ForeignValuesProofs`): then `Spec` implements
  `ValueStore`, which is `ValueSemantics`.
* `NothingLeaks`: without geometries too, `NoLeak`.

Both assumptions are needed: `heap_bytes` and `heap_geometry` are what happens
without. None of the four invariants is inductive. That no two places point to
one allocation does not survive a copy unless what is copied is all there is
below and the new addresses are free, and does not survive a Drop unless
nothing else leads to what is freed. The invariant `HeapInv` has three parts:

* `Rooted`: take the variables as the content of one more allocation, 0. Then all
  allocations but some empty ones, the lost coordinates of geometries, form a
  tree: each but 0 is pointed to from exactly one place, and a closed set with
  0 in it is all of them, so that there are no cycles and no islands.
* `Sound` and `Fits`: a value has the allocations its kind has, and their contents
  are what such a value can hold.
* A lent pointer names a place there is.

TLC has checked it, with geometries and the values of the run `heap`. Each
function then does one of three things. It fills a variable with a value whose
allocations are new (`FillStep`), puts such a value into an object over what
was there (`PutStep`), or drops a variable (`DropStep`); `pass` and the two
functions that lend change no variable. The new value and its allocations own
each other and nothing else (`Made`), which is shown once for a leaf, for a box
around something made, for two things side by side, and for a clone
(`LeafMade`, `BoxMade`, `BothMade`, `CloneMade`). The lemmas that carry this are
in `TreeLemmas`: `Acyclic`, what a place of a tree leads to is owned from nowhere
else; `Replaced`, putting something made in its stead leaves a tree;
`CopyIsBush`, a copy of part of a tree owns itself. `ReachedBelow` and
`DropBelow` say that what Clone and Drop get to is that part, but for
coordinates, and `Apart` that the parts of two variables are disjoint, which is
`OthersKept`.

`ForeignValuesProofs` rests on that invariant. What lies below a variable,
`Trees`, is read out of the heap by a recursive function, `Contents`, on
addresses. A recursive function is only what it says if some function satisfies
its equation, here if the heap has a reading (`Reads`), and an induction that
shows this is out of the prover's reach. The invariant `ReadInv` says it
instead, and each step has to show a reading of the new heap, which is the old
one and the trees of what is new (`Reread`). That there is no second reading
needs no induction either (`OneReading`): where two of them differ, they differ
at some allocation below; as each is pointed to from one place, that leads a
finite set into itself, one to one and so onto, and nothing outside the set
points into it; but all of the heap can be reached from the variables. Then
each function is one of those of `ValueStore` or leaves all trees as they were
(`Matched`). A clone keeps the shape and the kinds of what it copies
(`Faithful`, which `CloneMade` shows) and so shows the same tree (`CopyShows`); what
is made anew shows the tree it should (`LeafShows`, `BoxShows`, `BothShow`); what
is put into a variable or an object is seen there and nowhere else (`FillTree`,
`PutTree`), and what a Drop frees is seen nowhere (`DropTree`). `ReadInv` also says
that a lent pointer points into something a variable lends (`Lends`), since
what is inserted through it must be an element the program can name.

Only model-checked:

* `CallsReturn`, `ReadersWake` and `ListenersWake`, which are liveness and rest
  on fairness, out of the prover's reach;
* `WriteBackKeeps` and `RpcWriteBackSettles`: the operators of `Conversions` are
  recursive over data, and what they compute for every value would need an
  induction the prover cannot do.

## 5. Not modelled, and the plan

Not modelled:

* The session (namespace, database, user, variables, transaction). The SDK
  keeps it and decides what a call on it means; `sr_use_ns`, `sr_signin`,
  `sr_begin` and the like only forward. As calls they are in `Surreal`. Which
  fields of a credential each access level needs is a table of `match` arms
  with an error for the rest, and depends on nothing else.
* What the text given to `sr_query`, `sr_run` and `sr_import` does.
* The box of `sr_create` and the inline value of `sr_notification_t`. No
  function frees either, so each leaks by construction (hazards at
  `lib.rs:355` and `stream.rs:54`).
* Lengths beyond 2^31 - 1.
* `sr_value_print` and its like; build scripts and generated code; the wording
  of messages; the SDK and the database, but for what the external definitions
  in the map say of them.

The plan: what `Conversions` does to a single number, text or duration needs no
recursion. Apart from the operators on nested values, its facts (what a wrapped
integer and a carried duration keep, and that neither changes twice) can be
theorems.
