# Verification of zia and openZia

TLA+ models of an HTTP(S) server, *zia*, of the library *openZia* it is built
on, of the network wrappers and the graph search in `lib/uti`, and of the JSON
library beside them, model-checked with TLC and proved with TLAPS. Paths below
are relative to `src/`.

## The system

`srcs/main.cpp` builds a `Server`. Its constructor (`srcs/Server.hpp`) calls
`ServerTcpMultiThreadWrapper::turnOn` with two callbacks into a
`ProtocolHandler`. The accept loop runs on the main thread; each client then
gets a detached thread. Both the loop (for `onAccept`) and the threads (for
`onPacketReceived`) run a context of their own through the one `oZ::Pipeline`,
whose callbacks belong to modules loaded from shared libraries: `SSL` and `HTTP`.

| Component | Source | State | Operations |
|---|---|---|---|
| Context state machine | `lib/openZia/openZia/Context.*` | the state code | `nextState`, `setState`, `setErrorState`, `hasError`, `isCompleted` |
| Pipeline | `.../Pipeline.*` | `_pipeline`: a list of (priority, callback) per state | `registerCallback`, `runPipeline`, `triggerContextStateCallbacks` |
| Module loading | `.../Pipeline.cpp`, `DynamicLoader.*`, `Log.*` | `_modules`, `_handlers`, the static logger list, who holds a `shared_ptr` to whom | `loadModules` and its parts, `findModule`, `release`, `AddLogger`, `flush`, destruction |
| Zia server | `lib/uti/my_network/BlockingMultiThread/Server/TCP`, `srcs/ProtocolHandler.*`, `srcs/Server.hpp` | `_sockets`, the accept loop, one thread per client, descriptors | `turnOn`, `getIncomingClientMessage`, `_handleRequest`, `onAccept`, `onPacketReceived` |
| SSL module | `srcs/modules/SSL.*` | `_ssl_per_client`, one member for all clients | `_onBeforeParse`, `_handshake`, `_onAfterInterpret` |
| HTTP module | `srcs/modules/HTTP.*` | none | `_onInterpret` |
| UDP server | `lib/uti/my_network/BlockingMultiThread/Server/UDP` | one socket, the locals of the receive loop, one detached thread per message | `turnOn`, `getIncomingClientMessage`, `_handleRequest`, `sendMessage` |
| UDP client | `.../Client/ClientUdpMultiThreadWrapper.*` | one socket, whether a server is set | `setServer`, `sendMessage`, `getReply`, `stop` |
| Asynchronous TCP client | `lib/uti/my_network/Async/Client*` | `_connected`, `_messagesToSend`, the chunk being handled | `connectToHost`, `sendMessage`, `_do_write`, `_handleRead`, destruction |
| Asynchronous TCP server | `lib/uti/my_network/Async/Server*` | a list of connections, each with `_buffer` and its pending writes | `_handleAccept`, `start`, `handleRead`, `async_write` |
| Graph and Dijkstra | `lib/uti/graph` | `_vertices` with their edges; of a search, distances, previous vertices, visited flags | `addVertex`, `dijkstraSolving` |
| String tokenizer | `lib/uti/my_string` | none | `myStrTok` |
| JSON wrapper | `lib/libmy_parsers/ParserJsonWrapper.*` | one document | `loadJson`, accessors |
| JSON library (vendored) | `lib/libmy_parsers/nolhmann_json_library` | a value; of a parser, its stacks and those of its consumers; of a reader or writer, the place in the bytes | parse, dump, four binary formats, pointers, patches, modifiers |
| HTTP messages, packets, endpoints, arguments | see `PROJECT.json` | plain data | accessors, argument checks |

How the parts interact: the accept loop calls the protocol synchronously (so a
TLS handshake, made in a pipeline callback, blocks `accept`); it hands a thread
a reference to an element of `_sockets`; modules hand a context to each other
by the text of its reason phrase; the pipeline keeps bare pointers to modules
and shared pointers to them are kept by the pipeline, the logger list, other
modules and the program.

What is hard, and what would make each part correct:

- **Pipeline.** Registration order against priority; callbacks that jump,
  flag errors or complete the context in the middle of a list. Lists stay
  ordered, every run ends, completed or in error, an error stops ordinary
  processing.
- **Zia server.** The main thread overwrites the SSL member while handlers use
  it; descriptors are reused while sessions still name them, and run out, as
  handlers take some to read `index.html`; clients hang up
  anywhere; exceptions in the loop or in a detached thread end the process.
  Sockets and descriptors must agree, a socket has one user at a time, a reply
  goes to whom it is for, clients are served in order, nothing leaks in clear.
- **Module loading.** An exception at any point, reloading, instances that
  outlive their library, dependencies met in the order of the file system.
  Callbacks must stay callable, a successful load must be complete, an
  instance must die before its library is closed.
- **UDP.** Lost, duplicated and reordered datagrams between the two halves of a
  message; halves of several clients in one queue; a thread with a reference to
  a variable of the loop; a buffer that is never cleared; messages too long for
  a datagram. A reply must be the answer to the message it is taken
  for, and a datagram that stands alone must not end the process.
- **Asynchronous TCP.** A queue shared by the user's thread and the io thread
  without a lock, a thread started before it has anything to run, reads that do
  not respect lines, a buffer that is never cleared, a write from a local that
  is gone, end of file taken for a message. Each direction must hand over what
  was said, once, in order and in the end, and a client that has gone must not
  be taken for one that speaks.
- **Graph.** Ties, zero weights, parallel links and loops, ends that cannot be
  reached. The way returned must be a shortest one, and the way back must end.
- **JSON.** Three stacks that have to move together whatever a callback
  refuses; widths, signs and sizes at the boundary of every format; input that
  ends anywhere; a buffer that is flushed only between code points, whose
  unfinished bytes may have to be taken back; a string for the indentation that
  grows too slowly; five walks along a pointer that each read an index in their
  own way, negative ones among them. What is written must be read back, what was
  cut refused, what `diff` says must lead from one value to the other.

`PROJECT.json` lists every hazard at its line with the properties that cover it.

## Modules

| Module | Role |
|---|---|
| `Context` | the state enumeration and `nextState`, shared by the others |
| `CallbackTable` | insertion into a callback list |
| `Pipeline` | `oZ::Pipeline`: registration, then runs with arbitrary forward-moving callbacks |
| `PipelineContract` | abstract: what the documentation promises of a run |
| `ZiaServer` | accept loop, handler threads, protocol, SSL and HTTP modules, clients and kernel |
| `ConnectionService` | abstract: what clients see of the server |
| `PipelineLoader` | module loading, ownership and unloading |
| `UdpExchange` | UDP server, its threads, its clients, and the network between them |
| `CallService` | abstract: remote calls that run at most once |
| `AsyncStream` | one TCP connection: two streams, two ends, resets; lines and `myStrTok` |
| `AsyncClient`, `AsyncServer` | the two wrappers over such a connection |
| `AsyncTcp` | the two composed, their fairness and properties |
| `LineChannel` | abstract: a channel of messages, in order and once each |
| `ShortestPath` | `Graph` and `Dijkstra` |
| `JsonParser` | `parser` and its two SAX consumers |
| `JsonGrammar` | abstract: the grammar of RFC 8259, over tokens |
| `JsonBinary` | `binary_writer` and `binary_reader`: CBOR, MessagePack, UBJSON, BSON |
| `JsonText` | `serializer`, `lexer` and the adapters of wide strings |
| `JsonEscape` | `dump_escaped` of the `serializer` and its UTF-8 decoder, as functions |
| `StringDump` | one string on its way through `dump_escaped` |
| `JsonDocuments` | documents on their way through one of these formats |
| `JsonPointer`, `JsonPatch` | `json_pointer`, `flatten`; `patch`, `diff`, `merge_patch` |
| `JsonEdits` | a value and the modifiers called on it |
| `MC*` | instances for TLC: constants, and the stuttering of a finished system |
| `*Proofs` | TLAPS theorems about the module named |

`CallbackTable` and `Context` are used by `Pipeline`; `ZiaServer` uses
`Context` and fixes the callbacks `Pipeline` leaves open: the callbacks of SSL
and HTTP, one per state. `Pipeline` refines `PipelineContract` and `ZiaServer`
refines `ConnectionService`, by `INSTANCE ... WITH` at the end of each module;
`AsyncTcp` refines `LineChannel` twice, as `Uplink` and as `Downlink`, and
`UdpExchange` refines `CallService` while calls are made one at a time.
`JsonText` and `JsonPointer` extend `JsonBinary`, which has the values;
`JsonText` and `StringDump` extend `JsonEscape`.

### Pipeline

`pipeline[s]` is `_pipeline[s]` as a sequence of priorities and registration
ranks. `RegisterCallback` is one call of `registerCallback` with its search
loop (`Passed`) and insertion. A run is `runPipeline`, then `Invoke` for each
callback (any state `Jump` allows, any boolean), `Advance` for `nextState`
returning true, `LeaveLoop` and `Return` for the test of `hasError` and the
last triggering. `bound` is the state whose list the range-for is in: a
callback that changes the context's state does not change the list. Assumption
`ForwardJumps` is what the modules of this repository respect: callbacks move a
context forward or to `Error`. Without it `runPipeline` need not end, and
nothing in the library prevents that.

### ZiaServer

A connection names its client, its element of `_sockets`, its handler and its
session, since every client connects once. `pc[Main]` goes through `turnOn`:
`call` (accept takes its descriptor), `accept`, `run`/`handshake` (`onAccept`
through the pipeline), `receive`, `spawn`. A handler's `pc` goes through
`run`/`file`/`write` (`onPacketReceived` through the pipeline), `respond`, `close`.
Each triggering of a callback list is a step; a callback that blocks or reads
shared state is cut at that point: `SslNew` overwrites `_ssl_per_client`,
`SslAccept` waits for the client; `LoadSession` reads the member and
`WriteReaches`/`WriteLost`/`WriteSignal`/`WriteRace` are the outcomes of
`SSL_write`, the last two a signal nobody ignores and the undefined behaviour of
using an SSL object another thread is inside `SSL_accept` or `SSL_write` with
(`Inside`). `OpenFile` and `CreateResponse` are `HTTP::_onInterpret` before and
after `index.html` is opened: in between the handler holds a descriptor, in
`file`, if there was one, and nothing is made of it if there was not. `down`
records why the process went away. The kernel (backlog, lowest free descriptor,
descriptor ownership) and the clients are the environment.

Abstractions: the contents of requests and replies (a reply is who wrote it and
under which session), TLS beyond hello/open/failed, `BINARY` mode of the TCP
wrapper, which the server does not use. The context's reason phrase is kept,
because the modules steer by it. `overlap` and `replies` are history variables.

### PipelineLoader

An instance is (library, number of the load). `StartLoad`, `Release`, `Visit`
or `VisitFails` per file in any order, `Check`, one `Create` per module and
`Ready` are the statements of `loadModules`; whatever throws takes `Fail`, which
leaves everything else as it stands, as the code does. `Destroy(roots)` is what
`shared_ptr` does when owners let go: an instance stays as long as a root or
another staying instance points to it, so that cycles stay. `handlers` is the
set of open library images; calling or destroying an instance of a closed one
sets `crashed`. `FindModule`/`DropModule`, `RunPipeline`, `Flush`,
`DestroyPipeline` and `Exit` are the program around: the order of member
destruction in `~Pipeline`, then of statics after `main`. A library closed is
taken to be unmapped, as `dlclose` does with the last reference; names of
modules are taken to be distinct.

### UdpExchange

A message is two datagrams, eight bytes with the length in hexadecimal and a
boost text archive. `SendHeader`/`SendData` are the two `send_to` of the
client's `sendMessage`, `GetReplyHeader`/`GetReplyData` the two `receive` of
`getReply`, `ReceiveHeader`/`ReceiveData` those of the server's loop, and
`SendReplyHeader`/`SendReplyData` the two `send_to` of a detached thread, so
that every other actor may act in between. `slot` is where the frame of
`turnOn` keeps `clientMessage.second`: the threads read the endpoint there. The
repository sets no build type, and without optimisation the dead variable keeps
its value until the next round writes the next one over it. The clients all send from
one port, so that an endpoint read while it is written is one of the two.

What is received is read as the code reads it. An announced length goes through
hexadecimal, decimal and hexadecimal again (`Reparsed`), which only ever makes
the buffer larger. It is resized and never cleared: `buffer` is its length on
each side and `held` how much of it came with messages, so that an archive
shorter than that stands before the rest of an earlier one (`ReadsOn`). A string
at its end is read to its length; of a packet that ends in a number
(`EndsInNumber`) the number is read on into what follows, and is right, wrong or
an error (`Decoded`). Data read as a header begins with `22 seria`,
the start of every archive, which is the number 0x22 and not an error. A header
read as data is no archive: `exit(34)`. What boost makes of a truncated archive
depends on where it is cut: it is refused, or decodes to something else. Nothing
checks the length of a message, and no datagram carries more than `MaxDatagram`
bytes: the second `send_to` then throws with the header on its way, into the
program of a client (`DataTooLong`) or out of a detached thread, which
terminates the server (`ReplyTooLong`).

The network may lose, duplicate or reorder up to `MaxFaults` datagrams, at any
receiver. A datagram lost is lost when it is sent, since nobody can tell when it
was. `handled`, `overlap`, `split`, `stale` (a number was read on) and `tooLong`
are history variables. Clients call `sendMessage` and
then `getReply`, as the client program of the tests does; each has a host of its
own, since `setServer` binds the server's port number on the client's host.

### AsyncTcp

`AsyncClient` has the two threads of the client. `Connect`, `Post` and
`SetConnected` are the three statements of `connectToHost` the other thread can
tell apart: the thread runs the `io_context` (`Run`) from the first on and
returns at once if it finds nothing posted. `sendMessage` and `_do_write` are
cut at each access to `_messagesToSend`: `TestEmpty`, `Push`, `WriteSome` or
`WriteThrows`, `Pop`. Two threads inside it set `clash`, and `Corrupt` is the
end a data race may make of the process. `HandleRead` takes any part of what has
arrived, up to the size of the buffer, splits it with `myStrTok` (`Tokens`) and
`Handle` gives one message after another to the handler; `Rearm`, `EndOfFile`
and `ReadFails` are the three ends of `_handleRead`. The destructor joins the
thread, so that it waits for the server's end of file.

`AsyncServer` has one thread, which runs each handler to its end. `_buffer` keeps what
earlier, longer messages left behind (`Overlaid`), as in the code, and the
message is the buffer less its final newlines, whatever was read. The first read
is complete with one character, later ones with two (`transfer_at_least`). A
write that does not fit at once goes on later (`WriteOn`); from the local string
of a reply it then takes `Junk`. `ReadEof` and `ReadEnds` tell end of file,
which the code handles like a message, from other errors. Once it is there, end
of file stays, and the handler gets the last message again with every read. The
error of a reset is given once, to a read (`ReadEnds`) or to a write, whose
result `handleWrite` does not look at (`Spent`, `WriteFails`); after that reads
find the end of file again. A read's completion and the first attempt to send
the reply are one step: both are made inside `handleRead` on the one thread
there is, and what the attempt meets is chosen there.

`peer`, `host` and `reset` say which process is there and whether the kernel of
a client that has gone has answered a write. Connections share nothing but the
server's thread, which is why one is enough. `accepted`, `written`, `seen`,
`heard`, `told`, `clash`, `torn`, `split`, `ragged` and `cut` are history. The
last five name exactly what breaks a channel, so that the properties say that
nothing else does.

### ShortestPath

`AddLink` is `addVertex`, `Solve` the checks and preparation of
`dijkstraSolving`, `Visit` one round of its loop, `Trace` one round of the way
back. A vertex is its element, since `addVertex` finds it by that. Weights are
naturals; what is added to the value for infinity leaves it as it is, as with a
`long double`. `Shortest` is the reference: the least weight over walks of at
most as many edges as there are vertices.

### JsonParser

`tokens` is what was read; an action per kind of token is what
`sax_parse_internal` does with it, and `want` is where in that function the next
token is compared. `plain` and `kept` are `json_sax_dom_parser` and
`json_sax_dom_callback_parser` reading the same text, the second with a callback
that answers anything. A value is the place of its first token, so that a
pointer to it is a number. Text and numbers are left to `JsonText`.

`JsonGrammar` says which sequences of tokens are a value, or the rest of a
container, without any state: `Parts(text)[n]` are those of length `n` and where
they begin. `AcceptsTheGrammar` compares the two: the parser has accepted what it
read just when the grammar has it, and the end of the input after it if `strict`.

### JsonDocuments

`JsonBinary` and `JsonText` are functions, by their nature: the value as bytes
and back. A value is `[kind, of]`; a number is its eight bytes, so that widths,
signs and overflow are those of the code. A reader returns the value with the
rest of the input, or fails. An exception of a writer is a mark in what it has
written so far. The decimal of a double is left out: floats of a text are decimals.
`GetCharacters` is the input adapter of strings of 16 and 32 bits. The module
`JsonDocuments` then puts a document on its way: `Write`, `Lose` its end,
`Parse`, and `ParseForeign` for bytes from anywhere, which, once read, are a
document to be written.

`DumpOnward` hands on the size of `indent_string` from container to container in
the order of the document, since the string is a member of the serializer and
keeps what one container has made it grow to. A container doubles it at most
once (`Resized`); what an indentation takes behind its closing zero is `Beyond`,
for which `Write` finds any of `Memory`, or the process ends (`Crash`).

### StringDump

`JsonEscape` has `dump_escaped` with its UTF-8 automaton, its three ways with
errors and its buffer, of any size (`room`): `dump` holds the locals of the
function, `Round` is one round of the loop (`Found`, `Invalid` and `Incomplete`
are the three cases of its switch, `Flushed` what may follow a code point) and
`Ended` what comes after the loop. `JsonText` folds them over a string;
`StringDump` takes a round as a step, `ReadByte`, and `Finish` at the end, so that
what was given to the output before an exception is seen too. `IsContent` is
the reference: a sequence of characters of a JSON string, each one an ASCII
character that needs no escape, a well-formed sequence of UTF-8, or an escape.
Its run is that of `JsonDocuments`: `MCJsonDocuments` begins with a document or with
a string, and leaves the variables of the other module as they are.

### JsonEdits

The state is one value, what it was before, and the last call with its outcome:
done, refused (an exception), aborted (an assertion) or undefined (a write to no
element), after which nothing is said. A refused call leaves
what the code leaves: mostly the old value, but `update` and `operator[]` on a
null have made it a container by then, and `operator[]` of a pointer has added
what comes before the token it refuses. The walks along a pointer (`Reached`
with the name of the function, `IsThere`, `Put`) stay apart, as in the code.
`ArrayIndex` is `stoi`: blanks, a sign, digits, and no more than an `int` holds.
A negative index becomes one of nearly 2^64, which `at` and `insert` refuse and
for which `operator[]` would add that many nulls: more than an array can have,
except for -1 and an empty array, where none is added and the reference is to
the element before the first (`Undefined`).

## Runs

| Run | Instance | Question |
|---|---|---|
| `pipeline_runs` | 1 context, 4 states, 3 priorities, 3 registrations | order of lists, termination, outcomes, refinement of the contract |
| `zia_runs` | 2 TLS and 1 plain client, one of each impatient, 2 descriptors | sockets, descriptors, causes of going down, misdirected replies, nothing in clear, everyone served, refinement of the service |
| `zia_own_reply` | 2 TLS clients | *violated*: a reply reaches the client it is for (`Pipeline.hpp:102` asks modules to be thread-safe) |
| `loader_runs` | 3 libraries in a chain, 1 logger, outside holders, each kind of failure, 3 loads | callbacks valid, successful loads complete, orphans owned |
| `loader_logger` | 3 libraries, 1 logger, 2 loads | *violated*: `release` is called after every instance is destroyed (`DynamicLoader.hpp:63`) |
| `udp_calls` | 2 clients, 3 calls each, lengths 36, 70 and 70000, packets that end in a number, 1 fault, cut off where nothing is promised any more | what pairing halves by order alone guarantees: exits, intact pairs, answers, refinement of the service |
| `udp_reply` | 2 clients, 1 call each, no fault | *violated*: the handler's return is the reply (`tests/test_1_source_code/servUdp.cpp:10`) |
| `async_runs` | 2 texts from the user, 1 answer of each side, streams of 4, chunks of 3, a buffer of 4 | the queue without a lock, both directions as channels, what breaks them |
| `shortest_path` | 3 elements, up to 3 links (2 each if both ways), weights 0 and 2 | shortest, settled, ends |
| `json_parser` | texts of up to 10 tokens over 2 strings, up to 2 values refused | stacks, what is accepted and as what, what a callback leaves |
| `json_documents` | documents and bytes at the boundaries of every format; indentation by up to 10 from a string of 4; strings of up to 4 bytes over 15, and longer ones, with room for 14 | read back, cut is refused, sizes; the buffer holds, the output is well-formed |
| `json_edits` | 2 modifiers on 13 documents | patches, pointers with negative indices and with zeros before an index, flattening |

**What the violated properties show.** `SSL` has one `_ssl_per_client`: if the
next handshake starts between the spawn of a handler and its `SSL_write`, the
reply goes to the next client. `ReplyNeverGoesBack` and `ServedUnlessOvertaken`
delimit that: replies only go to later connections, and a handler no handshake
overtook delivers its own. A logger module stays in the static list of
`Log` past the closing of its library; modules that require each other would
keep each other alive in the same way, which is what `OrphansOwned` allows for.
Of two UDP messages received before the thread of the first has sent its
reply, both replies go to the sender of the second. `ImplementsCallService` and
`IntactPairsKeepServerUp` say what is left: calls made one at a time are
answered right, and overlapping ones do not end the server as long as halves
stay together.

**Bounds.** Contexts share nothing mutable after loading, so that one suffices
for runs of the pipeline; three registrations are the least with an entry
before, at and behind the insertion point, over priorities with two that differ
by one; the four states are Error, the two the SSL module registers for, and
Completed. Three clients on two descriptors let one descriptor be reused while
an older handler still writes, and exhaust the descriptors; a second overtaking
needs no further client. Three libraries make a chain in which a dependency is
found before and after its holder; the second load meets what the first left,
and the third what a failed second left. Two UDP clients make every mix of
halves, and a third would add no new neighbour to a half; the second call of a
client meets what its first left, and the third what a second did that was
longer or shorter; of the lengths 36 and 70, only the first fits
the buffer of a message whose header was misread, and it stands before the rest
of the other; 70000 is too long for a datagram; one fault is what breaks a
pair, and the theorems hold for any number. `SomethingPromised` cuts the states
off in which every property of the run has its exception: a datagram out of
order, a number read on, a `send_to` that threw, or calls that overlap with a
header between two halves or a loss. None of these is ever undone, so that
nothing is cut off that could violate one.

Of the asynchronous wrappers, two texts of the user and an answer put up to
three messages into the queue, from both threads; lines of two and three
characters fit a stream of four together with part of the next one, so that
reads split lines and join them, and writes come to be partial; the second text
is longer than the first and shorter ones meet the rest of it in the buffer;
that buffer and the chunk can both be filled. Three vertices and three links
have every way a search can prefer the wrong one: a direct link against two, ties, weights
of zero, parallel links, loops, circles and an end out of reach; the theorem is
for any graph. Ten tokens hold five nested containers, or an object with two
members, of one key or two, and a container as one of them; other scalars would
behave as strings do where a value is expected. The documents are
made of the numbers at which each format changes its form, of sizes at 23, 31,
255 and so on, and of strings over the bytes at which the UTF-8 automaton
changes its class; bytes from elsewhere are all short sequences over the heads
of each format and the characters of every token. The buffer of `dump_escaped`
has room for 16 bytes there instead of 512, so that strings fill it, and the
string of the indentation has 4 characters instead of 512: the steps are those
around 4 and 8, and containers nest five deep, so that it is doubled up to four
times. For the strings
of `StringDump` it has room for 14, one more than the least, so that a flush comes
after two bytes and the longest escape starts with one byte in front of it; the
15 bytes are one of each class of the decoder, of ASCII one that is written as
it is, one that is not part of a character (a newline), the quote, and the
last one; four bytes are the longest code point, and the longer strings put one
behind others. Two modifiers
suffice for what one leaves to the next. `MaxKept` leaves cuts out between its
value and the last byte.

**Fairness.** `Pipeline!FairSpec`: loading ends, and a thread inside
`runPipeline` runs, for it waits for nobody. `ZiaServer!Fairness`: weak fairness
of the main thread and of each handler (operating-system threads, scheduled
independently of each other), and of what clients send that are not `Impatient`;
those that are may hang up, and may stay and say nothing for ever. The connection
of a client, its departure and the causes of going down that are up to it are
not fair. `EveryoneServed` is about clients that speak and stay: a silent one
stops the accept loop for everybody, in the code as in the model, and `[]Silent`
is the case in which it does.
`UdpExchange!Fairness`: the loop, the threads together (there is a finite number
of them, and each does two steps), and a client that is in a call.
`SerialAnswered` has its exceptions in its conclusion, since a lost datagram
leaves client and server waiting for ever. `AsyncTcp!Fairness`: each thread of
the client while its process is there, and each kind of event of the server's
`io_context`, whose queue is served in order; what the user sends, the end of
either process and the data race's outcome are not fair.
`ShortestPath!FairSpec`: the loops of a search.

Deadlock is checked in the runs of `Pipeline`, `ZiaServer` and `PipelineLoader`,
whose `MC*` modules let the finished system stutter: all runs of the pipeline
done; the server down or waiting in `accept` with everybody served; the loader's
program over or at the bound of its loads. It is not in the others, which do
stop: UDP clients and server wait for each other for ever, an asynchronous
client and server have nothing more to say or are gone, and a search, a text, a
document, a string and the sequence of modifiers have an end.

## Proofs

All theorems are for any values of the constants, under the modules'
assumptions (`PipelineAssumption`, `ForwardJumps`, `ServerAssumption`,
`ElementsAssumption` and those named below), which TLC evaluates in the runs.
What needs an induction over numbers takes the least number that misses
(`FromZero`, from `WFMin` of the library): that is how the recursive functions
of the models (`Walks`, the `FlattenSeq` under `Lines`) come to be unfolded. A
`RECURSIVE` operator is out of reach.

- `PipelineProofs`. `PassedIsPrefix` and `InsertProperties` characterise the
  insertion without induction: `Passed` is a prefix `1..k`, the result is the
  old list with the new entry at `k+1`. `InsertKeepsOrder` gives
  `ListsAlwaysOrdered`, with the strengthening that ranks in the lists are at
  most `count`: without it two entries could tie. `RunInv` relates `pc`,
  `state`, `bound` and `seen`: in the loop the Error list has not been triggered
  and the context is in error or not behind the state being processed; after
  it, both are `Error`. From it follow `OutcomeAlwaysSound`, `ErrorAlwaysStops`
  and, with `ForwardJumps`, `PipelineImplementsContract`.
- `ZiaServerProofs`. `IInv` joins `TypeOK`, `DescriptorsAgree` and
  `OneUserPerSocket` with what makes them inductive: queued connections are
  distinct and exactly those with `conn` at `queued` (`BacklogOK`); the `pc` of
  the main thread says whether a descriptor is reserved and a connection current
  (`PlacesOK`); a handler reaches `SSL_write` only after a handshake has begun, and
  a session that has been made names a descriptor (`SessionsOK`). One lemma per
  action; the theorems are `TypeCorrect`, `DescriptorsAlwaysAgree`, `SocketsNeverShared` and the
  refinement `ServerImplementsService`.
  `RInv` goes on from there: where a handler's context
  stands at each `pc`, so that a finished pipeline has completed it
  (`HandlersOK`); `sockets` as the order of accepting, in which `current` is last
  (`SocketsOK`); the session a handler is about to write to, the owner of a
  descriptor and `_ssl_per_client` are none of them before the handler's own
  client (`OrderOK`); and, for handlers no handshake overtook, all three are
  that client (`OwnSessionOK`). Theorems: `RInvAlways`, `RepliesNeverGoBack`,
  `NothingEverInClear` (which the invariant has for servers without the SSL
  module too), `EveryoneServedUnlessOvertaken`, and, with one more invariant for the causes
  (`CauseOK`), `OnlyDownForThat`. With them every safety property of
  `zia_runs` is a theorem.
- `PipelineLoaderProofs`. `IInv`: callbacks belong to listed modules, listed
  modules are alive in open libraries, both lists are empty while libraries are
  closed (`Rooted`); what is listed is of this load (`ThisLoad`); registration
  follows the check (`Checked`); every instance has an owner (`Owned`); an
  instance of an open library depends only on such (`DepsClosed`); rounds done
  are complete (`Rounds`). `SurvivorsOwned` and `RootsSurvive` are all that is
  needed of reference counting. Theorems: `CallbacksAlwaysValid`,
  `ReadyMeansComplete`, `NeverRunsIncomplete`, `OrphansAlwaysOwned`.
- `UdpExchangeProofs`. Two invariants, each under its own conditions on the
  history. `SerialInv` lists where the halves of the only call can be: nothing
  but its own header sent (`Asking`), its two halves or one of them under way
  (`Asked`), a thread with the endpoint of the caller (`Answering`), the halves
  of the answer (`Answered`), or nothing anywhere (`Rest`); after a loss the
  call never ends, so that no later one meets a half left behind. `PairsInv`
  is about the server's queue when calls overlap without faults: every header is
  followed by its data, unless it is last and its sender, of whom there is at
  most one, has yet to send that. `ReparsedCovers` proves that the buffer is
  large enough for any length. `HandledInv` adds what the handler was given: calls
  that have been made (`GivenCalls`), no message of which the data is yet to be
  sent or received (`NotYetGiven`), and every message that is being answered
  (`AnswersGiven`); so a reply that is taken ends the call the handler was given, and what it is
  given next is new. Theorems: `TypeCorrect`, `SerialRepliesAlways`,
  `SerialNeverExitsAlways`, `IntactPairsAlways`, and the refinement
  `CallsImplementService`, from `SizesAssumption`, `PacketAssumption`,
  `BoundsAssumption` and `NamesAssumption`. Lengths are those of any archive up
  to six digits, also above what a datagram carries, and the packet may end in a
  number; the theorems are under `Sound`, that is for histories in which no
  number was read on into an earlier message and no `send_to` threw, and there
  is nothing they could say of the others: after either a half stands alone, or
  anything was read.
- `AsyncTcpProofs`. `QueueInv`: unless the threads have met, at most one of
  them is inside `sendMessage` (`OneSender`), and what a thread is about to
  write or has just written is still at the front of the queue (`HeadKept`),
  without which `pop_front` might take an unwritten message. The server's steps
  and the read handler leave all of that alone (`QuietKeeps`). Theorem:
  `WrittenAlwaysInOrder`, for any script, handlers, sizes and exceptions.
  The uplink: what was written is what was heard and then some texts more, whose
  lines are the front of the server's buffer with the stream behind it
  (`Undelivered`); a write adds a line at the end, and a read that is one whole
  line takes the first (`OneLineIsFirst`), wherever lines are split between
  buffer and stream. Theorems: `AlwaysHeardAsSaid`, `UplinkIsAChannel`. The
  downlink: what was written is what was seen, the tokens of the chunk at hand
  and some texts more, whose lines are the stream (`Unread`); that `myStrTok`
  makes of lines the texts they are of is `TokensOfLines`, and that a chunk
  which ends in a newline is some of the lines `CutAfterLine`. Theorem:
  `DownlinkIsAChannel`. The two refinements are the safety halves of
  `ImplementsUplink` and `ImplementsDownlink`.
- `JsonParserProofs`. Facts about each function of the two consumers (what it
  leaves of the stacks, for any answer of the callback), then `IInv`: besides
  `StacksAgree`, the parser's own stack is not empty where it is popped, an
  object is innermost where a key is wanted (`Control`), and the containers that
  are open were begun one after another (`Begun`), so that a new value is none
  of them. Theorem: `StacksAlwaysAgree`, for texts of any length. `KInv` is what
  the two documents have in common while a text is read. In the second one, what
  is there at all has the kind it has in the first, or is discarded, and is
  discarded exactly when it was refused (`Sound`); what was not refused is where
  it is in the first, in each container that is there, but for the value of the
  key that was read last (`RootKept`, `ItemsKept`, `MembersKept`); no value has
  two parents (`OneParent`), since a place that is not read yet is held nowhere
  (`Fresh`); and nothing else can be dropped or erased at the end of a container
  than what is refused, since an open one is the last item of the array it is in
  (`LastItem`), is not there if it is not kept (`NullsUnmade`), and the
  latest answer about a key is the one of the value that comes (`KeyAnswered`).
  `LInv` is about what stays of values that were refused: an item of an array
  that is discarded is an object (`DiscardedItems`), which was open while it was
  read (`OpenItems`), since only its end can discard it in its place.
  `In` and `Wanted` are recursive functions; that their equations have a
  solution is proved (`ReachExists`), and the two sets are compared place by
  place from the root. Theorem: `AlwaysKeptIsWanted`. `GInv` is about the grammar,
  whose recursive function `Parts` has a solution, by the least length at which
  two of its approximations differ (`PartsExist`). `Completes` says, for `want`
  and the stack, which tokens still make a text of what was read: a value, the
  rest of each open container from the innermost out, the end; and each action
  keeps that whatever they do not complete is no text, and what they do is one.
  So the parser has accepted a text exactly when nothing is missing of one; and
  as the closing brackets complete whatever is open (`SomeTextBegins`), it has
  rejected one exactly when no continuation would be a text. Theorems:
  `AcceptsTheGrammarAlways`, `RejectsAtOnceAlways`; the second speaks of all
  continuations, so that no run can state it.
- `StringDumpProofs`. `Inv`: in the buffer are characters up to
  `bytes_after_last_accept`, with at least thirteen bytes of room behind them,
  and then what has begun of a code point, if it is not kept out of the buffer
  (`Held`). `Begun` says for each state of the decoder which bytes still make a
  character of that; `undumped_chars` counts it, at most three bytes; and a code
  point of several bytes is at least 128 (`Decoding`), so that it is not taken
  for a character to escape. `IsContent` is a recursive function; `OneMore` is
  all that is needed of it. Theorems: `BufferAlwaysHolds`, `AlwaysWellFormed`,
  from `TextsAssumption` and `RoomAssumption`, which asks for no more room than
  thirteen bytes.
- `ShortestPathProofs`. `Frontier`: while the search goes on, the vertex looked
  at next is as far as any visited one, and none that is left is nearer. As no
  weight is negative, nothing visited can be improved. Theorems: `InvariantHolds`,
  `TypeCorrect`, `SettledAlwaysStays`. `WayInv` adds that every vertex has its
  distance over an edge of its previous one (`Follows`), that previous vertices
  were visited before (`RankOK`), and that nothing is to be gained over the edges
  of a visited vertex (`Relaxed`). Then no walk, of any number of links, is
  shorter than the distance of its end, and the path is a walk that long:
  `WayAlways`, `AlwaysFindsShortest`.

Only model-checked: liveness (`EveryRunEnds`, `EveryoneServed`,
`SerialAnswered`, `SearchEnds`, and the halves of
`ImplementsUplink` and `ImplementsDownlink` that say what must happen), since
fairness is out of the prover's reach; what is said of `RECURSIVE` operators, that is all of
`JsonDocuments` and `JsonEdits`, and of `ParsesTheText` the document that
a text becomes (that the right texts are accepted is proved). The `TypeOK`s of
`Pipeline`, `ZiaServer`, `PipelineLoader`, `UdpExchange` and `ShortestPath` are
proved, and are not in the runs; `AsyncTcp!TypeOK` documents its variables.
So are `SerialReplies`, which a run checks as a part of `ImplementsCallService`,
and `NothingRunsIncomplete`, which says little beside `ReadyComplete`.

## Observations

Met while modelling, and in the models, without a run of their own:

- A flagged error is overwritten when the next callback of the list sets a state
  (`Pipeline.cpp:109`), so that the Error list never runs, which `MODULE.md:36`
  promises; `OutcomeSound` says what is left.
- A client's reply to the welcome is dropped when it is handled before
  `connectToHost` sets `_connected` (`ClientTcpAsyncWrapper.cpp:44`).
- `update` on a null with a value that is no object throws after the null has
  become `{}` (`json.hpp:5411`), and `operator[]` of a pointer leaves what it
  added before the token it refuses.
- `j == j.flatten().unflatten()` (`json.hpp:7491`) is not so for an object whose
  first key is `0`, which comes back as an array. `FlattenRestores` says when it is.
- In a patch, `remove` below a primitive does nothing, `add` creates what is missing between
  the first token and the last but one, and `add` below a primitive fails an
  assertion (`json.hpp:7659`). `/00` is an index for the last token of `add`,
  `move` and `copy`, and none for `at` and `contains`; `AddedIsThere` says both.
- A pointer with the token `-1` is an assignment before the first element of an
  empty array (`json_pointer.hpp:333`, `json.hpp:3183`), and from a patch too:
  `add` to `/a/-1/b`.
- The comment at `json.hpp:2362` says that discarded values are removed inside
  structured values and never seen after parsing. A member whose latest value is
  refused stays as a discarded value, unless the end of an object in the same
  parent erases it, which takes the first only (`json_sax.hpp:436`), and an
  object refused at its end stays in an array. `KeptIsWanted` says that nothing
  else does.
- `dump` with an indentation above 1024 writes out what lies behind
  `indent_string` (`serializer.hpp:113`), and from 513 on it mixes the
  `indent_char` with spaces; an `indent_char` that is no blank makes a text that
  is no JSON or another document. `CanBeIndented` is what `ReadBack` asks.
- A UDP packet that ends in a number may be read with digits of an earlier one
  (`ServerUdpMultiThreadWrapper.hpp:93`), and one that is too long for a datagram
  ends the server if it is a reply (line 167).
- Without a free descriptor `HTTP::_createBodyToSend` answers with an empty body
  (`HTTP.cpp:62`), and while handlers read `index.html` `accept` may find none.
- After end of file the asynchronous server reads and answers for ever
  (`ServerTcpAsyncWrapper.cpp:75`), also to a client that has reset the
  connection if a write has met the error first.
- A callback that moves the state of a context back can keep `runPipeline` going
  for ever; no module here does (`ForwardJumps`).
- The unit `0xFFFFFFFF` of a string of 32 bits is taken for the end of the
  input.
- `loadJson` is `noexcept` and calls `operator>>`, which throws: a file that is
  no JSON ends the program (`ParserJsonWrapper.cpp:17`).

## Not modelled

- Asynchronous server: `sendMessageToTheLastestClient`, which nobody calls and
  which `turnOn`, never returning, leaves no thread to call. Of several
  connections one is followed; they stay in the list for ever.
- TCP wrapper: `BINARY` mode, which the server does not use. UDP client: `stop`,
  which nothing calls.
- HTTP messages, `Packet`, the getters of `Endpoint`: plain data. Its address
  parser writes byte by byte and may throw in the middle (`Endpoint.cpp:27`);
  nothing calls it with a text from outside.
- Arguments and `main`: checks before there is any state; a port above 65535 is
  truncated (`main.cpp:13`).
- The text of `Log`: `flush` resets the flags of its stream and not its text, so
  that the destructor logs it again (`Log.cpp:23`).
- JSON: the digits of a float (Grisu2, `strtod`), iterators beyond `begin` and
  `end`, files and streams as input, conversions of C++ types, comparison of
  numbers of two kinds, compiler macros (`hedley.hpp`): arithmetic of doubles
  and templates, with no state that the properties tell apart.
- Graph: negative distances, for which Dijkstra's algorithm is not meant.

## Plan

1. `Endpoint::setAddress` against a reference definition, the text of `Log`, and
   the iterators of a JSON value.
