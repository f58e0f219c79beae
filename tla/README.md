# A model of Protos-pop3

TLA+ modules, TLC runs and TLAPS proofs about the POP3 server of this
repository: `pop3d`, its management protocol, and the libraries under it. Paths
are relative to the repository's sources.

## The system

`pop3d` is one thread around `pselect`. Descriptors are registered in a
selector with an interest (read, write or none) and callbacks; an iteration of
the loop calls the callbacks of the descriptors that are ready. Everything else
happens inside a callback, which nothing interrupts.

| component | source | state | operations |
|---|---|---|---|
| POP3 connections | `server/pop3.c`, `server/stm/pop3_stm.c` | `connection_data`: two buffers, parser, machine, `last_state`, unfinished command, user, session (maildir, listing, marks, sizes) | accept, `handle_read`, `handle_write`, `handle_close`, twelve entries of the command table |
| state machine engine | `lib/stm.c` | the current state | `stm_handler_read`, `stm_handler_write`, `jump` with arrivals and departures |
| command parser | `lib/parser.c`, `server/parser/pop3_parser.c`, the tables of `pop3.c`, `read_command` | parser state, `current_command`, `argument`, their lengths | one transition for each byte; draining a bad line |
| buffers | `lib/buffer.c` | an array, a read and a write pointer | pointers and room, advances, one-byte read and write, compact, reset |
| management | `server/managment/managment.c` | `struct args`: users table, `max_mails`, `mail_directory` | twelve requests over UDP |
| selector, main loop | `lib/selector.c`, `server/main.c`, accept and close in `server/pop3.c` | the table of items, `max_fd`, fd sets, the statistics of connections | register, unregister, set interest, select, accept, shut down |
| logger | `lib/logger/logger.c` | a growing buffer, a file | print, flush, close |
| arguments, start | `server/args/args.c`, `server/main.c` | the initial `struct args` | parse, open sockets |
| administration client | `admin/` | a slot for each kind of request | a request and a wait of one second for each |
| address printing, load script | `lib/netutils.c`, `testing/` | none | |

How they interact. A connection's `handle_read` receives into `in_buff` when
that is empty, feeds the parser one byte at a time, and at a whole line runs
the handler that the table has for the state; the handler writes its reply to
`out_buff` and the interest becomes *write*. `handle_write` sends, and if
`in_buff` has more, or RETR has not finished, it sets *no interest* and reads
on in the same callback. Connections share the accounts, `max_mails` and the
maildir with the management socket, and the mail files with each other and with
whoever delivers mail. Everything logs, the selector writes the log when its
file can be written, and the administration client talks to the management
socket over UDP.

What is hard in it:

- lines that arrive together, in pieces, or while a reply is unfinished;
- a RETR that takes several callbacks, reopening its file each time;
- two sessions of one maildir, deliveries, and a `max_mails` that changes under
  a session;
- sends that take less than they are given or fail, clients that shut their
  side down or reset the connection, and a second `send` in the same callback;
- two fixed arrays and a buffer filled byte by byte under lengths that another
  function resets;
- dots that must be stuffed wherever a message is cut, with a flag of the
  connection as the only memory of what came before;
- an iteration that walks the sets of one `select` while its callbacks close
  descriptors and accept connections that get the same numbers;
- a signal handler that logs, in the middle of the loop, of the logger and of
  the statement that says whether the log has more to write;
- a log buffer that moves, grows and is written in parts;
- a client whose answers carry nothing that ties them to their requests;
- a table of users shrunk by a request that may have found nobody.

`PROJECT.json` lists each of these hazards at its line with the property that
would notice it going wrong, or with the reason why none is stated.

## The modules

`Managment` models `managment.c`. A datagram is a record (token right or not,
name, key, value, number that `atoi` makes of the key); a request is one
action, `ReceiveRequest`, with one operator for each command. The users table
is the whole array: what lies past `users_count` is stale and stays.
`max_mails` is a `size_t` written from an `int` (`ToSize`), so negative numbers
wrap. `up` becomes FALSE where the code surely ends the process (the NULL
action of `help`) and may become FALSE where it reads or writes out of bounds.

`Pop3Server` extends `Managment` with the connections, the clients' side of
each, the mail files and the deliveries. Its actions are the callbacks:
`Accept`, `Read` (six cases: end of stream, failed `recv`, incomplete line,
whole line, unfinished RETR, ERROR) and `Write` (sends; fails and unregisters;
raises SIGPIPE). `ReadLine` runs one operator for each handler of `pop3_stm.c`,
and the arrival that follows (`Scan`) is part of the step. A `handle_write`
that reads on is two steps joined by `turn`, which keeps every other callback
and every request out in between; only what runs outside the process (clients,
deliveries) may move there.

Data is in units. A reply is a sequence of units (status, entry, piece of a
message, terminator), each tagged with the ordinal of the line it answers; a
buffer holds `BUFFER_SIZE` units, and `outw` is the write pointer, so that room
is lost as in the code until the buffer empties. A message has `Size[m]` units.
What a client sends is a sequence of lines, whole or in two pieces.

RETR that finds no room (`n = 0`, `pop3_stm.c:272`) reads the rest of its
message into `malloc(0)`. The model has two outcomes, both of which the build
can produce: the process ends, or it survives, as it does when the rest fits
the smallest block of the allocator. Then `buffer_write` drops every byte while
`read_index` reaches the end, and the next call queues the terminator alone:
the message is cut and looks whole. So `PiecesInOrder`, which holds of every
configuration, claims only that what arrives of a message is a beginning of it,
in order; that a terminator comes after all of it is `EndsAreWhole`, which holds
as long as sends are whole (`RetrIsExact` is both, in the run `pipeline`).

`ListingFits` is about what a session keeps: the listing, its marks, the
message half sent and its `read_index`. The number in a `LIST n` is used and
forgotten, and it is not covered: `mail_count + 1` passes the test of
`pop3_stm.c:163` and reads an entry that is not listed, past the array or
through NULL (`ListOne` has each outcome).

`Buffer` models `buffer.c` byte for byte, and `Fifo` is what it promises: a
bounded queue. `Buffer` implements `Fifo` with the unread window as the queue
(`IsFifo`).

`Pop3Parser` models what happens to bytes: `recv`, the transition tables, the
actions on the two arrays, `clean_command`, the unfinished command and the
draining of a bad line. A handler there is only its effect on `is_finished`.
`Pop3Server` abstracts it to lines: it takes from it that each line gets one
verdict however it is cut.

`ServerLoop` models the loop: `selector_register`, `selector_unregister_fd`,
`selector_set_interest`, the fd sets and `max_fd`, `pselect` with its
interruptions, `handle_iteration` one descriptor at a time, the accepts of
`pop3.c` with their failures, the statistics, the signals of `main.c` and the
shutdown. The kernel gives the lowest free number, so that a descriptor closed
in an iteration comes back in it as somebody else's. What a connection does in
its callback is left open: it keeps or changes its interest or ends. `Reactor`
is what the selector promises, with owners in the place of descriptors: `waits`
says which operations each owner waits for, `reported` what the last poll found
and has not been passed on; nobody is called but for a report of their own,
once, while they still wait. `ServerLoop` implements it (`IsReactor`), reading
`waits` from the items and `reported` from what is left of the sets.

`Retr` models `retr_handler` byte for byte: a byte is CR, LF, dot or another. A
piece is begun (`Begin`, the heading and `fread` of what there is room for),
copied a byte at a time with its stuffing, ended, and sent whole; `got` is what
the client has. `crlf_flag` belongs to the connection, so messages follow each
other on it. It has in bytes what `Pop3Server` has in units;
short sends and vanishing files stay there.

`AdminClient` extends `Managment` with `admin.c` and its option parser: a
command line fills the slots of `enum args_type`, whose requests are sent in
the order of the slots (`Plan`), each after the answer to the one before.
Requests and answers may be lost, the server may run a request after the client
has given it up, and others may send datagrams. Every invocation has a socket
of its own; that a later one would be given the port of an earlier one is not
modelled. Datagrams here stay on one host (the client sends to `INADDR_ANY`,
which is this one), so they are lost but neither repeated nor reordered.

`Logger` models `logf` in the steps between which a signal makes a difference:
take the room (`make_buffer_space`, which moves or grows), place, print, count,
and then the flush statement by statement: `write`, the subtraction from
`buffer_length` (`Shorten`), the new `buffer_start` (`Restart`), the evaluation
of `buffer_length > 0` as an argument (`Want`) and the store of that interest
by `selector_set_interest` (`Await`). The close has the same steps. A byte of
the log is the number of its line. The signal handler's `logf`, flush included,
may fall whole between any two of them (`Signal`). A signal inside one of them
(in `malloc` or `memmove`, between the two arguments of a `write`, between the
read of a variable and its store, inside `selector_set_interest`), or one that
leaves lengths below zero, ends in `pc = "undefined"`, of which nothing is
claimed (`SignalWithin`). `late` remembers a signal between `Want` and `Await`,
whose own interest the store then overwrites.

`MCManagment`, `MCPop3Server`, `MCBuffer`, `MCPop3Parser`, `MCServerLoop`,
`MCRetr`, `MCAdminClient` and `MCLogger` hold the values of the runs. What a
byte-level module computes is compared with a definition that knows nothing of
how: `Pop3Parser` ends with one of a stream's lines and their verdicts
(`Split`, `Meant`), without states or buffers, and `Retr` with one of the
stuffed message (`Stuffing`) and one of what a client makes of it
(`Unstuffed`), without pieces or flags. `*Proofs` hold the theorems.

Definitions that no behaviour uses and that sit next to another of the same
shape (`HasRoomOffByOne` by `HasRoom`, `MarkedAll` by `Marked`, ...) are
plausible mistakes in the code they neighbour. Put in its neighbour's place
each one breaks the property that `PROJECT.json` names under "mutants": the
properties can fail.

## The runs

| run | configuration | what it shows |
|---|---|---|
| `managment` | 3 slots, 2 names, 2 passwords, every request on them | the table stays in its array; no account opens that was not asked for; grants touch one account |
| `pipeline` | 1 client, up to 6 lines, any prefix in flight, buffer of 4 units, messages of 5 and 1 | replies whole and in order, messages exact, every line answered |
| `sessions` | 2 clients of one maildir, a delivery, `max_mails` 1 to 2, half-closed connections | files go only by QUIT of a session that marked them, numbers keep their meaning |
| `partial_sends` | 1 client, short and failing sends, resets, failing `stat`, lines in two pieces, the corners of LIST and `max_mails`, QUIT without mails | the pointers of `out_buff` stay inside, session and state agree, what a session keeps of its listing stays in it, what arrives of a message is a beginning of it |
| `buffer` | 5 cells, 2 bytes | the buffer is a queue |
| `parser` | command of 1, argument of 3 cells, `recv` of up to 3 bytes, 8 bytes in all | arrays hold, handlers see strings, every line gets its verdict |
| `selector` | 2 clients, one for each listener; `FD_SETSIZE` 6, limits of 6 and 7 descriptors | sets, items and kernel agree; the live are registered; the statistics are right; the loop is a reactor; who is ready is served; a signal stops it and leaves nothing |
| `retr` | buffer of 10 bytes, heading of 3, every message of up to four segments | what arrives is the stuffed message, a client gets it back, a byte is lost only after two stuffed dots in a piece, every RETR ends |
| `client` | 2 invocations of 6 command lines, one datagram of somebody else | no answer is taken for another's, requests run in order and once, the client ends |
| `logger` | buffer of 3 cells that may grow to 6, 3 lines of 1 to 3 bytes or refused, one signal | what is counted is kept once and in order until the close, a signal harms only what it fell into, lines are cut only when the buffer is full; what is pending is waited for, and drains, unless a signal falls between the test of `buffer_length` and the store of the interest |

The bounds. A message of 5 units in a buffer of 4 needs three calls of RETR, so
first, middle and last calls all happen; a buffer of 4 holds the longest fixed
reply (CAPA) exactly. Two sessions are enough for one to remove what the other
has listed, and a third connection would add no step that these two do not take
on each other. Three slots let a table have a first, an inner and a last
account, and stale ones behind them. In the parser 8 bytes hold two lines and a
piece of a third, with chunks smaller than a line; `space`, CR, LF and one
other byte are all that its tables tell apart. In `selector` one inherited
descriptor, the log, two listeners and the management socket leave one number
below `FD_SETSIZE` for two clients, and a limit of 7 gives the number
`FD_SETSIZE` itself; without a log there is room for both, so every outcome of
accept and register happens. In `retr` the first piece has room for 7 bytes,
the next for 10, and messages have up to 12: one, two or three pieces, with CR,
LF and dots on either side of each cut. In `client` two invocations are what a
late answer needs to meet another request. In `logger` a line may be as long as
expected, longer, or fill all that is left, and a buffer that begins with 3
cells grows once, to its limit.

Bounded by name: `MaxLines` (lines of a script, of the log), `MaxBytes` (bytes
of a stream), `MaxRuns` and `MaxOthers` (invocations, datagrams of others),
`MaxSignals`, `ALLOC_MAX` (what calloc can serve), `SIZE_MOD` (2^w of
`size_t`), `OpenMax` (the kernel's descriptors), `PRINTABLE` (ints that fit the
message of get-max-mails). `Clients` permutes the connections in `sessions`:
every script is open to each, and no property there names one.

`CHECK_DEADLOCK FALSE` stands in the runs whose system may stop: a server that
went down, a script at its end, a stream of `MaxBytes`, an operator who types
no more.

### Where the code and its documents disagree

Two runs end in a violation, each of a statement of the repository. "p." is a
page of `docs/Informe TPE.pdf`.

| run | property | statement | what happens |
|---|---|---|---|
| `split_line` | `EveryLineAnswered` | CAPA announces PIPELINING (`pop3_stm.c:401`) | `USER` and the beginning of `PASS` arrive together; `handle_write` sets no interest, reads the piece and returns; the rest arrives and is never read |
| `stuffing` | `NoEarlyEnd` | the `\r\n.\r\n` inside a message becomes `\r\n..\r\n`, so that messages arrive right (pp. 3 and 4) | `fread` asks for one byte less than there is room for, so one stuffed dot fits; with two in a piece `buffer_write` drops the last byte, and `\r\n..` arrives as `\r\n.` |

Contradicted by the code as well, and in the models as the code does it, without
a run of their own. What the properties state is what holds in their place:

- "hasta que se imprima toda la información necesaria" (p. 4, of a handler that
  has not finished): a send cut short leaves `out_buff` full, RETR finds no room,
  and the message ends before its time (`pop3_stm.c:272`). `PiecesInOrder`
  allows it; `EndsAreWhole` holds of whole sends.
- The server "procesa todos los comandos en el orden en el cual fueron enviados"
  (p. 6): an `-ERR` that finds no room after such a send leaves the machine in
  ERROR, where a write makes room but a read is ignored (`:783`); nothing more
  is parsed.
- "INGRESAR MENSAJE DE ERROR" (`pop3_stm.c:166`): a `LIST n` that is refused
  gets no reply, and the client takes the next one for it. `RepliesInOrder`
  leaves it out.
- Who is logged in keeps the same number of mails when the limit changes (p. 11):
  a login while `max_mails` is 0 lists none, and after an error lists again with
  the new limit (`:696`). `ListingStable` is about listings with messages.
- The management server "debe responder" `+OK [msg]` or `-ERR [msg]` (p. 3):
  `remove-user` and `change-pass` of a name that is not there send an empty
  datagram.
- A request of the administration client that gets no answer is announced "y se
  continúa con el siguiente comando" (p. 9): it ends at the first
  (`admin.c:119`), which is why no answer is taken for another's.
- "Si quedan para escribir, me quedo en el selector interesado para escribir"
  (`logger.c:103`): nothing is pending and *no interest* is evaluated; the signal
  handler logs a line that the file does not take and sets *write*; the store of
  *no interest* follows, and the line waits for the next `logf`.
  `PendingIsAwaited` makes an exception of it.
- "Termina y envia los logs restantes" (`logger.h:50`): the last write begins at
  the start of the buffer and not at what is pending (`logger.c:118`): old bytes
  again, and not the last ones. `ClosingGoesOn` is of a buffer not begun.

Met while modelling, without a document that says otherwise:

- connections: a RETR whose file another session removed calls `fclose(NULL)`
  (`pop3_stm.c:215`); `LIST` of `mail_count + 1` reads an entry that is not
  there (`:163`); a second DELE subtracts twice (`:312`); QUIT without a mails array is an error
  (`:361`); a short send strands the rest (`:642`), drops the connection at the
  second send (`pop3.c:206`) and lets RETR overflow an empty allocation
  (`:272`); what a listing has beyond the 4096 bytes of `out_buff` is cut off
  by `try_write`, its terminator too (`:23`); a reset peer raises SIGPIPE (`pop3.c:206`); a bad line cut while it
  is dropped leaves its rest to be read as a line (`:605`); an argument may
  have 39 bytes and not 40, since its NUL is counted;
- stuffing: `crlf_flag` is not reset between messages, so that the last bytes
  of one may give a meaning to the first of the next; the dot that begins a
  message is not stuffed, and both dots of `..` at the beginning of a line are;
- management: `help` is a request whose action is NULL and is called;
  `remove-user` of a name that does not exist shrinks the count over whoever is
  last; `set-max-mails 0` is refused and stored (`managment.c:146`);
- loop: what was counted is not discounted, and the memory of the connection is
  lost, when its registration fails (`pop3.c:172`); a signal after the loop has
  looked at `done` waits for the ten seconds of `select_timeout`;
- client: `-p` has no colon in the short options (`admin_args.c:114`), so its
  function is called with NULL; usage names `--config-server-port` where the
  option is `--port`; `-u ana:` gives the password `not-given`; of an option
  given twice the last counts, and requests go in the order of the enumeration,
  not of the line;
- logger: by the time the program logs that it
  ended, the selector has closed the file; `F_GETFD` stands for `F_GETFL`; a
  signal after `write` and before its count may make the handler write the same bytes again and the
  length pass below zero.

## Fairness

No action of a peer is assumed to happen: clients need not send, read or leave,
nor mail be delivered, nor operators type.

- `Pop3Server`: weak fairness of `Serve(c)`, the callbacks of a connection.
  `select` reports every ready descriptor and `handle_iteration` visits all
  items up to `max_fd`; `ReadyAreServed` of `ServerLoop` is that argument,
  checked. That a socket can always be written to is an assumption on the
  client: it reads what it is sent. (One that does not read holds up only its
  own connection.) `EveryLineAnswered` is about the lines already sent. Its run
  has no lost connections and no `LIST` of a number that is not listed, which
  would get no reply; it says that nothing inside the server
  strands a line that arrived whole.
- `ServerLoop`: weak fairness of `Main`, the main thread: one thread that does
  not block but in `pselect`, which returns when somebody is ready, at a signal
  or at its timeout.
- `Retr`: weak fairness of `Server`: pieces are copied, and sends take all of
  them, which is the abstraction of that module.
- `AdminClient`: weak fairness of `Client`, whose wait is bounded by
  `SO_RCVTIMEO`; of the server and of the network nothing is assumed.
- `Logger`: weak fairness of the program's steps, and strong fairness of a
  write that takes something: a file that refuses for ever would let nothing
  drain. A signal that leaves the interest behind (`late`) ends the claim.

## The proofs

For every value of the constants that satisfies the modules' assumptions. Each
theorem rests on an inductive invariant, found with TLC and proved first.

`Pop3ServerProofs`, over inductive invariants that build on each other.

- `SessionInv` has a conjunct for each connection, so a step is a step of one
  of them (`OneConn`); each handler has a lemma. It adds to
  `SessionMatchesState` what that silently leans on: a callback never reads
  before the greeting or after QUIT (`OnlyWrites`), `session` is NoBox or one
  of `Boxes`, and the variables are functions on `Conns`. From it:
  `SessionsMatchStates`; `MailIsSafe` (only the transaction branch of
  `QuitHandler` shrinks `files`, and the session tells whose file it is);
  `NumbersKeepTheirMeaning` (PASS gives a session only to who has none, a scan
  fills only an empty listing, QUIT ends the session whose listing it clears).
- `DataInv` says what the buffers, listings, sockets and scripts hold. Beyond
  the types it needs that `out_buff` is untouched before the greeting, so that
  the greeting fits; that an unfinished RETR names a message of the listing and
  has not passed its end; that a listing is no longer than the array allocated
  for it (`Fits`), which is what a scan with a smaller `max_mails` would break;
  and the type invariant of `Managment`, since requests change `max_mails` in
  between. From it: `ServerTypesHold` and `ListingsFit`.
- `LineInv`: the pieces that a connection has received and not parsed, in
  `in_buff` or on their way, continue the numbering of the lines where `served`
  is, each beginning before its end (`Follows`). So the line that a callback
  parses is the next one.
- `TalkInv` is about the conversation, which is what the client has and then
  what waits in `out_buff`: ordered, with the message of a RETR half sent there
  up to `read_index`, or up to where `out_buff` had no room, after which the
  call skips to its end (`HalfSent`). That disjunct is what short sends bring
  about; with it the invariant holds for every configuration, and
  `MessagesArriveInPieces` has no hypothesis. It says that the pieces of a
  message are a beginning of it, not that they are all of it.
- `MessagesArriveWhole` (`EndsAreWhole` besides) and `RepliesFollowLines` need `DrainInv`: when a
  callback reads, `out_buff` is empty. It follows from sends that take all they
  are given, `~PartialSends`, and without that neither property holds. A
  message is whole (`ExactInv`) if `out_buff` has room for a unit after the
  status line; replies are whole (`ReplyInv`) if it has room for the reply to
  CAPA and for the listing of any maildir, with its status and terminator
  (`RoomForReplies`): a longer listing loses its end in `try_write`. The
  configuration of `pipeline` satisfies both hypotheses.

`ManagmentProofs`: `TableStaysInItsArray` (the type invariant is inductive),
`GrantingIsExact` and `NobodyElseGetsIn`. Both are about the linear search:
`OneMoreSlot` and `OnePassword` say that appending a slot, or changing the
password of the first slot of a name, leaves the first slot of every other name
where it was, duplicates and blanks included; `ShorterTable` that a table one
slot shorter has the same first slots, but for the one it has lost.

`BufferProofs`: `PointersStayInside`, `EmptyBufferHasAllItsRoom` and
`BufferIsFifo`. An empty buffer must have both pointers at 0, which is why
`buffer_read_adv` compacts; with it the type invariant is inductive. The
refinement maps each operation to `Enqueue`, `Dequeue`, `Forget` or a stutter
(compaction).

`Pop3ParserProofs`: `ArraysHold`, `HandlersSeeStrings` and
`LinesAreReadAsMeant`. `ParserInv` adds what holds in between: past COMMAND the
command has its length, in END the argument is empty or terminated, elsewhere
it holds no NUL, an unfinished command is never being fed to, and the lines
already given were good when they were given. `LineInv` relates it to the
stream: what was consumed splits into the lines with a verdict and one line
that is open (`Seen`), and the open line is spelled by the parser's state and
arrays, or is being dropped, in which case no continuation makes it good
(`Doomed`), so that the verdict may come before the line ends. It holds until
a bad line is cut while it is dropped (`cut`): what is left of it is then read
as a line.

`ServerLoopProofs`: `LoopTypesHold`, `DescriptorsAgree`,
`ConnectionsHaveOneItem`, `StatsHold`, `ShutdownReleases` and `LoopIsReactor`.
`LoopInv` says that the sets and `max_fd` follow from the items and that an
item's owner has that descriptor in the kernel (`SelectorInv`, `OwnersInv`),
and, for the refinement, that whoever the rest of an iteration will still call
was the owner of that descriptor when `select` returned (`ReportsAreCurrent`):
newcomers take the numbers of descriptors that are closed, and those the
iteration has passed.

`RetrProofs`: `TransferStaysInside`, `FlagIsRemembered`, `OneDotFits`,
`MessageIsStuffed` and `MessageComesBack`.
`RetrInv` is the types, what `crlf_flag` says of the bytes before `read_index`
(`FlagInv`), that between messages nothing is left but the flag (`Restarts`),
and that what is to be copied fits with one dot more (`PieceFits`), from which
a lost byte takes two. `DeliveryInv` says, at each point of a transfer, what
`got` and `out_buff` together hold of the stuffed message; `FlagInv` is what
makes the next byte's stuffing the right one. That such a message comes back is
then a fact about `Stuffing` and `Unstuffed` alone (`StuffingDecodes`, by
induction on the length of the message).

`AdminClientProofs`: `ClientStaysInItsPlan`, `AnswersAreNotMixed`,
`RequestsRunInOrder` and `ServerIsManagment`. `ClientInv` says that at most one
request of each invocation is out, that what waits in the inbox is the next to run,
and that at most one answer waits and it is that request's (`InboxIsNext`,
`Numbered`, `InStep`, `OneAnswer`). By the last of the theorems what
`ManagmentProofs` proves holds of the composition.

`LoggerProofs`: `BufferHasRoom`, `LogIsInOrder`, `LinesFit`,
`PendingHasAWriter`, `ClosingKeepsTheOrder` and `DamageStaysInTheLines`. `LoggerInv` follows a line
through its steps: what is pending is inside the array (`InsideInv`), with a
cell left after it (`RoomInv`); what a line holds and what `write` took are
what was pending then (`LineInv`, `TookInv`) unless a signal fell in between,
and the file followed by what is pending is all that was counted
(`NothingIsLost`): what `write` took counts as written from then on, though
`buffer_length` and `buffer_start` say so only two steps later. An interest that was
evaluated is the right one until a signal comes before its store. After a signal in a line or in a flush `DamageInv` takes
over. As long as no byte has fallen out, each byte of the file, and each one
pending that the file does not have, is right or belongs to a harmed line
(`Contained`); and what was pending when `snprintf` was given its place lies
before that place, or is harmed (`Before`), so that the line it prints late
spoils no other. When a byte does fall out the lengths differ for ever
(`ContainedLess`), and there is nothing more to say. The run has one signal;
the theorem is about any number.

Where a proof is by induction over data, it is in terms of sets: a set of
numbers that is not empty has a least one (`Least`, from the well-foundedness
of `<`), hence a set with 0 and the successor of each of its members is all of
`Nat` (`Induct`).

## Only model-checked

Liveness is out of the prover's reach: `EveryLineAnswered`, `ReadyAreServed`,
`SignalStops`, `EveryRetrEnds`, `ClientEnds` and `Drains` are checked by their
runs only. Every invariant and every action property of a run that passes is
also a theorem. The two properties of the runs that end in a
violation have counterexamples and no proof.

## Not modelled

- The parsing of the server's options (`args.c`) and of datagrams in
  `managment.c`: what they leave is in the initial table and in the records of
  requests.
- The count of transferred bytes, which no reply but the one that prints it
  depends on.
- Failures of `socket`, `bind` and `listen`, which end the process before it
  serves anyone; the management socket, which stays open at the exit.
- Growth of the selector's table, which starts at its largest;
  `selector_notify_block` and what handles it, and the block entry of the state
  machine, which have no caller.
- A signal between the words of an `fd_set`; signals inside signals.
- The logger's stream, which is never given; a log that cannot be opened
  (nothing is logged then); its first `malloc`.
- A maildir that disappears during a session.
- What an overflow does to the heap of a process that survives it (RETR without
  room, for a message larger than the allocator's smallest block; `LIST` past
  the array): the conversation goes on in the model as if nothing else was hit.
- Datagrams that somebody else sends to the socket of the administration
  client, which is not connected and would take them for answers.
- `netutils.c` formats addresses and copies in blocking loops that the server
  does not call; the load script has no state.

## Plan

Done, in this order: `Managment`, `Pop3Server` over it, `Buffer` with `Fifo`,
`Pop3Parser`, `ServerLoop` with `Reactor`, `Retr`, `AdminClient` over
`Managment`, `Logger`, and their proofs. Left:

1. `Pop3Parser` refining what `Pop3Server` assumes of lines, and `Retr` what it
   assumes of units; the theorems about the byte-level modules
   (`LinesAreReadAsMeant`, `MessageIsStuffed`) are what that would rest on.
2. The parsing of options and datagrams, as functions from words to tables.
3. `RepliesInOrder` accepts a `LIST n` without a reply whatever the listing
   was; with the listing at that time remembered, it would accept only those
   that `list_handler` refuses.
