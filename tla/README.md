# Verification of io_bluetooth

TLA+ models of `io_bluetooth` (`src/`), the TLC runs that check them on small
instances and the TLAPS proofs of what holds for every instance.  Paths below
are those of the repository.

## 1. The system

`io_bluetooth` is a synchronous library: it has no threads or callbacks of its
own.  Its concurrency is that of the program that uses it (sockets are shared
by reference, cloned and dropped from any thread) and of the kernel and the
remote device, which act between any two system calls.

| Component | Source | State | Operations |
|---|---|---|---|
| Descriptor ownership | `src/sys/unix/fd.rs`, `Socket` in `src/sys/{unix,windows}/bt.rs` | the number in each `FileDesc`/`Socket`, the kernel's table, the close-on-exec marks, the static `TRY_CLOEXEC` | `Socket::new`, `accept`, `duplicate`, `into_raw`, `from_inner`, `Drop` |
| `connect_timeout`, unix | `src/sys/unix/bt.rs` | `FIONBIO`, the connection, `SO_ERROR`, the clock | nonblocking `connect`, the `poll` loop, `take_error` |
| `connect_timeout`, windows | `src/sys/windows/bt.rs` | the same, with `select` | one `select` with a `timeval` |
| Address lists | `each_addr` in `src/bt/mod.rs`, `src/sys_common/bt.rs` | `last_err`, the socket of the attempt | `BtStream::connect`, `BtListener::bind` |
| Discovery | `discover_devices` in `src/sys/{unix,windows}/bt.rs` | the open adapter or lookup, the buffer | inquiry; begin, next, end |
| Addresses, accepted connections | `BtAddr` in `src/bt/mod.rs` and `src/sys_common/bt.rs`, the `Into` impls and `accept` in `src/sys/*/bt.rs` | the listener and what waits at it; the address storage of a running `accept` | `BtListener::bind`, `accept`, `local_addr`, `peer_addr`, address to `sockaddr` and back |
| Data transfer, clones | `src/bt/mod.rs`, `src/sys_common/bt.rs`, `src/sys/*/bt.rs` | the socket's queue, shutdown state, options, pending error | `peek`, `recv`, `send`, `read`, `write`, `shutdown`, `take_error`, `try_clone` |
| Read/write timeouts | `set_timeout`, `timeout`, `dur2timeout` | `SO_RCVTIMEO`, `SO_SNDTIMEO` | conversions |
| Winsock initialisation, last error | `init`, `last_error`, `cvt` in `src/sys/windows/{bt,mod}.rs` | two `Once`s (the crate's and that of the standard library), the port of the dummy socket, the error code of each thread | `init`, `Socket::new`, `discover_devices` up to their first error |

How they interact: the public types of `src/bt/mod.rs` wrap those of
`src/sys_common/bt.rs`, which hold one platform `Socket` and the protocol; every
operation is a call down to the `Socket`, and every error travels up through
`?`, dropping what was built so far.  That drop is where descriptor ownership
meets all the other components: each of their error paths relies on it.

What is hard here, and what makes each component correct:

* *Descriptor ownership.*  Numbers are reused by the kernel as soon as they are
  closed, by any thread.  A descriptor must have one owner, be closed once, not
  leak from a call that fails half-way, and be close-on-exec when it is
  returned, whichever of the fallbacks the kernel forces.
* *connect_timeout.*  Signals, rounding to milliseconds, the clamp to a `c_int`,
  connections that complete or break between any two steps.  It must return in
  time without spinning, with the right outcome, leaving a blocking connected
  socket or none.
* *Address lists.*  The first success must win, the last error must be
  reported, and no losing attempt may leave anything behind; a signal makes
  `cvt_r` call `connect` again on a socket that is connecting already.
* *Discovery.*  Early returns between opening and closing a session; a buffer
  that grows in words for replies counted in bytes; 256 results requested
  through an octet.
* *Data transfer.*  Clones share everything but the descriptor: what a thread does
  to one shows on the others, even on calls that are already blocked.  Bytes and
  errors must be delivered once, and `Ok(0)` must mean the end.
* *Read/write timeouts.*  Rounding to microseconds or milliseconds and clamping to
  `time_t` or `c_ulong`, next to a zero that means "for ever".
* *Addresses and accepted connections.*  Two layouts of `sockaddr` on unix and a
  number on windows, taken apart octet by octet.  Several threads accept on one
  listener through `ENOSYS`, `EINTR` and a nonblocking mode any of them may set;
  each connection must go to one caller, with the address of its own device.
* *Winsock initialisation.*  Whoever makes a socket first initialises winsock by
  way of a `UdpSocket` of the standard library; the others must wait for it.  The
  error code of a failed call is fetched by a second call, which must come
  before anything else touches it.

## 2. The plan

1. `Descriptors`, `DescriptorsProofs`: model, runs and proofs **done**.
2. `TimedConnect` with `ConnectTimeout` (unix) and `WinConnectTimeout` (windows), and
   their proofs: **done**.
3. `EachAddr`, the abstract `FirstSuccess`, `EachAddrProofs`: **done**.
4. `Discovery`, `DiscoveryProofs`: **done**.
5. `Address`, `Connections`, the abstract `AcceptSpec`, `ConnectionsProofs`: **done**.
6. `Stream`, `StreamProofs`: **done**.
7. `Timeouts`, proved in `StreamProofs`: **done**.
8. `Winsock`, `WinsockProofs`: **done**.

The hard core of the system came first (1 to 4); 5 and 8 came last because they
meet the others at one point each, `accept` and the entry of `Socket::new`.
Modules that are proved about declare no recursive operator, take their
parameters as constants with named assumptions, and have one action per
operation.

## 3. The modules

Names of actions are those of the functions or system calls they model.  A
definition that begins with a comment `mutant:` is not part of the model; it is
the form the next definition would have with a plausible mistake, and shows
that a property notices it.  Variables called `ghost` in the declarations
record history for the properties and are read by no guard.

Each module states its properties one by one, with the promise of the code each is
about, and then groups those that make up one claim: `OwnershipIsSound`,
`NothingIsInherited`, `OutcomeIsTrue`, `EachAnswerOnce`, `GivenOnce`, `EndsAreFinal`,
`RefusedOrKept`, `ConnectionsAreKept`, `AddressesAreTrue`, `AcceptReturns` and
`InitIsDone` are conjunctions of named parts.  The runs check the groups.

### Descriptors

Threads perform one system call (or one access of `TRY_CLOEXEC`) at a time.
`handle[h]` is the descriptor inside a live `FileDesc`, `fd[t]` the one inside the
local `FileDesc` of a running call, `raw[d]` a descriptor owned as an integer by
other code, `table[d]` what the kernel has behind the number and `marked` the
close-on-exec descriptors.  `src` and `dst` are the borrow and the destination of
the running call: Rust forbids to drop or move a borrowed `FileDesc`, which is
the guard `~Borrowed` of `CallDrop` and `IntoRaw`.

`target` fixes the platform and what its kernel supports.  `CallNew`,
`CallAccept` and `CallDuplicate` enter a call; the following actions are its
system calls with their fallbacks, up to `ReturnHandle` or, on an error after the
descriptor exists, `Close` (the drop of the local).  `Close` happens once whatever
it returns; on Linux and Android the number is free afterwards even after an
error, elsewhere it may stay open, which the ghost `lost` records.  `TRY_CLOEXEC` is
Relaxed: a load may return the newest value or the newest the thread has seen.
`OtherOpen` and `OtherClose` are the rest of the program, so that numbers are
reused.  The Android, haiku and Apple branches are modelled as `cfg` selects
them, whether or not the crate's dependencies build there.  On Android and haiku
`F_DUPFD_CLOEXEC` is another name for `F_DUPFD` (`IsPlainDupFd`); Android never tries
it, haiku does and marks nothing afterwards (section 5).  `ReturnedIsMarked` leaves
out that one case, a duplicate on haiku, of which the claim is false.
`set_cloexec` (`src/sys/unix/fd.rs:178`) uses `ioctl` or, on
solaris, haiku and similar targets, `fcntl`; either is one step here.

### TimedConnect, ConnectTimeout and WinConnectTimeout

One call of `BtStream::connect_timeout`.  `TimedConnect` has what both platforms
do: `NewSocket`, the two `SetNonblocking`s around `Connect`, `MatchResult` and,
after any error, `DropSocket`, which is the drop in the caller.  The kernel
establishes the connection (`Establish`) or lets it fail (`Break`) between any
two steps.  The value returned by poll, the pending error and the connection are
separate, so that a connection can still break after it has been reported.
`clock` starts with the `Instant` of unix, or with the call of select; `Tick`
adds to the ghost `lag` whenever the thread could have run.

`ConnectTimeout` adds the loop of unix: `CheckElapsed`, `EnterPoll`, then
`PollReady`, `PollTimedOut` or `PollFailed`, and `TakeError` after a hang-up.
`UnitsPerMs` clock units make a millisecond, so rounding is visible.  It is
assumed of the kernel, as the comment at `src/sys/unix/bt.rs:178` does, that a
failed connection is reported with `POLLHUP`, and that poll reports an event
rather than `EINTR` when there is one.

`WinConnectTimeout` adds the one select of windows.  A duration is its seconds and
the units that remain; `Timeval` converts it, with the cast of the seconds to a
`c_long` of `CLongWidth` values (`AsCLong`).  It is assumed of winsock, as its
documentation has it, that an attempt that fails puts the socket into `errorfds`,
that a connection lost after it was established stays in `writefds`, and that
select refuses a negative time.  Nothing is assumed of `SO_ERROR`: a failed attempt
may leave it empty, and the code returns `Ok` then (`src/sys/windows/bt.rs:197`).
`OkMeansConnected` of this module says that `Ok` has no other cause (`FailedSilently`);
that of `ConnectTimeout` has no such exception.

### EachAddr and FirstSuccess

`EachAddr` runs the attempts over a list of `count` addresses, an address being
its position.  `NextAddr`, `AttemptFailed` and `Succeed` are the loop of `each_addr`;
`NewSocket` to `ConnectReturns` and `Listen` are the calls of `BtStream::connect` and
`BtListener::bind`; `FailWith` and `DropSocket` are the `?` operator.  `link[a]` is what
the kernel has at attempt `a`, kept after the attempt so that leftovers would be
seen.  `Interrupted` is a signal during connect: `cvt_r` loops on unix but is
plain `cvt` on windows.  `ConnectAgain` is the repetition: the kernel may join the
wait or answer that the socket is in use.

`FirstSuccess` is the promise of the docs of `connect` and `bind`: one attempt at a
time, in order, at most its socket open, first success or last error.  `EachAddr`
implements it with `sockets <- open` and the other variables by name.

### Discovery

Both `discover_devices`: `GetRoute` to `CloseDev` on unix, `LookupBegin` to
`LookupEnd` on windows.  `answers` are the devices that answer with the lengths
of their replies; `session` is the open adapter or lookup handle.
`InquiryLimit` is what libbluetooth and the kernel make of the number of
results; that the array's 256 entries are a multiple of the values of an octet
is an assumption with a name.

### Address, Connections and AcceptSpec

`Address` is the conversions and nothing else: the six octets of a `BtAddr`, the
octets of `sockaddr_rc` and `sockaddr_l2` at their offsets, and `btAddr` as a
number with its NAP and SAP.  `ToSockaddr` and `FromSockaddr` are the crate's,
`KernelReads` and `KernelWrites` the other side's, from the layouts in the
headers of BlueZ and winsock.

`Connections` has a listener behind several handles, threads in `accept` and
connections numbered as they come in.  `CallAccept` enters; `TakeMarked` is accept4,
which returns the stream; `FallBack` is `ENOSYS`, after which `Take` (accept) and `Mark`
(`set_cloexec` or `set_no_inherit`) are two steps with the connection in the
thread's hands (`fetched`).  `Sleep`, `Interrupted` and `WouldBlock` are the system call
that finds nothing: a thread asleep does not look at `FIONBIO` again until a signal
makes `cvt_r` repeat the call.  `sockaddr[t]` is the local storage of the call.  What
`local_addr` and `peer_addr` return is a function of the state and is compared in
`NamesAreTrue`.  Devices connect (`Arrive`) and withdraw at any time, `Backlog` of them
wait.  The kernel is assumed to hand out the oldest connection that waits and to
prefer one to `EINTR`.

`AcceptSpec` is the promise of the doc of `accept`: each connection is given to one
caller at most, with the address of the device that made it.  `Connections`
implements it with `waiting` the connections at the kernel or in a thread's hands
and `given` the addresses returned with the streams.

### Stream

A connected `BtStream` with the handles in `live`.  `call[t]` is the call in
which thread `t` may be blocked, `handle[t]` the handle it borrows (which
therefore cannot be dropped) and `patience[t]` what `FIONBIO` and the timeout
said when the call was made, since the kernel looks at them only then.
`MakeCall` makes it; `Receive`, `ReturnPending`, `ReadEnd`, `Send`, `WouldBlock`
and `Interrupted` return from it, in the order of preference of the kernel:
data, the pending error, the end, waiting. `Flags` and `RecvResult` are the
crate's part of receiving: the flag that makes a peek, and which results of
`recv` become `Ok(0)`.  `HalvesOf` is its part of shutting down;
`SetReadOrWriteTimeout` only says whether there is a timeout, its length is that of
`Timeouts`.  `peek_from`,
`recv_from` and `send_to` move data as `peek`, `recv` and `send` do and are not
distinguished; buffers are not empty (an empty one makes `recv` return `Ok(0)`
at any time).  Bytes from the peer are numbered; `arrived` and `consumed` are
the two ends of the receive queue.  The protocol makes no difference: the crate
opens a `SOCK_STREAM` socket for L2CAP as for RFCOMM (`src/sys/unix/bt.rs:56`, 67), so a
`recv` gives any number of the bytes that are there and leaves the rest
(`Readable`).  The kernel behaviour assumed is written at the actions: on unix a
shutdown of one half may close both (RFCOMM), on windows it need not wake a
waiting call.

### Timeouts

A `Duration` is its number of nanoseconds, and the ratios of the units and the
widths of the integers are constants.  `Timeval`, `FromTimeval`, `Dur2timeout` and
`FromMillis` are the conversions; `KernelKeeps` and `KernelTells` are the kernel's own
rounding to ticks on unix, and what it makes of zero, negative and very long
timeouts.  `SetTimeout` and `Timeout` are the two functions, `Restore` a caller that
puts back what it has read.  `Waits` is what a blocked call then waits.

### Winsock

`Call` enters `Socket::new`, `discover_devices` or, for the rest of the program,
`std::net`.  `EnterFirst`, `EnterLater` and `EnterPoisoned` are `call_once` of
`init`; inside its closure `StdOnce` and `Startup` are the standard library's
own `Once` around `WSAStartup`, which other threads may be in at the same time
and whose assertion may panic, and `BindDummy` and `DropDummy` the `UdpSocket`
on a port anybody may have (`OtherPort`).  `ChooseProtocol` to `DropSocket`
follow the caller to its first error. `lastError[t]` is the error code of the
thread: `cvt` asks for it through `GetLastError` and `last_error` through
`WSAGetLastError`, which are the same value. `LastError` is a step of its own,
after the one that failed.

## 4. The runs

| Run | Bounds | What it shows |
|---|---|---|
| `descriptors` | 2 threads, 3 handles, 3 numbers, 3 files; Linux with all 16 feature sets, Android, haiku, Apple with and without `F_DUPFD_CLOEXEC`, windows | one owner, valid numbers, no leak, close-on-exec on return (but for a duplicate on haiku), atomic on a full Linux kernel, no second refused call |
| `connect_timeout` | timeouts 0, 1, 3, 4, 5, 8, 9, 13 in units of a quarter millisecond, polls of at most 2 ms, lag up to 3 units, 2 reasons, any number of signals | outcome, closing, punctuality, no spinning, reported reason, termination |
| `connect_timeout_zero` | the same | finding: a zero timeout may return `Ok` |
| `each_addr` | lists of 0 to 3 addresses, 2 errors, both operations, both platforms, any number of signals | refinement of `FirstSuccess`, usable results, release of losers, last error, termination |
| `win_connect_timeout` | 0 to 5 seconds of 2 microseconds of 3 units, a `c_long` of -2 to 1, lag up to 3 units, 2 reasons or none | outcome, closing, punctuality of what fits and a bound for what does not, reported reason, termination |
| `discovery` | up to 4 answers of 2 devices, words of 3 bytes, replies of 5, 6, 7 and 9 bytes, an octet of 4 values | nothing skipped, at most one resize per reply, which returns leak, termination |
| `stream` | 2 threads, 2 handles, 3 bytes that arrive in 1 to 3 parts, buffers of 1 and 2, a send window of 1, unix and windows | delivery once, stable peeks, `Ok(0)` only at the end and for ever, the error told once, no send after shutdown |
| `stream_released` | 2 threads, 1 handle, 1 byte, unix and windows | no reader is left waiting after a shutdown or the end of the connection |
| `timeouts` | all durations of 8 seconds of 2 milliseconds of 2 microseconds of 2 nanoseconds, ticks of 2 microseconds, `time_t` up to 3, `c_ulong` up to 6, a kernel limit of 2 seconds | waits as asked, only zero refused, saving and restoring, order of durations |
| `connections` | 2 threads, 2 handles, 2 devices making 2 connections, a backlog of 2, octets of 16 values; Linux with and without accept4, another unix, windows; RFCOMM; any number of signals and failures | refinement of `AcceptSpec`, a connection in one thread's hands, addresses true both ways, accept returns |
| `connections_l2cap` | the same on Linux with L2CAP | finding: the device that is dialled is another |
| `winsock` | 2 threads, 2 error codes, any number of calls | past `init` winsock is initialised and the dummy gone, one dummy in all, every error is the call's own, calls return |

Why the bounds are enough.  *descriptors*: two threads give every race on one
number or on the flag, and three numbers let one be reused while both threads
hold another; handles, numbers, files and threads are interchangeable, hence the
symmetry (no liveness is checked).  The proofs cover all sizes.
*connect_timeout*: the timeouts lie on both sides of each rounding and clamping
boundary, the longest needs two full polls, and a lag of three units can move
any step across a millisecond.  *each_addr*: with three addresses there is an
attempt that is neither first nor last.  *discovery*: replies fit exactly, miss
by one, and are one over a word boundary; four answers exceed what the small
octet counts.  *stream*: two threads give every race on one socket, three bytes are
more than a buffer holds and can be received whole, in part or one by one, and a
window of one blocks the second send; threads and handles are interchangeable.  The liveness run needs one byte
only, so that another thread can take what a reader waited for, and states no
symmetry.  *timeouts*: each unit is two of the next, so that every conversion is
exact or not; seconds exceed the limits of the kernel, of `time_t` and of
`c_ulong`, and milliseconds overflow the u64.  *win_connect_timeout*: seconds of
0 and 1 fit the small `c_long`, 2 and 3 come out negative, 4 and 5 as 0 and 1
again; three units to the microsecond tell rounding from waiting too long.
*connections*: two threads and two connections give every race for one
connection and every order of two; there are as many as the backlog holds; a
connection the kernel refuses for its sake is one the code never sees.  All
octets of an address differ, so that no order of octets passes for another.  The
run checks liveness and states no symmetry.  *winsock*: one thread runs the
closure while the other waits for it or is in the standard library; calls are
repeated, so an error of one may be seen in the next.  `stream`,
`stream_released`, `connections` and `connections_l2cap` do not check deadlock:
a stream or a listener whose last handle is dropped has stopped.

Fairness.  `ConnectTimeout`: weak fairness of the thread (a runnable thread is
run) and strong fairness of `Tick` (the clock does not stop while the thread
sleeps again and again; strong, because every interrupted sleep disables `Tick`
once the lag is used up).  Nothing is assumed of the peer or of signals.
`WinConnectTimeout`: weak fairness of the thread and of `Tick`, whose sleep nothing
interrupts.
`EachAddr`: the thread, and the kernel's answer to a connection it has started
(controllers give up on a page timeout).  `Discovery`: the thread; its calls
return.  `Stream`: each thread, for returning from a call that can return; not
for making calls, not for signals and not for the peer.  `Connections`: each
thread, for the steps of a running accept; not for signals, other errors,
devices or the callers.  `Winsock`: each thread that can run.  `Descriptors` and
`Timeouts` state no liveness.

## 5. The findings

`connect_timeout` accepts a zero timeout when connect succeeds at once: the check
(`src/sys/unix/bt.rs:140`) comes after `Ok(_) => return Ok(())` (line 128), and after
the connection attempt itself, while the doc says "It is an error to pass a zero
`Duration` to this function" (`src/bt/mod.rs:213`).  Run `connect_timeout_zero`.

For L2CAP on unix, `connect` and `bind` pass a `sockaddr_rc` (`src/sys/unix/bt.rs:377`),
whose address lies where `sockaddr_l2` has the psm and the first octets of the
address, so that the kernel dials another device than the one asked for.  The
doc says "Opens a Bluetooth connection to a remote host"
(`src/bt/mod.rs:193`) and `BtProtocol` has `L2CAP`.  Run `connections_l2cap`.

### Behaviour without a run

What the models show, or what was met in the code while modelling it, where no
document says otherwise or no order of steps matters:

* `discover_devices` leaves the adapter or the lookup open when the inquiry or a
  lookup step fails (`OnlyEarlyReturnsLeak`: nothing else does).
* A signal during `BtStream::connect` may make it give up a connection that was
  established (`AbandonedOnlyAfterSignal`: nothing else does).
* A timeout of `connect_timeout` whose seconds do not fit a `c_long`
  (`src/sys/windows/bt.rs:170`, more than 68 years) is cut or comes out negative.
  `Punctual` claims the waiting only of those that fit, and that none is waited
  for longer than asked.
* On haiku `duplicate` returns a descriptor that a child process inherits.  There,
  as on Android, `F_DUPFD_CLOEXEC` is an alias of `F_DUPFD` (`src/sys/unix/fd.rs:252`);
  but `TRY_CLOEXEC` starts false on Android only (line 262), and the result is
  marked once more on Linux only (line 270).  The comment says "We want to
  atomically duplicate this file descriptor and set the CLOEXEC flag" (line 237)
  and "ensure that CLOEXEC is still set" (line 242).  `ReturnedIsMarked` is
  violated as soon as its exception for haiku is left out; the run `descriptors`
  has haiku among its targets and shows that there is no other exception.
* `connect_timeout` on windows returns `Ok` for an attempt that failed when select
  puts the socket into `errorfds` and `SO_ERROR` is empty
  (`src/sys/windows/bt.rs:197`; `OkMeansConnected`: there is no other such `Ok`).
* The doc of `shutdown` has "all pending and future I/O" return at once
  (`src/bt/mod.rs:314`).  The crate only passes the call on; `ReadersReleased` claims
  it for unix, since winsock does not say that a waiting `recv` is woken.
* Without accept4, and on windows, a connection is closed when its descriptor
  cannot be marked (`OnlyMarkingLoses`: only there).
* A poisoned `Once` makes every later `Socket::new` panic, after a `WSAStartup` that
  failed once.
* `recv_from` and `peek_from` read the origin from a storage that recvfrom does not
  write on a connected stream socket, so it is `00:00:00:00:00:00`
  (`src/sys/unix/bt.rs:223`, `src/sys/windows/bt.rs:261`), while the docs promise the
  origin (`src/bt/mod.rs:256`, 286).
* "Binding with a port number of 0" (`src/bt/mod.rs:95`) is spoken of, but an address
  has no port and the channel is always 1 on unix.
* windows' `connect_timeout` passes an address with no service class and port 0.
* The receive loop of `examples/01_socket.rs` (line 37) goes on after `Ok(0)`;
  `EndsAreFinal` says that nothing else will follow, so once the peer has closed
  the loop spins.  `request_device_idx` (line 49) likewise spins at the end of the
  standard input.

## 6. The proofs

Eight modules hold theorems; each stands beside the module it is about and
proves, for every value of the constants, the invariant `IInv` and from it the
properties that the runs check.  Every invariant, every action property and both
refinements that a passing run checks have a theorem here.

`DescriptorsProofs`, for any sets of threads, handles, numbers, files and
targets: `OwnershipHolds`, `InheritanceHolds` and `NeverTriedAgain`.
Assumptions: `None` is none of the others, targets are pairs of a platform and a
feature set, and where `F_DUPFD_CLOEXEC` is a command of its own only Linux kernels
report a mark they have not set.  `InheritanceHolds` has the exception of
`ReturnedIsMarked`: a duplicate on haiku.  The properties are not inductive by
themselves; `IInv` adds

* `Shape`: which locals a call holds at each program point;
* `BorrowsAreLive`: what a call borrows is alive (so a duplicate is of the file
  it was asked for);
* `PlacesAreReserved`: the place of a result is empty and reserved once (so no
  returned descriptor overwrites, and leaks, another);
* `FlagIsMonotone`: nobody sees `TRY_CLOEXEC` go from false to true, and a refused
  thread has recorded the refusal or is about to; on Android nobody sees it true;
* `NoFallback`: with every feature, no thread is ever in a fallback.

There is one lemma per kind of step (`EnterStep`, `OpenStep`, `ErrorStep`,
`MoveStep` and those of the single actions); `CallStep`, `SocketStep`,
`AcceptStep`, `DuplicateStep` put the calls together, `Initially` and
`Inductive` give `Invariance`. `NeverTriedAgain` follows from the invariant
after the step and the monotony of `probed`.

`EachAddrProofs`, for lists of any length and any errors: `OutcomeHolds`,
`AbandonedBySignal`, and that `EachAddr` implements `FirstSuccess` (`KeepsThePromise`).
Assumptions: the bound on lists is a natural number, the platforms are `unix` and
`windows`, and the three kinds of error are distinct.  `IInv` adds `CallShape` (whether
the attempt's socket is open, which operation it belongs to), `LinkShape` (the
kernel knows nothing of addresses not attempted yet, and has a connection only
where connect started one), `ErrorShape` (`last_err` is that of the attempt before)
and `SignalShape` (whoever calls `connect` again was interrupted on that address).
For the refinement, `NewSocket` maps to the first step of an attempt or to its
failure, `DropSocket` to the failure of an attempt, the returns of `connect` and
`listen` with success to `Succeed`, `NextAddr` on an exhausted list to `GiveUp`, and
everything else changes nothing the promise speaks of.

`Shape`, in `TimedConnect`, is what both forms of `connect_timeout` keep: it ties the
place of the thread to its socket, its result and the connection.  Each of the
two proof modules shows that its own steps keep it.
`ConnectTimeoutProofs` adds `OtherShape` (when there is no reason to report) and
`TimeShape`: the loop goes round only before the deadline, so the last poll ends
less than a millisecond after it, and each nap took a millisecond.  It proves
`OutcomeHolds`, `InTime` and `NoSpinning` for any timeouts in units, any units in a
millisecond and any width of a `c_int`.  `WinConnectTimeoutProofs` adds `CauseShape` (`Ok`
has a connection or a failure without a reason behind it, and whoever read the
reason reports it) and a `TimeShape`
from the lemmas `Cast` (the cast never makes a number larger and keeps what fits)
and `TimevalWaits`; it proves `OutcomeHolds` and `InTime`.  Assumptions: the units and
widths are positive, a `c_long` has an even number of values and holds the
microseconds of a second, and the words the code returns are not reasons of the
kernel.

`DiscoveryProofs`, for any number of answers, lengths of replies, word and header:
`AnswersHold` and `LeaksHold`.  `IInv` says that what was found is the prefix of the
answers handed out so far, and that after a fault the buffer holds the answer at
the cursor; `WordsForSuffices` is the arithmetic of `1 + len / size_of::<usize>()`,
`InquiryCounts` that of 256 in an octet.

`StreamProofs`, for any threads, handles, buffers, bytes and windows:
`GivenHolds`, `CauseHolds` and `EndsHold`.  The parts of `IInv` follow the
state: `CallShape` (a borrowed handle is alive), `QueueShape` (what was taken is what
left the queue, and what was peeked at is still in it), `FaultShape` (an error is told or pending, once the connection is
down) and `EndShape` (what callers shut down the kernel has; after an end there
is nothing left and nothing comes). `QueueMoves`, `FaultMoves`, `CallMoves` and
`EndMoves` say which actions touch a part, and there is one lemma for each of
those.

`StreamProofs` also holds the proofs about `Timeouts`: it extends both modules, whose
definitions have different names (`TimeoutInit`, `TimeoutNext`, `TimeoutSpec`).
`TimeoutTypes`, `TimeoutsHold`, `RestoringHolds` and `LongerHolds` are for Durations of
any length.  They rest on the named assumptions of `Timeouts`: the units are
positive, a tick divides a second, the kernel's limit fits a `time_t`, which like
a `c_ulong` is less than a `u64`, and `Never`, "no timeout", is not a number.
The invariant `Kept` says that the option is what the last argument that
was taken comes to (`Keep`), and that zero was never taken; what is left is
arithmetic.  On windows the sum of `dur2timeout` is the Duration rounded up to
milliseconds (`MillisAreCeil`), so it is zero only for zero and grows with the
Duration.  On unix the microseconds of a Duration make at most a second of ticks
and at least one where there are no seconds (`TicksRound`), so that rounding never
carries past the next second; and what `timeout` returns is a whole number of
ticks, which come back as they were (`UnixRestores`).

`ConnectionsProofs`, for any threads, handles, devices, backlog, number of
connections and size of an octet: `TakenConnectionsAreKept`, `AddressesMeanTheSame`,
and that `Connections` implements `AcceptSpec` (`KeepsThePromise`).  Assumptions: the
devices and the adapter have addresses, the port is an octet, a target is a
platform, a protocol and whether it is a Linux and has accept4, and `None` is
none of the others.  `IInv` adds

* `HoldShape`: a connection is "fetched" exactly when a thread holds it, and no
  two threads hold the same one;
* `StorageShape`: while a thread marks the new socket, its storage has the address
  of the device that made the connection in its hands, so that no other accept
  can have replaced it;
* `ToldShape`: what was told with a stream is the conversion of that address;
* `LossShape`: with accept4 on Linux nobody is in plain accept;
* `NameShape`: before `bind` there is no handle, and what the kernel was asked for is
  the conversion of what was passed.

`FrontWaits` is about the oldest connection that waits, `UpdateFate`, `UpdateTold`,
`DropAll` and `Grow` say what a step does connection by connection, and there is
one lemma per part of `IInv` and its steps.  For the refinement, `TakeMarked` and a
successful `Mark` map to `Give`, a failing `Mark`, `Withdraw` and the drop of the last
handle to `Lose`, `Arrive` to `Arrive`, and everything else, `Take` included, changes
nothing the promise speaks of.  `RoundTrip` is the arithmetic of `nap_sap` and `btAddr`:
octet by octet for six octets of any number of values, from lemmas on quotients
(`Digits`).

`AddressesMeanTheSame` and `KeepsThePromise` are about RFCOMM (`target.protocol = "RFCOMM"`
initially; the target never changes).  The hypothesis is what section 5 reports:
with L2CAP on unix the crate's layout is not the kernel's, and both are false.

`WinsockProofs`, for any threads and error codes: `InitHolds` and `OwnErrors`.
`IInv` has the state of the `Once`s (`Functions`, `Globals`), where each thread
stands (`Local`), that at most one is inside each closure (`OneInside`) and that
a dummy has an owner (`DummyHasOwner`).

Only model-checked: the two properties that are violated, and all liveness
(`Terminates` of four modules, `ReadersReleased`, `AcceptReturns`, `CallsReturn`), which is
out of the prover's reach.

## 7. Not modelled

* `FileDesc::read`, `write`, their vectored and positional forms, `get_cloexec` and
  `set_nonblocking`: single system calls, and nothing in the crate calls them.
* Wrappers, formatting, parsing of addresses for display, re-exports: delegation
  and text.
* The examples: programs on top of the library (see section 5 for what was met).
* `fork` and `exec` themselves: what a child would inherit is `marked`.
* Exhaustion of resources beyond "the call may fail", and the contents of what
  is sent.
