# A TLA+ model of the wg bash builtin

The repository builds one loadable bash builtin. `src/src/includes.h` pulls nearly every C file
into the translation unit of `src/src/wg.c`, whose `wg_builtin` selects a mode by its first
argument: WireGuard interfaces (`up`, `down`, `devices`), a pty driver (`passh`), and a number of
modules and demos. The builtin runs inside the shell: when it calls `exit`, the shell is gone, when
it hangs, the shell hangs, and several shells work on the same kernel.

This directory holds TLA+ modules of the parts with real behaviour, TLC configurations that check
small instances, and TLAPS proofs for all values of the constants. `PROJECT.json` maps definitions
to source lines and lists runs, mutants, hazards, findings and theorems.

## 1. Inventory

### Modelled

| Component | Source | State | Operations | Works with | Hard parts | What makes it correct |
|---|---|---|---|---|---|---|
| Device configuration | `wireguard.c` `wg_set_device` | cursors `peer`, `allowedip`; the message; the kernel's table | build a message, cut it, send, read the acknowledgement | netlink; other shells | a message is full anywhere; two cursors to resume; failure after some messages; two callers interleave per message | the cuts change nothing; 0 means all was applied; an error means a prefix was |
| Device read | `wireguard.c` `wg_get_device`, `parse_*`, `coalesce_peers` | the peer list, `ret`, the dump in the kernel | dump, parse, join pieces, retry | netlink; writers | the device changes during a dump; peers cut in pieces; allocations fail | the result is the device of one instant; the call returns |
| Interface list, add, delete | `wireguard.c` `fetch_device_names`, `add_del_iface` | the list of names | dump of links, RTM_NEWLINK, RTM_DELLINK | netlink | an interrupted dump gives partial results | nothing is left out without a cause |
| Commands `up`, `down`, `devices` | `wg.c` | none beyond the call: answers of earlier calls | sequences of library calls | the three above | check then act; `exit(1)` in the middle | only a fault or a race makes a command fail; no interface is left half made without a cause |
| passh | `passh.c` `big_loop` | flags set by signal handlers, prompt counter, clock, pty | wait, select, copy, answer, drain | the command, the shell's other children, the user | signals at any point; output and exit in either order | never more than N passwords; no output lost; it ends with its command |
| reproc: start | `reproc.c` `reproc_start`, `process.posix.c`, `redirect*.c`, `pipe.posix.c`, `options.c` | descriptors, signal mask, child, error pipes | parse, redirect, pipe, fork, exec, undo | every client of reproc | some fifteen steps can fail in two processes that wait for each other; signals interrupt the waiting | the result says whether there is a child; what failed is undone; the child has its streams and nothing else |
| reproc: life of a child | `reproc.c` wait, terminate, kill, stop, destroy, poll | `status`, exit pipe, deadline | the calls, the child's life, the clock | bash, which reaps any child | the exit pipe only stands for the child's end; deadlines; a stolen status | status is the child's; no signal to a stranger; `reproc_stop` says how it ended |
| reproc: run and drain | `run.c`, `drain.c` | pipes, `r` | drain two pipes, stop, destroy | sinks | a full pipe on either side; a drain that was given up | nothing is lost on success; it returns |
| Ansible facts | `ansible.c` `get_ansible_facts_json` | `output` | read one pipe, wait | reproc | the other pipe is not read | the loop ends |
| TCP proxy | `proxy.c` (a program of its own) | four processes, two sockets | accept, fork, forward, shut down | peers, external commands | nobody waits for anybody; a command need not read or answer | what ends first has lost nothing; one end ends both |

Of reproc are left out: `reproc_write` and `reproc_close` called by the program, nonblocking pipes,
streams polled together with the exit, and the sinks that `drain.c` offers. Of `ansible.c` and
`dynamic.c`: the parsing of what was read. Of the proxy: its options, `splice` (not built), the
daemon. Of passh: the byte buffer and the regular expressions. Of the netlink library: the
attribute encoding, which is seen through its two clients only.

### Not modelled

| Component | Source | Why not |
|---|---|---|
| Process groups | `process_group.c`, `process_iterator*.c` | one thread that reads `/proc` in one pass; what changes between two reads is the kernel's data |
| Script execution | `scriptexec.c`, `fsio.c` | a straight line of file operations with one outcome each |
| Tar | `microtar.c` | text conversion over a file position, no interleaving and no recovery |
| Redis client | `redis/hiredis.c`, `redis/redis_demo.c` | the reader (`read.c`) and the strings (`sds.c`) it is made of are not in the repository |
| String buffer, codecs | `stringbuffer.c`, `b64/*`, `base32codec.c`, `totp.c`, `sha1.c` | sequential, pure; unit tests and the standards' vectors reach all of it |

### Out of scope

Key arithmetic and encoding in `wireguard.c` (curve25519: field arithmetic out of TLC's reach);
text parsers (`ini.c`, `config.c`, `simpleconf.c`, `json.c`, `ghh_json.h`); output and layout
(`term.c`, `contables.c`, `progress.c`, `qrcode/`, `color.c`, `log.c`, the demos); straight-line use
of libraries that are not here (`ssh2_exec.c`, `jwt_demo.c`, `pexec.c`); small pure helpers
(`utils.c`, `tools.c`, `uuid4.c`, `human.c`, `time.c`); the mode dispatch and load/unload of the
builtin, which keep no state; and what is in the tree but not compiled (`sql.c`, `sqldbal.c`,
`https.c`, `*.windows.c`). The bundled headers of mbedtls, libssh2 and the CA list are third-party.

## 2. Modules

    WgKernel        the kernel's peer table: what a WGPEER nest does to it
      WgConfigure     abstract: a request is applied item by item, in order
      WgSetDevice     wg_set_device with messages, cursors, failures, callers
        WgSetDeviceHistory      what a call found, and which calls were mixed
          MCWgSetDevice
          WgSetDevice_proofs
    WgRead          abstract: a read of one instant, or none
      WgGetDevice     wg_get_device with the kernel's dump
        MCWgGetDevice, WgGetDevice_proofs
    WgBuiltin       up, down, devices over library calls as single steps
      MCWgBuiltin
      WgBuiltin_proofs
    Passh           passh's big_loop, its command and a job of the shell
      MCPassh
      Passh_proofs
    FdTable         a process's descriptor table: the lowest free number, dup2, exec
      ReprocStart     reproc_start in the parent and in the child
        MCReprocStart, ReprocStart_proofs
    ReprocTime      expiry of a timeout and a deadline, the earliest deadline
      Reproc          wait, terminate, kill, stop, destroy, poll
        MCReproc, Reproc_proofs
      ReprocDrain     reproc_run_ex and ansible.c's loop over bounded pipes
        MCReprocDrain, ReprocDrain_proofs
    Proxy           the proxy's processes over two shared sockets
      MCProxy, Proxy_proofs

**WgSetDevice.** One action per place where the code can go on or turn: `Prepare` (label `again`),
`PutPeer`, `PutIp`, `PeersTooBig` and `IpsTooBig` (the two `toobig` labels), `Send`, `SendFails`,
`RecvFails`, and `Ack`, the answer. The buffer is not kept; `stream[c]` lists the nests written,
`mark[c]` how many of them are in messages already sent. Where a message is full is left open,
except that a fresh message holds the device attributes and one peer with one allowed IP: the
buffer is a page or more and these take less than 300 bytes. `SendFails` is also the socket that
cannot be opened before the first message. The kernel handles one nest per step
while it holds its lock; an allowed IP that a nest gives to one peer leaves the other. `by` records
who last wrote a peer's own attributes, `"bare"` if a continuation recreated a peer without them.

**WgConfigure** says the same without messages: a request advances over its items (peer, then its
allowed IPs) by any number of items of one peer at a time. `WgSetDevice` implements it with
`status` and `at` computed from `ret`, `lock` and the last nest processed.

**WgSetDeviceHistory** adds two history variables: `before[c]` is the table when the kernel took
`c`'s first message, `mixed` the calls between whose messages another call's was processed. With
them `SuccessExact` and `BareOnlyIfMixed` say what an undisturbed call leaves behind: `Whole`, the
request applied to `before[c]` as if it had been one message.

**WgGetDevice.** The kernel fills messages up to `MaxAhead` ahead of the reader, each from one
instant; after a change, the next message carries `NLM_F_DUMP_INTR`. The caller reads (`Receive`),
meets the flag (`Interrupted`), is interrupted by a signal (`Signal`), fails (`OpenFails`,
`RecvFails`), joins pieces one loop turn at a time (`NextPeer`, `Join`), and leaves by `Out`, which
returns or goes to `try_again`. `Parsed` keeps what `parse_allowedips` keeps when an allocation
fails, `last` being the pointer `last_allowedip`. Peers' attributes are one mark, `full`.

**WgRead** is what that amounts to for a caller: a call looks at the table at one instant, possibly
again, and returns what the last look saw, or an error and no list; after a failed allocation peers
may lack allowed IPs, or the call may crash. `WgGetDevice` implements it. The look is the step in which
the kernel builds the first message of a dump; a new dump forgets it; `seen`, `phase` and `answer`
are computed from the dump's place, from `pc` and `ret`, and from `got`.

**WgBuiltin.** Each library call of a command is one step that succeeds, fails, or (a dump) hangs;
other shells step between them. That `wg_get_device` is one step is what `WgRead` allows; `up` passes one peer without allowed IPs to `wg_set_device`, which is one
message. A failed request may have been carried out before its answer was lost. `KeyFails` is the end of a
shell whose private key is wrong: the message about it goes to a string that was never set
(`wg.c:177`), which does anything. `fault` and `touched` are history: something failed by itself,
another shell worked on the interface.

**Passh.** The children, the signal and the pty are the system; the loop is one action per place
where a signal may fall: check the flag (`CheckSignal`), `WaitPid`, clear the flag and look at the
status (`Reset`), `-T` (`Clock`), select, one read of the pty, drain (`Done`). What the command
writes is one chunk per read: text, a password prompt or a yes/no question, so the byte buffer and
the regular expressions are left out, as are the window size and the two log files. A signal that
falls on a blocked `waitpid` or a blocked write is fatal, for `sig_handle` sets no `SA_RESTART`.

**ReprocStart.** One action per call of `reproc_start`, `process_start` and `process_fork` that can
fail or that changes a descriptor, the signal mask or the child; parent and child step in any order
after `Fork`. Options are records of three streams' settings, run through `parse_options` as in the
code. A table maps each number below `FdLimit` to what is open there and its close-on-exec flag, and
new descriptors get the lowest free number, for the code depends on which numbers it gets:
`dup2` onto 0, 1 and 2 may meet a pipe, and the closing loop of the child ends before the last number.
The two error pipes hold one number each (`told`) and end when no process has their write end.
The child can be killed at any moment, and bash may wait for it (`HostReaps`) as soon as its
SIGCHLD is not blocked. From then on, a signal may also end the parent's `read` or `waitpid` with
EINTR while it sleeps (`Interrupted`): `ForkReadInterrupted` and `ReportReadInterrupted` go on as if
the pipe had ended, `WaitInterrupted` returns the error and leaves the child. `read` is asserted not
to fail, and both builds are modelled: with the assertion the parent ends (`ReadAsserts`, place
`aborted`). `fds0`, `noEnv` and `missed` (the pipes whose read was interrupted) are history.

**Reproc.** Starts where `ReprocStart` ends with a 1 (`Start`): with a child that runs or, when the
environment could not be copied, without one (`absent`), with -1 for its number and an exit pipe
that has hung up. A signal to -1 goes to everybody, `waitpid(-1)` waits for anybody (`WaitpidAny`);
the assertions against it end the program (`AssertFails`) unless NDEBUG leaves them out, and both
builds are modelled. The program's calls
are `CallNext`; each sleeping call has a place (`wait`, `waitpid`, `stop.wait`, `stop.waitpid`,
`poll`), and everything else happens around it: the child exits, is signalled, closes the exit pipe
or leaves an heir to hold it; bash reaps it; the clock ticks. Time is counted in ticks, as what is
left of a timeout or deadline. Signals stay pending until `Deliver`; `stray` remembers one sent to a
number that was no child's. `FindEarliest` and `Expiry` (module `ReprocTime`) are the code's
functions, with -1 for no deadline.

**ReprocDrain.** `reproc_start` is a single step here, for `ReprocStart` has it. Pipes hold
`Capacity` chunks; a child that wants to write to a full one sleeps. `holders` says who has the
other ends of the two output pipes and of the exit pipe: the child, which may close any of them and
run on, and an heir, to which it may pass each of them. `reproc_wait` is its two calls: a `poll` of
the exit pipe that ends with the deadline (`ExitHangsUp`, `StopTerminates`), then a `waitpid` that
does not (`StopCollects`, `WaitReturns`). The caller is either `reproc_run_ex` or
`get_ansible_facts_json`. A sink's result is any of `SinkResults`. Assertions are compiled in here,
which is the default: a `reproc_wait` without a child ends the program (`WaitAsserts`).

**Proxy.** One connection: server, handler and two forwarders, each with its copies of the two
sockets (`fd`), so that a closed copy and a shut socket are different things. Failed `accept`, `fork`,
`pipe` and `connect` go on as the code does. An external command has a pipe of `PipeSize` chunks on
either side and reads, writes and ends as it likes; a forwarder sleeps in `filter.write` while the
first is full and in `filter.read` while the second is empty.

## 3. Runs

| Run | Instance | What it shows |
|---|---|---|
| `wg_set_device` | 2 callers, 2 peers, 3 allowed IPs, 5 requests | `StreamInOrder`: nests list the request once and in order. `SuccessComplete`, `SuccessExact`: 0 means the table is what one unfragmented message would have made. `BareOnlyIfMixed`: a peer loses its attributes only if calls mix. `ImplementsConfigure`, `CallReturns` |
| `wg_get_device` | 3 tables of up to 3 peers, one with 3 allowed IPs; 2 messages ahead, 2 disturbances | `ReadsOneInstant`: the list is the device of one instant of the call. `ImplementsRead`, `CrashNeedsShort`, `ReturnsIfUndisturbed` |
| `wg_get_retry` | the same | violation: `Returns` |
| `wg_builtin` | 2 shells, 2 interfaces | `OnlyARaceFails`, `BareHasCause`, `DevicesPrintsAll`, `CommandsEnd` |
| `passh` | a command and a job, 1 stop, 2 chunks, 2 option sets | `AtMostTries`, `AllPrinted`. `EndNoticedUnstopped`: passh ends after its command, if no child was ever stopped |
| `passh_stops` | 1 stop, no output | violation: `EndNoticed` |
| `passh_job` | no stops, 1 chunk | violation: `ChildHasExited` |
| `reproc_start` | 17 descriptors, 12 option records, parents whose standard streams are open or partly closed | `NothingLeaks`, `ResultTellsChild`, `ChildsErrorReturned`, `SignalsBack`, `ChildHasItsStreams`, `StartReturns`. `NoCrossWait`: while the parent sleeps there is a child on its way to its program |
| `reproc` | a process with all calls and one that is only polled; deadlines 0 to 2, timeouts 1 and none, 3 triples of stop actions | `StatusIsTheChilds`, `SignalsOwnChild`, `BlocksOnlyIfLetGo`, `StopOutcome`, `PollKeepsDeadline`, `KillReturns` |
| `reproc_noop` | one process that is stopped as in the example of `reproc.h:475` | violation: `StopTellsOfChild` |
| `reproc_drain` | pipes of 2 chunks, children that write up to 4 or for ever, a deadline or none, sinks that go on, stop or fail | `RunDelivers`, `RunReturns`, `LoopEnds` |
| `proxy` | no external command, or one for the client's data behind pipes of 1 chunk; 2 chunks each way | `FirstLosesNothing`, `OneEndsBoth` |

`wg_set_device`, `wg_get_device`, `wg_builtin`, `passh` and `reproc` also check the module's
`TypeOK`; that of `ReprocStart` is proved. Properties with exceptions name each of them in their
comment; section 5 lists what the code does in those cases.

**Why the bounds are enough.** A request's fragmentation depends on neighbouring items only: two
peers with two allowed IPs each have every kind of cut (inside a peer, between peers, before the
first and after the last allowed IP), and two callers every way to interleave two streams. The
requests cover replacing the device, replacing allowed IPs, moving an IP between peers, removing a
peer while listing IPs, a repeated key and an empty list. A peer with three allowed IPs is cut into
three pieces, the least with a middle piece, for `coalesce_peers`. Two disturbances are one in the
first attempt and one in the repeated one. A race of `up`, `down` or `devices` is between two shells
over one interface; the second interface makes the listing span messages. One stop of the command
is enough to have two SIGCHLDs; two chunks are one prompt more than `-c 1` allows, and the two option
sets are `-c` with `-C` and `-y`, and `-c` alone with both timeouts.
17 descriptors are three streams, the user's file, two ends for each of the four pipes of the
parent and the two error pipes, and one more at the end, which is occupied in one of the tables;
the option records have each kind of redirection on some stream, the shorthands, input, fork and
an invalid record. Parents with streams {0}, {1} and all three closed are those where
the lowest free number is one of 0, 1 and 2. Two processes in either order of sources, and a NULL
source, are all that the comparison of two deadlines meets; a deadline of 2 lets a timeout of 1 pass
first. For draining, 4 chunks overfill a pipe of 2 and still leave a case where both pipes get some;
capacity 2 distinguishes a pipe that is full from one that has something. Two chunks each way are one
under way and one forwarded when the other forwarder ends, and more than fits in a command's pipe
of one chunk. What must hold beyond these sizes is
proved (section 4).

**Deadlock** is not checked: calls return, shells end, passh exits, children are reaped and
connections end, so all these systems stop.

**Fairness.** `WgSetDevice`: weak fairness of each caller's own steps (a process that can run does;
the kernel answers each message, perhaps with an error). `WgGetDevice`: weak fairness of the
kernel's dump and of the caller; none of changes, signals or failures. `WgBuiltin`: weak fairness of
each running command's successful steps. `Passh`: weak fairness of signal delivery and of the loop;
none of the command, the user or the clock. `ReprocStart`: weak fairness of the parent's and of the
child's steps before its program runs; none of signals. `Reproc`: weak fairness of the library's steps, of the clock
and of the delivery of SIGKILL; nothing is assumed of children, of bash or of SIGTERM.
`ReprocDrain`: of the caller, of the clock, of a child that can go on, and of SIGTERM's effect on a
child that does not ignore it; none of heirs. `Proxy`: of each forwarder's own steps except a `send` to a peer
that is connected, which need not read; neither peers nor an external command need do anything. These are the scheduler's and the kernel's promises
only; nothing is assumed that the code would have to ensure.

## 4. Proofs

All are for arbitrary sets of callers, shells, keys, requests, interfaces and bounds, from the named
assumptions `SetAssumption`, `GetAssumption`, `BuiltinAssumption`, `PasshAssumption`, `FdLimitAssumption`,
`StartAssumption`, `ReprocAssumption`, `DrainAssumption`, `HistoryAssumption` and `ProxyAssumption`,
which state the shapes of the constants.

* **`WgSetDevice_proofs`**: `TypeCorrect`, `OrderKept` (`StreamInOrder`), `SuccessIsComplete`
  (`SuccessComplete`). `StreamInOrder` is not inductive: whether the next nest follows the last one
  depends on the cursors. `IndInv` therefore adds `CursorsAfterLast` (the cursors stand right
  behind the last nest: inside a peer at its next allowed IP, or at the next peer) and `SentSoFar`
  (what is sent and processed at each label). One lemma per action; `Frame` disposes of the other
  callers.
  `Refinement` is `Spec => ImplementsConfigure`. Beyond `IndInv` it needs `MessageInv`: a nest that
  continues a peer brings at least one allowed IP (or the abstract step would not advance), and the
  device's own attributes are in the first message only (or `REPLACE_PEERS` would be applied
  twice). Building is a stutter; the kernel's steps are `Begin` and `Advance`; the acknowledgement
  is `Succeed`.
  `UndisturbedIsExact` (`SuccessExact`) and `BareOnlyByMixing` (`BareOnlyIfMixed`) are about
  `HistorySpec`. `HistoryInv` says of every call in flight that is not mixed that no other call has
  the kernel's lock and that the table is `Exact`: what the peers and allowed IPs processed so far
  make of the table it began with. A continuation nest keeps this because `SetPeer` with the first
  k allowed IPs and then with the k+1st alone is `SetPeer` with the first k+1 (`SetPeerJoins`), and
  because it does not replace or remove. `AfterPeers`, a recursive function, is unfolded once per
  peer; that it exists is shown by a least counterexample (`TablesExist`).
* **`WgBuiltin_proofs`**: `TypeCorrect`, `OnlyRacesFail`, `BareIsExplained`, `DevicesComplete`.
  The strengthening records why a shell is about to make its next call: `Reasons` (about to add and
  untouched: the interface is absent; about to configure or delete and untouched: it is there) and
  `Lists` (names found are the present ones among those the dump has come to). `OtherShell` shows
  that another shell's step keeps both or sets `touched`. `DevicesPrintsAll` is an action property
  and follows from `Lists` at the last step.
* **`Passh_proofs`**: `TypeCorrect`, `TriesLimited` (`AtMostTries`), `NothingLost` (`AllPrinted`).
  The strengthening: `Tries` (at the limit the loop has given up or left) and `Statuses` (printed
  plus waiting is written; a reported exit is of a dead child, which writes nothing more).
* **`WgGetDevice_proofs`**: `TypeCorrect`, `OneInstant` (`ReadsOneInstant`), `CoalesceIsSafe`
  (`CrashNeedsShort`), `Refinement` (`ImplementsRead`). A dump is a walk over positions `<<p, i>>`
  (peer and number of allowed IPs of it); every piece is a slice of one peer between two positions.
  `Dump` says where the kernel's cursor stands in the table it dumps; `Reading`, that the list read
  so far (`Trail`) followed by the queued messages (`Leads`) is a chain of pieces, each beginning
  where the last one ended, from the start to that cursor, where a message with the flag may say
  anything and a piece may have lost allowed IPs to a failed allocation; `Joining`, that behind
  `coalesce_peers`' pointer each peer has one piece and before it none is split, while the chain's
  meaning stays; `Answered`, that what was returned is the chain joined to whole peers. `CrashNeedsShort` is an invariant of
  the same steps: a null `last_allowedip` comes from a failed allocation only. For `Refinement`,
  `Answered` gives the abstract answer; the first message of a dump is `Look`, a new dump `Forget`, a
  failed allocation `Lose`, the rest of messages and joining a stutter.
* **`ReprocStart_proofs`**: `TypeCorrect`, `ResultIsTrue` (`ResultTellsChild`), `ErrorIsTheChilds`
  (`ChildsErrorReturned`), `SignalsAreBack` (`SignalsBack`), `LeaksNothing` (`NothingLeaks`),
  `ProgramHasItsStreams` (`ChildHasItsStreams`), `NeitherWaits` (`NoCrossWait`).
  `ResultIsTrue` and `ErrorIsTheChilds` hold with EINTR in either read and either wait, and say what
  is left of them then: an error EINTR leaves at most a child that has told its error; a success
  after an interrupted read has a child, whose error may be lost; and without memory for the
  environment it has none. The parent believes what it reads from a pipe's end, so the invariant must know who holds which end at each
  place of either process: `Handed` and `Pipes`. For that it must be known that the report pipe's write end is never at 0, 1
  or 2 in the child, where `dup2` would replace it (`Room`, `Given`): the three streams' own ends
  come before it, and numbers are given from the lowest. For `NothingLeaks`, `Descriptors` says that
  what `reproc_start` has opened is at the numbers of variables it owns, each of which knows its file
  from the others', and that all else in the parent's table is as it was found. For
  `ChildHasItsStreams`, `Streams` follows each stream's file from `redirect_init` through `fork`, the
  closing loop and the three `dup2` to `exec`: with the usual parent no number that was opened is
  below 3, so no `dup2` hits a number still needed, and what is at another number is closed at
  `exec` unless it is the exit pipe. For `NoCrossWait`, `Writers` says that an error pipe's
  write end is at one number of a process at most, that of its variable; `dup2` and the change of
  close-on-exec do not touch it, for the numbers of the child's streams are below 3 or hold
  other files. This is the safety half of `StartReturns`, for any table and any options. `Child` and
  `Parent` tie places to each other, `Decided` the result to what was read. `Lowest` (the least free
  number exists) comes from the well-foundedness of the natural numbers.
* **`Reproc_proofs`**: `TypeCorrect`, `StatusKept` (`StatusIsTheChilds`), `NoStraySignal`
  (`SignalsOwnChild`), `WaitBounded` (`BlocksOnlyIfLetGo`), `StopAnswers` (`StopOutcome`),
  `DeadlineKept` (`PollKeepsDeadline`).
  `NoStraySignal` leaves two cases in which a signal goes astray: the shell has waited for the child
  first, or there was no child and NDEBUG is set. `SignalsOwnChild` needs `Life` (a child that was
  waited for by reproc has its status set, one that was not started has no number), `StopOutcome` needs `Progress` (what `ret` may be at each step of
  `reproc_stop`), `BlocksOnlyIfLetGo` needs `Where` (in `waitpid` the exit pipe has hung up).
  `PollKeepsDeadline` has an invariant of its own, `PollInv`: the clock takes from the sleep what it
  takes from the deadlines. That `FindEarliest`, a recursive function, finds a deadline not later
  than any that is not hidden (`Found`) is shown by taking the least number of sources for which it
  would not (`LeastNatural`, `FoundNext`, `ScanFinds`).
* **`ReprocDrain_proofs`**: `RunIsDelivered` (`RunDelivers`). `AfterDrain`: after a drain that
  returned 0 every pipe was read to its end, and at an end nothing is in the pipe and nobody can
  write (`GivenUpAtEnd`), which stays so, for only a holder can have an heir (`ChildHolds`).
* **`Proxy_proofs`**: `TypeCorrect`, `FirstIsComplete` (`FirstLosesNothing`). `Inherited` says which
  processes have which sockets, `Untouched` what is true before the forwarders, `Ended` that a
  forwarder that has ended is after the first to end. While both connections were made and no peer
  has reset one (`Undisturbed`), each chunk sent is at its destination, in the forwarder or in the
  queue (`Accounted`), and the first to end has found its queue empty and its peer gone
  (`EndsByPeer`).

Only model-checked is the liveness (`CallReturns`, `ReturnsIfUndisturbed`, `CommandsEnd`,
`EndNoticedUnstopped`, `StartReturns`, `KillReturns`, `RunReturns`, `LoopEnds`, `OneEndsBoth`). Liveness under
fairness and ENABLED are beyond the proof system's backends, and so are the library's induction theorems, which take an operator as a
parameter; the two recursive functions proved about go by a least counterexample instead.

## 5. Findings

* **`wg_get_device` never returns after one interrupted dump** (`wireguard.c:1403`, run
  `wg_get_retry`). `ret` is set to 0 before `try_again` only. After an `-EINTR` the next, good dump
  is freed and repeated, for ever. The comment at `wireguard.c:976` calls such interruptions "pretty
  common on busy systems". `up`, `down` and `devices` hang with it, which is why `WgBuiltin` has
  the step `Hang`.
* **passh forgets a SIGCHLD** (`passh.c:739`, run `passh_stops`). The flag is cleared after
  `waitpid`; the signal of the command's end that comes between is lost and passh runs for ever,
  although the comment at `passh.c:753` counts on "the next SIGCHLD".
* **passh takes another child's end for its command's** (`passh.c:734`, run `passh_job`).
  `waitpid(-1)` in the shell reaps the shell's jobs too, and `L_done` is entered with "the child has
  exited" not true.
* **`reproc_stop` returns 0 for a child that runs on** (`reproc.c:629`, run `reproc_noop`). A last
  action that is `REPROC_STOP_NOOP`, as in the example of `reproc.h:475-480`, replaces the
  `REPROC_ETIMEDOUT` of the wait before it by 0, which is also the exit status of a child that has
  succeeded; `reproc.h:500-504` promises the exit status or `REPROC_ETIMEDOUT`.

Other observations that the models contain without a document to contradict: `parse_peers` returns
success after a failed allocation in `parse_allowedips` (`wireguard.c:1321`), which can lose allowed
IPs (`ImplementsRead` bounds the loss) and make `coalesce_peers` follow a null pointer
(`CrashNeedsShort` says only then); `wg_device_exists` takes every failure for absence (`wg.c:9`);
the message about a private key of a wrong size is printed to a string that was never set
(`wg.c:177`, `188`, `196`).

Of reproc and its clients (the properties have these as their exceptions, each named in the
property's comment where it matters):

* a failed `strv_concat` is a success without a child, whose handle stays -1
  (`process.posix.c:342`), although `reproc.h:331` says that without an error the child has started
  running. What follows is `waitpid(-1)` and, when `reproc_terminate` or `reproc_kill` is called,
  `kill(-1)`: assertions stand before both and NDEBUG removes them. It is a named exception of
  `ResultTellsChild`, `SignalsOwnChild` and `StatusIsTheChilds`;
* `process_fork` gives the parent its signals back before it reads the child's error, and no call
  there is repeated after EINTR: an interrupted `read` (`process.posix.c:196`, `432`) loses the error
  and reports a start, an interrupted `waitpid` (`:202`, `:436`) reports EINTR and leaves a zombie;
* a failed pipe in `process_fork` leaves signals blocked (`:160`), and a
  failed fork sets the blocking mask again (`:170`);
* `/dev/null`, opened for a stream of the parent that was fclosed, is never closed
  (`redirect.c:66`); standard error sent to standard output that is the parent's sets close-on-exec
  on the parent's number 1 in the child; the closing loop does not come to the last descriptor
  (`process.posix.c:270`); with closed standard streams `dup2` may replace the exit pipe;
* a process without a deadline hides the deadline of an earlier source (`reproc.c:133`); `poll`
  returns 1 with a deadline event where `reproc.h:249` speaks of `REPROC_ETIMEDOUT`;
* `reproc_wait` and `reproc_stop` can block beyond any deadline when the child closes the exit pipe
  and runs on; the deadlines follow `CLOCK_REALTIME` (`clock.posix.c`), so a step of the wall clock
  moves them, which the model's clock does not show;
* `reproc_run_ex` waits for ever for a child that sleeps on a full pipe after its sink has stopped
  the drain and there is no deadline (`run.c:45`); and, deadline or not, for an heir that keeps the
  exit pipe, or for a child that closes it and runs on;
* `get_ansible_facts_json` sleeps with a child that fills standard error (`ansible.c:132`), and
  passes a null pointer to `strlen` when nothing was read; its `argv` has no terminating NULL;
* the proxy's first forwarder to end shuts both sockets down and the other direction loses what is
  still under way (`proxy.c:419`); a command that does not read blocks its forwarder in `write` for
  good (`proxy.c:454`), and what a command has written beyond one read for each write is dropped.

Seen in code that is not modelled: `scriptexec.c:135` removes the directory before its files;
`process_group.c:67` sends SIGCONT to process -1 when no process was found.

## 6. Plan

1. An abstract specification of a child that is started once, ends once and is reaped once, with
   `Reproc` shown to implement it.
2. `reproc_write` and `reproc_close` in `ReprocDrain`, for a child that reads its standard input.
3. The file operations of `scriptexec.c`, the table of `process_group.c` over two refreshes, the
   archive cursor of `microtar.c` and the growth of `stringbuffer.c`, as small modules of their own,
   should any of this code change in a way that tests do not reach.
