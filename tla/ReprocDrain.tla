--------------------------- MODULE ReprocDrain ---------------------------
(***************************************************************************)
(* Two ways of reading what a child writes.  reproc_run_ex (reproc/src/    *)
(* run.c) starts it, drains both of its output pipes with reproc_drain     *)
(* (drain.c), stops and destroys it; get_ansible_facts_json (ansible.c)    *)
(* reads standard output alone, to its end, and then waits.  A pipe holds  *)
(* Capacity chunks; a child that writes into a full one sleeps, and so do  *)
(* programs that wait for it.  The child's end is learned from a third     *)
(* pipe, on which it writes nothing: the exit pipe hangs up when nobody    *)
(* holds its other end, and only then does reproc_wait call waitpid.       *)
(* reproc's assertions are taken as compiled in, which is the default.     *)
(***************************************************************************)
EXTENDS ReprocTime, FiniteSets

CONSTANTS Capacity,    \* of a pipe
          MaxChunks,   \* what a child writes before it ends, at most
          Deadlines,   \* the deadlines callers pass, 0 for none
          SinkResults  \* what the sinks return

ASSUME DrainAssumption ==
    /\ Capacity \in Nat \ {0}
    /\ MaxChunks \in Nat
    /\ Deadlines \subseteq Nat
    /\ SinkResults \subseteq Int /\ 0 \in SinkResults

VARIABLES
    program,   \* "run_ex" or "ansible"
    piped,     \* the streams redirected to pipes
    deadline,  \* of the process
    pc,        \* where the caller is
    r,         \* the variable r
    pipe,      \* the read ends the caller has
    drained,   \* what reproc_drain has returned
    output,    \* the variable output of get_ansible_facts_json is not NULL
    child,     \* "none", "absent", "alive", "zombie" or "collected"
    left,      \* the chunks it writes at most, FOREVER if there is no end
    wants,     \* the stream it is writing to, or "none"
    holders,   \* who has the other ends of the pipes: "child", "heir"
    inPipe,    \* chunks in the pipes
    termed,    \* SIGTERM has been sent
    stubborn   \* the child ignores it

callerVars == <<program, piped, pc, r, pipe, drained, output>>
childVars  == <<child, left, wants, holders, inPipe, stubborn>>
vars       == <<callerVars, deadline, childVars, termed>>

Stream  == {"out", "err"}
Pipe    == Stream \cup {"exit"}
FOREVER == -1
Room(s) == inPipe[s] < Capacity

REPROC_ETIMEDOUT == -110
REPROC_EPIPE == -32
ENOMEM == -12
EINTR  == -4
ENOENT == -2

Init ==
    /\ program \in {"run_ex", "ansible"}
    /\ piped \in IF program = "ansible" THEN {Stream} ELSE SUBSET Stream
    /\ \E d \in Deadlines : deadline = IF d = 0 THEN REPROC_INFINITE ELSE d
    /\ pc = "start" /\ r = 0 /\ pipe = {} /\ drained = 0 /\ output = FALSE
    /\ child = "none"
    /\ left \in {MaxChunks, FOREVER}
    /\ wants = "none"
    /\ holders = [p \in Pipe |-> {}]
    /\ inPipe = [s \in Stream |-> 0]
    /\ termed = FALSE
    /\ stubborn \in BOOLEAN
-----------------------------------------------------------------------------
GoTo(place, value) == pc' = place /\ r' = value

KeepCaller == UNCHANGED <<program, piped>>

(* reproc_start (module ReprocStart), which also returns 1 when it had no  *)
(* memory for the environment: then there is no child.                     *)
Start ==
    /\ pc = "start"
    /\ \/ /\ child' = "alive"
          /\ holders' = [p \in Pipe |-> IF p \in piped \cup {"exit"} THEN {"child"} ELSE {}]
       \/ child' = "absent" /\ UNCHANGED holders
    /\ pipe' = piped
    /\ GoTo(IF program = "run_ex" THEN "sinks" ELSE "loop", 1)
    /\ KeepCaller
    /\ UNCHANGED <<drained, output, deadline, left, wants, inPipe, stubborn, termed>>

StartFails ==
    /\ pc = "start"
    /\ GoTo(IF program = "run_ex" THEN "destroy" ELSE "report", ENOENT)
    /\ KeepCaller
    /\ UNCHANGED <<pipe, drained, output, deadline, childVars, termed>>

(* A pipe is readable when there is something in it or nobody can write.   *)
Readable == {s \in pipe : inPipe[s] > 0 \/ holders[s] = {}}

(* read() takes what is there, up to the size of the buffer, and tells the *)
(* end of the stream, after which reproc_read closes the pipe.             *)
ReadData(s, n) ==
    /\ n \in 1 .. inPipe[s]
    /\ inPipe' = [inPipe EXCEPT ![s] = @ - n]
    /\ UNCHANGED pipe

ReadEnd(s) ==
    /\ inPipe[s] = 0 /\ holders[s] = {}
    /\ pipe' = pipe \ {s}
    /\ UNCHANGED inPipe

(* reproc_wait polls the exit pipe and, when it hangs up, sleeps in        *)
(* waitpid: until the child is a zombie, whatever the timeout was.         *)
HungUp  == holders["exit"] = {}
Collect == child = "zombie" /\ child' = "collected"
-----------------------------------------------------------------------------
(* reproc_drain *)

DrainReturns(value) == GoTo("drained", value) /\ drained' = value

SinkReturns(value) ==
    \/ value = 0 /\ GoTo("drain", 0) /\ UNCHANGED drained
    \/ value # 0 /\ DrainReturns(value)

(* Both sinks are called once without data.                                *)
InitialSinks ==
    /\ pc = "sinks"
    /\ \E v \in SinkResults : SinkReturns(v)
    /\ KeepCaller
    /\ UNCHANGED <<pipe, output, deadline, childVars, termed>>

\* Mutant: one closed pipe is taken for both.
DrainPollEnds ==
    /\ pc = "drain"
    /\ \/ deadline = 0 /\ DrainReturns(REPROC_ETIMEDOUT)
       \/ deadline # 0 /\ pipe # piped /\ DrainReturns(0)
       \/ deadline # 0 /\ pipe = piped /\ GoTo("poll", r) /\ UNCHANGED drained
    /\ KeepCaller
    /\ UNCHANGED <<pipe, output, deadline, childVars, termed>>

\* Mutant: the deadline counts only while nothing is readable.
DrainPollReads ==
    /\ pc = "drain"
    /\ \/ pipe = {} /\ DrainReturns(0)
       \/ pipe # {} /\ GoTo("poll", r) /\ UNCHANGED drained
    /\ KeepCaller
    /\ UNCHANGED <<pipe, output, deadline, childVars, termed>>

(* The deadline comes first, even if there is something to read; without   *)
(* a pipe left, poll's REPROC_EPIPE is a success.                          *)
DrainPoll ==
    /\ pc = "drain"
    /\ \/ deadline = 0 /\ DrainReturns(REPROC_ETIMEDOUT)
       \/ deadline # 0 /\ pipe = {} /\ DrainReturns(0)
       \/ deadline # 0 /\ pipe # {} /\ GoTo("poll", r) /\ UNCHANGED drained
    /\ KeepCaller
    /\ UNCHANGED <<pipe, output, deadline, childVars, termed>>

PollReadable ==
    /\ pc = "poll"
    /\ Readable # {}
    /\ GoTo(IF "out" \in Readable THEN "read.out" ELSE "read.err", r)
    /\ KeepCaller
    /\ UNCHANGED <<pipe, drained, output, deadline, childVars, termed>>

PollExpires ==
    /\ pc = "poll"
    /\ Readable = {} /\ deadline = 0
    /\ DrainReturns(REPROC_ETIMEDOUT)
    /\ KeepCaller
    /\ UNCHANGED <<pipe, output, deadline, childVars, termed>>

(* What is read goes to the sink of its stream; the end goes there as no   *)
(* data.  What a sink returns ends the draining unless it is 0.            *)
ReadAndSink ==
    /\ \E s \in Stream :
        /\ pc = IF s = "out" THEN "read.out" ELSE "read.err"
        /\ (\E n \in 1 .. Capacity : ReadData(s, n)) \/ ReadEnd(s)
    /\ \E v \in SinkResults : SinkReturns(v)
    /\ KeepCaller
    /\ UNCHANGED <<output, deadline, child, left, wants, holders, stubborn, termed>>

Drained ==
    /\ pc = "drained"
    /\ GoTo(IF r < 0 THEN "destroy" ELSE "stop", r)
    /\ KeepCaller
    /\ UNCHANGED <<pipe, drained, output, deadline, childVars, termed>>
-----------------------------------------------------------------------------
(* reproc_stop with the default actions: wait until the deadline, then     *)
(* send SIGTERM and wait without limit.  reproc_destroy calls it again for *)
(* a child that is still in progress and only then closes the pipes.       *)

InStop    == pc \in {"stop", "stop.term", "stop.waitpid"}
InDestroy == pc \in {"destroy", "destroy.term", "destroy.waitpid"}
InWaitpid == pc \in {"stop.waitpid", "destroy.waitpid", "wait.waitpid"}
InPoll    == /\ (InStop \/ InDestroy \/ pc = "wait") /\ ~InWaitpid
             /\ child \notin {"none", "collected"}

StopReturns(value) ==
    \/ InStop /\ GoTo("destroy", value) /\ UNCHANGED pipe
    \/ InDestroy /\ GoTo("done", r) /\ pipe' = {}

ExitHangsUp ==
    /\ InPoll /\ HungUp
    /\ GoTo(IF InStop THEN "stop.waitpid"
            ELSE IF InDestroy THEN "destroy.waitpid" ELSE "wait.waitpid", r)
    /\ KeepCaller
    /\ UNCHANGED <<pipe, drained, output, deadline, childVars, termed>>

(* process_wait asserts that there is a child.                             *)
WaitAsserts ==
    /\ InWaitpid /\ child = "absent"
    /\ GoTo("crashed", r)
    /\ KeepCaller
    /\ UNCHANGED <<pipe, drained, output, deadline, childVars, termed>>

StopCollects ==
    /\ pc \in {"stop.waitpid", "destroy.waitpid"}
    /\ Collect
    /\ StopReturns(0)
    /\ KeepCaller
    /\ UNCHANGED <<drained, output, deadline, left, wants, holders, inPipe, stubborn, termed>>

StopTerminates ==
    /\ pc \in {"stop", "destroy"}
    /\ ~HungUp /\ deadline = 0
    /\ termed' = TRUE
    /\ GoTo(IF pc = "stop" THEN "stop.term" ELSE "destroy.term", r)
    /\ KeepCaller
    /\ UNCHANGED <<pipe, drained, output, deadline, childVars>>

NothingToStop ==
    /\ pc = "destroy"
    /\ child \in {"none", "collected"}
    /\ GoTo("done", r) /\ pipe' = {}
    /\ KeepCaller
    /\ UNCHANGED <<drained, output, deadline, childVars, termed>>
-----------------------------------------------------------------------------
(* get_ansible_facts_json: blocking reads of standard output, then         *)
(* reproc_wait until the deadline, then a report with strlen(output).      *)

\* Mutant: the end of the output does not end the loop.
LoopReadsOn ==
    /\ pc = "loop"
    /\ \/ \E n \in 1 .. Capacity : ReadData("out", n) /\ GoTo("loop", n) /\ output' = TRUE
       \/ ReadEnd("out") /\ GoTo("loop", REPROC_EPIPE) /\ UNCHANGED output
    /\ KeepCaller
    /\ UNCHANGED <<drained, deadline, child, left, wants, holders, stubborn, termed>>

LoopReads ==
    /\ pc = "loop"
    /\ \/ \E n \in 1 .. Capacity : ReadData("out", n) /\ GoTo("loop", n) /\ output' = TRUE
       \/ \E n \in 1 .. Capacity : ReadData("out", n) /\ GoTo("report", ENOMEM) /\ UNCHANGED output
       \/ ReadEnd("out") /\ GoTo("wait", REPROC_EPIPE) /\ UNCHANGED output
    /\ KeepCaller
    /\ UNCHANGED <<drained, deadline, child, left, wants, holders, stubborn, termed>>

WaitReturns ==
    /\ \/ pc = "wait.waitpid" /\ Collect /\ GoTo("report", 0)
       \/ /\ pc = "wait" /\ ~HungUp /\ deadline = 0
          /\ GoTo("report", REPROC_ETIMEDOUT) /\ UNCHANGED child
    /\ KeepCaller
    /\ UNCHANGED <<pipe, drained, output, deadline, left, wants, holders, inPipe,
                   stubborn, termed>>

Report ==
    /\ pc = "report"
    /\ GoTo(IF output THEN "destroy" ELSE "crashed", r)
    /\ KeepCaller
    /\ UNCHANGED <<pipe, drained, output, deadline, childVars, termed>>

(* A signal that the caller handles ends a sleeping call with EINTR.       *)
Sleeping ==
    \/ pc = "poll" /\ Readable = {}
    \/ pc = "loop" /\ "out" \notin Readable
    \/ InPoll /\ ~HungUp
    \/ InWaitpid /\ child = "alive"

Interrupted ==
    /\ Sleeping
    /\ \/ pc = "poll" /\ DrainReturns(EINTR) /\ UNCHANGED pipe
       \/ pc \in {"loop", "wait", "wait.waitpid"} /\ GoTo("report", EINTR) /\ UNCHANGED <<pipe, drained>>
       \/ StopReturns(EINTR) /\ UNCHANGED drained
    /\ KeepCaller
    /\ UNCHANGED <<output, deadline, childVars, termed>>

CallerNext ==
    \/ Start \/ StartFails
    \/ InitialSinks \/ DrainPoll \/ PollReadable \/ PollExpires \/ ReadAndSink \/ Drained
    \/ ExitHangsUp \/ WaitAsserts \/ StopCollects
    \/ StopTerminates \/ NothingToStop
    \/ LoopReads \/ WaitReturns \/ Report
-----------------------------------------------------------------------------
(* The child, its heir and the clock *)

Ends ==
    /\ child' = "zombie"
    /\ wants' = "none"
    /\ holders' = [p \in Pipe |-> holders[p] \ {"child"}]
    /\ UNCHANGED <<left, inPipe, stubborn>>

ChildHas == {p \in Pipe : "child" \in holders[p]}

ChildWants ==
    /\ child = "alive" /\ wants = "none" /\ left # 0
    /\ wants' \in ChildHas \cap Stream
    /\ UNCHANGED <<child, left, holders, inPipe, stubborn>>

ChildWrites ==
    /\ child = "alive" /\ wants \in pipe
    /\ Room(wants)
    /\ inPipe' = [inPipe EXCEPT ![wants] = @ + 1]
    /\ left' = IF left = FOREVER THEN FOREVER ELSE left - 1
    /\ wants' = "none"
    /\ UNCHANGED <<child, holders, stubborn>>

(* SIGPIPE, when nobody reads any more; and the end of the program.        *)
ChildBreaks == child = "alive" /\ wants \in Stream \ pipe /\ Ends
ChildExits  == child = "alive" /\ wants = "none" /\ left # FOREVER /\ Ends
ChildTermed == child = "alive" /\ termed /\ ~stubborn /\ Ends

ChildNext == ChildWants \/ ChildWrites \/ ChildBreaks \/ ChildExits

(* What the child forks inherits all it has, and may close some of it; the *)
(* child itself may close what it has and run on.                          *)
ChildForks ==
    /\ child = "alive"
    /\ \E p \in ChildHas : holders' = [holders EXCEPT ![p] = @ \cup {"heir"}]
    /\ UNCHANGED <<child, left, wants, inPipe, stubborn>>

ChildLetsGo ==
    /\ child = "alive" /\ wants = "none"
    /\ \E p \in ChildHas : holders' = [holders EXCEPT ![p] = @ \ {"child"}]
    /\ UNCHANGED <<child, left, wants, inPipe, stubborn>>

HeirEnds ==
    /\ holders' = [p \in Pipe |-> holders[p] \ {"heir"}]
    /\ UNCHANGED <<child, left, wants, inPipe, stubborn>>

Tick == deadline > 0 /\ deadline' = deadline - 1 /\ UNCHANGED <<callerVars, childVars, termed>>

SystemNext ==
    (ChildNext \/ ChildTermed \/ ChildForks \/ ChildLetsGo \/ HeirEnds) /\ UNCHANGED <<callerVars, deadline, termed>>

Next == CallerNext \/ Interrupted \/ SystemNext \/ Tick

Spec == Init /\ [][Next]_vars

(* The caller runs, time passes, SIGTERM is delivered, and a child that    *)
(* is not held up goes on with its program.                                *)
FairSpec ==
    /\ Spec
    /\ WF_vars(CallerNext)
    /\ WF_vars(Tick)
    /\ WF_vars(ChildNext /\ UNCHANGED <<callerVars, deadline, termed>>)
    /\ WF_vars(ChildTermed /\ UNCHANGED <<callerVars, deadline, termed>>)
-----------------------------------------------------------------------------
(* Properties *)

(* A reproc_run_ex that returns a status after a drain that returned 0 has *)
(* waited for the child and given its sinks all that was written.          *)
RunDelivers ==
    program = "run_ex" /\ pc = "done" /\ r >= 0 /\ drained = 0 =>
        /\ child = "collected"
        /\ \A s \in Stream : inPipe[s] = 0 /\ holders[s] = {}

(* reproc_run_ex returns, or ends the shell where process_wait finds no    *)
(* child, whatever the child writes and for as long as it does, if there   *)
(* is a deadline.  What can hold it for ever: an heir that keeps the exit  *)
(* pipe; a child that never ends, because its output has no end or it      *)
(* sleeps on a pipe that nobody reads, if it ignores SIGTERM, or has       *)
(* closed the exit pipe, so that waitpid sleeps and SIGTERM is never sent, *)
(* or there is no deadline; and, without one, an heir that keeps an output *)
(* pipe.  Each has to last from some time on.                              *)
BlockedOn(s) == wants = s /\ inPipe[s] = Capacity
NeverEnds    == child = "alive" /\ (left = FOREVER \/ \E s \in Stream : BlockedOn(s))

RunExcused ==
    \/ "heir" \in holders["exit"]
    \/ NeverEnds /\ (stubborn \/ "child" \notin holders["exit"] \/ deadline = REPROC_INFINITE)
    \/ deadline = REPROC_INFINITE /\ \E s \in Stream : "heir" \in holders[s]

RunReturns ==
    program = "run_ex" => <>(pc \in {"done", "crashed"}) \/ <>[]RunExcused

(* The reading loop of get_ansible_facts_json, to which the deadline means *)
(* nothing, is stuck only if the child does not end by itself: because its *)
(* output has no end, an heir holds it, or it sleeps on the full pipe of   *)
(* its standard error, which nobody reads.                                 *)
LoopStuck == left = FOREVER \/ "heir" \in holders["out"] \/ BlockedOn("err")
LoopEnds  == <>[](pc = "loop") => <>[]LoopStuck
=============================================================================
