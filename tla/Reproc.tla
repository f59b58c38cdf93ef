------------------------------ MODULE Reproc ------------------------------
(***************************************************************************)
(* The life of child processes under reproc (reproc/src/reproc.c and the   *)
(* calls of process.posix.c it makes): a caller starts, waits for, signals,*)
(* stops, polls and destroys them while they run, end, ignore SIGTERM,     *)
(* close their descriptors or leave an heir that keeps them.  reproc never *)
(* asks the kernel whether a child has ended; it polls a pipe whose other  *)
(* end the child inherits, and calls waitpid when that pipe is closed.     *)
(***************************************************************************)
EXTENDS ReprocTime, FiniteSets

CONSTANTS Process,     \* the reproc_t objects; each has at most one child
          Calls,       \* the functions the program calls for each
          ExitCode,    \* the exit codes of programs
          Timeouts,    \* the timeouts callers pass
          Deadlines,   \* the deadlines callers pass for a process, 0 for none
          StopArgs,    \* the stop actions for a process: <<first, second, third>>
          SourceLists  \* the event sources passed to reproc_poll

StopAction == [action  : {"noop", "wait", "terminate", "kill"},
               timeout : Nat \cup {REPROC_INFINITE, REPROC_DEADLINE}]

NULL == "NULL"

ASSUME ReprocAssumption ==
    /\ NULL \notin Process
    /\ Calls \in [Process -> SUBSET {"wait", "terminate", "kill", "stop", "destroy"}]
    /\ ExitCode \subseteq 0 .. 255
    /\ Timeouts \subseteq Nat \cup {REPROC_INFINITE}
    /\ \A p \in Process : Deadlines[p] \subseteq Nat
    /\ \A p \in Process : StopArgs[p] \subseteq [1 .. 3 -> StopAction]
    /\ \A s \in SourceLists : s # << >> /\ s \in Seq(Process \cup {NULL})

VARIABLES
    \* reproc_t
    status, exitPipe, stop, deadline, freed,
    \* the system
    os,        \* "none", "absent", "alive", "zombie", "collected" or "stolen"
    code,      \* what waitpid reports, once the child has ended
    held,      \* who has the other end of the exit pipe: "child", "heir"
    pending,   \* signals sent and not yet delivered
    \* the caller
    pc, cur,   \* where it is, and with which process
    until,     \* when the poll() it is in returns
    actions,   \* the stop actions
    step,      \* the one reproc_stop is at
    freeing,   \* reproc_stop was called by reproc_destroy
    sources,   \* the event sources of reproc_poll
    earliest,  \* find_earliest_deadline of them
    byDeadline,\* first # timeout
    events,    \* the events of the sources after reproc_poll
    ret,       \* what the last call has returned
    \* history
    stray      \* the objects with which a signal went to a number not their child's

objectVars == <<status, exitPipe, stop, deadline, freed>>
systemVars == <<os, code, held, pending, stray>>
pollVars   == <<sources, earliest, byDeadline, events>>
callVars   == <<pc, cur, until, actions, step, freeing, ret>>
vars       == <<objectVars, systemVars, pollVars, callVars>>

STATUS_NOT_STARTED == -1
STATUS_IN_PROGRESS == -2
SIGTERM   == 15
SIGKILL   == 9
SIGOFFSET == 128

(* Errors are negative numbers, so that they cannot be taken for a status. *)
REPROC_ETIMEDOUT == -110
REPROC_EPIPE     == -32
EINTR  == -4
ECHILD == -10
ESRCH  == -3
Errors == {REPROC_ETIMEDOUT, REPROC_EPIPE, EINTR, ECHILD, ESRCH}

\* Mutant: the offset is left out.
TermsigOnly(sig) == sig

(* parse_status of a child that a signal has ended.                        *)
Termsig(sig) == SIGOFFSET + sig

Statuses == ExitCode \cup {143, 137}

(* parse_stop_actions *)
NOOP == [action |-> "noop", timeout |-> 0]
DefaultStop ==
    << [action |-> "wait", timeout |-> REPROC_DEADLINE],
       [action |-> "terminate", timeout |-> REPROC_INFINITE], NOOP >>
ParseStop(s) == IF \A i \in 1 .. 3 : s[i].action = "noop" THEN DefaultStop ELSE s

Init ==
    /\ status = [p \in Process |-> STATUS_NOT_STARTED]
    /\ exitPipe = [p \in Process |-> FALSE]
    /\ stop = [p \in Process |-> DefaultStop]
    /\ deadline = [p \in Process |-> REPROC_INFINITE]
    /\ freed = [p \in Process |-> FALSE]
    /\ os = [p \in Process |-> "none"]
    /\ code = [p \in Process |-> 0]
    /\ held = [p \in Process |-> {}]
    /\ pending = [p \in Process |-> {}]
    /\ stray = {}
    /\ sources = << >> /\ earliest = 1 /\ byDeadline = FALSE /\ events = << >>
    /\ pc = "idle"
    /\ cur = NULL
    /\ until = 0
    /\ actions = DefaultStop
    /\ step = 1
    /\ freeing = FALSE
    /\ ret = 0
-----------------------------------------------------------------------------
(* Calls that do not block *)

Ready(p)  == pc = "idle" /\ ~freed[p]
Started(p) == Ready(p) /\ status[p] # STATUS_NOT_STARTED

(* The call returns value; the program goes on with Continue, where what   *)
(* was the call's alone is forgotten.                                      *)
Return(value) == pc' = "returned" /\ ret' = value

Continue ==
    /\ pc = "returned"
    /\ pc' = "idle" /\ cur' = NULL /\ until' = 0 /\ ret' = 0
    /\ actions' = DefaultStop /\ step' = 1 /\ freeing' = FALSE
    /\ sources' = << >> /\ earliest' = 1 /\ byDeadline' = FALSE /\ events' = << >>
    /\ UNCHANGED <<objectVars, systemVars>>

(* reproc_start, when it returns 1 (ReprocStart has the rest): it has      *)
(* started a child, which with the option fork closes the exit pipe; or    *)
(* there was no memory for the environment, and the object has a handle of *)
(* -1 and an exit pipe of which nobody has the other end.                  *)
Start(p) ==
    /\ Ready(p)
    /\ status[p] = STATUS_NOT_STARTED
    /\ \E s \in StopArgs[p] : stop' = [stop EXCEPT ![p] = ParseStop(s)]
    /\ \E d \in Deadlines[p] :
          deadline' = [deadline EXCEPT ![p] = IF d = 0 THEN REPROC_INFINITE ELSE d]
    /\ status' = [status EXCEPT ![p] = STATUS_IN_PROGRESS]
    /\ exitPipe' = [exitPipe EXCEPT ![p] = TRUE]
    /\ \/ /\ os' = [os EXCEPT ![p] = "alive"]
          /\ \E fork \in BOOLEAN :
                held' = [held EXCEPT ![p] = IF fork THEN {} ELSE {"child"}]
       \/ os' = [os EXCEPT ![p] = "absent"] /\ UNCHANGED held
    /\ cur' = p
    /\ Return(1)
    /\ UNCHANGED <<freed, code, pending, stray, pollVars, until, actions, step, freeing>>

(* kill(): the signal stays pending until it is delivered; a zombie takes  *)
(* it without effect, and nobody is there any more after waitpid.  The     *)
(* number -1 is everybody.                                                 *)
KillPid(p, sig) ==
    LET to == {q \in Process : os[q] = "alive" /\ (q = p \/ os[p] = "absent")}
    IN  /\ pending' = [q \in Process |-> IF q \in to THEN pending[q] \cup {sig} ELSE pending[q]]
        /\ stray' = IF os[p] \in {"alive", "zombie"} THEN stray ELSE stray \cup {p}

\* Mutant: a child that was waited for is signalled all the same.
SendSignalAlways(p, sig) == KillPid(p, sig)

SendSignal(p, sig) ==
    IF status[p] >= 0 THEN UNCHANGED <<pending, stray>> ELSE KillPid(p, sig)

SignalResult(p) ==
    IF status[p] < 0 /\ os[p] \notin {"alive", "zombie", "absent"} THEN ESRCH ELSE 0

(* process_wait, process_terminate and process_kill assert that there is a *)
(* child.  NDEBUG leaves that out; both builds are modelled.               *)
Childless(p) == os[p] = "absent" /\ status[p] < 0

AssertFails ==
    /\ pc' = "aborted"
    /\ UNCHANGED <<objectVars, systemVars, pollVars, until, actions, step, freeing, ret>>

Signal(p, sig) ==
    /\ Started(p)
    /\ cur' = p
    /\ \/ /\ SendSignal(p, sig)
          /\ Return(SignalResult(p))
          /\ UNCHANGED <<objectVars, os, code, held, pollVars, until, actions, step, freeing>>
       \/ Childless(p) /\ AssertFails

Terminate(p) == Signal(p, SIGTERM)
Kill(p)      == Signal(p, SIGKILL)
-----------------------------------------------------------------------------
(* reproc_wait: poll() on the exit pipe, then waitpid().  pc is "wait" in  *)
(* a call by the program and "stop.wait" in one by reproc_stop.            *)

\* Mutant: REPROC_DEADLINE, a negative number, is passed on to poll().
WaitTimeoutRaw(p, timeout) == timeout

WaitTimeout(p, timeout) ==
    IF timeout # REPROC_DEADLINE THEN timeout
    ELSE IF deadline[p] = 0 THEN 0 ELSE Expiry(REPROC_INFINITE, deadline[p])

Wait(p, timeout) ==
    /\ Started(p)
    /\ cur' = p
    /\ IF status[p] >= 0
       THEN Return(status[p]) /\ UNCHANGED until
       ELSE /\ pc' = "wait"
            /\ until' = WaitTimeout(p, timeout)
            /\ UNCHANGED ret
    /\ UNCHANGED <<objectVars, systemVars, pollVars, actions, step, freeing>>

InWait    == pc \in {"wait", "stop.wait"}
InWaitpid == pc \in {"waitpid", "stop.waitpid"}

\* Mutant: a timeout ends reproc_stop, too.
WaitReturnsAtOnce(value) ==
    /\ ret' = value
    /\ pc' = IF pc \in {"wait", "waitpid"} THEN "returned" ELSE "stopped"
    /\ step' = step

(* In reproc_stop a timeout leads to the next action, all else to the end. *)
WaitReturns(value) ==
    /\ ret' = value
    /\ pc' = IF pc \in {"wait", "waitpid"} THEN "returned"
             ELSE IF value = REPROC_ETIMEDOUT THEN "stop" ELSE "stopped"
    /\ step' = IF InWait /\ pc = "stop.wait" /\ value = REPROC_ETIMEDOUT THEN step + 1 ELSE step

\* Mutant: what poll() has returned is not looked at.
PollHangupOrNot ==
    /\ InWait
    /\ held[cur] = {} \/ until = 0
    /\ pc' = IF pc = "wait" THEN "waitpid" ELSE "stop.waitpid"
    /\ UNCHANGED <<objectVars, systemVars, pollVars, cur, until, actions, step, freeing, ret>>

PollHangup ==
    /\ InWait
    /\ held[cur] = {}
    /\ pc' = IF pc = "wait" THEN "waitpid" ELSE "stop.waitpid"
    /\ UNCHANGED <<objectVars, systemVars, pollVars, cur, until, actions, step, freeing, ret>>

PollTimesOut ==
    /\ InWait
    /\ held[cur] # {}
    /\ until = 0
    /\ WaitReturns(REPROC_ETIMEDOUT)
    /\ UNCHANGED <<objectVars, systemVars, pollVars, cur, until, actions, freeing>>

\* Mutant: the status is returned but not kept.
WaitpidForgets ==
    /\ InWaitpid
    /\ \/ /\ os[cur] = "zombie"
          /\ os' = [os EXCEPT ![cur] = "collected"]
          /\ exitPipe' = [exitPipe EXCEPT ![cur] = FALSE]
          /\ WaitReturns(code[cur])
       \/ /\ os[cur] \notin {"alive", "zombie", "absent"}
          /\ WaitReturns(ECHILD)
          /\ UNCHANGED <<os, exitPipe>>
    /\ UNCHANGED <<status, stop, deadline, freed, code, held, pending, stray, pollVars,
                   cur, until, actions, freeing>>

Waitpid ==
    /\ InWaitpid
    /\ \/ /\ os[cur] = "zombie"
          /\ os' = [os EXCEPT ![cur] = "collected"]
          /\ exitPipe' = [exitPipe EXCEPT ![cur] = FALSE]
          /\ status' = [status EXCEPT ![cur] = code[cur]]
          /\ WaitReturns(code[cur])
       \/ /\ os[cur] \notin {"alive", "zombie", "absent"}
          /\ WaitReturns(ECHILD)
          /\ UNCHANGED <<os, exitPipe, status>>
    /\ UNCHANGED <<stop, deadline, freed, code, held, pending, stray, pollVars,
                   cur, until, actions, freeing>>

(* Without a child, waitpid(-1) is for any: another object's, or a job of  *)
(* the shell's, whose status the object takes for its own.                 *)
WaitpidAny ==
    /\ InWaitpid /\ os[cur] = "absent"
    /\ \E c \in Statuses :
          /\ \/ UNCHANGED os
             \/ \E q \in Process : /\ os[q] = "zombie" /\ code[q] = c
                                  /\ os' = [os EXCEPT ![q] = "stolen"]
          /\ status' = [status EXCEPT ![cur] = c]
          /\ WaitReturns(c)
    /\ exitPipe' = [exitPipe EXCEPT ![cur] = FALSE]
    /\ UNCHANGED <<stop, deadline, freed, code, held, pending, stray, pollVars,
                   cur, until, actions, freeing>>

WaitpidNone ==
    /\ InWaitpid /\ os[cur] = "absent"
    /\ \/ AssertFails
       \/ /\ \A q \in Process : os[q] \notin {"alive", "zombie"}
          /\ WaitReturns(ECHILD)
          /\ UNCHANGED <<objectVars, systemVars, pollVars, until, actions, freeing>>
    /\ UNCHANGED cur

(* A signal that the parent handles ends poll() and waitpid() with EINTR.  *)
WaitInterrupted ==
    /\ \/ InWait /\ held[cur] # {}
       \/ InWaitpid /\ os[cur] \in {"alive", "absent"}
    /\ WaitReturns(EINTR)
    /\ UNCHANGED <<objectVars, systemVars, pollVars, cur, until, actions, freeing>>
-----------------------------------------------------------------------------
(* reproc_stop and reproc_destroy *)

Stop(p, s) ==
    /\ Started(p)
    /\ cur' = p
    /\ pc' = "stop"
    /\ actions' = ParseStop(s)
    /\ step' = 1
    /\ freeing' = FALSE
    /\ UNCHANGED <<objectVars, systemVars, pollVars, until, ret>>

Destroy(p) ==
    /\ Ready(p)
    /\ cur' = p
    /\ \/ /\ status[p] = STATUS_IN_PROGRESS
          /\ pc' = "stop" /\ actions' = ParseStop(stop[p]) /\ step' = 1 /\ freeing' = TRUE
          /\ UNCHANGED <<freed, exitPipe>>
       \/ /\ status[p] # STATUS_IN_PROGRESS
          /\ freed' = [freed EXCEPT ![p] = TRUE]
          /\ exitPipe' = [exitPipe EXCEPT ![p] = FALSE]
          /\ pc' = "returned"
          /\ UNCHANGED <<actions, step, freeing>>
    /\ UNCHANGED <<status, stop, deadline, systemVars, pollVars, until, ret>>

Doing(action) == pc = "stop" /\ step <= 3 /\ actions[step].action = action

StopNoop ==
    /\ Doing("noop")
    /\ step' = step + 1
    /\ ret' = 0
    /\ UNCHANGED <<objectVars, systemVars, pollVars, pc, cur, until, actions, freeing>>

(* The wait that follows an action, or its result if the child was waited  *)
(* for before.                                                             *)
ThenWait ==
    IF status[cur] >= 0
    THEN pc' = "stopped" /\ ret' = status[cur] /\ UNCHANGED until
    ELSE /\ pc' = "stop.wait"
         /\ until' = WaitTimeout(cur, actions[step].timeout)
         /\ UNCHANGED ret

StopWait ==
    /\ Doing("wait")
    /\ ThenWait
    /\ UNCHANGED <<objectVars, systemVars, pollVars, cur, actions, step, freeing>>

StopSignal(action, sig) ==
    /\ Doing(action)
    /\ SendSignal(cur, sig)
    /\ IF SignalResult(cur) < 0
       THEN pc' = "stopped" /\ ret' = SignalResult(cur) /\ UNCHANGED until
       ELSE ThenWait
    /\ UNCHANGED <<objectVars, os, code, held, pollVars, cur, actions, step, freeing>>

StopAsserts ==
    /\ Doing("terminate") \/ Doing("kill")
    /\ Childless(cur)
    /\ AssertFails
    /\ UNCHANGED cur

StopEnds ==
    /\ pc = "stop" /\ step > 3
    /\ pc' = "stopped"
    /\ UNCHANGED <<objectVars, systemVars, pollVars, cur, until, actions, step, freeing, ret>>

(* reproc_stop returns r; reproc_destroy does not look at it and frees.    *)
Stopped ==
    /\ pc = "stopped"
    /\ pc' = "returned"
    /\ freed' = [freed EXCEPT ![cur] = freeing]
    /\ exitPipe' = [exitPipe EXCEPT ![cur] = @ /\ ~freeing]
    /\ UNCHANGED <<status, stop, deadline, systemVars, pollVars, cur, until, actions, step,
                   freeing, ret>>

StopNext ==
    \/ StopNoop \/ StopWait \/ StopEnds \/ Stopped
    \/ StopSignal("terminate", SIGTERM) \/ StopSignal("kill", SIGKILL)
-----------------------------------------------------------------------------
(* reproc_poll with the interest REPROC_EVENT_EXIT *)

DeadlineOf(p) == IF p = NULL THEN NO_SOURCE ELSE deadline[p]
NoEvents(s)   == [i \in DOMAIN s |-> {}]
OnlyEvent(s, j, event) == [i \in DOMAIN s |-> IF i = j THEN {event} ELSE {}]

Polled(s) == {i \in DOMAIN s : s[i] # NULL /\ exitPipe[s[i]]}
HungUp    == {i \in Polled(sources) : held[sources[i]] = {}}

Poll(s, timeout) ==
    LET e     == FindEarliest([i \in DOMAIN s |-> DeadlineOf(s[i])])
        d     == IF s[e] = NULL THEN REPROC_INFINITE ELSE deadline[s[e]]
        first == Expiry(timeout, d)
    IN  /\ pc = "idle"
        /\ \A i \in DOMAIN s : s[i] # NULL => ~freed[s[i]]
        /\ sources' = s /\ earliest' = e
        /\ byDeadline' = (first # timeout)
        /\ \/ /\ first = REPROC_DEADLINE
              /\ events' = OnlyEvent(s, e, "deadline")
              /\ Return(1)
              /\ UNCHANGED until
           \/ /\ first # REPROC_DEADLINE
              /\ Polled(s) = {}
              /\ events' = NoEvents(s)
              /\ Return(REPROC_EPIPE)
              /\ UNCHANGED until
           \/ /\ first # REPROC_DEADLINE
              /\ Polled(s) # {}
              /\ events' = NoEvents(s)
              /\ pc' = "poll" /\ until' = first
              /\ UNCHANGED ret
        /\ UNCHANGED <<objectVars, systemVars, cur, actions, step, freeing>>

PollReady ==
    /\ pc = "poll"
    /\ HungUp # {}
    /\ events' = [i \in DOMAIN sources |-> IF i \in HungUp THEN {"exit"} ELSE {}]
    /\ Return(Cardinality(HungUp))
    /\ UNCHANGED <<objectVars, systemVars, sources, earliest, byDeadline,
                   cur, until, actions, step, freeing>>

(* The end of the time poll() was given is an event if it is a deadline's. *)
PollExpires ==
    /\ pc = "poll"
    /\ HungUp = {}
    /\ until = 0
    /\ IF byDeadline
       THEN events' = OnlyEvent(sources, earliest, "deadline") /\ Return(1)
       ELSE events' = NoEvents(sources) /\ Return(0)
    /\ UNCHANGED <<objectVars, systemVars, sources, earliest, byDeadline,
                   cur, until, actions, step, freeing>>

PollInterrupted ==
    /\ pc = "poll"
    /\ HungUp = {}
    /\ Return(EINTR)
    /\ UNCHANGED <<objectVars, systemVars, pollVars, cur, until, actions, step, freeing>>
-----------------------------------------------------------------------------
(* The children, the clock and the shell *)

Alive(p) == os[p] = "alive"

Ends(p, c) ==
    /\ os' = [os EXCEPT ![p] = "zombie"]
    /\ code' = [code EXCEPT ![p] = c]
    /\ held' = [held EXCEPT ![p] = @ \ {"child"}]
    /\ pending' = [pending EXCEPT ![p] = {}]

ChildExits(p, c) ==
    Alive(p) /\ Ends(p, c) /\ UNCHANGED <<objectVars, stray, pollVars, callVars>>

(* SIGTERM can be handled, SIGKILL cannot. *)
Deliver(p, sig) ==
    /\ sig \in pending[p]
    /\ \/ Ends(p, Termsig(sig))
       \/ /\ sig = SIGTERM
          /\ pending' = [pending EXCEPT ![p] = @ \ {SIGTERM}]
          /\ UNCHANGED <<os, code, held>>
    /\ UNCHANGED <<objectVars, stray, pollVars, callVars>>

(* The program closes what it has inherited, or starts a process that      *)
(* inherits it in turn and may outlive it.                                 *)
ChildLetsGo(p) ==
    /\ Alive(p) /\ "child" \in held[p]
    /\ held' = [held EXCEPT ![p] = @ \ {"child"}]
    /\ UNCHANGED <<objectVars, os, code, pending, stray, pollVars, callVars>>

ChildForks(p) ==
    /\ Alive(p) /\ "child" \in held[p]
    /\ held' = [held EXCEPT ![p] = @ \cup {"heir"}]
    /\ UNCHANGED <<objectVars, os, code, pending, stray, pollVars, callVars>>

HeirEnds(p) ==
    /\ "heir" \in held[p]
    /\ held' = [held EXCEPT ![p] = @ \ {"heir"}]
    /\ UNCHANGED <<objectVars, os, code, pending, stray, pollVars, callVars>>

(* bash waits for any child in its handler of SIGCHLD.                     *)
HostReaps(p) ==
    /\ os[p] = "zombie"
    /\ os' = [os EXCEPT ![p] = "stolen"]
    /\ UNCHANGED <<objectVars, code, held, pending, stray, pollVars, callVars>>

(* Time passes while the caller is elsewhere or sleeps in a call; what it  *)
(* does itself takes none.                                                 *)
Asleep ==
    \/ pc = "idle"
    \/ InWait /\ held[cur] # {} /\ until # 0
    \/ InWaitpid /\ os[cur] \in {"alive", "absent"}
    \/ pc = "poll" /\ HungUp = {} /\ until # 0

Tick ==
    /\ Asleep
    /\ deadline' = [p \in Process |-> Nearer(deadline[p])]
    /\ until' = IF InWait \/ pc = "poll" THEN Nearer(until) ELSE until
    /\ UNCHANGED <<status, exitPipe, stop, freed, systemVars, pollVars,
                   pc, cur, actions, step, freeing, ret>>

LibraryNext ==
    Continue \/ PollHangup \/ PollTimesOut \/ Waitpid \/ StopNext \/ PollReady \/ PollExpires

CallNext ==
    \/ \E p \in Process :
          \/ Start(p)
          \/ "terminate" \in Calls[p] /\ Terminate(p)
          \/ "kill" \in Calls[p] /\ Kill(p)
          \/ "wait" \in Calls[p] /\ \E t \in Timeouts \cup {REPROC_DEADLINE} : Wait(p, t)
          \/ "stop" \in Calls[p] /\ \E s \in StopArgs[p] : Stop(p, s)
          \/ "destroy" \in Calls[p] /\ Destroy(p)
    \/ \E s \in SourceLists, t \in Timeouts : Poll(s, t)

SystemNext ==
    \/ WaitInterrupted \/ PollInterrupted \/ Tick
    \/ WaitpidAny \/ WaitpidNone \/ StopAsserts
    \/ \E p \in Process : \/ \E c \in ExitCode : ChildExits(p, c)
                          \/ \E sig \in {SIGTERM, SIGKILL} : Deliver(p, sig)
                          \/ ChildLetsGo(p) \/ ChildForks(p) \/ HeirEnds(p) \/ HostReaps(p)

Next == CallNext \/ LibraryNext \/ SystemNext

Spec == Init /\ [][Next]_vars

(* The caller is not kept from running for ever, the clock goes on, and    *)
(* the kernel delivers SIGKILL.  Nothing is assumed of the children.       *)
FairSpec ==
    /\ Spec
    /\ WF_vars(LibraryNext)
    /\ WF_vars(Tick)
    /\ \A p \in Process : WF_vars(Deliver(p, SIGKILL))
-----------------------------------------------------------------------------
(* Properties *)

TypeOK ==
    /\ status \in [Process -> Statuses \cup {STATUS_NOT_STARTED, STATUS_IN_PROGRESS}]
    /\ exitPipe \in [Process -> BOOLEAN]
    /\ freed \in [Process -> BOOLEAN]
    /\ os \in [Process -> {"none", "absent", "alive", "zombie", "collected", "stolen"}]
    /\ code \in [Process -> Statuses \cup {0}]
    /\ held \in [Process -> SUBSET {"child", "heir"}]
    /\ pending \in [Process -> SUBSET {SIGTERM, SIGKILL}]
    /\ stray \subseteq Process
    /\ pc \in {"idle", "wait", "stop.wait", "waitpid", "stop.waitpid", "stop", "stopped", "poll",
               "returned", "aborted"}
    /\ cur \in Process \cup {NULL}
    /\ step \in 1 .. 4
    /\ freeing \in BOOLEAN

(* What waitpid has reported, once and for this child, is what the object  *)
(* keeps: no child is waited for twice and none is forgotten half way.     *)
(* Only an object that reproc_start has left without a child can have the  *)
(* status of somebody else's.                                              *)
StatusIsTheChilds ==
    \A p \in Process : os[p] # "absent" =>
        /\ status[p] >= 0 <=> os[p] = "collected"
        /\ status[p] >= 0 => status[p] = code[p]

(* reproc sends a signal to the number of a child only while that number   *)
(* is the child's, and never after its own waitpid.  The code has two      *)
(* exceptions: when the shell has waited for the child behind its back the *)
(* number may be another's, and when reproc_start has returned 1 without a *)
(* child, and NDEBUG has removed the assertion, the number is -1, which is *)
(* everybody.                                                              *)
SignalsOwnChild == \A p \in stray : os[p] \in {"stolen", "absent"}

(* A child holds reproc_wait up in waitpid, which knows no timeout, only   *)
(* if it has closed the exit pipe and goes on running.                     *)
LetGo(p) == os[p] = "alive" /\ "child" \notin held[p]

BlocksOnlyIfLetGo == InWaitpid /\ os[cur] = "alive" => LetGo(cur)

(* How reproc_stop ends, for reproc_destroy too, before or with a third    *)
(* action that is not REPROC_STOP_NOOP: with the status that waitpid has   *)
(* given; with a timeout, but only after the third action; or with an      *)
(* error because the shell has waited for the child, there was none, or a  *)
(* signal came.  Nothing else leaves a child behind.  What it returns when *)
(* it ends with REPROC_STOP_NOOP is StopTellsOfChild's.                    *)
EndsByNoop == step > 3 /\ actions[3].action = "noop"

StopOutcome ==
    pc = "stopped" /\ ~EndsByNoop =>
        \/ ret = status[cur] /\ os[cur] \in {"collected", "absent"}
        \/ ret = REPROC_ETIMEDOUT /\ step > 3
        \/ ret \in {ECHILD, ESRCH} /\ os[cur] \in {"stolen", "absent"}
        \/ ret = EINTR

(* What the documentation of reproc_stop says: that it returns the exit    *)
(* status of a child that has exited (reproc.h:501) and REPROC_ETIMEDOUT   *)
(* for one that has not (reproc.h:504), in its example with a trailing     *)
(* REPROC_STOP_NOOP too (reproc.h:471).  So a child that was not waited    *)
(* for is never passed over with a return that is not an error.            *)
StopTellsOfChild == pc = "stopped" /\ os[cur] \in {"alive", "zombie"} => ret < 0

(* reproc_poll does not sleep past the deadline of any of its processes    *)
(* unless a later source has a process without one: find_earliest_deadline *)
(* takes REPROC_INFINITE, -1, for the earliest of all.                     *)
Masked(i) ==
    \E j \in DOMAIN sources :
        j > i /\ sources[j] # NULL /\ deadline[sources[j]] = REPROC_INFINITE

PollKeepsDeadline ==
    pc = "poll" =>
        \A i \in DOMAIN sources :
            sources[i] # NULL /\ deadline[sources[i]] # REPROC_INFINITE /\ ~Masked(i)
            => until # REPROC_INFINITE /\ until <= deadline[sources[i]]

(* A reproc_stop that will come to REPROC_STOP_KILL returns, whatever the  *)
(* child does with SIGTERM; unless the child closes the exit pipe and goes *)
(* on, or leaves it to an heir, or was never there, so that reproc does    *)
(* not see it end.                                                         *)
Finite(t) == t # REPROC_INFINITE /\ (t = REPROC_DEADLINE => deadline[cur] # REPROC_INFINITE)

WillKill ==
    /\ pc = "stop"
    /\ \E i \in step .. 3 :
          /\ actions[i].action = "kill"
          /\ \A j \in step .. i - 1 : actions[j].action = "noop" \/ Finite(actions[j].timeout)

Unseen == cur # NULL /\ (LetGo(cur) \/ "heir" \in held[cur] \/ os[cur] = "absent")

KillReturns == WillKill ~> (pc = "idle" \/ Unseen)
=============================================================================
