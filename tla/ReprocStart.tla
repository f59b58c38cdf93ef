---------------------------- MODULE ReprocStart ----------------------------
(***************************************************************************)
(* reproc_start (reproc/src/reproc.c): the options are parsed, the streams *)
(* redirected, a pipe made that tells the end of the child, and the child  *)
(* forked and executed (process_start and process_fork in                  *)
(* reproc/src/process.posix.c).  Every step can fail, in the parent and in *)
(* the child, which reports its failure through one of two pipes while the *)
(* parent waits for the pipe's end.  The table of descriptors and the      *)
(* signal mask of both processes are the state that a failure must leave   *)
(* as it was.                                                              *)
(***************************************************************************)
EXTENDS FdTable, FiniteSets

CONSTANTS Options,     \* the reproc_options the callers pass
          ParentTables \* the tables of descriptors a parent can have

VARIABLES
    options,   \* the argument, after parse_options with its defaults set
    fclosed,   \* the standard streams the parent has ended with fclose
    hugeLimit, \* RLIMIT_NOFILE exceeds MAX_FD_LIMIT
    fds,       \* the parent's descriptors
    fds0,      \* history: what they were when reproc_start was called
    noEnv,     \* history: strv_concat could not copy the environment
    missed,    \* history: the error pipes from which read() failed with EINTR
    h,         \* the parent's variables that hold descriptors
    mask,      \* the parent's signal mask: "old" or "all"
    ppc,       \* where the parent is
    r,         \* the variable r: "ok" for 0, "started" for 1, or an error
    handle,    \* process->handle
    result,    \* what reproc_start has returned to the parent
    child,     \* "none", "alive", "zombie" or "reaped"
    cpc,       \* where the child is
    cfds, ch,  \* the child's copies of fds and h
    cmask,     \* the child's signal mask
    told       \* the number in each of the two error pipes, "none" if empty

parentVars == <<options, fclosed, hugeLimit, fds0, noEnv, missed, fds, h, mask, ppc, r,
                handle, result>>
childVars  == <<child, cpc, cfds, ch, cmask, told>>
vars       == <<parentVars, childVars>>

Stream   == {"in", "out", "err"}
StdFd    == [in |-> 0, out |-> 1, err |-> 2]
Redirect == {"default", "pipe", "parent", "discard", "stdout", "handle", "file", "path"}

(* redirect_init asserts that only standard error goes where stdout goes;  *)
(* the pipes are made by reproc_start.                                     *)
ASSUME StartAssumption ==
    /\ \A o \in Options : \A s \in Stream :
          /\ o.redirect[s] \in [type : Redirect, handle : BOOLEAN, file : BOOLEAN, path : BOOLEAN]
          /\ o.redirect[s].type = "stdout" => s = "err"
    /\ \A t \in ParentTables : t \in Table /\ Holds(t, "user") /\ \A f \in Fd : t[f].file \notin PipeEnd

(* The handles process->pipe.* and, with a c, the child's ends.            *)
Parental == {"in", "out", "err", "exit"}
Owner    == Parental \cup {"cin", "cout", "cerr", "cexit",
                           "report.r", "report.w", "fork.r", "fork.w"}
Childs   == [in |-> "cin", out |-> "cout", err |-> "cerr"]

PROCESS_INVALID == -1
Pid             == 1
EINVAL          == "EINVAL"
Errors == {EINVAL, "EPIPE", "ENOMEM", "EMFILE", "EAGAIN", "ENOENT",
           "EBADF", "ECHILD", "EINTR"}
-----------------------------------------------------------------------------
(* parse_options *)

IsSet(rd) == rd.type # "default" \/ rd.handle \/ rd.file \/ rd.path

(* The shorthands for a file and a path become the stream's own.           *)
Shorthand(rd, o, s) ==
    IF s = "in" THEN rd
    ELSE IF o.file THEN [rd EXCEPT !.file = TRUE, !.type = "file"]
    ELSE IF o.path THEN [rd EXCEPT !.path = TRUE, !.type = "path"]
    ELSE rd

ShorthandOk(rd, o, s) ==
    s # "in" /\ (o.file \/ o.path) =>
        /\ ~IsSet(rd) /\ ~o.parent /\ ~o.discard
        /\ ~(o.file /\ o.path)

(* What is set of handle, file and path decides a type left open and must  *)
(* agree with a type given.                                                *)
TargetOk(rd) ==
    /\ Cardinality({x \in {"handle", "file", "path"} : rd[x]}) <= 1
    /\ \A x \in {"handle", "file", "path"} :
          /\ rd[x] => rd.type \in {"default", x}
          /\ rd.type = x => rd[x]

TypeOf(rd, o, s) ==
    CASE rd.type # "default" -> rd.type
      [] rd.handle -> "handle"
      [] rd.file -> "file"
      [] rd.path -> "path"
      [] o.parent -> "parent"
      [] o.discard -> "discard"
      [] s = "err" -> "parent"
      [] OTHER -> "pipe"

RedirectOk(o, s) ==
    LET rd == Shorthand(o.redirect[s], o, s)
    IN  /\ ShorthandOk(o.redirect[s], o, s)
        /\ TargetOk(rd)
        /\ IsSet(rd) \/ ~(o.parent /\ o.discard)

Types(o) == [s \in Stream |-> TypeOf(Shorthand(o.redirect[s], o, s), o, s)]

OptionsOk(o) ==
    /\ \A s \in Stream : RedirectOk(o, s)
    /\ o.input => Types(o).in = "pipe"
    /\ o.fork <=> ~o.argv

Type(s) == Types(options)[s]
-----------------------------------------------------------------------------
Init ==
    /\ options \in Options
    /\ fclosed \in SUBSET Stream
    /\ hugeLimit \in BOOLEAN
    /\ fds0 \in ParentTables
    /\ fds = fds0
    /\ noEnv = FALSE
    /\ missed = {}
    /\ \A s \in fclosed : fds[StdFd[s]] = Closed
    /\ h = [o \in Owner |-> HANDLE_INVALID]
    /\ mask = "old"
    /\ ppc = "parse"
    /\ r = "ok"
    /\ handle = PROCESS_INVALID
    /\ result = "none"
    /\ child = "none"
    /\ cpc = "none"
    /\ cfds = [f \in Fd |-> Closed]
    /\ ch = [o \in Owner |-> HANDLE_INVALID]
    /\ cmask = "old"
    /\ told = [p \in {"fork", "report"} |-> "none"]

GoTo(pc, value) == ppc' = pc /\ r' = value

(* pipe_init and two of the parent's variables; it fails when there is no  *)
(* room in the table, or for the kernel's own reasons, and leaves nothing. *)
MakePipe(p, hr, hw) ==
    /\ CanPipe(fds)
    /\ fds' = PipeTable(fds, ReadEnd[p], WriteEnd[p])
    /\ h' = [h EXCEPT ![hr] = ReadFd(fds), ![hw] = WriteFd(fds, ReadEnd[p])]

Keep == UNCHANGED <<options, fclosed, hugeLimit, fds0, noEnv, missed, mask, handle, result>>

Parse ==
    /\ ppc = "parse"
    /\ IF OptionsOk(options) THEN GoTo("redirect.in", "ok") ELSE GoTo("finish", EINVAL)
    /\ Keep /\ UNCHANGED <<fds, h, childVars>>

(* redirect_init for one stream.  A parent's stream that was fclosed gives *)
(* EPIPE and is discarded instead.                                         *)
Borrow(s, f)   == h' = [h EXCEPT ![Childs[s]] = f] /\ UNCHANGED fds
OpenFor(s, file) ==
    /\ CanOpen(fds)
    /\ fds' = Put(fds, LowestFd(fds), file)
    /\ h' = [h EXCEPT ![Childs[s]] = LowestFd(fds)]
UserFd == CHOOSE f \in Fd : fds0[f].file = "user"

RedirectStream(s) ==
    CASE Type(s) = "pipe" /\ s = "in"  -> MakePipe(s, Childs[s], s)
      [] Type(s) = "pipe" /\ s # "in"  -> MakePipe(s, s, Childs[s])
      [] Type(s) = "parent" ->
            IF s \in fclosed THEN OpenFor(s, "null") ELSE Borrow(s, StdFd[s])
      [] Type(s) = "discard"           -> OpenFor(s, "null")
      [] Type(s) = "path"              -> OpenFor(s, "path")
      [] Type(s) \in {"handle", "file"} -> Borrow(s, UserFd)
      [] Type(s) = "stdout"            -> Borrow(s, h["cout"])

CanFail(s) ==
    \/ Type(s) \in {"pipe", "discard", "path"}
    \/ Type(s) = "parent" /\ s \in fclosed

RedirectInit(s) ==
    /\ ppc = [in |-> "redirect.in", out |-> "redirect.out", err |-> "redirect.err"][s]
    /\ \/ /\ RedirectStream(s)
          /\ GoTo([in |-> "redirect.out", out |-> "redirect.err", err |-> "exit"][s], "ok")
       \/ CanFail(s) /\ GoTo("finish", "EMFILE") /\ UNCHANGED <<fds, h>>
    /\ Keep /\ UNCHANGED childVars

ExitPipe ==
    /\ ppc = "exit"
    /\ \/ MakePipe("exit", "exit", "cexit") /\ GoTo("input", "ok")
       \/ GoTo("finish", "EMFILE") /\ UNCHANGED <<fds, h>>
    /\ Keep /\ UNCHANGED childVars

(* setup_input: what does not fit in the pipe is an error.                 *)
SetupInput ==
    /\ ppc = "input"
    /\ \/ /\ options.input
          /\ \/ GoTo("start", "ok") /\ fds' = Destroy(fds, h["in"])
                                 /\ h' = [h EXCEPT !["in"] = HANDLE_INVALID]
             \/ GoTo("finish", "EAGAIN") /\ UNCHANGED <<fds, h>>
       \/ ~options.input /\ GoTo("start", "ok") /\ UNCHANGED <<fds, h>>
    /\ Keep /\ UNCHANGED childVars
-----------------------------------------------------------------------------
(* process_start and process_fork, the parent's part *)

ReportPipe ==
    /\ ppc = "start"
    /\ \/ MakePipe("report", "report.r", "report.w") /\ GoTo("program", "ok")
       \/ GoTo("finish", "EMFILE") /\ UNCHANGED <<fds, h>>
    /\ Keep /\ UNCHANGED childVars

(* The program's name and the environment are copied.  When the second     *)
(* fails, r still holds the 0 of pipe_init, so process_start returns 1.    *)
Program ==
    /\ ppc = "program"
    /\ \/ GoTo("block", "ok") /\ UNCHANGED noEnv
       \/ options.argv /\ GoTo("close", "ENOMEM") /\ UNCHANGED noEnv
       \/ GoTo("close", "ok") /\ noEnv' = TRUE
    /\ UNCHANGED <<options, fclosed, hugeLimit, fds0, missed, mask, handle, result, fds, h,
                   childVars>>

BlockSignals ==
    /\ ppc = "block"
    /\ mask' = "all"
    /\ GoTo("forkpipe", "ok")
    /\ UNCHANGED <<options, fclosed, hugeLimit, fds0, noEnv, missed, fds, h, handle, result,
                   childVars>>

(* A failed pipe_init returns at once: the signals stay blocked.           *)
ForkPipe ==
    /\ ppc = "forkpipe"
    /\ \/ MakePipe("fork", "fork.r", "fork.w") /\ GoTo("fork", "ok")
       \/ GoTo("close", "EMFILE") /\ UNCHANGED <<fds, h>>
    /\ Keep /\ UNCHANGED childVars

(* A failed fork sets mask.new, all signals, where mask.old was meant.     *)
ForkFails ==
    /\ ppc = "fork"
    /\ fds' = DestroyAll(fds, {h["fork.r"], h["fork.w"]})
    /\ h' = [h EXCEPT !["fork.r"] = HANDLE_INVALID, !["fork.w"] = HANDLE_INVALID]
    /\ mask' = "all"
    /\ GoTo("close", "EAGAIN")
    /\ UNCHANGED <<options, fclosed, hugeLimit, fds0, noEnv, missed, handle, result, childVars>>

Fork ==
    /\ ppc = "fork"
    /\ child' = "alive" /\ cpc' = "reset"
    /\ cfds' = fds /\ ch' = h /\ cmask' = mask
    /\ GoTo("forked", "ok")
    /\ Keep /\ UNCHANGED <<fds, h, told>>

\* Mutant: the signals stay blocked.
ForkedBlocked ==
    /\ ppc = "forked"
    /\ fds' = Destroy(fds, h["fork.w"])
    /\ h' = [h EXCEPT !["fork.w"] = HANDLE_INVALID]
    /\ GoTo("fork.read", "ok")
    /\ Keep /\ UNCHANGED childVars

\* Mutant: the parent keeps its write end of the pipe it reads.
ForkedHolding ==
    /\ ppc = "forked"
    /\ mask' = "old"
    /\ GoTo("fork.read", "ok")
    /\ UNCHANGED <<options, fclosed, hugeLimit, fds0, noEnv, missed, fds, h, handle, result,
                   childVars>>

Forked ==
    /\ ppc = "forked"
    /\ mask' = "old"
    /\ fds' = Destroy(fds, h["fork.w"])
    /\ h' = [h EXCEPT !["fork.w"] = HANDLE_INVALID]
    /\ GoTo("fork.read", "ok")
    /\ UNCHANGED <<options, fclosed, hugeLimit, fds0, noEnv, missed, handle, result, childVars>>

(* read() of an error pipe: a number, or its end when no writer is left.   *)
(* Until then the parent sleeps, with its signals back, so a signal that it*)
(* handles makes read() fail with EINTR.  The code asserts that read() does*)
(* not fail, which ends the parent; NDEBUG leaves the assertion out, and   *)
(* the parent goes on as if nothing could be told any more.                *)
NoWriter(p) == ~Holds(fds, WriteEnd[p]) /\ ~Holds(cfds, WriteEnd[p])

SleepsInRead(p) ==
    /\ ppc = [fork |-> "fork.read", report |-> "report.read"][p]
    /\ told[p] = "none" /\ ~NoWriter(p)

NothingFromFork ==
    /\ GoTo("report.close", "ok")
    /\ fds' = Destroy(fds, h["fork.r"])
    /\ h' = [h EXCEPT !["fork.r"] = HANDLE_INVALID]

ForkRead ==
    /\ ppc = "fork.read"
    /\ \/ told["fork"] # "none" /\ GoTo("fork.wait", told["fork"]) /\ UNCHANGED <<fds, h>>
       \/ told["fork"] = "none" /\ NoWriter("fork") /\ NothingFromFork
    /\ Keep /\ UNCHANGED childVars

ForkReadInterrupted ==
    /\ SleepsInRead("fork") /\ mask = "old"
    /\ NothingFromFork
    /\ missed' = missed \cup {"fork"}
    /\ UNCHANGED <<options, fclosed, hugeLimit, fds0, noEnv, mask, handle, result, childVars>>

ReadAsserts ==
    /\ \E p \in {"fork", "report"} : SleepsInRead(p)
    /\ mask = "old"
    /\ GoTo("aborted", r)
    /\ Keep /\ UNCHANGED <<fds, h, childVars>>

(* waitpid(child) waits for the end, and fails if another has waited.      *)
WaitTold(pc, next) ==
    /\ ppc = pc
    /\ \/ child = "zombie" /\ child' = "reaped" /\ GoTo(next, r)
       \/ child = "reaped" /\ child' = child /\ GoTo(next, "ECHILD")
    /\ Keep /\ UNCHANGED <<fds, h, cpc, cfds, ch, cmask, told>>

(* It fails, too, when a signal comes while the child, which has told its  *)
(* error, has not yet ended: the error is lost and nobody waits again.     *)
WaitInterrupted ==
    /\ ppc \in {"fork.wait", "report.wait"}
    /\ child = "alive" /\ mask = "old"
    /\ GoTo(IF ppc = "fork.wait" THEN "fork.close" ELSE "close", "EINTR")
    /\ Keep /\ UNCHANGED <<fds, h, childVars>>

ForkWait == WaitTold("fork.wait", "fork.close")

\* Mutant: the child's error is lost when the pipe is closed.
ForkCloseForgets ==
    /\ ppc = "fork.close"
    /\ fds' = Destroy(fds, h["fork.r"])
    /\ h' = [h EXCEPT !["fork.r"] = HANDLE_INVALID]
    /\ GoTo("close", "EBADF")
    /\ Keep /\ UNCHANGED childVars

ForkClose ==
    /\ ppc = "fork.close"
    /\ fds' = Destroy(fds, h["fork.r"])
    /\ h' = [h EXCEPT !["fork.r"] = HANDLE_INVALID]
    /\ GoTo("close", r)
    /\ Keep /\ UNCHANGED childVars

ReportClose ==
    /\ ppc = "report.close"
    /\ fds' = Destroy(fds, h["report.w"])
    /\ h' = [h EXCEPT !["report.w"] = HANDLE_INVALID]
    /\ GoTo("report.read", "ok")
    /\ Keep /\ UNCHANGED childVars

\* Mutant: a child that has told its error is not waited for.
ReportReadOnly ==
    /\ ppc = "report.read"
    /\ \/ told["report"] # "none" /\ GoTo("close", told["report"]) /\ UNCHANGED handle
       \/ /\ told["report"] = "none"
          /\ NoWriter("report")
          /\ GoTo("close", "ok")
          /\ handle' = Pid
    /\ UNCHANGED <<options, fclosed, hugeLimit, fds0, noEnv, missed, fds, h, mask, result,
                   childVars>>

(* With nothing told, *process = child.                                    *)
NothingFromReport == GoTo("close", "ok") /\ handle' = Pid

ReportRead ==
    /\ ppc = "report.read"
    /\ \/ told["report"] # "none" /\ GoTo("report.wait", told["report"]) /\ UNCHANGED handle
       \/ told["report"] = "none" /\ NoWriter("report") /\ NothingFromReport
    /\ UNCHANGED <<options, fclosed, hugeLimit, fds0, noEnv, missed, fds, h, mask, result,
                   childVars>>

ReportReadInterrupted ==
    /\ SleepsInRead("report") /\ mask = "old"
    /\ NothingFromReport
    /\ missed' = missed \cup {"report"}
    /\ UNCHANGED <<options, fclosed, hugeLimit, fds0, noEnv, fds, h, mask, result, childVars>>

ReportWait == WaitTold("report.wait", "close")

(* finish of process_start, which returns r < 0 ? r : 1.                   *)
CloseReport ==
    /\ ppc = "close"
    /\ fds' = DestroyAll(fds, {h["report.r"], h["report.w"]})
    /\ h' = [h EXCEPT !["report.r"] = HANDLE_INVALID, !["report.w"] = HANDLE_INVALID]
    /\ GoTo("finish", IF r = "ok" THEN "started" ELSE r)
    /\ Keep /\ UNCHANGED childVars

(* finish of reproc_start: redirect_destroy closes what it has opened, and *)
(* after an error the parent's ends go too.                                *)
Opened(s, types) == types[s] \in {"pipe", "discard", "path"}
ChildEnds(t, hs) ==
    {hs[Childs[s]] : s \in {x \in Stream : Opened(x, t)}} \cup {hs["cexit"]}
\* Mutant: the exit pipe is forgotten.
ParentEndsOfStreams(hs) == {hs[o] : o \in Stream}

ParentEnds(hs) == {hs[o] : o \in Parental}

Finish ==
    /\ ppc = "finish"
    /\ LET ends == ChildEnds(Types(options), h)
       IN  fds' = DestroyAll(fds, IF r \in Errors THEN ends \cup ParentEnds(h) ELSE ends)
    /\ h' = [o \in Owner |-> IF o \in Parental /\ r \notin Errors THEN h[o] ELSE HANDLE_INVALID]
    /\ handle' = IF r \in Errors THEN PROCESS_INVALID ELSE handle
    /\ result' = r
    /\ GoTo("returned", r)
    /\ UNCHANGED <<options, fclosed, hugeLimit, fds0, noEnv, missed, mask, childVars>>

ParentNext ==
    \/ Parse \/ (\E s \in Stream : RedirectInit(s)) \/ ExitPipe \/ SetupInput
    \/ ReportPipe \/ Program \/ BlockSignals \/ ForkPipe \/ ForkFails \/ Fork
    \/ Forked \/ ForkRead \/ ForkWait \/ ForkClose
    \/ ReportClose \/ ReportRead \/ ReportWait \/ CloseReport \/ Finish

(* A signal comes while the parent sleeps.                                 *)
Interrupted ==
    ForkReadInterrupted \/ ReportReadInterrupted \/ ReadAsserts \/ WaitInterrupted
-----------------------------------------------------------------------------
(* The child, from the return of fork to the start of its program *)

At(pc) == child = "alive" /\ cpc = pc

(* _exit, or a signal: the kernel closes every descriptor.                 *)
Dies ==
    /\ child' = "zombie" /\ cpc' = "dead"
    /\ cfds' = [f \in Fd |-> Closed]
    /\ UNCHANGED <<ch, cmask>>

(* The error is written to pipe p; then the child ends.                    *)
Tell(p, error) ==
    /\ told' = [told EXCEPT ![p] = error]
    /\ cpc' = "exit"
    /\ UNCHANGED <<child, cfds, ch, cmask>>

Exits == At("exit") /\ Dies /\ UNCHANGED <<told, parentVars>>

ResetSignals ==
    /\ At("reset")
    /\ cmask' = "empty" /\ cpc' = "limit"
    /\ UNCHANGED <<child, cfds, ch, told, parentVars>>

(* Too many descriptors to close are refused with EMFILE, but what is      *)
(* written is errno, where sigaction(0) has left EINVAL.                   *)
CheckLimit ==
    /\ At("limit")
    /\ IF hugeLimit THEN Tell("fork", EINVAL)
       ELSE cpc' = "closeall" /\ UNCHANGED <<child, cfds, ch, cmask, told>>
    /\ UNCHANGED parentVars

(* Every descriptor is closed but those of the list except; then the pipe  *)
(* of process_fork is.  The loop ends below get_max_fd(), the last number. *)
\* Mutant: the exit pipe is left out.
ExceptStreams == {ch[o] : o \in {"cin", "cout", "cerr", "report.r", "report.w"}}

Except ==
    {ch[o] : o \in {"cin", "cout", "cerr", "report.r", "report.w", "cexit"}}
MaxFd == FdLimit - 1

\* Mutant: the child keeps its copies of the pipe of process_fork.
CloseAllButFork ==
    /\ At("closeall")
    /\ cfds' = DestroyAll(cfds, {f \in Fd : f < MaxFd} \ (Except \cup {ch["fork.r"], ch["fork.w"]}))
    /\ cpc' = "dup.in"
    /\ UNCHANGED <<child, ch, cmask, told, parentVars>>

CloseAll ==
    /\ At("closeall")
    /\ LET forkPipe == {ch["fork.r"], ch["fork.w"]}
           loop     == {f \in Fd : f < MaxFd} \ (Except \cup forkPipe)
       IN  cfds' = DestroyAll(cfds, loop \cup forkPipe)
    /\ cpc' = "dup.in"
    /\ UNCHANGED <<child, ch, cmask, told, parentVars>>

(* dup2 of one stream, and close-on-exec for the original unless it is     *)
(* the stream itself.                                                      *)
Redirected(s) ==
    LET from == ch[Childs[s]]
        t    == Dup2(cfds, from, StdFd[s])
    IN  IF from = StdFd[s] THEN t ELSE Cloexec(t, from, TRUE)

RedirectChild(s) ==
    /\ At([in |-> "dup.in", out |-> "dup.out", err |-> "dup.err"][s])
    /\ IF cfds[ch[Childs[s]]] = Closed THEN Tell("report", "EBADF")
       ELSE /\ cfds' = Redirected(s)
            /\ cpc' = [in |-> "dup.out", out |-> "dup.err", err |-> "chdir"][s]
            /\ UNCHANGED <<child, ch, cmask, told>>
    /\ UNCHANGED parentVars

(* The exit pipe is made to survive exec; chdir may fail.                  *)
ChangeDir ==
    /\ At("chdir")
    /\ \/ /\ cfds' = Cloexec(cfds, ch["cexit"], FALSE)
          /\ cpc' = IF options.argv THEN "exec" ELSE "return"
          /\ UNCHANGED <<child, ch, cmask, told>>
       \/ Tell("report", "ENOENT")
    /\ UNCHANGED parentVars

ExecProgram ==
    /\ At("exec")
    /\ \/ /\ cfds' = Exec(cfds)
          /\ cpc' = "program"
          /\ UNCHANGED <<child, ch, cmask, told>>
       \/ Tell("report", "ENOENT")
    /\ UNCHANGED parentVars

(* Without a program, reproc_start returns 0 in the child, after closing   *)
(* the error pipe and, at its finish, the child's ends.                    *)
ReturnInChild ==
    /\ At("return")
    /\ cfds' = DestroyAll(cfds, ChildEnds(Types(options), ch) \cup {ch["report.r"], ch["report.w"]})
    /\ ch' = [o \in Owner |-> HANDLE_INVALID]
    /\ cpc' = "program"
    /\ UNCHANGED <<child, cmask, told, parentVars>>

(* The child can be killed, or its program end, at any time; the shell's   *)
(* own handler of SIGCHLD may wait for it before reproc does.              *)
ChildKilled ==
    /\ child = "alive"
    /\ Dies
    /\ UNCHANGED <<told, parentVars>>

HostReaps ==
    /\ child = "zombie"
    /\ mask = "old"
    /\ child' = "reaped"
    /\ UNCHANGED <<cpc, cfds, ch, cmask, told, parentVars>>

ChildNext ==
    \/ ResetSignals \/ CheckLimit \/ CloseAll \/ (\E s \in Stream : RedirectChild(s))
    \/ ChangeDir \/ ExecProgram \/ ReturnInChild \/ Exits

Next == ParentNext \/ Interrupted \/ ChildNext \/ ChildKilled \/ HostReaps

Spec     == Init /\ [][Next]_vars
FairSpec == Spec /\ WF_vars(ParentNext) /\ WF_vars(ChildNext)
-----------------------------------------------------------------------------
(* Properties *)

TypeOK ==
    /\ fds \in Table /\ cfds \in Table
    /\ h \in [Owner -> Handle] /\ ch \in [Owner -> Handle]
    /\ mask \in {"old", "all"} /\ cmask \in {"old", "all", "empty"}
    /\ r \in Errors \cup {"ok", "started"}
    /\ handle \in {PROCESS_INVALID, Pid}
    /\ result \in Errors \cup {"started", "none"}
    /\ child \in {"none", "alive", "zombie", "reaped"}
    /\ told \in [{"fork", "report"} -> Errors \cup {"none"}]
    /\ missed \subseteq {"fork", "report"}

(* Whatever step of reproc_start fails, in whichever process, the parent's *)
(* descriptors are the ones it had; after a start there are in addition    *)
(* just the parent's ends of the pipes, each in its variable.  The one     *)
(* exception: /dev/null opened in place of a stream the parent has         *)
(* fclosed is never closed, its type says the stream is the parent's.      *)
OwnEnd == [in |-> WriteEnd["in"], out |-> ReadEnd["out"],
           err |-> ReadEnd["err"], exit |-> ReadEnd["exit"]]

DiscardedForParent == {s \in fclosed : Type(s) = "parent"}

NothingLeaks ==
    DiscardedForParent = {} =>
    /\ result \in Errors => fds = fds0
    /\ result = "started" => \A f \in Fd :
          IF \E o \in Parental : h[o] = f
          THEN fds0[f] = Closed /\ \E o \in Parental : h[o] = f /\ fds[f].file = OwnEnd[o]
          ELSE fds[f] = fds0[f]

(* What reproc_start returns tells whether there is a child.  An error     *)
(* means that there is none, not even one to wait for; success means that  *)
(* it runs its program: every failure of the child before that has reached *)
(* the parent.  The code has three exceptions.  With EINTR, a child that   *)
(* has told its error is left to nobody.  After a read() that failed with  *)
(* EINTR, success means only that there is a child.  After a failed        *)
(* strv_concat it does not mean even that, although reproc.h:331 says so.  *)
ResultTellsChild ==
    /\ result \in Errors \ {"EINTR"} => child \in {"none", "reaped"}
    /\ result = "EINTR" => \E p \in {"fork", "report"} : told[p] # "none"
    /\ result = "started" =>
        /\ handle = Pid <=> ~noEnv
        /\ child = "none" <=> noEnv
        /\ missed = {} =>
            /\ child = "alive" => cpc = "program"
            /\ \A p \in {"fork", "report"} : told[p] = "none"

(* What the child has told is the error reproc_start returns, unless       *)
(* another part of the parent has waited for the child, or a signal has    *)
(* ended the parent's waitpid(), or its read() of just this pipe.          *)
ChildsErrorReturned ==
    result # "none" =>
        \A p \in {"fork", "report"} \ missed :
            told[p] # "none" => result \in {told[p], "ECHILD", "EINTR"}

(* Signals stay blocked in the parent only if no child was forked.         *)
SignalsBack == result # "none" /\ mask = "all" => result \in Errors /\ child = "none"

(* The program has its streams where the options say, the exit pipe, and   *)
(* no other descriptor of the parent: if the parent has its three streams  *)
(* (not to be closed at exec), standard error does not share the parent's  *)
(* own output, and nothing occupies the last number of all, where the      *)
(* closing loop does not come.                                             *)
ParentFile == [in |-> "stdin", out |-> "stdout", err |-> "stderr"]

Wanted(s) ==
    CASE Type(s) = "pipe"    -> IF s = "in" THEN ReadEnd[s] ELSE WriteEnd[s]
      [] Type(s) = "parent"  -> ParentFile[s]
      [] Type(s) = "discard" -> "null"
      [] Type(s) = "path"    -> "path"
      [] Type(s) \in {"handle", "file"} -> "user"
      [] Type(s) = "stdout"  -> "none"

WantedFile(s) == IF Type(s) = "stdout" THEN Wanted("out") ELSE Wanted(s)

InProgram == child = "alive" /\ cpc = "program"

StreamsAsAsked == InProgram => \A s \in Stream : cfds[StdFd[s]].file = WantedFile(s)

UsualParent ==
    /\ \A s \in Stream : fds0[StdFd[s]] = [file |-> ParentFile[s], cloexec |-> FALSE]
    /\ ~(Type("out") = "parent" /\ Type("err") = "stdout")

ChildHasItsStreams ==
    InProgram /\ UsualParent
    => /\ StreamsAsAsked
       /\ options.argv /\ fds0[MaxFd] = Closed =>
            {cfds[f].file : f \in OpenFds(cfds) \ {0, 1, 2}} = {WriteEnd["exit"]}

(* Parent and child do not wait for each other: while the parent sleeps in *)
(* read() or waitpid(), there is a child on its way to its program, where  *)
(* nothing can hold it up.  A kept end of a pipe, in either process, or a  *)
(* second number for one after dup2, would break this.                     *)
Sleeps ==
    \/ \E p \in {"fork", "report"} : SleepsInRead(p)
    \/ ppc \in {"fork.wait", "report.wait"} /\ child = "alive"

NoCrossWait == Sleeps => child = "alive" /\ cpc # "program"

(* reproc_start returns, or its assertion ends the parent: neither process *)
(* waits for the other for ever.                                           *)
StartReturns == <>(result # "none" \/ ppc = "aborted")
=============================================================================
