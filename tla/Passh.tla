-------------------------------- MODULE Passh --------------------------------
(***************************************************************************)
(* The passh mode of the wg builtin (src/passh.c, big_loop): a command runs *)
(* on a pseudo terminal; its output is copied, its password prompts are    *)
(* answered, and passh exits with its exit code.                           *)
(*                                                                         *)
(* The loop learns of the command's end by SIGCHLD, whose handler sets a   *)
(* flag.  The kernel makes a change of state known to waitpid first and    *)
(* then sends the signal; signals that are pending together are delivered  *)
(* as one.  wg_builtin runs the loop in the shell itself, which may have   *)
(* another child (a job), and waitpid(-1) waits for that one too.          *)
(*                                                                         *)
(* What the command writes is a sequence of chunks, one per read: a text, a *)
(* password prompt or a yes/no question.                                   *)
(***************************************************************************)
EXTENDS Integers, Sequences

CONSTANTS Options,     \* records of the options -c, -C, -t, -T, -y
          StdinIsTty,  \* g.stdin_is_tty: set by passh_main, never by wg_builtin
          MaxStops,    \* bound on how often the command is stopped
          MaxChunks    \* bound on what it writes

ASSUME PasshAssumption ==
  /\ StdinIsTty \in BOOLEAN
  /\ MaxStops \in Nat /\ MaxChunks \in Nat
  /\ Options \subseteq [tries : Nat, fatal_more_tries : BOOLEAN, timeout : Nat,
                        fatal_no_prompt : BOOLEAN, auto_yesno : BOOLEAN]

Children == {"child", "job"}

VARIABLES
  \* the system
  life,     \* the state of each child: "running", "stopped" or "dead"
  report,   \* what waitpid has to report of it: "none" or its last change
  signals,  \* SIGCHLDs not delivered yet
  pty,      \* what the command has written and passh has not read
  written,  \* chunks the command has written
  stops,    \* how
  stdin,    \* what there is to read on standard input: "none", "data", "eof"
  \* passh
  opt,      \* its options
  pc,       \* where big_loop is
  SIGCHLDed,
  waited,   \* the child and the status of the last waitpid
  seen,     \* passwords_seen
  replies,  \* history: how many answers of each kind were written to the pty
  given_up,
  now_interactive,
  stdin_eof,
  age,      \* seconds since last_time
  printed,  \* chunks copied to standard output
  code      \* the exit code, by its origin

systemVars == <<life, report, signals, pty, written, stops, stdin>>
loopVars == <<seen, replies, given_up, now_interactive, stdin_eof, printed>>
vars == <<systemVars, opt, pc, SIGCHLDed, waited, age, loopVars, code>>

Init ==
  /\ life = [p \in Children |-> "running"]
  /\ report = [p \in Children |-> "none"]
  /\ signals = 0
  /\ pty = <<>> /\ written = 0 /\ stops = 0
  /\ stdin = "none"
  /\ opt \in Options
  /\ pc = "top"
  /\ SIGCHLDed = FALSE
  /\ waited = [who |-> "child", what |-> "none"]
  /\ seen = 0 /\ replies = [yes |-> 0, password |-> 0] /\ printed = 0 /\ age = 0
  /\ given_up = FALSE /\ now_interactive = FALSE /\ stdin_eof = FALSE
  /\ code = "none"

Exit(c) == pc' = "exited" /\ code' = c

-----------------------------------------------------------------------------
\* The system

\* Child p changes its state: first waitpid's report, and a signal to come
Change(p, state, what) ==
  /\ life' = [life EXCEPT ![p] = state]
  /\ report' = [report EXCEPT ![p] = what]
  /\ signals' = signals + 1
  /\ UNCHANGED <<pty, written, stdin, opt, pc, SIGCHLDed, waited, age, loopVars, code>>

Stop(p) ==
  /\ life[p] = "running"
  /\ stops < MaxStops
  /\ stops' = stops + 1
  /\ Change(p, "stopped", "stopped")

Continue(p) ==
  /\ life[p] = "stopped"
  /\ Change(p, "running", "continued")
  /\ UNCHANGED stops

Die(p) ==
  /\ life[p] # "dead"
  /\ Change(p, "dead", "exited")
  /\ UNCHANGED stops

\* What a signal does to the call it interrupts, for sig_handle does not ask for
\* SA_RESTART: a waitpid that blocks fails, and a write of output may be blocking
\* and fail; both are fatal.
Interrupt ==
  \/ /\ pc = "wait" /\ (\A p \in Children : report[p] = "none")
     /\ Exit("sys")
  \/ /\ pc \in {"read", "done"} /\ pty # <<>>
     /\ Exit("sys")
  \/ /\ ~(pc = "wait" /\ \A p \in Children : report[p] = "none")
     /\ UNCHANGED <<pc, code>>

\* Some or all pending SIGCHLDs are delivered as one: sig_child
Deliver ==
  /\ signals > 0
  /\ pc # "exited"
  /\ signals' \in 0 .. signals - 1
  /\ SIGCHLDed' = TRUE
  /\ Interrupt
  /\ UNCHANGED <<life, report, pty, written, stops, stdin, opt, waited, age, loopVars>>

Write ==
  /\ life["child"] = "running"
  /\ written < MaxChunks
  /\ written' = written + 1
  /\ \E chunk \in {"text", "prompt", "yesno"} : pty' = Append(pty, chunk)
  /\ UNCHANGED <<life, report, signals, stops, stdin, opt, pc, SIGCHLDed, waited, age,
                 loopVars, code>>

Type ==
  /\ stdin = "none"
  /\ stdin' \in {"data", "eof"}
  /\ UNCHANGED <<life, report, signals, pty, written, stops, opt, pc, SIGCHLDed, waited,
                 age, loopVars, code>>

Tick ==
  /\ age <= opt.timeout
  /\ opt.timeout # 0
  /\ age' = age + 1
  /\ UNCHANGED <<systemVars, opt, pc, SIGCHLDed, waited, loopVars, code>>

-----------------------------------------------------------------------------
\* big_loop

\* Label L_chk_sigchld
CheckSignal ==
  /\ pc = "top"
  /\ pc' = IF SIGCHLDed THEN "wait" ELSE "clock"
  /\ UNCHANGED <<systemVars, opt, SIGCHLDed, waited, age, loopVars, code>>

\* waitpid(-1, &status, WUNTRACED | WCONTINUED) blocks until there is a report
WaitPid ==
  /\ pc = "wait"
  /\ \E p \in Children :
       /\ report[p] # "none"
       /\ waited' = [who |-> p, what |-> report[p]]
       /\ report' = [report EXCEPT ![p] = "none"]
  /\ pc' = "reset"
  /\ UNCHANGED <<life, signals, pty, written, stops, stdin, opt, SIGCHLDed, age,
                 loopVars, code>>

\* Mutant: the status is kept as waitpid reports it, not as an exit code.
ResetKeepsStatus ==
  /\ pc = "reset"
  /\ SIGCHLDed' = FALSE
  /\ IF waited.what = "exited"
     THEN pc' = "done" /\ code' = waited.what
     ELSE pc' = "clock" /\ UNCHANGED code
  /\ UNCHANGED <<systemVars, opt, waited, age, loopVars>>

\* g.SIGCHLDed = false, and the status is looked at
Reset ==
  /\ pc = "reset"
  /\ SIGCHLDed' = FALSE
  /\ IF waited.what = "exited"
     THEN pc' = "done" /\ code' = waited.who
     ELSE pc' = "clock" /\ UNCHANGED code
  /\ UNCHANGED <<systemVars, opt, waited, age, loopVars>>

\* The option -T
Clock ==
  /\ pc = "clock"
  /\ IF /\ opt.timeout # 0 /\ opt.fatal_no_prompt
        /\ seen = 0
        /\ age > opt.timeout
     THEN Exit("timeout")
     ELSE pc' = "select" /\ UNCHANGED code
  /\ UNCHANGED <<systemVars, opt, SIGCHLDed, waited, age, loopVars>>

\* The pty is readable when it holds something, and when its other end is closed
PtyReadable == pty # <<>> \/ life["child"] = "dead"

StdinReadable == StdinIsTty /\ ~stdin_eof /\ stdin # "none"

\* The EOF that is sent while stdin_eof cannot be written
EofFails ==
  /\ pc = "select"
  /\ stdin_eof
  /\ pc' = "done"
  /\ code' = "general"
  /\ UNCHANGED <<systemVars, opt, SIGCHLDed, waited, age, loopVars>>

\* select finds nothing, times out or is interrupted
SelectNothing ==
  /\ pc = "select"
  /\ ~PtyReadable \/ SIGCHLDed
  /\ ~StdinReadable \/ SIGCHLDed
  /\ pc' = "top"
  /\ UNCHANGED <<systemVars, opt, SIGCHLDed, waited, age, loopVars, code>>

SelectPty ==
  /\ pc = "select"
  /\ PtyReadable
  /\ pc' = "read"
  /\ UNCHANGED <<systemVars, opt, SIGCHLDed, waited, age, loopVars, code>>

\* Standard input is read only when the pty is not readable: the loop that
\* reads the pty is left by `goto L_chk_sigchld` alone.
SelectStdin ==
  /\ pc = "select"
  /\ ~PtyReadable
  /\ StdinReadable
  /\ pc' = "top"
  /\ stdin' = "none"
  /\ IF stdin = "eof"
     THEN stdin_eof' = TRUE /\ UNCHANGED now_interactive
     ELSE now_interactive' = TRUE /\ UNCHANGED stdin_eof
  /\ UNCHANGED <<life, report, signals, pty, written, stops, opt, SIGCHLDed, waited, age,
                 seen, replies, given_up, printed, code>>

\* Mutant: the loop goes on reading a pty that gives nothing.
ReadNothingStays ==
  /\ pc = "read"
  /\ pty = <<>>
  /\ UNCHANGED vars

ReadNothing ==
  /\ pc = "read"
  /\ pty = <<>>
  /\ pc' = "top"
  /\ UNCHANGED <<systemVars, opt, SIGCHLDed, waited, age, loopVars, code>>

GivesUp == given_up \/ (opt.timeout # 0 /\ age >= opt.timeout)

\* Is a chunk matched against re_yesno and re_prompt, and with which does it match?
Asks(chunk) == IF now_interactive \/ GivesUp THEN "nothing"
               ELSE IF chunk = "yesno" /\ ~(opt.auto_yesno /\ seen = 0) THEN "nothing"
               ELSE chunk

\* Mutant: > for >= where passh gives up.
PromptedOnceMore ==
  /\ seen' = seen + 1
  /\ age' = 0
  /\ IF opt.fatal_more_tries /\ opt.tries # 0 /\ seen' > opt.tries
     THEN /\ Exit("max_tries")
          /\ UNCHANGED <<replies, given_up>>
     ELSE /\ replies' = [replies EXCEPT !.password = @ + 1]
          /\ given_up' = (~opt.fatal_more_tries /\ opt.tries # 0 /\ seen' > opt.tries)
          /\ UNCHANGED <<pc, code>>

\* One more password is asked for
Prompted ==
  /\ seen' = seen + 1
  /\ age' = 0
  /\ IF opt.fatal_more_tries /\ opt.tries # 0 /\ seen' > opt.tries
     THEN /\ Exit("max_tries")
          /\ UNCHANGED <<replies, given_up>>
     ELSE /\ replies' = [replies EXCEPT !.password = @ + 1]
          /\ given_up' = (~opt.fatal_more_tries /\ opt.tries # 0 /\ seen' >= opt.tries)
          /\ UNCHANGED <<pc, code>>

Read ==
  /\ pc = "read"
  /\ pty # <<>>
  /\ pty' = Tail(pty)
  /\ printed' = printed + 1
  /\ \/ /\ Asks(Head(pty)) = "prompt"
        /\ Prompted
     \/ /\ Asks(Head(pty)) # "prompt"
        /\ replies' = IF Asks(Head(pty)) = "yesno" THEN [replies EXCEPT !.yes = @ + 1] ELSE replies
        /\ given_up' = GivesUp
        /\ UNCHANGED <<pc, age, seen, code>>
  /\ UNCHANGED <<life, report, signals, written, stops, stdin, opt, SIGCHLDed, waited,
                 now_interactive, stdin_eof>>

\* Mutant: passh exits without a last look at the pty.
DoneAtOnce ==
  /\ pc = "done"
  /\ pc' = "exited"
  /\ UNCHANGED <<systemVars, opt, SIGCHLDed, waited, age, loopVars, code>>

\* Label L_done
Done ==
  /\ pc = "done"
  /\ printed' = printed + Len(pty)
  /\ pty' = <<>>
  /\ pc' = "exited"
  /\ UNCHANGED <<life, report, signals, written, stops, stdin, opt, SIGCHLDed, waited, age,
                 seen, replies, given_up, now_interactive, stdin_eof, code>>

-----------------------------------------------------------------------------
System == (\E p \in Children : Stop(p) \/ Continue(p) \/ Die(p)) \/ Write \/ Type \/ Tick

Loop == \/ CheckSignal \/ WaitPid \/ Reset \/ Clock
        \/ SelectNothing \/ SelectPty \/ SelectStdin \/ ReadNothing \/ Read \/ Done

Next == System \/ Deliver \/ Loop \/ EofFails

Spec == Init /\ [][Next]_vars

\* passh runs and signals arrive; nothing is assumed of the command or the user
FairSpec == Spec /\ WF_vars(Deliver) /\ WF_vars(Loop)

-----------------------------------------------------------------------------
\* The variables have their types.
TypeOK ==
  /\ life \in [Children -> {"running", "stopped", "dead"}]
  /\ report \in [Children -> {"none", "stopped", "continued", "exited"}]
  /\ signals \in Nat /\ stops \in 0 .. MaxStops
  /\ written \in 0 .. MaxChunks /\ printed \in 0 .. MaxChunks
  /\ pty \in Seq({"text", "prompt", "yesno"})
  /\ stdin \in {"none", "data", "eof"}
  /\ opt \in Options
  /\ pc \in {"top", "wait", "reset", "clock", "select", "read", "done", "exited"}
  /\ SIGCHLDed \in BOOLEAN
  /\ waited \in [who : Children, what : {"none", "stopped", "continued", "exited"}]
  /\ seen \in Nat /\ age \in Nat
  /\ replies \in [yes : Nat, password : Nat]
  /\ given_up \in BOOLEAN /\ now_interactive \in BOOLEAN /\ stdin_eof \in BOOLEAN
  /\ code \in Children \cup {"none", "sys", "general", "timeout", "max_tries"}

\* With -c N passh sends at most N passwords, with and without -C, however prompts,
\* timeouts, typing and signals mix; and a password it did not send to a prompt it
\* saw is the N+1st, the one that ends passh.
AtMostTries ==
  /\ opt.tries # 0 => replies.password <= opt.tries
  /\ seen # replies.password => code = "max_tries" /\ replies.password = opt.tries

\* When passh leaves with the status of the command, all the command wrote was
\* copied: the signal that ends the loop may come at any place of it, also between
\* two reads or before the command's last words were read.
AllPrinted == pc = "exited" /\ code = "child" => printed = written /\ pty = <<>>

\* Why AtMostTries holds: passh gives up, or leaves, in time
Tries ==
  /\ seen # replies.password => pc = "exited"
  /\ opt.tries # 0 /\ ~opt.fatal_more_tries /\ seen >= opt.tries => given_up

\* Why AllPrinted holds: nothing leaves the pty unprinted, and a status of exit is
\* known of a dead child only
Statuses ==
  /\ printed + Len(pty) = written
  /\ \A p \in Children : report[p] = "exited" => life[p] = "dead"
  /\ pc = "reset" /\ waited.what = "exited" => life[waited.who] = "dead"
  /\ code # "none" => pc \in {"done", "exited"}
  /\ code = "child" => life["child"] = "dead"

IndInv == TypeOK /\ AtMostTries /\ AllPrinted /\ Tries /\ Statuses

\* Once the command has ended passh ends too: the SIGCHLD is delivered, flagged and
\* answered by one waitpid, also out of the loop that copies output, whichever other
\* child ends before, between or after.  It holds while no child was ever stopped.
EndNoticedUnstopped == (life["child"] = "dead") ~> (pc = "exited" \/ stops > 0)

\* With a child that was stopped before, the comment in the code expects the same,
\* "Just wait for the child to be continued and wait for the next SIGCHLD", but it
\* fails: the next SIGCHLD may come between waitpid and g.SIGCHLDed = false, which
\* forgets it.
EndNoticed == (life["child"] = "dead") ~> (pc = "exited")

\* At L_done with a status from waitpid, the command has ended: "the child has exited
\* but there may be still some data for us to read", says the comment there.  It fails
\* when the shell that runs the builtin has another child.
ChildHasExited == pc = "done" /\ code \in Children => life["child"] = "dead"
=============================================================================
