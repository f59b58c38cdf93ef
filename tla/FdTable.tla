------------------------------ MODULE FdTable ------------------------------
(***************************************************************************)
(* The table of file descriptors of a process: which open file a number    *)
(* stands for and whether exec closes it.  The kernel gives out the lowest *)
(* free number, which is what makes a process with a closed standard       *)
(* stream special: the next pipe gets that stream's number.                *)
(***************************************************************************)
EXTENDS Integers

CONSTANT FdLimit  \* RLIMIT_NOFILE: the numbers are 0 .. FdLimit - 1

ASSUME FdLimitAssumption == FdLimit \in Nat /\ FdLimit > 3

HANDLE_INVALID == -1

Fd     == 0 .. FdLimit - 1
Handle == Fd \cup {HANDLE_INVALID}

(* The open files of the reproc modules: the ends of the pipes that are    *)
(* made for a child, what else its streams can be redirected to, and two   *)
(* files the parent has opened for itself (one is given to redirections).  *)
PipeName == {"in", "out", "err", "exit", "report", "fork"}
ReadEnd  == [in |-> "in.r", out |-> "out.r", err |-> "err.r",
             exit |-> "exit.r", report |-> "report.r", fork |-> "fork.r"]
WriteEnd == [in |-> "in.w", out |-> "out.w", err |-> "err.w",
             exit |-> "exit.w", report |-> "report.w", fork |-> "fork.w"]
PipeEnd  == {ReadEnd[p] : p \in PipeName} \cup {WriteEnd[p] : p \in PipeName}
File     == PipeEnd \cup {"stdin", "stdout", "stderr", "null", "path", "user", "stray"}

NoFile == "closed"
Closed == [file |-> NoFile, cloexec |-> FALSE]
Entry  == [file : File \cup {NoFile}, cloexec : BOOLEAN]
Table  == [Fd -> Entry]

FreeFds(t)  == {f \in Fd : t[f] = Closed}
LowestFd(t) == CHOOSE f \in FreeFds(t) : \A g \in FreeFds(t) : f <= g

(* The files a process holds open, and whether it holds one. *)
Holds(t, file) == \E f \in Fd : t[f].file = file
OpenFds(t)     == {f \in Fd : t[f] # Closed}

(* open(..., O_CLOEXEC) and the two ends of pipe + handle_cloexec. *)
Put(t, f, file)    == [t EXCEPT ![f] = [file |-> file, cloexec |-> TRUE]]
CanOpen(t)         == FreeFds(t) # {}
CanPipe(t)         == \E f, g \in FreeFds(t) : f # g
ReadFd(t)          == LowestFd(t)
WriteFd(t, r)      == LowestFd(Put(t, LowestFd(t), r))
PipeTable(t, r, w) == Put(Put(t, ReadFd(t), r), WriteFd(t, r), w)

(* handle_destroy: HANDLE_INVALID is let through, any other is closed. *)
Destroy(t, f) == IF f \in Fd THEN [t EXCEPT ![f] = Closed] ELSE t
DestroyAll(t, S) == [f \in Fd |-> IF f \in S THEN Closed ELSE t[f]]

Cloexec(t, f, on) == [t EXCEPT ![f] = [@ EXCEPT !.cloexec = on]]

(* dup2(from, to): the copy is open across exec; onto itself it does       *)
(* nothing, and so leaves the close-on-exec flag as it is.                 *)
Dup2(t, from, to) ==
    IF from = to THEN t ELSE [t EXCEPT ![to] = [file |-> t[from].file, cloexec |-> FALSE]]

Exec(t) == [f \in Fd |-> IF t[f].cloexec THEN Closed ELSE t[f]]
=============================================================================
