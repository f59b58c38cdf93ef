------------------------- MODULE ReprocStart_proofs -------------------------
(***************************************************************************)
(* Proofs about ReprocStart, for tables of any size, any options and any   *)
(* descriptors the parent has open or closed when it calls reproc_start.   *)
(***************************************************************************)
EXTENDS ReprocStart, WellFoundedInduction, TLAPS

(* The lowest free number exists whenever a number is free.                *)
Less == {ss \in Nat \X Nat : ss[1] < ss[2]}

LEMMA LeastNatural ==
  ASSUME NEW S \in SUBSET Nat, S # {}
  PROVE  \E x \in S : \A y \in S : x <= y
<1>1. IsWellFoundedOn(Less, Nat)
  BY NatLessThanWellFounded DEF OpToRel, Less
<1>2. PICK x \in S : \A y \in S : ~(<<y, x>> \in Less)
  BY <1>1, WFMin
<1>3. \A y \in S : <<y, x>> \in Nat \X Nat
  OBVIOUS
<1>4. \A y \in S : ~(y < x)
  BY <1>2, <1>3 DEF Less
<1>5. \A y \in S : x \in Nat /\ y \in Nat
  OBVIOUS
<1> QED
  BY <1>4, <1>5

LEMMA FdFacts ==
  /\ Fd \subseteq Nat /\ {0, 1, 2} \subseteq Fd
  /\ HANDLE_INVALID \notin Fd /\ Handle = Fd \cup {HANDLE_INVALID}
  /\ Closed \in Entry
  /\ \A s \in Stream : StdFd[s] \in {0, 1, 2}
BY FdLimitAssumption DEF Fd, Handle, HANDLE_INVALID, Closed, Entry, NoFile, Stream, StdFd

LEMMA Lowest ==
  ASSUME NEW t, CanOpen(t)
  PROVE  /\ LowestFd(t) \in FreeFds(t)
         /\ \A g \in FreeFds(t) : LowestFd(t) <= g
<1>1. FreeFds(t) \in SUBSET Nat /\ FreeFds(t) # {}
  BY FdFacts DEF CanOpen, FreeFds
<1>2. \E f \in FreeFds(t) : \A g \in FreeFds(t) : f <= g
  BY <1>1, LeastNatural
<1> QED
  BY <1>2 DEF LowestFd

LEMMA PutFacts ==
  ASSUME NEW t \in Table, NEW f \in Fd, NEW file \in File
  PROVE  /\ Put(t, f, file) \in Table
         /\ Put(t, f, file)[f].file = file
         /\ \A g \in Fd \ {f} : Put(t, f, file)[g] = t[g]
         /\ FreeFds(Put(t, f, file)) = FreeFds(t) \ {f}
<1>1. file # NoFile
  BY DEF File, NoFile, PipeEnd, PipeName, ReadEnd, WriteEnd
<1>2. [file |-> file, cloexec |-> TRUE] \in Entry /\ [file |-> file, cloexec |-> TRUE] # Closed
  BY <1>1 DEF Entry, Closed
<1>3. /\ Put(t, f, file) \in Table
      /\ Put(t, f, file)[f] = [file |-> file, cloexec |-> TRUE]
      /\ \A g \in Fd \ {f} : Put(t, f, file)[g] = t[g]
  BY <1>2 DEF Put, Table
<1> QED
  BY <1>2, <1>3 DEF FreeFds

LEMMA PipeFacts ==
  ASSUME NEW t \in Table, CanPipe(t), NEW r0 \in File, NEW w \in File
  PROVE  /\ PipeTable(t, r0, w) \in Table
         /\ ReadFd(t) \in FreeFds(t) /\ WriteFd(t, r0) \in FreeFds(t)
         /\ ReadFd(t) # WriteFd(t, r0)
         /\ \A g \in FreeFds(t) : ReadFd(t) <= g
         /\ \A g \in FreeFds(t) \ {ReadFd(t)} : WriteFd(t, r0) <= g
         /\ PipeTable(t, r0, w)[ReadFd(t)].file = r0
         /\ PipeTable(t, r0, w)[WriteFd(t, r0)].file = w
         /\ \A g \in Fd : t[g] # Closed => PipeTable(t, r0, w)[g] = t[g]
         /\ FreeFds(PipeTable(t, r0, w)) = FreeFds(t) \ {ReadFd(t), WriteFd(t, r0)}
<1> DEFINE u == Put(t, ReadFd(t), r0)
<1>1. PICK f, g \in FreeFds(t) : f # g
  BY DEF CanPipe
<1>2. ReadFd(t) \in FreeFds(t) /\ \A x \in FreeFds(t) : ReadFd(t) <= x
  BY <1>1, Lowest DEF ReadFd, CanOpen
<1>3. FreeFds(t) \subseteq Fd
  BY DEF FreeFds
<1>4. /\ u \in Table /\ FreeFds(u) = FreeFds(t) \ {ReadFd(t)} /\ u[ReadFd(t)].file = r0
      /\ \A x \in Fd \ {ReadFd(t)} : u[x] = t[x]
  <2> DEFINE e == ReadFd(t)
  <2>1. e \in Fd
    BY <1>2, <1>3
  <2> HIDE DEF e
  <2>2. /\ Put(t, e, r0) \in Table /\ Put(t, e, r0)[e].file = r0
        /\ \A x \in Fd \ {e} : Put(t, e, r0)[x] = t[x]
        /\ FreeFds(Put(t, e, r0)) = FreeFds(t) \ {e}
    BY <2>1, PutFacts
  <2> QED
    BY <2>2, Zenon DEF e
<1>5. CanOpen(u)
  BY <1>1, <1>4 DEF CanOpen
<1>6. WriteFd(t, r0) = LowestFd(u)
  BY DEF WriteFd, ReadFd
<1>7. WriteFd(t, r0) \in FreeFds(u) /\ \A x \in FreeFds(u) : WriteFd(t, r0) <= x
  BY <1>5, <1>6, Lowest
<1>8. PipeTable(t, r0, w) = Put(u, WriteFd(t, r0), w)
  BY DEF PipeTable
<1>9. /\ Put(u, WriteFd(t, r0), w) \in Table
      /\ Put(u, WriteFd(t, r0), w)[WriteFd(t, r0)].file = w
      /\ \A x \in Fd \ {WriteFd(t, r0)} : Put(u, WriteFd(t, r0), w)[x] = u[x]
      /\ FreeFds(Put(u, WriteFd(t, r0), w)) = FreeFds(u) \ {WriteFd(t, r0)}
  BY <1>3, <1>4, <1>7, PutFacts
<1> HIDE DEF u
<1> QED
  BY <1>2, <1>3, <1>4, <1>7, <1>8, <1>9 DEF FreeFds
-----------------------------------------------------------------------------
(* The inductive invariant *)

Preparing == {"parse", "redirect.in", "redirect.out", "redirect.err", "exit", "input",
              "start", "program", "block", "forkpipe", "fork"}
Forking   == {"forked", "fork.read", "fork.wait", "fork.close",
              "report.close", "report.read", "report.wait", "aborted"}
Ending    == {"close", "finish", "returned"}

(* Where the child is until it has its program, and while it needs the     *)
(* pipe of process_fork.                                                   *)
InFork   == {"reset", "limit", "closeall"}
Starting == InFork \cup {"dup.in", "dup.out", "dup.err", "chdir", "exec", "return"}

Untold == \A p \in {"fork", "report"} : told[p] = "none"

(* The child tells of one failure at most, and then only ends.             *)
Child ==
    /\ child = "alive" => cpc \in Starting \cup {"program", "exit"} /\ (cpc = "exit" <=> ~Untold)
    /\ child = "none" => Untold
    /\ told["fork"] = "none" \/ told["report"] = "none"

(* The parent's place and r, and what is true of the child there.          *)
PastFork == told["fork"] = "none" /\ (child = "alive" => cpc \notin InFork)
PastReport == told["report"] = "none" /\ (child = "alive" => cpc \notin Starting)

Parent ==
    /\ ppc \in Preparing \cup Forking \cup Ending
    /\ ppc \in Preparing => child = "none" /\ r = "ok"
    /\ ppc \notin Ending => handle = PROCESS_INVALID /\ ~noEnv
    /\ ppc # "returned" => result = "none"
    /\ ppc \in Forking => child # "none"
    /\ ppc \in {"forked", "fork.read", "report.close", "report.read"} => r = "ok"
    /\ mask = "all" => ppc \in {"forkpipe", "fork", "forked"} \cup Ending
    /\ ppc \in {"fork.wait", "fork.close"} => told["fork"] # "none"
    /\ ppc = "fork.wait" => r = told["fork"]
    /\ ppc = "fork.close" => \/ child = "reaped" /\ r \in {told["fork"], "ECHILD"}
                             \/ r = "EINTR"
    /\ ppc \in {"report.close", "report.read", "report.wait"} => "fork" \in missed \/ PastFork
    /\ ppc = "report.wait" => told["report"] # "none" /\ r = told["report"]

(* What r says once the child's start is decided: there has been no child, *)
(* there is one with its program, as far as no read was cut short, or one  *)
(* has told an error, and was waited for unless a signal came.             *)
NoChild  == child = "none" /\ handle = PROCESS_INVALID /\ ~noEnv /\ r \in Errors \ {"EINTR"}
NoCopy   == child = "none" /\ handle = PROCESS_INVALID /\ noEnv /\ mask = "old"
Started  == /\ child # "none" /\ handle = Pid /\ ~noEnv /\ mask = "old"
            /\ "fork" \in missed \/ PastFork
            /\ "report" \in missed \/ PastReport
TellsWhy == /\ child # "none" /\ handle = PROCESS_INVALID /\ ~noEnv /\ mask = "old"
            /\ r \in Errors
            /\ child = "reaped" \/ r = "EINTR"
            /\ ~Untold
            /\ \A p \in {"fork", "report"} : told[p] # "none" => r \in {told[p], "ECHILD", "EINTR"}

Decided ==
    /\ ppc \in Ending =>
          \/ NoChild \/ TellsWhy
          \/ (NoCopy \/ Started) /\ r = (IF ppc = "close" THEN "ok" ELSE "started")
    /\ ppc = "returned" => result = r

(* The child gets a number for each of its streams and the exit pipe.      *)
Handed ==
    /\ ppc \in Preparing \ {"parse", "redirect.in"} => h["cin"] \in Fd
    /\ ppc \in Preparing \ {"parse", "redirect.in", "redirect.out"} => h["cout"] \in Fd
    /\ ppc \in Preparing \ {"parse", "redirect.in", "redirect.out", "redirect.err"} =>
          h["cerr"] \in Fd
    /\ ppc \in {"input", "start", "program", "block", "forkpipe", "fork"} => h["cexit"] \in Fd
    /\ child = "alive" /\ cpc \in Starting =>
          \A o \in {"cin", "cout", "cerr", "cexit"} : ch[o] \in Fd

(* Numbers below 3 are free only if the parent has closed such a stream.   *)
(* The pipes made first take them, except one that setup_input may free    *)
(* again, so that the write end of the last but one pipe is not one of the *)
(* numbers that dup2 will overwrite in the child.                          *)
LowFree(t)   == FreeFds(t) \cap {0, 1, 2}
AtMostOne(t) == \A f, g \in LowFree(t) : f = g

Room ==
    /\ ppc = "redirect.in" => OptionsOk(options)
    /\ options.input /\ ppc \in {"redirect.out", "redirect.err", "exit"} => AtMostOne(fds)
    /\ ppc \in {"input", "start"} => AtMostOne(fds)
    /\ options.input /\ ppc = "input" => LowFree(fds) = {}

ReportEnd(t, hs) ==
    hs["report.w"] \in Fd \ {0, 1, 2} /\ t[hs["report.w"]].file = WriteEnd["report"]
ForkEnds(t, hs) ==
    /\ hs["fork.r"] \in Fd /\ t[hs["fork.r"]].file = ReadEnd["fork"]
    /\ hs["fork.w"] \in Fd /\ t[hs["fork.w"]].file = WriteEnd["fork"]

Pipes ==
    /\ ppc \in {"program", "block", "forkpipe", "fork"} => ReportEnd(fds, h)
    /\ ppc = "fork" => ForkEnds(fds, h)
    /\ child = "alive" /\ cpc \in Starting => ReportEnd(cfds, ch)
    /\ child = "alive" /\ cpc \in InFork => ForkEnds(cfds, ch)

Given == options \in Options /\ fds0 \in ParentTables

IndInv == TypeOK /\ Child /\ Parent /\ Decided /\ Handed /\ Room /\ Pipes /\ Given

LEMMA InitIndInv == Init => IndInv
<1> SUFFICES ASSUME Init PROVE IndInv
  OBVIOUS
<1>1. /\ options \in Options /\ fds0 \in ParentTables /\ fds = fds0
      /\ ~noEnv /\ missed = {} /\ h = [o \in Owner |-> HANDLE_INVALID] /\ mask = "old"
      /\ ppc = "parse" /\ r = "ok" /\ handle = PROCESS_INVALID /\ result = "none"
      /\ child = "none" /\ cfds = [f \in Fd |-> Closed]
      /\ ch = [o \in Owner |-> HANDLE_INVALID] /\ cmask = "old"
      /\ told = [p \in {"fork", "report"} |-> "none"]
  BY DEF Init
<1>2. TypeOK
  BY <1>1, StartAssumption, FdFacts DEF TypeOK, Table
<1>3. Child /\ Parent /\ Decided
  BY <1>1 DEF Child, Untold, Parent, Decided, Preparing, Forking, Ending
<1>4. Handed /\ Room /\ Pipes /\ Given
  BY <1>1 DEF Handed, Room, Pipes, Given, Preparing
<1> QED
  BY <1>2, <1>3, <1>4 DEF IndInv
-----------------------------------------------------------------------------
(* Steps of the parent before there is a child *)

LEMMA PrepareStep ==
  ASSUME IndInv, ppc \in Preparing, ppc' \in Preparing, r' = "ok",
         UNCHANGED <<options, fds0, noEnv, missed, handle, result, childVars>>,
         fds' \in Table, h' \in [Owner -> Handle], mask' \in {"old", "all"},
         mask' = "all" => ppc' \in {"forkpipe", "fork"},
         Handed', Room',
         ppc' \in {"program", "block", "forkpipe", "fork"} => ReportEnd(fds', h'),
         ppc' = "fork" => ForkEnds(fds', h')
  PROVE  IndInv'
<1>1. child = "none" /\ child' = "none"
  BY DEF IndInv, Parent, childVars
<1>2. TypeOK'
  BY DEF IndInv, TypeOK, childVars
<1>3. Child' /\ Given'
  BY DEF IndInv, Child, Untold, Given, childVars
<1>4. Parent'
  BY <1>1 DEF IndInv, Parent, Preparing, Forking, Ending, childVars
<1>5. Decided' /\ Pipes'
  BY <1>1 DEF Decided, Pipes, Preparing, Ending
<1> QED
  BY <1>2, <1>3, <1>4, <1>5 DEF IndInv

(* Something has failed: reproc_start goes to its end without a child.     *)
LEMMA AbandonStep ==
  ASSUME IndInv, ppc \in Preparing, ppc' \in {"close", "finish"}, r' \in Errors \ {"EINTR"},
         UNCHANGED <<options, fds0, noEnv, missed, handle, result, childVars>>,
         fds' \in Table, h' \in [Owner -> Handle], mask' \in {"old", "all"}
  PROVE  IndInv'
<1>1. child = "none" /\ child' = "none"
  BY DEF IndInv, Parent, childVars
<1>2. TypeOK'
  BY DEF IndInv, TypeOK, childVars
<1>3. Child' /\ Given'
  BY DEF IndInv, Child, Untold, Given, childVars
<1>4. Parent'
  BY <1>1 DEF IndInv, Parent, Preparing, Forking, Ending, childVars
<1>5. Decided'
  BY <1>1 DEF IndInv, Parent, Decided, NoChild, Preparing, Ending
<1>6. Handed' /\ Room' /\ Pipes'
  BY <1>1 DEF Handed, Room, Pipes, Preparing
<1> QED
  BY <1>2, <1>3, <1>4, <1>5, <1>6 DEF IndInv

LEMMA TypeRange ==
  ASSUME Given, NEW s \in Stream
  PROVE  Type(s) \in Redirect \ {"default"} /\ (Type(s) = "stdout" => s = "err")
<1> DEFINE rd == Shorthand(options.redirect[s], options, s)
<1>1. /\ options.redirect[s] \in [type : Redirect, handle : BOOLEAN, file : BOOLEAN, path : BOOLEAN]
      /\ options.redirect[s].type = "stdout" => s = "err"
  BY StartAssumption DEF Given
<1>2. rd.type \in Redirect /\ (rd.type = "stdout" => s = "err")
  BY <1>1 DEF Shorthand, Redirect
<1>3. Type(s) = TypeOf(rd, options, s)
  BY DEF Type, Types
<1> HIDE DEF rd
<1> QED
  BY <1>2, <1>3 DEF TypeOf, Redirect

LEMMA InputIsPipe ==
  ASSUME OptionsOk(options), options.input
  PROVE  Type("in") = "pipe"
BY DEF OptionsOk, Type, Types

(* open(): the number is the lowest, and no other entry changes.           *)
LEMMA OpenFacts ==
  ASSUME NEW t \in Table, CanOpen(t), NEW file \in File
  PROVE  /\ LowestFd(t) \in Fd
         /\ Put(t, LowestFd(t), file) \in Table
         /\ FreeFds(Put(t, LowestFd(t), file)) \subseteq FreeFds(t)
<1>1. LowestFd(t) \in Fd
  BY Lowest DEF FreeFds
<1> QED
  BY <1>1, PutFacts

LEMMA TwoLowest ==
  ASSUME NEW t \in Table, CanPipe(t), NEW r0 \in File, NEW w \in File
  PROVE  /\ AtMostOne(PipeTable(t, r0, w))
         /\ AtMostOne(t) => LowFree(PipeTable(t, r0, w)) = {} /\ WriteFd(t, r0) \notin {0, 1, 2}
<1>1. /\ ReadFd(t) \in FreeFds(t) /\ WriteFd(t, r0) \in FreeFds(t) /\ ReadFd(t) # WriteFd(t, r0)
      /\ \A g \in FreeFds(t) : ReadFd(t) <= g
      /\ \A g \in FreeFds(t) \ {ReadFd(t)} : WriteFd(t, r0) <= g
      /\ FreeFds(PipeTable(t, r0, w)) = FreeFds(t) \ {ReadFd(t), WriteFd(t, r0)}
  BY PipeFacts
<1>2. FreeFds(t) \subseteq Nat
  BY FdFacts DEF FreeFds
<1>3. AtMostOne(PipeTable(t, r0, w))
  BY <1>1, <1>2 DEF AtMostOne, LowFree
<1>4. ASSUME AtMostOne(t) PROVE LowFree(PipeTable(t, r0, w)) = {} /\ WriteFd(t, r0) \notin {0, 1, 2}
  BY <1>1, <1>2, <1>4 DEF AtMostOne, LowFree
<1> QED
  BY <1>3, <1>4

(* redirect_init gives the child a number for the stream.                  *)
LEMMA RedirectFacts ==
  ASSUME IndInv, NEW s \in Stream, RedirectStream(s), s = "err" => h["cout"] \in Fd
  PROVE  /\ fds' \in Table /\ h' \in [Owner -> Handle]
         /\ h'[Childs[s]] \in Fd
         /\ \A o \in {"cin", "cout", "cerr"} \ {Childs[s]} : h'[o] = h[o]
         /\ FreeFds(fds') \subseteq FreeFds(fds)
         /\ Type(s) = "pipe" => AtMostOne(fds')
<1> USE DEF IndInv, TypeOK
<1>0. /\ Childs[s] \in {"cin", "cout", "cerr"} /\ Childs[s] \in Owner /\ s \in Owner
      /\ s \notin {"cin", "cout", "cerr"}
      /\ ReadEnd[s] \in File /\ WriteEnd[s] \in File /\ {"null", "path"} \subseteq File
  BY DEF Stream, Childs, Owner, Parental, File, PipeEnd, PipeName, ReadEnd, WriteEnd
<1>1. CASE Type(s) = "pipe"
  <2> DEFINE rf == ReadFd(fds)
             wf == WriteFd(fds, ReadEnd[s])
  <2>1. /\ CanPipe(fds) /\ fds' = PipeTable(fds, ReadEnd[s], WriteEnd[s])
        /\ \/ h' = [h EXCEPT ![Childs[s]] = rf, ![s] = wf]
           \/ h' = [h EXCEPT ![s] = rf, ![Childs[s]] = wf]
    BY <1>1 DEF RedirectStream, MakePipe
  <2>2. /\ fds' \in Table /\ FreeFds(fds') \subseteq FreeFds(fds)
        /\ rf \in Fd /\ wf \in Fd
    BY <1>0, <2>1, PipeFacts DEF FreeFds
  <2>3. AtMostOne(fds')
    BY <1>0, <2>1, TwoLowest
  <2> HIDE DEF rf, wf
  <2>4. /\ rf \in Handle /\ wf \in Handle
        /\ Childs[s] # s /\ {"cin", "cout", "cerr"} \subseteq Owner
    BY <1>0, <2>2, FdFacts DEF Owner
  <2>5. /\ h' \in [Owner -> Handle]
        /\ h'[Childs[s]] \in Fd
        /\ \A o \in {"cin", "cout", "cerr"} \ {Childs[s]} : h'[o] = h[o]
    <3>1. CASE h' = [h EXCEPT ![Childs[s]] = rf, ![s] = wf]
      BY <1>0, <2>2, <2>4, <3>1
    <3>2. CASE h' = [h EXCEPT ![s] = rf, ![Childs[s]] = wf]
      BY <1>0, <2>2, <2>4, <3>2
    <3> QED
      BY <2>1, <3>1, <3>2
  <2> QED
    BY <2>2, <2>3, <2>5
<1>2. ASSUME NEW f \in Fd, Borrow(s, f), Type(s) # "pipe"
      PROVE  /\ fds' \in Table /\ h' \in [Owner -> Handle]
             /\ h'[Childs[s]] \in Fd
             /\ \A o \in {"cin", "cout", "cerr"} \ {Childs[s]} : h'[o] = h[o]
             /\ FreeFds(fds') \subseteq FreeFds(fds)
  BY <1>0, <1>2, FdFacts DEF Borrow, Owner
<1>3. ASSUME NEW file \in File, OpenFor(s, file), Type(s) # "pipe"
      PROVE  /\ fds' \in Table /\ h' \in [Owner -> Handle]
             /\ h'[Childs[s]] \in Fd
             /\ \A o \in {"cin", "cout", "cerr"} \ {Childs[s]} : h'[o] = h[o]
             /\ FreeFds(fds') \subseteq FreeFds(fds)
  <2>1. /\ LowestFd(fds) \in Fd /\ fds' \in Table
        /\ FreeFds(fds') \subseteq FreeFds(fds)
        /\ h' = [h EXCEPT ![Childs[s]] = LowestFd(fds)]
    BY <1>3, OpenFacts DEF OpenFor
  <2> QED
    BY <1>0, <2>1, FdFacts DEF Owner
<1>4. UserFd \in Fd
  BY StartAssumption DEF UserFd, Holds, Given
<1>5. StdFd[s] \in Fd
  BY FdFacts
<1>6. CASE Type(s) = "parent"
  BY <1>0, <1>2, <1>3, <1>5, <1>6 DEF RedirectStream
<1>7. CASE Type(s) \in {"discard", "path"}
  BY <1>0, <1>3, <1>7 DEF RedirectStream
<1>8. CASE Type(s) \in {"handle", "file"}
  BY <1>2, <1>4, <1>8 DEF RedirectStream
<1>9. CASE Type(s) = "stdout"
  <2>1. h["cout"] \in Fd
    BY <1>9, TypeRange
  <2> QED
    BY <1>2, <1>9, <2>1 DEF RedirectStream
<1> QED
  BY <1>1, <1>6, <1>7, <1>8, <1>9, TypeRange DEF Redirect

LEMMA ParseStep == ASSUME IndInv, Parse PROVE IndInv'
<1>1. /\ ppc = "parse" /\ UNCHANGED <<options, fds0, noEnv, missed, handle, result, childVars, fds, h, mask>>
      /\ IF OptionsOk(options) THEN GoTo("redirect.in", "ok") ELSE GoTo("finish", EINVAL)
  BY DEF Parse, Keep
<1>2. ppc \in Preparing /\ child = "none" /\ fds \in Table /\ h \in [Owner -> Handle] /\ mask = "old"
  BY <1>1 DEF IndInv, TypeOK, Parent, Preparing, Ending
<1>3. CASE OptionsOk(options)
  <2>1. ppc' = "redirect.in" /\ r' = "ok" /\ OptionsOk(options)'
    BY <1>1, <1>3 DEF GoTo, OptionsOk, RedirectOk, Types
  <2>2. Handed' /\ Room'
    BY <1>1, <1>2, <2>1 DEF Handed, Room, Preparing, childVars
  <2> QED
    BY <1>1, <1>2, <2>1, <2>2, PrepareStep DEF Preparing
<1>4. CASE ~OptionsOk(options)
  BY <1>1, <1>2, <1>4, AbandonStep DEF GoTo, Errors, EINVAL
<1> QED
  BY <1>3, <1>4

LEMMA RedirectStep == ASSUME IndInv, NEW s \in Stream, RedirectInit(s) PROVE IndInv'
<1>1. /\ ppc = [in |-> "redirect.in", out |-> "redirect.out", err |-> "redirect.err"][s]
      /\ UNCHANGED <<options, fds0, noEnv, missed, handle, result, childVars, mask>>
  BY DEF RedirectInit, Keep
<1>2. /\ ppc \in {"redirect.in", "redirect.out", "redirect.err"}
      /\ ppc = "redirect.in" <=> s = "in"
      /\ ppc = "redirect.out" <=> s = "out"
  BY <1>1 DEF Stream
<1>3. ppc \in Preparing /\ child = "none" /\ fds \in Table /\ h \in [Owner -> Handle] /\ mask = "old"
  BY <1>2 DEF IndInv, TypeOK, Parent, Preparing, Ending
<1>4. CASE /\ RedirectStream(s)
           /\ GoTo([in |-> "redirect.out", out |-> "redirect.err", err |-> "exit"][s], "ok")
  <2>1. /\ r' = "ok" /\ ppc' \in {"redirect.out", "redirect.err", "exit"}
        /\ ppc' = "redirect.out" <=> s = "in"
        /\ ppc' = "redirect.err" <=> s = "out"
    BY <1>4 DEF GoTo, Stream
  <2>2. s = "err" => h["cout"] \in Fd
    BY <1>2, <1>3 DEF IndInv, Handed, Stream
  <2>3. /\ fds' \in Table /\ h' \in [Owner -> Handle]
        /\ h'[Childs[s]] \in Fd
        /\ \A o \in {"cin", "cout", "cerr"} \ {Childs[s]} : h'[o] = h[o]
        /\ FreeFds(fds') \subseteq FreeFds(fds)
        /\ Type(s) = "pipe" => AtMostOne(fds')
    BY <1>4, <2>2, RedirectFacts
  <2>4. Handed'
    BY <1>1, <1>2, <1>3, <2>1, <2>3
       DEF IndInv, Handed, Childs, Stream, Preparing, childVars
  <2>5. options.input => AtMostOne(fds')
    <3>1. CASE s = "in"
      BY <1>2, <2>3, <3>1, InputIsPipe DEF IndInv, Room
    <3>2. CASE s # "in"
      BY <1>2, <2>3, <3>2 DEF IndInv, Room, AtMostOne, LowFree
    <3> QED
      BY <3>1, <3>2
  <2>6. Room'
    BY <1>1, <2>1, <2>5 DEF Room, AtMostOne, LowFree, FreeFds
  <2> QED
    BY <1>1, <1>3, <2>1, <2>3, <2>4, <2>6, PrepareStep DEF Preparing
<1>5. CASE GoTo("finish", "EMFILE") /\ UNCHANGED <<fds, h>>
  BY <1>1, <1>3, <1>5, AbandonStep DEF GoTo, Errors
<1> QED
  BY <1>4, <1>5 DEF RedirectInit

LEMMA ExitPipeStep == ASSUME IndInv, ExitPipe PROVE IndInv'
<1>1. ppc = "exit" /\ UNCHANGED <<options, fds0, noEnv, missed, handle, result, childVars, mask>>
  BY DEF ExitPipe, Keep
<1>2. ppc \in Preparing /\ child = "none" /\ fds \in Table /\ h \in [Owner -> Handle] /\ mask = "old"
  BY <1>1 DEF IndInv, TypeOK, Parent, Preparing, Ending
<1>3. CASE MakePipe("exit", "exit", "cexit") /\ GoTo("input", "ok")
  <2> DEFINE rf == ReadFd(fds)
             wf == WriteFd(fds, ReadEnd["exit"])
  <2>1. /\ CanPipe(fds) /\ fds' = PipeTable(fds, ReadEnd["exit"], WriteEnd["exit"])
        /\ h' = [h EXCEPT !["exit"] = rf, !["cexit"] = wf]
        /\ ppc' = "input" /\ r' = "ok"
    BY <1>3 DEF MakePipe, GoTo
  <2>2. ReadEnd["exit"] \in File /\ WriteEnd["exit"] \in File
    BY DEF File, PipeEnd, PipeName, ReadEnd, WriteEnd
  <2>3. fds' \in Table /\ rf \in Fd /\ wf \in Fd
    BY <1>2, <2>1, <2>2, PipeFacts DEF FreeFds
  <2>4. AtMostOne(fds') /\ (AtMostOne(fds) => LowFree(fds') = {})
    BY <1>2, <2>1, <2>2, TwoLowest
  <2> HIDE DEF rf, wf
  <2>5. h' \in [Owner -> Handle] /\ h'["cexit"] \in Fd
        /\ \A o \in {"cin", "cout", "cerr"} : h'[o] = h[o]
    BY <1>2, <2>1, <2>3, FdFacts DEF Owner, Parental
  <2>6. Handed'
    BY <1>1, <1>2, <2>1, <2>5 DEF IndInv, Handed, Preparing, childVars
  <2>7. Room'
    BY <1>1, <2>1, <2>4 DEF IndInv, Room, AtMostOne, LowFree, FreeFds
  <2> QED
    BY <1>1, <1>2, <2>1, <2>3, <2>5, <2>6, <2>7, PrepareStep DEF Preparing
<1>4. CASE GoTo("finish", "EMFILE") /\ UNCHANGED <<fds, h>>
  BY <1>1, <1>2, <1>4, AbandonStep DEF GoTo, Errors
<1> QED
  BY <1>3, <1>4 DEF ExitPipe

(* setup_input frees one number, in a table where none below 3 was free.   *)
LEMMA SetupInputStep == ASSUME IndInv, SetupInput PROVE IndInv'
<1>1. ppc = "input" /\ UNCHANGED <<options, fds0, noEnv, missed, handle, result, childVars, mask>>
  BY DEF SetupInput, Keep
<1>2. /\ ppc \in Preparing /\ child = "none" /\ fds \in Table /\ h \in [Owner -> Handle]
      /\ mask = "old" /\ AtMostOne(fds)
  BY <1>1 DEF IndInv, TypeOK, Parent, Preparing, Ending, Room
<1>3. CASE /\ GoTo("start", "ok") /\ options.input /\ fds' = Destroy(fds, h["in"])
           /\ h' = [h EXCEPT !["in"] = HANDLE_INVALID]
  <2>1. LowFree(fds) = {}
    BY <1>1, <1>3 DEF IndInv, Room
  <2>2. fds' \in Table /\ \A f \in Fd : f # h["in"] => fds'[f] = fds[f]
    BY <1>2, <1>3, FdFacts DEF Destroy, Table
  <2>3. AtMostOne(fds')
    BY <2>1, <2>2 DEF AtMostOne, LowFree, FreeFds
  <2>4. h' \in [Owner -> Handle] /\ \A o \in {"cin", "cout", "cerr", "cexit"} : h'[o] = h[o]
    BY <1>2, <1>3, FdFacts DEF Owner, Parental
  <2>5. ppc' = "start" /\ r' = "ok"
    BY <1>3 DEF GoTo
  <2>6. Handed'
    BY <1>1, <1>2, <2>4, <2>5 DEF IndInv, Handed, Preparing, childVars
  <2>7. Room'
    BY <2>3, <2>5 DEF Room, AtMostOne, LowFree, FreeFds
  <2> QED
    BY <1>1, <1>2, <2>2, <2>4, <2>5, <2>6, <2>7, PrepareStep DEF Preparing
<1>4. CASE GoTo("finish", "EAGAIN") /\ UNCHANGED <<fds, h>>
  BY <1>1, <1>2, <1>4, AbandonStep DEF GoTo, Errors
<1>5. CASE GoTo("start", "ok") /\ UNCHANGED <<fds, h>>
  <2>1. ppc' = "start" /\ r' = "ok"
    BY <1>5 DEF GoTo
  <2>2. Handed' /\ Room'
    BY <1>1, <1>2, <1>5, <2>1
       DEF IndInv, Handed, Room, Preparing, childVars, AtMostOne, LowFree, FreeFds
  <2> QED
    BY <1>1, <1>2, <1>5, <2>1, <2>2, PrepareStep DEF Preparing
<1> QED
  BY <1>3, <1>4, <1>5 DEF SetupInput

LEMMA ReportPipeStep == ASSUME IndInv, ReportPipe PROVE IndInv'
<1>1. ppc = "start" /\ UNCHANGED <<options, fds0, noEnv, missed, handle, result, childVars, mask>>
  BY DEF ReportPipe, Keep
<1>2. /\ ppc \in Preparing /\ child = "none" /\ fds \in Table /\ h \in [Owner -> Handle]
      /\ mask = "old" /\ AtMostOne(fds)
  BY <1>1 DEF IndInv, TypeOK, Parent, Preparing, Ending, Room
<1>3. CASE MakePipe("report", "report.r", "report.w") /\ GoTo("program", "ok")
  <2> DEFINE rf == ReadFd(fds)
             wf == WriteFd(fds, ReadEnd["report"])
  <2>1. /\ CanPipe(fds) /\ fds' = PipeTable(fds, ReadEnd["report"], WriteEnd["report"])
        /\ h' = [h EXCEPT !["report.r"] = rf, !["report.w"] = wf]
        /\ ppc' = "program" /\ r' = "ok"
    BY <1>3 DEF MakePipe, GoTo
  <2>2. ReadEnd["report"] \in File /\ WriteEnd["report"] \in File
    BY DEF File, PipeEnd, PipeName, ReadEnd, WriteEnd
  <2>3. fds' \in Table /\ rf \in Fd /\ wf \in Fd /\ fds'[wf].file = WriteEnd["report"]
    BY <1>2, <2>1, <2>2, PipeFacts DEF FreeFds
  <2>4. wf \notin {0, 1, 2}
    BY <1>2, <2>1, <2>2, TwoLowest
  <2> HIDE DEF rf, wf
  <2>5. h' \in [Owner -> Handle] /\ h'["report.w"] = wf
        /\ \A o \in {"cin", "cout", "cerr", "cexit"} : h'[o] = h[o]
    BY <1>2, <2>1, <2>3, FdFacts DEF Owner, Parental
  <2>6. Handed'
    BY <1>1, <1>2, <2>1, <2>5 DEF IndInv, Handed, Preparing, childVars
  <2>7. Room' /\ ReportEnd(fds', h')
    BY <2>1, <2>3, <2>4, <2>5 DEF Room, ReportEnd
  <2> QED
    BY <1>1, <1>2, <2>1, <2>3, <2>5, <2>6, <2>7, PrepareStep DEF Preparing
<1>4. CASE GoTo("finish", "EMFILE") /\ UNCHANGED <<fds, h>>
  BY <1>1, <1>2, <1>4, AbandonStep DEF GoTo, Errors
<1> QED
  BY <1>3, <1>4 DEF ReportPipe

LEMMA ProgramStep == ASSUME IndInv, Program PROVE IndInv'
<1>1. ppc = "program" /\ UNCHANGED <<options, fds0, missed, handle, result, childVars, mask, fds, h>>
  BY DEF Program
<1>2. /\ ppc \in Preparing /\ child = "none" /\ fds \in Table /\ h \in [Owner -> Handle]
      /\ mask = "old" /\ handle = PROCESS_INVALID /\ result = "none"
  BY <1>1 DEF IndInv, TypeOK, Parent, Preparing, Ending
<1>3. CASE GoTo("block", "ok") /\ UNCHANGED noEnv
  <2>1. ppc' = "block" /\ r' = "ok"
    BY <1>3 DEF GoTo
  <2>2. Handed' /\ Room' /\ ReportEnd(fds', h')
    BY <1>1, <1>2, <2>1 DEF IndInv, Handed, Room, Pipes, ReportEnd, Preparing, childVars
  <2> QED
    BY <1>1, <1>2, <1>3, <2>1, <2>2, PrepareStep DEF Preparing
<1>4. CASE GoTo("close", "ENOMEM") /\ UNCHANGED noEnv
  BY <1>1, <1>2, <1>4, AbandonStep DEF GoTo, Errors
<1>5. CASE GoTo("close", "ok") /\ noEnv' = TRUE
  <2>1. ppc' = "close" /\ r' = "ok" /\ noEnv'
    BY <1>5 DEF GoTo
  <2>2. TypeOK' /\ Child' /\ Given'
    BY <1>1, <2>1 DEF IndInv, TypeOK, Child, Untold, Given, childVars
  <2>3. Parent' /\ Decided'
    BY <1>1, <1>2, <2>1 DEF Parent, Decided, NoCopy, Preparing, Forking, Ending, childVars
  <2>4. Handed' /\ Room' /\ Pipes'
    BY <1>1, <1>2, <2>1 DEF Handed, Room, Pipes, Preparing, childVars
  <2> QED
    BY <2>2, <2>3, <2>4 DEF IndInv
<1> QED
  BY <1>3, <1>4, <1>5 DEF Program

LEMMA BlockSignalsStep == ASSUME IndInv, BlockSignals PROVE IndInv'
<1>1. /\ ppc = "block" /\ mask' = "all" /\ ppc' = "forkpipe" /\ r' = "ok"
      /\ UNCHANGED <<options, fds0, noEnv, missed, handle, result, childVars, fds, h>>
  BY DEF BlockSignals, GoTo
<1>2. ppc \in Preparing /\ child = "none" /\ fds \in Table /\ h \in [Owner -> Handle]
  BY <1>1 DEF IndInv, TypeOK, Parent, Preparing
<1>3. Handed' /\ Room' /\ ReportEnd(fds', h')
  BY <1>1, <1>2 DEF IndInv, Handed, Room, Pipes, ReportEnd, Preparing, childVars
<1> QED
  BY <1>1, <1>2, <1>3, PrepareStep DEF Preparing

LEMMA ForkPipeStep == ASSUME IndInv, ForkPipe PROVE IndInv'
<1>1. ppc = "forkpipe" /\ UNCHANGED <<options, fds0, noEnv, missed, handle, result, childVars, mask>>
  BY DEF ForkPipe, Keep
<1>2. /\ ppc \in Preparing /\ child = "none" /\ fds \in Table /\ h \in [Owner -> Handle]
      /\ mask \in {"old", "all"} /\ ReportEnd(fds, h)
  BY <1>1 DEF IndInv, TypeOK, Parent, Preparing, Ending, Pipes
<1>3. CASE MakePipe("fork", "fork.r", "fork.w") /\ GoTo("fork", "ok")
  <2> DEFINE rf == ReadFd(fds)
             wf == WriteFd(fds, ReadEnd["fork"])
  <2>1. /\ CanPipe(fds) /\ fds' = PipeTable(fds, ReadEnd["fork"], WriteEnd["fork"])
        /\ h' = [h EXCEPT !["fork.r"] = rf, !["fork.w"] = wf]
        /\ ppc' = "fork" /\ r' = "ok"
    BY <1>3 DEF MakePipe, GoTo
  <2>2. ReadEnd["fork"] \in File /\ WriteEnd["fork"] \in File
    BY DEF File, PipeEnd, PipeName, ReadEnd, WriteEnd
  <2>3. /\ fds' \in Table /\ rf \in Fd /\ wf \in Fd
        /\ fds'[rf].file = ReadEnd["fork"] /\ fds'[wf].file = WriteEnd["fork"]
        /\ \A g \in Fd : fds[g] # Closed => fds'[g] = fds[g]
    BY <1>2, <2>1, <2>2, PipeFacts DEF FreeFds
  <2> HIDE DEF rf, wf
  <2>4. h' \in [Owner -> Handle] /\ h'["fork.r"] = rf /\ h'["fork.w"] = wf
        /\ \A o \in {"cin", "cout", "cerr", "cexit", "report.w"} : h'[o] = h[o]
    BY <1>2, <2>1, <2>3, FdFacts DEF Owner, Parental
  <2>5. Handed' /\ Room'
    BY <1>1, <1>2, <2>1, <2>4 DEF IndInv, Handed, Room, Preparing, childVars
  <2>6. ReportEnd(fds', h') /\ ForkEnds(fds', h')
    BY <1>2, <2>3, <2>4 DEF ReportEnd, ForkEnds, Closed, NoFile, WriteEnd
  <2> QED
    BY <1>1, <1>2, <2>1, <2>3, <2>4, <2>5, <2>6, PrepareStep DEF Preparing
<1>4. CASE GoTo("close", "EMFILE") /\ UNCHANGED <<fds, h>>
  BY <1>1, <1>2, <1>4, AbandonStep DEF GoTo, Errors
<1> QED
  BY <1>3, <1>4 DEF ForkPipe

LEMMA ClosingFacts ==
  ASSUME NEW t \in Table, NEW S
  PROVE  /\ DestroyAll(t, S) \in Table
         /\ \A f \in Fd \ S : DestroyAll(t, S)[f] = t[f]
BY FdFacts DEF DestroyAll, Table

LEMMA ForkFailsStep == ASSUME IndInv, ForkFails PROVE IndInv'
<1>1. /\ ppc = "fork" /\ ppc' = "close" /\ r' = "EAGAIN" /\ mask' = "all"
      /\ UNCHANGED <<options, fds0, noEnv, missed, handle, result, childVars>>
      /\ fds' = DestroyAll(fds, {h["fork.r"], h["fork.w"]})
      /\ h' = [h EXCEPT !["fork.r"] = HANDLE_INVALID, !["fork.w"] = HANDLE_INVALID]
  BY DEF ForkFails, GoTo
<1>2. fds' \in Table /\ h' \in [Owner -> Handle]
  BY <1>1, ClosingFacts, FdFacts DEF IndInv, TypeOK
<1> QED
  BY <1>1, <1>2, AbandonStep DEF Preparing, Errors

LEMMA ForkStep == ASSUME IndInv, Fork PROVE IndInv'
<1>1. /\ ppc = "fork" /\ ppc' = "forked" /\ r' = "ok"
      /\ child' = "alive" /\ cpc' = "reset" /\ cfds' = fds /\ ch' = h /\ cmask' = mask
      /\ UNCHANGED <<options, fds0, noEnv, missed, handle, result, mask, fds, h, told>>
  BY DEF Fork, Keep, GoTo
<1>2. /\ child = "none" /\ handle = PROCESS_INVALID /\ ~noEnv /\ result = "none" /\ Untold
  BY <1>1 DEF IndInv, Parent, Child, Preparing, Ending
<1>3. TypeOK' /\ Given'
  BY <1>1 DEF IndInv, TypeOK, Given
<1>4. Child' /\ Parent' /\ Decided'
  BY <1>1, <1>2 DEF Child, Untold, Starting, InFork, Parent, Decided, Preparing, Forking, Ending
<1>5. Handed' /\ Room' /\ Pipes'
  BY <1>1 DEF IndInv, Handed, Room, Pipes, ReportEnd, ForkEnds, Preparing, Starting, InFork
<1> QED
  BY <1>3, <1>4, <1>5 DEF IndInv
-----------------------------------------------------------------------------
(* Steps of the parent when there is a child, and to the end *)

LEMMA ParentStep ==
  ASSUME IndInv, ppc \in Forking \cup Ending, ppc' \in Forking \cup Ending,
         child' = child \/ (child = "zombie" /\ child' = "reaped"),
         UNCHANGED <<options, fds0, cpc, cfds, ch, cmask, told>>,
         fds' \in Table, h' \in [Owner -> Handle], mask' \in {"old", "all"},
         r' \in Errors \cup {"ok", "started"}, handle' \in {PROCESS_INVALID, Pid},
         missed' = missed \/ missed' \subseteq {"fork", "report"},
         result' \in Errors \cup {"started", "none"},
         Parent', Decided'
  PROVE  IndInv'
<1>1. TypeOK' /\ Child' /\ Given'
  BY DEF IndInv, TypeOK, Child, Untold, Given
<1>2. Handed' /\ Room'
  BY DEF IndInv, Handed, Room, Preparing, Forking, Ending
<1>3. Pipes'
  BY DEF IndInv, Pipes, ReportEnd, ForkEnds, Forking, Ending
<1> QED
  BY <1>1, <1>2, <1>3 DEF IndInv

(* What the steps below start from.                                        *)
LEMMA ForkingFacts ==
  ASSUME IndInv, ppc \in Forking
  PROVE  /\ child # "none" /\ handle = PROCESS_INVALID /\ ~noEnv /\ result = "none"
         /\ fds \in Table /\ h \in [Owner -> Handle] /\ mask \in {"old", "all"}
         /\ r \in Errors \cup {"ok", "started"}
         /\ ppc # "forked" => mask = "old"
         /\ \A p \in {"fork", "report"} : told[p] \in Errors \cup {"none"}
         /\ missed \subseteq {"fork", "report"}
BY DEF IndInv, Parent, TypeOK, Child, Untold, Forking, Ending

LEMMA ForkedStep == ASSUME IndInv, Forked PROVE IndInv'
<1>1. /\ ppc = "forked" /\ mask' = "old" /\ ppc' = "fork.read" /\ r' = "ok"
      /\ fds' = Destroy(fds, h["fork.w"])
      /\ h' = [h EXCEPT !["fork.w"] = HANDLE_INVALID]
      /\ UNCHANGED <<options, fds0, noEnv, missed, handle, result, child, cpc, cfds, ch, cmask, told>>
  BY DEF Forked, GoTo, childVars
<1>2. /\ child # "none" /\ handle = PROCESS_INVALID /\ ~noEnv /\ result = "none"
      /\ fds \in Table /\ h \in [Owner -> Handle]
  BY <1>1, ForkingFacts DEF Forking
<1>3. fds' \in Table /\ h' \in [Owner -> Handle]
  BY <1>1, <1>2, FdFacts DEF Destroy, Table
<1>4. Parent' /\ Decided'
  BY <1>1, <1>2 DEF Parent, Decided, Preparing, Forking, Ending
<1> QED
  BY <1>1, <1>2, <1>3, <1>4, ParentStep DEF Forking

LEMMA ForkReadStep == ASSUME IndInv, ForkRead PROVE IndInv'
<1>1. /\ ppc = "fork.read"
      /\ UNCHANGED <<options, fds0, noEnv, missed, handle, result, mask, child, cpc, cfds, ch, cmask, told>>
  BY DEF ForkRead, NothingFromFork, Keep, childVars
<1>2. /\ child # "none" /\ handle = PROCESS_INVALID /\ ~noEnv /\ result = "none"
      /\ fds \in Table /\ h \in [Owner -> Handle] /\ mask = "old"
      /\ told["fork"] \in Errors \cup {"none"}
  BY <1>1, ForkingFacts DEF Forking
<1>3. CASE told["fork"] # "none" /\ GoTo("fork.wait", told["fork"]) /\ UNCHANGED <<fds, h>>
  <2>1. Parent' /\ Decided'
    BY <1>1, <1>2, <1>3 DEF GoTo, Parent, Decided, Preparing, Forking, Ending
  <2> QED
    BY <1>1, <1>2, <1>3, <2>1, ParentStep DEF GoTo, Forking
<1>4. CASE /\ told["fork"] = "none" /\ NoWriter("fork") /\ GoTo("report.close", "ok")
           /\ fds' = Destroy(fds, h["fork.r"]) /\ h' = [h EXCEPT !["fork.r"] = HANDLE_INVALID]
  <2>1. child = "alive" => cpc \notin InFork
    BY <1>4 DEF IndInv, Pipes, ForkEnds, NoWriter, Holds
  <2>2. fds' \in Table /\ h' \in [Owner -> Handle]
    BY <1>2, <1>4, FdFacts DEF Destroy, Table
  <2>3. Parent' /\ Decided'
    BY <1>1, <1>2, <1>4, <2>1 DEF GoTo, Parent, PastFork, Decided, Preparing, Forking, Ending
  <2> QED
    BY <1>1, <1>2, <1>4, <2>2, <2>3, ParentStep DEF GoTo, Forking
<1> QED
  BY <1>3, <1>4 DEF ForkRead, NothingFromFork

LEMMA ForkReadInterruptedStep == ASSUME IndInv, ForkReadInterrupted PROVE IndInv'
<1>1. /\ ppc = "fork.read" /\ ppc' = "report.close" /\ r' = "ok"
      /\ fds' = Destroy(fds, h["fork.r"]) /\ h' = [h EXCEPT !["fork.r"] = HANDLE_INVALID]
      /\ missed' = missed \cup {"fork"}
      /\ UNCHANGED <<options, fds0, noEnv, handle, result, mask, child, cpc, cfds, ch, cmask, told>>
  BY DEF ForkReadInterrupted, SleepsInRead, NothingFromFork, GoTo, childVars
<1>2. /\ child # "none" /\ handle = PROCESS_INVALID /\ ~noEnv /\ result = "none"
      /\ fds \in Table /\ h \in [Owner -> Handle] /\ mask = "old"
      /\ missed \subseteq {"fork", "report"}
  BY <1>1, ForkingFacts DEF Forking
<1>3. fds' \in Table /\ h' \in [Owner -> Handle]
  BY <1>1, <1>2, FdFacts DEF Destroy, Table
<1>4. Parent' /\ Decided'
  BY <1>1, <1>2 DEF Parent, Decided, Preparing, Forking, Ending
<1> QED
  BY <1>1, <1>2, <1>3, <1>4, ParentStep DEF Forking

LEMMA ReadAssertsStep == ASSUME IndInv, ReadAsserts PROVE IndInv'
<1>1. /\ ppc \in {"fork.read", "report.read"} /\ ppc' = "aborted" /\ r' = r
      /\ UNCHANGED <<options, fds0, noEnv, missed, handle, result, mask, fds, h,
                     child, cpc, cfds, ch, cmask, told>>
  BY DEF ReadAsserts, SleepsInRead, GoTo, Keep, childVars
<1>2. /\ child # "none" /\ handle = PROCESS_INVALID /\ ~noEnv /\ result = "none"
      /\ fds \in Table /\ h \in [Owner -> Handle] /\ mask = "old"
      /\ r \in Errors \cup {"ok", "started"} /\ missed \subseteq {"fork", "report"}
  BY <1>1, ForkingFacts DEF Forking
<1>3. Parent' /\ Decided'
  BY <1>1, <1>2 DEF Parent, Decided, Preparing, Forking, Ending
<1> QED
  BY <1>1, <1>2, <1>3, ParentStep DEF Forking

LEMMA ForkWaitStep == ASSUME IndInv, ForkWait PROVE IndInv'
<1>1. /\ ppc = "fork.wait" /\ ppc' = "fork.close" /\ child' = "reaped"
      /\ child \in {"zombie", "reaped"} /\ r' \in {r, "ECHILD"}
      /\ UNCHANGED <<options, fds0, noEnv, missed, handle, result, mask, fds, h, cpc, cfds, ch, cmask, told>>
  BY DEF ForkWait, WaitTold, Keep, GoTo
<1>2. /\ handle = PROCESS_INVALID /\ ~noEnv /\ result = "none"
      /\ fds \in Table /\ h \in [Owner -> Handle] /\ mask = "old"
      /\ r \in Errors \cup {"ok", "started"}
  BY <1>1, ForkingFacts DEF Forking
<1>3. r = told["fork"] /\ told["fork"] # "none"
  BY <1>1 DEF IndInv, Parent
<1>4. Parent' /\ Decided'
  BY <1>1, <1>2, <1>3 DEF Parent, Decided, Preparing, Forking, Ending
<1>5. r' \in Errors \cup {"ok", "started"}
  BY <1>1, <1>2 DEF Errors
<1> QED
  BY <1>1, <1>2, <1>4, <1>5, ParentStep DEF Forking

LEMMA ForkCloseStep == ASSUME IndInv, ForkClose PROVE IndInv'
<1>1. /\ ppc = "fork.close" /\ ppc' = "close" /\ r' = r
      /\ fds' = Destroy(fds, h["fork.r"])
      /\ h' = [h EXCEPT !["fork.r"] = HANDLE_INVALID]
      /\ UNCHANGED <<options, fds0, noEnv, missed, handle, result, mask, child, cpc, cfds, ch, cmask, told>>
  BY DEF ForkClose, Keep, GoTo, childVars
<1>2. /\ child # "none" /\ handle = PROCESS_INVALID /\ ~noEnv /\ result = "none"
      /\ fds \in Table /\ h \in [Owner -> Handle] /\ mask = "old"
      /\ told["fork"] \in Errors \cup {"none"}
  BY <1>1, ForkingFacts DEF Forking
<1>3. /\ told["fork"] # "none" /\ r \in {told["fork"], "ECHILD", "EINTR"}
      /\ child = "reaped" \/ r = "EINTR"
      /\ told["report"] = "none"
  BY <1>1 DEF IndInv, Parent, Child
<1>4. r \in Errors
  BY <1>2, <1>3 DEF Errors
<1>5. fds' \in Table /\ h' \in [Owner -> Handle]
  BY <1>1, <1>2, FdFacts DEF Destroy, Table
<1>6. Decided'
  BY <1>1, <1>2, <1>3, <1>4 DEF Decided, TellsWhy, Untold
<1>7. Parent'
  BY <1>1, <1>2 DEF Parent, Preparing, Forking, Ending
<1> QED
  BY <1>1, <1>2, <1>4, <1>5, <1>6, <1>7, ParentStep DEF Forking, Ending

LEMMA ReportCloseStep == ASSUME IndInv, ReportClose PROVE IndInv'
<1>1. /\ ppc = "report.close" /\ ppc' = "report.read" /\ r' = "ok"
      /\ fds' = Destroy(fds, h["report.w"])
      /\ h' = [h EXCEPT !["report.w"] = HANDLE_INVALID]
      /\ UNCHANGED <<options, fds0, noEnv, missed, handle, result, mask, child, cpc, cfds, ch, cmask, told>>
  BY DEF ReportClose, Keep, GoTo, childVars
<1>2. /\ child # "none" /\ handle = PROCESS_INVALID /\ ~noEnv /\ result = "none"
      /\ fds \in Table /\ h \in [Owner -> Handle] /\ mask = "old"
  BY <1>1, ForkingFacts DEF Forking
<1>3. fds' \in Table /\ h' \in [Owner -> Handle]
  BY <1>1, <1>2, FdFacts DEF Destroy, Table
<1>4. Parent' /\ Decided'
  BY <1>1, <1>2 DEF IndInv, Parent, PastFork, Decided, Preparing, Forking, Ending
<1> QED
  BY <1>1, <1>2, <1>3, <1>4, ParentStep DEF Forking

(* The end of the report pipe: the child holds its write end until it has  *)
(* its program, or has ended without a word.                               *)
LEMMA ReportReadStep == ASSUME IndInv, ReportRead PROVE IndInv'
<1>1. /\ ppc = "report.read"
      /\ UNCHANGED <<options, fds0, noEnv, missed, result, mask, fds, h, child, cpc, cfds, ch, cmask, told>>
  BY DEF ReportRead, childVars
<1>2. /\ child # "none" /\ handle = PROCESS_INVALID /\ ~noEnv /\ result = "none"
      /\ fds \in Table /\ h \in [Owner -> Handle] /\ mask = "old"
      /\ told["report"] \in Errors \cup {"none"}
  BY <1>1, ForkingFacts DEF Forking
<1>3. "fork" \in missed \/ PastFork
  BY <1>1 DEF IndInv, Parent
<1>4. CASE told["report"] # "none" /\ GoTo("report.wait", told["report"]) /\ UNCHANGED handle
  <2>1. Parent' /\ Decided'
    BY <1>1, <1>2, <1>3, <1>4 DEF GoTo, Parent, PastFork, Decided, Preparing, Forking, Ending
  <2> QED
    BY <1>1, <1>2, <1>4, <2>1, ParentStep DEF GoTo, Forking
<1>5. CASE told["report"] = "none" /\ NoWriter("report") /\ GoTo("close", "ok") /\ handle' = Pid
  <2>1. PastReport
    BY <1>5 DEF IndInv, Pipes, ReportEnd, PastReport, NoWriter, Holds
  <2>2. Decided'
    BY <1>1, <1>2, <1>3, <1>5, <2>1 DEF GoTo, Decided, Started, PastFork, PastReport
  <2>3. Parent'
    BY <1>1, <1>2, <1>5 DEF GoTo, Parent, Preparing, Forking, Ending
  <2> QED
    BY <1>1, <1>2, <1>5, <2>2, <2>3, ParentStep DEF GoTo, Forking, Ending
<1> QED
  BY <1>4, <1>5 DEF ReportRead, NothingFromReport

LEMMA ReportReadInterruptedStep == ASSUME IndInv, ReportReadInterrupted PROVE IndInv'
<1>1. /\ ppc = "report.read" /\ ppc' = "close" /\ r' = "ok" /\ handle' = Pid
      /\ missed' = missed \cup {"report"}
      /\ UNCHANGED <<options, fds0, noEnv, result, mask, fds, h, child, cpc, cfds, ch, cmask, told>>
  BY DEF ReportReadInterrupted, SleepsInRead, NothingFromReport, GoTo, childVars
<1>2. /\ child # "none" /\ handle = PROCESS_INVALID /\ ~noEnv /\ result = "none"
      /\ fds \in Table /\ h \in [Owner -> Handle] /\ mask = "old"
      /\ missed \subseteq {"fork", "report"}
  BY <1>1, ForkingFacts DEF Forking
<1>3. "fork" \in missed \/ PastFork
  BY <1>1 DEF IndInv, Parent
<1>4. Decided'
  BY <1>1, <1>2, <1>3 DEF Decided, Started, PastFork
<1>5. Parent'
  BY <1>1, <1>2 DEF Parent, Preparing, Forking, Ending
<1> QED
  BY <1>1, <1>2, <1>4, <1>5, ParentStep DEF Forking, Ending

LEMMA ReportWaitStep == ASSUME IndInv, ReportWait PROVE IndInv'
<1>1. /\ ppc = "report.wait" /\ ppc' = "close" /\ child' = "reaped"
      /\ child \in {"zombie", "reaped"} /\ r' \in {r, "ECHILD"}
      /\ UNCHANGED <<options, fds0, noEnv, missed, handle, result, mask, fds, h, cpc, cfds, ch, cmask, told>>
  BY DEF ReportWait, WaitTold, Keep, GoTo
<1>2. /\ handle = PROCESS_INVALID /\ ~noEnv /\ result = "none"
      /\ fds \in Table /\ h \in [Owner -> Handle] /\ mask = "old"
      /\ told["report"] \in Errors \cup {"none"}
  BY <1>1, ForkingFacts DEF Forking
<1>3. r = told["report"] /\ told["report"] # "none" /\ told["fork"] = "none"
  BY <1>1 DEF IndInv, Parent, Child
<1>4. r' \in Errors
  BY <1>1, <1>2, <1>3 DEF Errors
<1>5. Decided'
  BY <1>1, <1>2, <1>3, <1>4 DEF Decided, TellsWhy, Untold
<1>6. Parent'
  BY <1>1, <1>2 DEF Parent, Preparing, Forking, Ending
<1> QED
  BY <1>1, <1>2, <1>4, <1>5, <1>6, ParentStep DEF Forking, Ending

LEMMA WaitInterruptedStep == ASSUME IndInv, WaitInterrupted PROVE IndInv'
<1>1. /\ \/ ppc = "fork.wait" /\ ppc' = "fork.close"
         \/ ppc = "report.wait" /\ ppc' = "close"
      /\ r' = "EINTR"
      /\ UNCHANGED <<options, fds0, noEnv, missed, handle, result, mask, fds, h,
                     child, cpc, cfds, ch, cmask, told>>
  BY DEF WaitInterrupted, GoTo, Keep, childVars
<1>2. /\ child # "none" /\ handle = PROCESS_INVALID /\ ~noEnv /\ result = "none"
      /\ fds \in Table /\ h \in [Owner -> Handle] /\ mask = "old"
      /\ missed \subseteq {"fork", "report"}
  BY <1>1, ForkingFacts DEF Forking
<1>3. ~Untold /\ (ppc = "fork.wait" => told["fork"] # "none")
  BY <1>1 DEF IndInv, Parent, Untold
<1>4. "EINTR" \in Errors
  BY DEF Errors
<1>5. Decided'
  BY <1>1, <1>2, <1>3, <1>4 DEF Decided, TellsWhy, Untold, Ending
<1>6. Parent'
  BY <1>1, <1>2, <1>3 DEF Parent, Preparing, Forking, Ending
<1> QED
  BY <1>1, <1>2, <1>4, <1>5, <1>6, ParentStep DEF Forking, Ending

LEMMA CloseReportStep == ASSUME IndInv, CloseReport PROVE IndInv'
<1>1. /\ ppc = "close" /\ ppc' = "finish" /\ r' = (IF r = "ok" THEN "started" ELSE r)
      /\ fds' = DestroyAll(fds, {h["report.r"], h["report.w"]})
      /\ h' = [h EXCEPT !["report.r"] = HANDLE_INVALID, !["report.w"] = HANDLE_INVALID]
      /\ UNCHANGED <<options, fds0, noEnv, missed, handle, result, mask, child, cpc, cfds, ch, cmask, told>>
  BY DEF CloseReport, Keep, GoTo, childVars
<1>2. /\ fds \in Table /\ h \in [Owner -> Handle] /\ mask \in {"old", "all"}
      /\ r \in Errors \cup {"ok", "started"} /\ handle \in {PROCESS_INVALID, Pid}
      /\ result = "none"
  BY <1>1 DEF IndInv, TypeOK, Parent
<1>3. fds' \in Table /\ h' \in [Owner -> Handle]
  BY <1>1, <1>2, ClosingFacts, FdFacts
<1>4. "ok" \notin Errors
  BY DEF Errors, EINVAL
<1>5. Decided'
  <2>1. NoChild \/ TellsWhy \/ ((NoCopy \/ Started) /\ r = "ok")
    BY <1>1 DEF IndInv, Decided, Ending
  <2>2. CASE NoChild
    BY <1>1, <1>4, <2>2 DEF Decided, NoChild
  <2>3. CASE TellsWhy
    BY <1>1, <1>4, <2>3 DEF Decided, TellsWhy, Untold
  <2>4. CASE (NoCopy \/ Started) /\ r = "ok"
    BY <1>1, <2>4 DEF Decided, NoCopy, Started, PastFork, PastReport
  <2> QED
    BY <2>1, <2>2, <2>3, <2>4
<1>6. Parent'
  BY <1>1, <1>2 DEF Parent, Preparing, Forking, Ending
<1> QED
  BY <1>1, <1>2, <1>3, <1>5, <1>6, ParentStep DEF Ending

LEMMA FinishStep == ASSUME IndInv, Finish PROVE IndInv'
<1>1. /\ ppc = "finish" /\ ppc' = "returned" /\ r' = r /\ result' = r
      /\ handle' = IF r \in Errors THEN PROCESS_INVALID ELSE handle
      /\ h' = [o \in Owner |-> IF o \in Parental /\ r \notin Errors THEN h[o] ELSE HANDLE_INVALID]
      /\ UNCHANGED <<options, fds0, noEnv, missed, mask, child, cpc, cfds, ch, cmask, told>>
  BY DEF Finish, GoTo, childVars
<1>2. /\ fds \in Table /\ h \in [Owner -> Handle] /\ mask \in {"old", "all"}
      /\ handle \in {PROCESS_INVALID, Pid}
  BY <1>1 DEF IndInv, TypeOK
<1>3. \E S : fds' = DestroyAll(fds, S)
  BY DEF Finish
<1>4. fds' \in Table
  BY <1>2, <1>3, ClosingFacts
<1>5. h' \in [Owner -> Handle]
  BY <1>1, <1>2, FdFacts
<1>6. "started" \notin Errors
  BY DEF Errors, EINVAL
<1>7. Decided' /\ r \in Errors \cup {"started"}
  <2>1. NoChild \/ TellsWhy \/ ((NoCopy \/ Started) /\ r = "started")
    BY <1>1 DEF IndInv, Decided, Ending
  <2>2. CASE NoChild
    BY <1>1, <2>2 DEF Decided, NoChild
  <2>3. CASE TellsWhy
    BY <1>1, <2>3 DEF Decided, TellsWhy, Untold
  <2>4. CASE (NoCopy \/ Started) /\ r = "started"
    BY <1>1, <1>6, <2>4 DEF Decided, NoCopy, Started, PastFork, PastReport
  <2> QED
    BY <2>1, <2>2, <2>3, <2>4
<1>8. Parent'
  BY <1>1 DEF Parent, Preparing, Forking, Ending
<1> QED
  BY <1>1, <1>2, <1>4, <1>5, <1>7, <1>8, ParentStep DEF Ending
-----------------------------------------------------------------------------
(* Steps of the child *)

LEMMA ChildIsForked ==
  ASSUME IndInv, child # "none"
  PROVE  ppc \in Forking \cup Ending
BY DEF IndInv, Parent

(* The child goes on to its program.                                       *)
LEMMA ChildStep ==
  ASSUME IndInv, child = "alive", cpc \in Starting, UNCHANGED <<parentVars, child, told>>,
         cfds' \in Table, ch' \in [Owner -> Handle], cmask' \in {"old", "all", "empty"},
         cpc' \in Starting \cup {"program"},
         cpc' \in InFork => cpc \in InFork /\ ForkEnds(cfds', ch'),
         cpc' \in Starting => /\ ReportEnd(cfds', ch')
                              /\ \A o \in {"cin", "cout", "cerr", "cexit"} : ch'[o] \in Fd
  PROVE  IndInv'
<1> USE DEF parentVars
<1>0. ppc \in Forking \cup Ending
  BY ChildIsForked
<1>1. TypeOK' /\ Given'
  BY DEF IndInv, TypeOK, Given
<1>2. Child' /\ Parent'
  BY DEF IndInv, Child, Untold, Parent, PastFork, Starting, InFork
<1>3. Decided'
  BY <1>0 DEF IndInv, Child, Decided, NoChild, NoCopy, Started, TellsWhy, PastFork, PastReport,
     Untold, Starting, InFork
<1>4. Handed' /\ Room'
  BY DEF IndInv, Handed, Room, AtMostOne, LowFree, FreeFds
<1>5. Pipes'
  BY <1>0 DEF IndInv, Pipes, ReportEnd, ForkEnds, Forking, Ending
<1> QED
  BY <1>1, <1>2, <1>3, <1>4, <1>5 DEF IndInv

LEMMA DiesStep ==
  ASSUME IndInv, child = "alive", Dies, UNCHANGED <<told, parentVars>>
  PROVE  IndInv'
<1> USE DEF parentVars
<1>0. ppc \in Forking \cup Ending
  BY ChildIsForked
<1>1. child' = "zombie" /\ cfds' \in Table /\ ch' = ch /\ cmask' = cmask
  BY FdFacts DEF Dies, Table
<1>2. TypeOK' /\ Given'
  BY <1>1 DEF IndInv, TypeOK, Given
<1>3. Child' /\ Handed' /\ Room' /\ Pipes'
  BY <1>0, <1>1
     DEF IndInv, Child, Handed, Room, AtMostOne, LowFree, FreeFds, Pipes, ReportEnd, ForkEnds,
         Forking, Ending, Preparing
<1>4. Parent'
  BY <1>0, <1>1 DEF IndInv, Parent, PastFork, Preparing, Forking, Ending
<1>5. Decided'
  BY <1>1 DEF IndInv, Decided, NoChild, NoCopy, Started, TellsWhy, PastFork, PastReport, Untold
<1> QED
  BY <1>2, <1>3, <1>4, <1>5 DEF IndInv

(* The child tells why it will end, in one of the two pipes.               *)
LEMMA TellStep ==
  ASSUME IndInv, child = "alive", UNCHANGED parentVars, NEW e \in Errors,
         NEW p \in {"fork", "report"}, Tell(p, e),
         cpc \in IF p = "fork" THEN InFork ELSE Starting \ InFork
  PROVE  IndInv'
<1> USE DEF parentVars
<1>0. ppc \in Forking \cup Ending
  BY ChildIsForked
<1>1. /\ told' = [told EXCEPT ![p] = e] /\ cpc' = "exit"
      /\ UNCHANGED <<child, cfds, ch, cmask>>
  BY DEF Tell
<1>2. cpc \in Starting /\ cpc \notin {"exit", "program"}
  BY DEF Starting, InFork
<1>3. Untold
  BY <1>2 DEF IndInv, Child
<1>4. e # "none"
  BY DEF Errors, EINVAL
<1>5. told'[p] = e /\ \A q \in {"fork", "report"} \ {p} : told'[q] = "none"
  BY <1>1, <1>3 DEF IndInv, TypeOK, Untold
<1>6. TypeOK' /\ Given'
  BY <1>1 DEF IndInv, TypeOK, Given
<1>7. Child'
  BY <1>1, <1>4, <1>5 DEF Child, Untold
<1>8. Handed' /\ Room' /\ Pipes'
  BY <1>0, <1>1
     DEF IndInv, Handed, Room, AtMostOne, LowFree, FreeFds, Pipes, ReportEnd, ForkEnds,
         Forking, Ending, Preparing, Starting, InFork
<1>9. ppc \notin {"fork.wait", "fork.close", "report.wait"}
  BY <1>3 DEF IndInv, Parent, Untold
<1>10. PastFork => PastFork'
  BY <1>1, <1>5 DEF PastFork, InFork
<1>11. Parent'
  BY <1>0, <1>1, <1>9, <1>10 DEF IndInv, Parent, Preparing, Forking, Ending
<1>12. Decided'
  <2>1. /\ ppc \in Ending => Started /\ r = (IF ppc = "close" THEN "ok" ELSE "started")
        /\ ppc = "returned" => result = r
    BY <1>3 DEF IndInv, Decided, NoChild, NoCopy, TellsWhy
  <2>2. ppc \in Ending => "report" \in missed
    BY <1>2, <2>1 DEF Started, PastReport
  <2>3. ppc \in Ending => Started'
    BY <1>1, <1>10, <2>1, <2>2 DEF Started
  <2> QED
    BY <2>1, <2>3 DEF Decided
<1> QED
  BY <1>6, <1>7, <1>8, <1>11, <1>12 DEF IndInv

LEMMA ChildFacts ==
  ASSUME IndInv, child = "alive", cpc \in Starting
  PROVE  /\ cfds \in Table /\ ch \in [Owner -> Handle] /\ cmask \in {"old", "all", "empty"}
         /\ ReportEnd(cfds, ch) /\ (cpc \in InFork => ForkEnds(cfds, ch))
         /\ \A o \in {"cin", "cout", "cerr", "cexit"} : ch[o] \in Fd
BY DEF IndInv, TypeOK, Handed, Pipes

LEMMA CloseAllStep == ASSUME IndInv, CloseAll PROVE IndInv'
<1>1. /\ child = "alive" /\ cpc = "closeall" /\ cpc' = "dup.in"
      /\ UNCHANGED <<child, ch, cmask, told, parentVars>>
  BY DEF CloseAll, At
<1>2. /\ cfds \in Table /\ ch \in [Owner -> Handle] /\ cmask \in {"old", "all", "empty"}
      /\ ReportEnd(cfds, ch) /\ ForkEnds(cfds, ch)
      /\ \A o \in {"cin", "cout", "cerr", "cexit"} : ch[o] \in Fd
  BY <1>1, ChildFacts DEF Starting, InFork
<1>3. ch["report.w"] \notin {ch["fork.r"], ch["fork.w"]}
  BY <1>2 DEF ReportEnd, ForkEnds, ReadEnd, WriteEnd
<1>4. PICK S : cfds' = DestroyAll(cfds, S) /\ ch["report.w"] \notin S
  BY <1>3 DEF CloseAll, Except
<1>5. cfds' \in Table /\ ReportEnd(cfds', ch)
  BY <1>2, <1>4, ClosingFacts DEF ReportEnd
<1> QED
  BY <1>1, <1>2, <1>5, ChildStep DEF Starting, InFork, ReportEnd

LEMMA RedirectChildStep == ASSUME IndInv, NEW s \in Stream, RedirectChild(s) PROVE IndInv'
<1> DEFINE from == ch[Childs[s]]
<1>1. /\ child = "alive" /\ cpc = [in |-> "dup.in", out |-> "dup.out", err |-> "dup.err"][s]
      /\ UNCHANGED parentVars
  BY DEF RedirectChild, At
<1>2. cpc \in Starting \ InFork
  BY <1>1 DEF Stream, Starting, InFork
<1>3. /\ cfds \in Table /\ ch \in [Owner -> Handle] /\ cmask \in {"old", "all", "empty"}
      /\ ReportEnd(cfds, ch)
      /\ \A o \in {"cin", "cout", "cerr", "cexit"} : ch[o] \in Fd
  BY <1>1, <1>2, ChildFacts
<1>4. CASE cfds[from] = Closed /\ Tell("report", "EBADF")
  BY <1>1, <1>2, <1>4, TellStep DEF Errors
<1>5. CASE /\ cfds[from] # Closed /\ cfds' = Redirected(s)
           /\ cpc' = [in |-> "dup.out", out |-> "dup.err", err |-> "chdir"][s]
           /\ UNCHANGED <<child, ch, cmask, told>>
  <2>1. from \in Fd /\ StdFd[s] \in {0, 1, 2} /\ StdFd[s] \in Fd
    BY <1>3, FdFacts DEF Childs, Stream
  <2>2. cfds[from] \in Entry
    BY <1>3, <2>1 DEF Table
  <2> DEFINE t == Dup2(cfds, from, StdFd[s])
  <2>3. t \in Table /\ \A f \in Fd \ {0, 1, 2} : t[f] = cfds[f]
    BY <1>3, <2>1, <2>2 DEF Dup2, Table, Entry
  <2>4. Cloexec(t, from, TRUE) \in Table /\ \A f \in Fd : Cloexec(t, from, TRUE)[f].file = t[f].file
    BY <2>1, <2>3 DEF Cloexec, Table, Entry
  <2>5. cfds' \in {t, Cloexec(t, from, TRUE)}
    BY <1>5 DEF Redirected
  <2> HIDE DEF t
  <2>6. cfds' \in Table /\ ReportEnd(cfds', ch)
    BY <1>3, <2>3, <2>4, <2>5 DEF ReportEnd
  <2>7. cpc' \in Starting \ InFork
    BY <1>5 DEF Stream, Starting, InFork
  <2> QED
    BY <1>1, <1>2, <1>3, <1>5, <2>6, <2>7, ChildStep DEF ReportEnd
<1> QED
  BY <1>1, <1>4, <1>5 DEF RedirectChild

LEMMA ChildNextStep == ASSUME IndInv, ChildNext PROVE IndInv'
<1>1. CASE ResetSignals
  <2>1. /\ child = "alive" /\ cpc = "reset" /\ cpc' = "limit" /\ cmask' = "empty"
        /\ UNCHANGED <<child, cfds, ch, told, parentVars>>
    BY <1>1 DEF ResetSignals, At
  <2> QED
    BY <2>1, ChildFacts, ChildStep DEF Starting, InFork, ReportEnd, ForkEnds
<1>2. CASE CheckLimit
  <2>1. child = "alive" /\ cpc = "limit" /\ UNCHANGED parentVars
    BY <1>2 DEF CheckLimit, At
  <2>2. CASE Tell("fork", EINVAL)
    BY <2>1, <2>2, TellStep DEF Errors, EINVAL, InFork
  <2>3. CASE cpc' = "closeall" /\ UNCHANGED <<child, cfds, ch, cmask, told>>
    BY <2>1, <2>3, ChildFacts, ChildStep DEF Starting, InFork, ReportEnd, ForkEnds
  <2> QED
    BY <1>2, <2>2, <2>3 DEF CheckLimit
<1>3. CASE CloseAll
  BY <1>3, CloseAllStep
<1>4. CASE \E s \in Stream : RedirectChild(s)
  BY <1>4, RedirectChildStep
<1>5. CASE ChangeDir
  <2>1. child = "alive" /\ cpc = "chdir" /\ UNCHANGED parentVars
    BY <1>5 DEF ChangeDir, At
  <2>2. /\ cfds \in Table /\ ch \in [Owner -> Handle] /\ cmask \in {"old", "all", "empty"}
        /\ ReportEnd(cfds, ch) /\ \A o \in {"cin", "cout", "cerr", "cexit"} : ch[o] \in Fd
    BY <2>1, ChildFacts DEF Starting
  <2>3. CASE Tell("report", "ENOENT")
    BY <2>1, <2>3, TellStep DEF Errors, Starting, InFork
  <2>4. CASE /\ cfds' = Cloexec(cfds, ch["cexit"], FALSE)
             /\ cpc' = IF options.argv THEN "exec" ELSE "return"
             /\ UNCHANGED <<child, ch, cmask, told>>
    <3>1. cfds' \in Table /\ \A f \in Fd : cfds'[f].file = cfds[f].file
      BY <2>2, <2>4 DEF Cloexec, Table, Entry
    <3>2. cpc' \in Starting \ InFork
      BY <2>4 DEF Starting, InFork
    <3> QED
      BY <2>1, <2>2, <2>4, <3>1, <3>2, ChildStep DEF ReportEnd, Starting
  <2> QED
    BY <1>5, <2>3, <2>4 DEF ChangeDir
<1>6. CASE ExecProgram
  <2>1. child = "alive" /\ cpc = "exec" /\ UNCHANGED parentVars
    BY <1>6 DEF ExecProgram, At
  <2>2. cfds \in Table /\ ch \in [Owner -> Handle] /\ cmask \in {"old", "all", "empty"}
    BY DEF IndInv, TypeOK
  <2>3. CASE Tell("report", "ENOENT")
    BY <2>1, <2>3, TellStep DEF Errors, Starting, InFork
  <2>4. CASE cfds' = Exec(cfds) /\ cpc' = "program" /\ UNCHANGED <<child, ch, cmask, told>>
    <3>1. cfds' \in Table
      BY <2>2, <2>4, FdFacts DEF Exec, Table
    <3> QED
      BY <2>1, <2>2, <2>4, <3>1, ChildStep DEF Starting, InFork
  <2> QED
    BY <1>6, <2>3, <2>4 DEF ExecProgram
<1>7. CASE ReturnInChild
  <2>1. /\ child = "alive" /\ cpc = "return" /\ cpc' = "program"
        /\ ch' = [o \in Owner |-> HANDLE_INVALID]
        /\ UNCHANGED <<child, cmask, told, parentVars>>
        /\ \E S : cfds' = DestroyAll(cfds, S)
    BY <1>7 DEF ReturnInChild, At
  <2>2. cfds' \in Table /\ ch' \in [Owner -> Handle] /\ cmask' \in {"old", "all", "empty"}
    BY <2>1, ClosingFacts, FdFacts DEF IndInv, TypeOK
  <2> QED
    BY <2>1, <2>2, ChildStep DEF Starting, InFork
<1>8. CASE Exits
  BY <1>8, DiesStep DEF Exits, At
<1> QED
  BY <1>1, <1>2, <1>3, <1>4, <1>5, <1>6, <1>7, <1>8 DEF ChildNext

LEMMA HostReapsStep == ASSUME IndInv, HostReaps PROVE IndInv'
<1>1. /\ child = "zombie" /\ child' = "reaped"
      /\ UNCHANGED <<cpc, cfds, ch, cmask, told, parentVars>>
  BY DEF HostReaps
<1>2. ppc \in Forking \cup Ending
  BY <1>1, ChildIsForked
<1>3. Parent'
  BY <1>1, <1>2 DEF parentVars, IndInv, Parent, PastFork, Preparing, Forking, Ending
<1>4. Decided'
  BY <1>1 DEF parentVars, IndInv, Decided, NoChild, NoCopy, Started, TellsWhy, PastFork,
     PastReport, Untold
<1> QED
  BY <1>1, <1>2, <1>3, <1>4, ParentStep DEF parentVars, IndInv, TypeOK
-----------------------------------------------------------------------------
LEMMA StepIndInv == IndInv /\ [Next]_vars => IndInv'
<1> SUFFICES ASSUME IndInv, [Next]_vars PROVE IndInv'
  OBVIOUS
<1>1. CASE ParentNext
  BY <1>1, ParseStep, RedirectStep, ExitPipeStep, SetupInputStep, ReportPipeStep, ProgramStep,
     BlockSignalsStep, ForkPipeStep, ForkFailsStep, ForkStep, ForkedStep, ForkReadStep,
     ForkWaitStep, ForkCloseStep, ReportCloseStep, ReportReadStep, ReportWaitStep,
     CloseReportStep, FinishStep DEF ParentNext
<1>2. CASE ChildNext
  BY <1>2, ChildNextStep
<1>3. CASE ChildKilled
  BY <1>3, DiesStep DEF ChildKilled
<1>4. CASE HostReaps
  BY <1>4, HostReapsStep
<1>5. CASE Interrupted
  BY <1>5, ForkReadInterruptedStep, ReportReadInterruptedStep, ReadAssertsStep,
     WaitInterruptedStep DEF Interrupted
<1>6. CASE UNCHANGED vars
  BY <1>6 DEF vars, parentVars, childVars, IndInv, TypeOK, Child, Untold, Parent, PastFork,
     PastReport, Decided, NoChild, NoCopy, Started, TellsWhy, Handed, Room, AtMostOne, LowFree, FreeFds,
     Pipes, ReportEnd, ForkEnds, Given, OptionsOk, RedirectOk, Types
<1> QED
  BY <1>1, <1>2, <1>3, <1>4, <1>6, <1>5 DEF Next

(* Where each descriptor of parent and child is, and what the child has     *)
(* told, at every step of reproc_start in both processes.                  *)
THEOREM Inductive == Spec => []IndInv
BY InitIndInv, StepIndInv, PTL DEF Spec

(* reproc_start keeps its variables, the tables of descriptors and the     *)
(* error pipes in their types; no number outside the table is used.        *)
THEOREM TypeCorrect == Spec => []TypeOK
BY Inductive, PTL DEF IndInv

(* reproc_start tells the truth about the child, but for the exceptions    *)
(* that ResultTellsChild names, which are EINTR and a failed copy of the   *)
(* environment: after an error there is none, not even one to wait for;    *)
(* after a success it has its program, or has ended.  It rests on the write*)
(* end of the report pipe being at a number that dup2 does not overwrite,  *)
(* whatever the parent has closed.                                         *)
THEOREM ResultIsTrue == Spec => []ResultTellsChild
<1>1. IndInv => ResultTellsChild
  <2> SUFFICES ASSUME IndInv PROVE ResultTellsChild
    OBVIOUS
  <2>1. result # "none" => ppc = "returned" /\ result = r
    BY DEF IndInv, Parent, Decided
  <2>2. "started" \notin Errors /\ "none" \notin Errors /\ "EINTR" \in Errors
    BY DEF Errors, EINVAL
  <2>3. ppc = "returned" => NoChild \/ TellsWhy \/ ((NoCopy \/ Started) /\ r = "started")
    BY DEF IndInv, Decided, Ending
  <2>4. Started /\ missed = {} => Untold /\ (child = "alive" => cpc = "program")
    BY DEF Started, PastFork, PastReport, Untold, IndInv, Child
  <2>5. child = "none" => Untold
    BY DEF IndInv, Child
  <2> QED
    BY <2>1, <2>2, <2>3, <2>4, <2>5
       DEF ResultTellsChild, NoChild, TellsWhy, NoCopy, Started, Untold, PROCESS_INVALID, Pid
<1> QED
  BY <1>1, Inductive, PTL

(* What the child has told is what reproc_start returns, unless the shell  *)
(* has waited for the child before, or a signal has come while the parent  *)
(* waited for it or read that pipe (process_start, process_fork).          *)
THEOREM ErrorIsTheChilds == Spec => []ChildsErrorReturned
<1>1. IndInv => ChildsErrorReturned
  <2> SUFFICES ASSUME IndInv PROVE ChildsErrorReturned
    OBVIOUS
  <2>1. result # "none" => ppc = "returned" /\ result = r
    BY DEF IndInv, Parent, Decided
  <2>2. ppc = "returned" => NoChild \/ TellsWhy \/ NoCopy \/ Started
    BY DEF IndInv, Decided, Ending
  <2> QED
    BY <2>1, <2>2
       DEF ChildsErrorReturned, NoChild, TellsWhy, NoCopy, Started, PastFork, PastReport, Untold,
           IndInv, Child
<1> QED
  BY <1>1, Inductive, PTL

(* process_fork leaves signals blocked only where no child was forked.     *)
THEOREM SignalsAreBack == Spec => []SignalsBack
<1>1. IndInv => SignalsBack
  <2> SUFFICES ASSUME IndInv PROVE SignalsBack
    OBVIOUS
  <2>1. result # "none" => ppc = "returned" /\ result = r
    BY DEF IndInv, Parent, Decided
  <2>2. ppc = "returned" => NoChild \/ TellsWhy \/ NoCopy \/ Started
    BY DEF IndInv, Decided, Ending
  <2> QED
    BY <2>1, <2>2 DEF SignalsBack, NoChild, TellsWhy, NoCopy, Started
<1> QED
  BY <1>1, Inductive, PTL
-----------------------------------------------------------------------------
(* Neither process keeps a write end that the other waits to see closed.   *)
(* The variables of the child's streams and of its exit pipe stand for one *)
(* of the first three numbers or for another file than an error pipe's;    *)
(* what dup2 and fcntl do to them does nothing to the report pipe's write  *)
(* end, which therefore stays at one number, to be closed at exec.         *)
ChildFile == {ReadEnd["in"], WriteEnd["out"], WriteEnd["err"], WriteEnd["exit"],
              "null", "path", "user"}

Numbers(t, hs) ==
    \A o \in {"cin", "cout", "cerr", "cexit"} :
        hs[o] \in Fd => hs[o] \in {0, 1, 2} \/ t[hs[o]].file \in ChildFile

WriteVar == [fork |-> "fork.w", report |-> "report.w"]

OnlyEnd(t, hs, p) == \A f \in Fd : t[f].file = WriteEnd[p] => f = hs[WriteVar[p]]

Prepared(t, hs) ==
    /\ Numbers(t, hs)
    /\ t[UserFd].file = "user"
    /\ hs["in"] \in Fd => t[hs["in"]].file = WriteEnd["in"]

NotYet(place, hs) ==
    /\ place \notin {"program", "block", "forkpipe", "fork"} => hs["report.w"] = HANDLE_INVALID
    /\ place # "fork" => hs["fork.w"] = HANDLE_INVALID

ParentsWriters ==
    /\ ppc \notin Ending => OnlyEnd(fds, h, "fork") /\ OnlyEnd(fds, h, "report")
    /\ ppc \in Preparing => Prepared(fds, h) /\ NotYet(ppc, h)
    /\ ppc \in {"program", "block", "forkpipe", "fork"} => fds[h["report.w"]].cloexec
    /\ ppc \in Forking \ {"forked"} => h["fork.w"] = HANDLE_INVALID
    /\ ppc \in {"report.read", "report.wait"} => h["report.w"] = HANDLE_INVALID

ChildsWriters ==
    /\ child # "alive" => ~Holds(cfds, WriteEnd["fork"]) /\ ~Holds(cfds, WriteEnd["report"])
    /\ child = "alive" =>
          /\ cpc \in Starting => /\ OnlyEnd(cfds, ch, "report") /\ Numbers(cfds, ch)
                                 /\ cfds[ch["report.w"]].cloexec
          /\ cpc \in InFork => OnlyEnd(cfds, ch, "fork")
          /\ cpc \notin InFork \cup {"exit"} => ~Holds(cfds, WriteEnd["fork"])
          /\ cpc = "program" => ~Holds(cfds, WriteEnd["report"])

Writers == ParentsWriters /\ ChildsWriters

LEMMA WriterFacts ==
  /\ WriteVar["fork"] = "fork.w" /\ WriteVar["report"] = "report.w"
  /\ {WriteEnd["fork"], WriteEnd["report"]} \cap ChildFile = {}
  /\ WriteEnd["fork"] # WriteEnd["report"]
  /\ NoFile \notin {WriteEnd["fork"], WriteEnd["report"], WriteEnd["in"], "user"} \cup ChildFile
  /\ WriteEnd["in"] \notin ChildFile \cup {"user"}
  /\ {"fork.w", "report.w", "in", "cin", "cout", "cerr", "cexit"} \subseteq Owner
BY DEF WriteVar, ChildFile, ReadEnd, WriteEnd, NoFile, Owner, Parental

LEMMA WritersInit == Init => Writers
<1> SUFFICES ASSUME Init PROVE Writers
  OBVIOUS
<1>1. /\ ppc = "parse" /\ child = "none" /\ fds = fds0 /\ fds0 \in ParentTables
      /\ h = [o \in Owner |-> HANDLE_INVALID] /\ cfds = [f \in Fd |-> Closed]
  BY DEF Init
<1>2. /\ fds0 \in Table /\ \E f \in Fd : fds0[f].file = "user"
      /\ \A f \in Fd : fds0[f].file \notin PipeEnd
  BY <1>1, StartAssumption DEF Holds
<1>3. WriteEnd["fork"] \in PipeEnd /\ WriteEnd["report"] \in PipeEnd
  BY DEF PipeEnd, PipeName
<1>4. fds[UserFd].file = "user"
  BY <1>1, <1>2 DEF UserFd
<1>5. Prepared(fds, h)
  BY <1>1, <1>4, FdFacts, WriterFacts DEF Prepared, Numbers
<1>6. ParentsWriters
  BY <1>1, <1>2, <1>3, <1>5, WriterFacts DEF ParentsWriters, OnlyEnd, NotYet, Forking
<1>7. ChildsWriters
  BY <1>1, WriterFacts DEF ChildsWriters, Holds, Closed
<1> QED
  BY <1>6, <1>7 DEF Writers

(* Numbers of the table are taken, and variables set to them.              *)
LEMMA PreparedGrows ==
  ASSUME NEW t, NEW u, NEW hs, NEW gs, Prepared(t, hs), UserFd \in Fd,
         \A f \in Fd : t[f] # Closed => u[f] = t[f],
         \A o \in {"cin", "cout", "cerr", "cexit"} :
            gs[o] = hs[o] \/ gs[o] \in {0, 1, 2} \/ u[gs[o]].file \in ChildFile,
         gs["in"] = hs["in"] \/ u[gs["in"]].file = WriteEnd["in"]
  PROVE  Prepared(u, gs)
<1>1. \A f \in Fd : t[f].file # NoFile => u[f] = t[f]
  BY DEF Closed
<1>2. u[UserFd].file = "user"
  BY <1>1, WriterFacts DEF Prepared
<1>3. gs["in"] \in Fd => u[gs["in"]].file = WriteEnd["in"]
  BY <1>1, WriterFacts DEF Prepared
<1>4. ASSUME NEW o \in {"cin", "cout", "cerr", "cexit"}, gs[o] \in Fd, gs[o] \notin {0, 1, 2}
      PROVE  u[gs[o]].file \in ChildFile
  <2>1. CASE gs[o] = hs[o]
    <3>1. t[hs[o]].file \in ChildFile
      BY <1>4, <2>1 DEF Prepared, Numbers
    <3> QED
      BY <1>1, <1>4, <2>1, <3>1, WriterFacts
  <2> QED
    BY <1>4, <2>1
<1> QED
  BY <1>2, <1>3, <1>4 DEF Prepared, Numbers

(* What pipe_init changes, for either order of its two variables.          *)
LEMMA PipeEntries ==
  ASSUME NEW t \in Table, CanPipe(t), NEW r0 \in File, NEW w \in File
  PROVE  /\ ReadFd(t) \in Fd /\ WriteFd(t, r0) \in Fd /\ ReadFd(t) # WriteFd(t, r0)
         /\ t[ReadFd(t)] = Closed /\ t[WriteFd(t, r0)] = Closed
         /\ PipeTable(t, r0, w)[ReadFd(t)].file = r0
         /\ PipeTable(t, r0, w)[WriteFd(t, r0)] = [file |-> w, cloexec |-> TRUE]
         /\ \A f \in Fd \ {ReadFd(t), WriteFd(t, r0)} : PipeTable(t, r0, w)[f] = t[f]
<1> DEFINE rf == ReadFd(t)
           wf == WriteFd(t, r0)
           u == Put(t, rf, r0)
<1>1. /\ rf \in FreeFds(t) /\ wf \in FreeFds(t) /\ rf # wf
      /\ PipeTable(t, r0, w)[rf].file = r0
  BY PipeFacts
<1>2. PipeTable(t, r0, w) = [u EXCEPT ![wf] = [file |-> w, cloexec |-> TRUE]]
  BY DEF PipeTable, Put
<1> HIDE DEF rf, wf
<1>3. /\ rf \in Fd /\ wf \in Fd /\ t[rf] = Closed /\ t[wf] = Closed
  BY <1>1 DEF FreeFds
<1>4. u \in Table /\ \A g \in Fd \ {rf} : u[g] = t[g]
  BY <1>3, PutFacts
<1> HIDE DEF u
<1>5. /\ PipeTable(t, r0, w)[wf] = [file |-> w, cloexec |-> TRUE]
      /\ \A f \in Fd \ {rf, wf} : PipeTable(t, r0, w)[f] = t[f]
  BY <1>2, <1>3, <1>4 DEF Table
<1> QED
  BY <1>1, <1>3, <1>5 DEF rf, wf

LEMMA UserFdIn ==
  ASSUME Given
  PROVE  UserFd \in Fd
BY StartAssumption DEF UserFd, Holds, Given

(* Steps of the parent leave the child's table, or find the child ended.   *)
LEMMA ChildsWritersStay ==
  ASSUME ChildsWriters, UNCHANGED <<cpc, cfds, ch>>,
         child' = child \/ (child = "zombie" /\ child' = "reaped")
  PROVE  ChildsWriters'
BY DEF ChildsWriters, OnlyEnd, Numbers, Holds

(* Steps of the parent before there is a child.                            *)
LEMMA WritersPrepare ==
  ASSUME IndInv, Writers, ppc \in Preparing, UNCHANGED <<fds0, childVars>>,
         ppc' \in Preparing \cup Ending,
         ppc' \in Preparing =>
            /\ Prepared(fds', h') /\ NotYet(ppc', h')
            /\ OnlyEnd(fds', h', "fork") /\ OnlyEnd(fds', h', "report")
            /\ ppc' \in {"program", "block", "forkpipe", "fork"} => fds'[h'["report.w"]].cloexec
  PROVE  Writers'
<1>1. Preparing \cap Ending = {} /\ Preparing \cap Forking = {} /\ Ending \cap Forking = {}
  BY DEF Preparing, Ending, Forking
<1>2. {"report.read", "report.wait"} \subseteq Forking /\ "program" \in Preparing
      /\ {"program", "block", "forkpipe", "fork"} \subseteq Preparing
  BY DEF Forking, Preparing
<1>3. ChildsWriters'
  BY ChildsWritersStay DEF Writers, childVars
<1>4. ppc' \in Preparing => Prepared(fds, h)' /\ NotYet(ppc, h)'
  BY DEF Prepared, Numbers, UserFd, NotYet
<1>5. ppc' \in Preparing => OnlyEnd(fds, h, "fork")' /\ OnlyEnd(fds, h, "report")'
  BY DEF OnlyEnd
<1>6. ParentsWriters'
  BY <1>1, <1>2, <1>4, <1>5 DEF ParentsWriters
<1> QED
  BY <1>3, <1>6 DEF Writers

(* What the steps below start from.                                        *)
LEMMA WritersBefore ==
  ASSUME IndInv, Writers, ppc \in Preparing
  PROVE  /\ fds \in Table /\ h \in [Owner -> Handle] /\ Given /\ UserFd \in Fd
         /\ Prepared(fds, h) /\ NotYet(ppc, h)
         /\ \A p \in {"fork", "report"} : OnlyEnd(fds, h, p)
<1>1. ppc \notin Ending
  BY DEF Preparing, Ending
<1> QED
  BY <1>1, UserFdIn DEF IndInv, TypeOK, Writers, ParentsWriters

LEMMA RedirectWriters ==
  ASSUME IndInv, Writers, ppc \in Preparing, NEW s \in Stream, RedirectStream(s),
         s = "err" => h["cout"] \in Fd
  PROVE  /\ Prepared(fds', h') /\ OnlyEnd(fds', h', "fork") /\ OnlyEnd(fds', h', "report")
         /\ h'["fork.w"] = h["fork.w"] /\ h'["report.w"] = h["report.w"]
<1>0. /\ fds \in Table /\ h \in [Owner -> Handle] /\ Given /\ UserFd \in Fd
      /\ Prepared(fds, h) /\ \A p \in {"fork", "report"} : OnlyEnd(fds, h, p)
  BY WritersBefore
<1>1. /\ Childs[s] \in {"cin", "cout", "cerr"} /\ Childs[s] \in Owner /\ s \in Owner
      /\ s \notin {"cin", "cout", "cerr", "cexit", "fork.w", "report.w"}
      /\ Childs["in"] = "cin" /\ Childs["out"] = "cout" /\ Childs["err"] = "cerr"
      /\ {ReadEnd[s], WriteEnd[s], "null", "path"} \subseteq File
      /\ {ReadEnd[s], WriteEnd[s], "null", "path"} \cap {WriteEnd["fork"], WriteEnd["report"]} = {}
  BY DEF Stream, Childs, Owner, Parental, File, PipeEnd, PipeName, ReadEnd, WriteEnd
<1>2. CASE Type(s) = "pipe"
  <2> DEFINE rf == ReadFd(fds)
             wf == WriteFd(fds, ReadEnd[s])
  <2>1. /\ CanPipe(fds) /\ fds' = PipeTable(fds, ReadEnd[s], WriteEnd[s])
        /\ s = "in" => h' = [h EXCEPT ![Childs[s]] = rf, ![s] = wf]
        /\ s # "in" => h' = [h EXCEPT ![s] = rf, ![Childs[s]] = wf]
    BY <1>2 DEF RedirectStream, MakePipe
  <2>2. /\ rf \in Fd /\ wf \in Fd /\ rf # wf /\ fds[rf] = Closed /\ fds[wf] = Closed
        /\ fds'[rf].file = ReadEnd[s] /\ fds'[wf] = [file |-> WriteEnd[s], cloexec |-> TRUE]
        /\ \A f \in Fd \ {rf, wf} : fds'[f] = fds[f]
    BY <1>0, <1>1, <2>1, PipeEntries
  <2>3. fds'[wf].file = WriteEnd[s]
    BY <2>2
  <2> HIDE DEF rf, wf
  <2>4. /\ \A o \in {"cin", "cout", "cerr", "cexit", "fork.w", "report.w"} \ {Childs[s]} : h'[o] = h[o]
        /\ s = "in" => h'["in"] = wf /\ h'[Childs[s]] = rf
        /\ s # "in" => h'["in"] = h["in"] /\ h'[Childs[s]] = wf
    BY <1>0, <1>1, <2>1, WriterFacts DEF Stream
  <2>5. fds'[h'[Childs[s]]].file \in ChildFile
    BY <2>2, <2>3, <2>4 DEF ChildFile, Stream
  <2>6. Prepared(fds', h')
    BY <1>0, <2>2, <2>3, <2>4, <2>5, PreparedGrows
  <2>7. ASSUME NEW p \in {"fork", "report"} PROVE OnlyEnd(fds', h', p)
    <3>1. OnlyEnd(fds, h, p) /\ h'[WriteVar[p]] = h[WriteVar[p]]
      BY <1>0, <1>1, <2>4, WriterFacts
    <3>2. \A f \in Fd : fds'[f] = fds[f] \/ fds'[f].file # WriteEnd[p]
      BY <1>1, <2>2, <2>3
    <3> QED
      BY <3>1, <3>2 DEF OnlyEnd
  <2> QED
    BY <1>1, <2>4, <2>6, <2>7
<1>3. ASSUME NEW f \in Fd, Borrow(s, f), f \in {0, 1, 2} \/ fds[f].file \in ChildFile
      PROVE  /\ Prepared(fds', h') /\ OnlyEnd(fds', h', "fork") /\ OnlyEnd(fds', h', "report")
             /\ h'["fork.w"] = h["fork.w"] /\ h'["report.w"] = h["report.w"]
  <2>1. /\ fds' = fds /\ h'[Childs[s]] = f
        /\ \A o \in {"in", "cin", "cout", "cerr", "cexit", "fork.w", "report.w"} \ {Childs[s]} : h'[o] = h[o]
    BY <1>0, <1>1, <1>3, WriterFacts DEF Borrow
  <2>2. Prepared(fds', h')
    BY <1>0, <1>1, <1>3, <2>1, PreparedGrows
  <2>3. ASSUME NEW p \in {"fork", "report"} PROVE OnlyEnd(fds', h', p)
    <3>1. OnlyEnd(fds, h, p) /\ h'[WriteVar[p]] = h[WriteVar[p]]
      BY <1>0, <1>1, <2>1, WriterFacts
    <3> QED
      BY <2>1, <3>1 DEF OnlyEnd
  <2> QED
    BY <1>1, <2>1, <2>2, <2>3
<1>4. ASSUME NEW file \in {"null", "path"}, OpenFor(s, file)
      PROVE  /\ Prepared(fds', h') /\ OnlyEnd(fds', h', "fork") /\ OnlyEnd(fds', h', "report")
             /\ h'["fork.w"] = h["fork.w"] /\ h'["report.w"] = h["report.w"]
  <2> DEFINE f == LowestFd(fds)
  <2>1. f \in FreeFds(fds) /\ fds' = Put(fds, f, file) /\ h' = [h EXCEPT ![Childs[s]] = f]
    BY <1>4, Lowest DEF OpenFor
  <2> HIDE DEF f
  <2>2. f \in Fd /\ fds[f] = Closed /\ fds'[f].file = file /\ \A g \in Fd \ {f} : fds'[g] = fds[g]
    <3>1. f \in Fd /\ file \in File /\ fds[f] = Closed
      BY <1>1, <2>1 DEF FreeFds
    <3> QED
      BY <1>0, <2>1, <3>1, PutFacts
  <2>3. /\ h'[Childs[s]] = f
        /\ \A o \in {"in", "cin", "cout", "cerr", "cexit", "fork.w", "report.w"} \ {Childs[s]} : h'[o] = h[o]
    BY <1>0, <1>1, <2>1, WriterFacts
  <2>4. fds'[h'[Childs[s]]].file \in ChildFile
    BY <2>2, <2>3 DEF ChildFile
  <2>5. Prepared(fds', h')
    BY <1>0, <1>1, <2>2, <2>3, <2>4, PreparedGrows
  <2>6. ASSUME NEW p \in {"fork", "report"} PROVE OnlyEnd(fds', h', p)
    <3>1. OnlyEnd(fds, h, p) /\ h'[WriteVar[p]] = h[WriteVar[p]]
      BY <1>0, <1>1, <2>3, WriterFacts
    <3>2. \A g \in Fd : fds'[g] = fds[g] \/ fds'[g].file # WriteEnd[p]
      BY <1>1, <2>2
    <3> QED
      BY <3>1, <3>2 DEF OnlyEnd
  <2> QED
    BY <1>1, <2>3, <2>5, <2>6
<1>5. CASE Type(s) = "parent"
  BY <1>3, <1>4, <1>5, FdFacts DEF RedirectStream
<1>6. CASE Type(s) \in {"discard", "path"}
  BY <1>4, <1>6 DEF RedirectStream
<1>7. CASE Type(s) \in {"handle", "file"}
  <2>1. fds[UserFd].file \in ChildFile
    BY <1>0 DEF Prepared, ChildFile
  <2> QED
    BY <1>0, <1>3, <1>7, <2>1 DEF RedirectStream
<1>8. CASE Type(s) = "stdout"
  <2>1. h["cout"] \in Fd /\ (h["cout"] \in {0, 1, 2} \/ fds[h["cout"]].file \in ChildFile)
    BY <1>0, <1>8, TypeRange DEF Prepared, Numbers
  <2> QED
    BY <1>3, <1>8, <2>1 DEF RedirectStream
<1> QED
  BY <1>0, <1>2, <1>5, <1>6, <1>7, <1>8, TypeRange DEF Redirect

LEMMA WritersRedirect == ASSUME IndInv, Writers, NEW s \in Stream, RedirectInit(s) PROVE Writers'
<1>1. /\ ppc = [in |-> "redirect.in", out |-> "redirect.out", err |-> "redirect.err"][s]
      /\ UNCHANGED <<fds0, childVars>>
  BY DEF RedirectInit, Keep
<1>2. ppc \in Preparing /\ (s = "err" => h["cout"] \in Fd)
  BY <1>1 DEF IndInv, Handed, Preparing, Stream
<1>3. CASE /\ RedirectStream(s)
           /\ GoTo([in |-> "redirect.out", out |-> "redirect.err", err |-> "exit"][s], "ok")
  <2>1. ppc' \in {"redirect.out", "redirect.err", "exit"}
    BY <1>3 DEF GoTo, Stream
  <2>2. NotYet(ppc, h) /\ ppc \in {"redirect.in", "redirect.out", "redirect.err"}
    BY <1>1, <1>2, WritersBefore DEF Stream
  <2>3. /\ Prepared(fds', h') /\ OnlyEnd(fds', h', "fork") /\ OnlyEnd(fds', h', "report")
        /\ h'["fork.w"] = h["fork.w"] /\ h'["report.w"] = h["report.w"]
    BY <1>2, <1>3, RedirectWriters
  <2>4. NotYet(ppc', h')
    BY <2>1, <2>2, <2>3 DEF NotYet
  <2> QED
    BY <1>1, <1>2, <2>1, <2>3, <2>4, WritersPrepare DEF Preparing
<1>4. CASE GoTo("finish", "EMFILE") /\ UNCHANGED <<fds, h>>
  BY <1>1, <1>2, <1>4, WritersPrepare DEF GoTo, Preparing, Ending
<1> QED
  BY <1>3, <1>4 DEF RedirectInit

(* The other pipes of the parent.                                          *)
LEMMA WritersPipe ==
  ASSUME IndInv, Writers, ppc \in Preparing, UNCHANGED <<fds0, childVars>>,
         NEW p \in {"exit", "report", "fork"}, NEW a, NEW b,
         <<p, a, b>> \in {<<"exit", "exit", "cexit">>, <<"report", "report.r", "report.w">>,
                          <<"fork", "fork.r", "fork.w">>},
         MakePipe(p, a, b),
         p = "exit" => ppc = "exit" /\ ppc' = "input",
         p = "report" => ppc = "start" /\ ppc' = "program",
         p = "fork" => /\ ppc = "forkpipe" /\ ppc' = "fork"
                       /\ h["report.w"] \in Fd /\ fds[h["report.w"]].cloexec
  PROVE  Writers'
<1>0. /\ fds \in Table /\ h \in [Owner -> Handle] /\ Given /\ UserFd \in Fd
      /\ Prepared(fds, h) /\ NotYet(ppc, h)
      /\ \A q \in {"fork", "report"} : OnlyEnd(fds, h, q)
  BY WritersBefore
<1> DEFINE rf == ReadFd(fds)
           wf == WriteFd(fds, ReadEnd[p])
<1>1. /\ a \in Owner /\ b \in Owner /\ a # b /\ a \in {"exit", "report.r", "fork.r"}
      /\ b \in {"cexit", "report.w", "fork.w"}
      /\ {ReadEnd[p], WriteEnd[p]} \subseteq File
      /\ ReadEnd[p] \notin {WriteEnd["fork"], WriteEnd["report"]}
      /\ \A q \in {"fork", "report"} : WriteEnd[p] = WriteEnd[q] => b = WriteVar[q]
      /\ \A q \in {"fork", "report"} : b = WriteVar[q] => p = q
  BY DEF Owner, Parental, File, PipeEnd, PipeName, ReadEnd, WriteEnd, WriteVar
<1>2. CanPipe(fds) /\ fds' = PipeTable(fds, ReadEnd[p], WriteEnd[p]) /\ h' = [h EXCEPT ![a] = rf, ![b] = wf]
  BY DEF MakePipe
<1>3. /\ rf \in Fd /\ wf \in Fd /\ rf # wf /\ fds[rf] = Closed /\ fds[wf] = Closed
      /\ fds'[rf].file = ReadEnd[p] /\ fds'[wf] = [file |-> WriteEnd[p], cloexec |-> TRUE]
      /\ \A f \in Fd \ {rf, wf} : fds'[f] = fds[f]
  BY <1>0, <1>1, <1>2, PipeEntries
<1>4. fds'[wf].file = WriteEnd[p] /\ fds'[wf].cloexec
  BY <1>3
<1> HIDE DEF rf, wf
<1>5. h'[b] = wf /\ \A o \in {"in", "cin", "cout", "cerr", "cexit", "fork.w", "report.w"} \ {b} : h'[o] = h[o]
  BY <1>0, <1>1, <1>2, WriterFacts
<1>6. b = "cexit" => fds'[h'["cexit"]].file \in ChildFile
  BY <1>4, <1>5 DEF ChildFile
<1>7. Prepared(fds', h')
  BY <1>0, <1>1, <1>3, <1>5, <1>6, PreparedGrows
<1>8. ASSUME NEW q \in {"fork", "report"} PROVE OnlyEnd(fds', h', q)
  <2>1. \A f \in Fd : fds'[f] = fds[f] \/ (fds'[f].file = WriteEnd[q] => f = h'[WriteVar[q]])
    BY <1>1, <1>3, <1>4, <1>5
  <2>2. h'[WriteVar[q]] = h[WriteVar[q]] \/ h[WriteVar[q]] \notin Fd
    BY <1>0, <1>1, <1>5, WriterFacts, FdFacts DEF NotYet
  <2> QED
    BY <1>0, <2>1, <2>2 DEF OnlyEnd
<1>9. ppc' \in {"program", "block", "forkpipe", "fork"} => fds'[h'["report.w"]].cloexec
  <2>1. CASE p = "report"
    BY <1>4, <1>5, <2>1
  <2>2. CASE p = "fork"
    <3>1. b = "fork.w" /\ h'["report.w"] = h["report.w"]
      BY <1>5, <2>2
    <3>2. fds[h["report.w"]] # Closed
      BY <2>2 DEF Closed
    <3> QED
      BY <1>3, <2>2, <3>1, <3>2
  <2> QED
    BY <2>1, <2>2
<1>10. NotYet(ppc', h')
  BY <1>0, <1>1, <1>5 DEF NotYet
<1> QED
  BY <1>7, <1>8, <1>9, <1>10, WritersPrepare DEF Preparing

LEMMA WritersPipes ==
  ASSUME IndInv, Writers, ExitPipe \/ ReportPipe \/ ForkPipe
  PROVE  Writers'
<1>1. /\ ppc \in {"exit", "start", "forkpipe"} /\ ppc \in Preparing
      /\ UNCHANGED <<fds0, childVars>>
  BY DEF ExitPipe, ReportPipe, ForkPipe, Keep, Preparing
<1>2. CASE ppc' \in {"finish", "close"}
  BY <1>1, <1>2, WritersPrepare DEF Ending, Preparing
<1>3. CASE ExitPipe /\ MakePipe("exit", "exit", "cexit") /\ GoTo("input", "ok")
  BY <1>1, <1>3, WritersPipe DEF ExitPipe, GoTo
<1>4. CASE ReportPipe /\ MakePipe("report", "report.r", "report.w") /\ GoTo("program", "ok")
  BY <1>1, <1>4, WritersPipe DEF ReportPipe, GoTo
<1>5. CASE ForkPipe /\ MakePipe("fork", "fork.r", "fork.w") /\ GoTo("fork", "ok")
  <2>1. ppc = "forkpipe" /\ ppc' = "fork"
    BY <1>5 DEF ForkPipe, GoTo
  <2>2. h["report.w"] \in Fd /\ fds[h["report.w"]].cloexec
    BY <2>1 DEF IndInv, Pipes, ReportEnd, Writers, ParentsWriters
  <2> QED
    BY <1>1, <1>5, <2>1, <2>2, WritersPipe
<1> QED
  BY <1>2, <1>3, <1>4, <1>5 DEF ExitPipe, ReportPipe, ForkPipe, GoTo

LEMMA DestroyFacts ==
  ASSUME NEW t \in Table, NEW f
  PROVE  /\ Destroy(t, f) \in Table
         /\ \A g \in Fd : g # f => Destroy(t, f)[g] = t[g]
         /\ f \in Fd => Destroy(t, f)[f] = Closed
BY FdFacts DEF Destroy, Table

(* setup_input closes a number that none of the child's variables has, but *)
(* as one of the first three.                                              *)
LEMMA WritersInput == ASSUME IndInv, Writers, SetupInput PROVE Writers'
<1>1. ppc = "input" /\ ppc \in Preparing /\ UNCHANGED <<fds0, childVars>>
  BY DEF SetupInput, Keep, Preparing
<1>2. /\ fds \in Table /\ h \in [Owner -> Handle] /\ Given /\ UserFd \in Fd
      /\ Prepared(fds, h) /\ NotYet(ppc, h)
      /\ OnlyEnd(fds, h, "fork") /\ OnlyEnd(fds, h, "report")
  BY <1>1, WritersBefore
<1>3. CASE GoTo("finish", "EAGAIN")
  BY <1>1, <1>3, WritersPrepare DEF GoTo, Ending, Preparing
<1>4. CASE GoTo("start", "ok") /\ UNCHANGED <<fds, h>>
  BY <1>1, <1>2, <1>4, WritersPrepare DEF GoTo, Preparing, NotYet
<1>5. CASE /\ GoTo("start", "ok") /\ fds' = Destroy(fds, h["in"])
           /\ h' = [h EXCEPT !["in"] = HANDLE_INVALID]
  <2>1. ppc' = "start"
    BY <1>5 DEF GoTo
  <2>2. /\ \A f \in Fd : f # h["in"] => fds'[f] = fds[f]
        /\ h["in"] \in Fd => fds'[h["in"]] = Closed
    BY <1>2, <1>5, DestroyFacts
  <2>3. /\ h'["in"] = HANDLE_INVALID
        /\ \A o \in {"fork.w", "report.w", "cin", "cout", "cerr", "cexit"} : h'[o] = h[o]
    BY <1>2, <1>5, WriterFacts
  <2>4. h["in"] \in Fd => fds[h["in"]].file = WriteEnd["in"]
    BY <1>2 DEF Prepared
  <2>5. Numbers(fds', h')
    BY <1>2, <2>2, <2>3, <2>4, WriterFacts DEF Prepared, Numbers
  <2>6. fds'[UserFd].file = "user"
    BY <1>2, <2>2, <2>4, WriterFacts DEF Prepared
  <2>7. Prepared(fds', h')
    BY <2>3, <2>5, <2>6, FdFacts DEF Prepared
  <2>8. Closed.file # WriteEnd["fork"] /\ Closed.file # WriteEnd["report"]
    BY WriterFacts DEF Closed
  <2>9. OnlyEnd(fds', h', "fork") /\ OnlyEnd(fds', h', "report")
    BY <1>2, <2>2, <2>3, <2>8, WriterFacts DEF OnlyEnd
  <2>10. NotYet(ppc', h')
    BY <1>1, <1>2, <2>1, <2>3 DEF NotYet
  <2> QED
    BY <1>1, <2>1, <2>7, <2>9, <2>10, WritersPrepare DEF Preparing
<1> QED
  BY <1>3, <1>4, <1>5 DEF SetupInput

LEMMA WritersOnward ==
  ASSUME IndInv, Writers, Parse \/ Program \/ BlockSignals \/ ForkFails
  PROVE  Writers'
<1>1. /\ ppc \in {"parse", "program", "block", "fork"} /\ ppc \in Preparing
      /\ UNCHANGED <<fds0, childVars>>
      /\ \/ ppc' \in {"close", "finish"}
         \/ UNCHANGED <<fds, h>> /\ ppc' = "redirect.in" /\ ppc = "parse"
         \/ UNCHANGED <<fds, h>> /\ ppc' \in {"block", "forkpipe"} /\ ppc \in {"program", "block"}
  BY DEF Parse, Program, BlockSignals, ForkFails, GoTo, Keep, Preparing
<1>2. /\ Prepared(fds, h) /\ NotYet(ppc, h)
      /\ OnlyEnd(fds, h, "fork") /\ OnlyEnd(fds, h, "report")
  BY <1>1, WritersBefore
<1>3. CASE ppc' \in {"close", "finish"}
  BY <1>1, <1>3, WritersPrepare DEF Ending, Preparing
<1>4. CASE UNCHANGED <<fds, h>> /\ ppc' = "redirect.in" /\ ppc = "parse"
  BY <1>1, <1>2, <1>4, WritersPrepare DEF Preparing, NotYet
<1>5. CASE UNCHANGED <<fds, h>> /\ ppc' \in {"block", "forkpipe"} /\ ppc \in {"program", "block"}
  <2>1. fds[h["report.w"]].cloexec
    BY <1>5 DEF Writers, ParentsWriters
  <2>2. NotYet(ppc', h')
    BY <1>2, <1>5 DEF NotYet
  <2> QED
    BY <1>1, <1>2, <1>5, <2>1, <2>2, WritersPrepare DEF Preparing
<1> QED
  BY <1>1, <1>3, <1>4, <1>5

(* The child begins with the parent's table and variables.                 *)
LEMMA WritersFork == ASSUME IndInv, Writers, Fork PROVE Writers'
<1>1. /\ ppc = "fork" /\ ppc \in Preparing /\ ppc' = "forked"
      /\ child' = "alive" /\ cpc' = "reset" /\ cfds' = fds /\ ch' = h
      /\ UNCHANGED <<fds0, fds, h>>
  BY DEF Fork, Keep, GoTo, Preparing
<1>2. Prepared(fds, h) /\ OnlyEnd(fds, h, "fork") /\ OnlyEnd(fds, h, "report")
  BY <1>1, WritersBefore
<1>3. fds[h["report.w"]].cloexec
  BY <1>1 DEF Writers, ParentsWriters
<1>4. ChildsWriters'
  BY <1>1, <1>2, <1>3 DEF ChildsWriters, Prepared, Numbers, OnlyEnd, InFork
<1>5. ParentsWriters'
  BY <1>1, <1>2 DEF ParentsWriters, OnlyEnd, Preparing, Ending, Forking
<1> QED
  BY <1>4, <1>5 DEF Writers

(* Steps of the parent when there is a child, and to the end.              *)
LEMMA WritersGoOn ==
  ASSUME IndInv, Writers, ppc \in Forking \cup Ending,
         Forked \/ ForkRead \/ ForkWait \/ ForkClose \/ ReportClose \/ ReportRead \/ ReportWait
           \/ CloseReport \/ Finish \/ Interrupted
  PROVE  Writers'
<1> USE DEF SleepsInRead, NothingFromFork, NothingFromReport, Interrupted, ForkReadInterrupted,
            ReportReadInterrupted, ReadAsserts, WaitInterrupted
<1>1. UNCHANGED <<cpc, cfds, ch>> /\ (child' = child \/ (child = "zombie" /\ child' = "reaped"))
  BY DEF Forked, ForkRead, ForkWait, WaitTold, ForkClose, ReportClose, ReportRead,
     ReportWait, CloseReport, Finish, childVars
<1>2. ChildsWriters'
  BY <1>1, ChildsWritersStay DEF Writers
<1>3. fds \in Table /\ h \in [Owner -> Handle]
  BY DEF IndInv, TypeOK
<1>4. Preparing \cap (Forking \cup Ending) = {} /\ Ending \cap Forking = {}
  BY DEF Preparing, Forking, Ending
<1>5. CASE ppc' \in Ending
  BY <1>2, <1>4, <1>5 DEF Writers, ParentsWriters, Preparing, Forking, Ending
<1>6. CASE ppc' \notin Ending
  <2>1. ppc \in Forking /\ ppc' \in Forking \ {"forked"}
    BY <1>6 DEF Forked, ForkRead, ForkWait, WaitTold, ForkClose, ReportClose, ReportRead,
       ReportWait, CloseReport, Finish, GoTo, Forking, Ending
  <2>2. OnlyEnd(fds, h, "fork") /\ OnlyEnd(fds, h, "report")
    BY <1>4, <2>1 DEF Writers, ParentsWriters
  <2>3. PICK o \in {"fork.w", "fork.r", "report.w"} :
           \/ UNCHANGED <<fds, h>> /\ ppc # "forked" /\ (ppc' \in {"report.read", "report.wait"} => ppc = "report.read")
           \/ /\ fds' = Destroy(fds, h[o]) /\ h' = [h EXCEPT ![o] = HANDLE_INVALID]
              /\ o = "fork.w" <=> ppc = "forked"
              /\ o = "report.w" <=> ppc' \in {"report.read", "report.wait"}
    BY <1>6 DEF Forked, ForkRead, Keep, ForkWait, WaitTold, ForkClose, ReportClose, ReportRead,
       ReportWait, CloseReport, Finish, GoTo, Ending
  <2>4. CASE UNCHANGED <<fds, h>> /\ ppc # "forked" /\ (ppc' \in {"report.read", "report.wait"} => ppc = "report.read")
    <3>1. h["fork.w"] = HANDLE_INVALID /\ (ppc = "report.read" => h["report.w"] = HANDLE_INVALID)
      BY <2>1, <2>4 DEF Writers, ParentsWriters
    <3> QED
      BY <1>2, <1>4, <2>1, <2>2, <2>4, <3>1 DEF Writers, ParentsWriters, OnlyEnd, Preparing
  <2>5. CASE /\ fds' = Destroy(fds, h[o]) /\ h' = [h EXCEPT ![o] = HANDLE_INVALID]
             /\ o = "fork.w" <=> ppc = "forked"
             /\ o = "report.w" <=> ppc' \in {"report.read", "report.wait"}
    <3>1. /\ \A f \in Fd : f # h[o] => fds'[f] = fds[f]
          /\ h[o] \in Fd => fds'[h[o]] = Closed
      BY <1>3, <2>5, DestroyFacts
    <3>2. /\ h'["fork.w"] = (IF o = "fork.w" THEN HANDLE_INVALID ELSE h["fork.w"])
          /\ h'["report.w"] = (IF o = "report.w" THEN HANDLE_INVALID ELSE h["report.w"])
      BY <1>3, <2>5, WriterFacts
    <3>3. Closed.file # WriteEnd["fork"] /\ Closed.file # WriteEnd["report"]
      BY WriterFacts DEF Closed
    <3>4. OnlyEnd(fds', h', "fork") /\ OnlyEnd(fds', h', "report")
      BY <2>2, <3>1, <3>2, <3>3, WriterFacts DEF OnlyEnd
    <3>5. h'["fork.w"] = HANDLE_INVALID
      BY <2>1, <2>5, <3>2 DEF Writers, ParentsWriters
    <3>6. ppc' \in {"report.read", "report.wait"} => h'["report.w"] = HANDLE_INVALID
      BY <2>5, <3>2
    <3> QED
      BY <1>2, <1>4, <2>1, <3>4, <3>5, <3>6 DEF Writers, ParentsWriters, OnlyEnd, Preparing
  <2> QED
    BY <2>3, <2>4, <2>5
<1> QED
  BY <1>5, <1>6

LEMMA WritersParent == ASSUME IndInv, Writers, ParentNext PROVE Writers'
<1>1. CASE Forked \/ ForkRead \/ ForkWait \/ ForkClose \/ ReportClose \/ ReportRead \/ ReportWait
           \/ CloseReport \/ Finish
  <2>1. ppc \in Forking \cup Ending
    BY <1>1 DEF Forked, ForkRead, ForkWait, WaitTold, ForkClose, ReportClose, ReportRead,
       ReportWait, CloseReport, Finish, Forking, Ending
  <2> QED
    BY <1>1, <2>1, WritersGoOn
<1> QED
  BY <1>1, WritersRedirect, WritersPipes, WritersInput, WritersOnward, WritersFork DEF ParentNext

(* The child's steps *)

LEMMA WritersChild ==
  ASSUME Writers, UNCHANGED parentVars, ChildsWriters'
  PROVE  Writers'
<1>1. UNCHANGED <<ppc, fds, fds0, h>>
  BY DEF parentVars
<1>2. ParentsWriters'
  BY <1>1 DEF Writers, ParentsWriters, OnlyEnd, Prepared, Numbers, NotYet, UserFd
<1> QED
  BY <1>2 DEF Writers

LEMMA WritersDies == ASSUME Writers, Dies, UNCHANGED parentVars PROVE Writers'
<1>1. child' = "zombie" /\ cfds' = [f \in Fd |-> Closed]
  BY DEF Dies
<1>2. ChildsWriters'
  BY <1>1, WriterFacts DEF ChildsWriters, Holds, Closed
<1> QED
  BY <1>2, WritersChild

(* A child that has told its error keeps its copies until it ends.         *)
LEMMA WritersTell ==
  ASSUME Writers, child = "alive", UNCHANGED parentVars,
         NEW p \in {"fork", "report"}, NEW e \in Errors, Tell(p, e)
  PROVE  Writers'
<1>1. child' = "alive" /\ cpc' = "exit" /\ UNCHANGED <<cfds, ch>>
  BY DEF Tell
<1>2. ChildsWriters'
  BY <1>1 DEF ChildsWriters, Starting, InFork
<1> QED
  BY <1>2, WritersChild

(* What the steps below start from.                                        *)
LEMMA WritersStarting ==
  ASSUME IndInv, Writers, child = "alive", cpc \in Starting
  PROVE  /\ cfds \in Table /\ ch \in [Owner -> Handle]
         /\ OnlyEnd(cfds, ch, "report") /\ Numbers(cfds, ch) /\ cfds[ch["report.w"]].cloexec
         /\ ReportEnd(cfds, ch)
         /\ \A o \in {"cin", "cout", "cerr", "cexit"} : ch[o] \in Fd /\ ch[o] # ch["report.w"]
<1>1. /\ cfds \in Table /\ ch \in [Owner -> Handle] /\ ReportEnd(cfds, ch)
      /\ \A o \in {"cin", "cout", "cerr", "cexit"} : ch[o] \in Fd
  BY ChildFacts
<1>2. OnlyEnd(cfds, ch, "report") /\ Numbers(cfds, ch) /\ cfds[ch["report.w"]].cloexec
  BY DEF Writers, ChildsWriters
<1>3. \A o \in {"cin", "cout", "cerr", "cexit"} : ch[o] # ch["report.w"]
  BY <1>1, <1>2, WriterFacts DEF Numbers, ReportEnd
<1> QED
  BY <1>1, <1>2, <1>3

LEMMA WritersCloseAll == ASSUME IndInv, Writers, CloseAll PROVE Writers'
<1> DEFINE S == ({f \in Fd : f < MaxFd} \ (Except \cup {ch["fork.r"], ch["fork.w"]}))
                   \cup {ch["fork.r"], ch["fork.w"]}
<1>1. /\ child = "alive" /\ cpc = "closeall" /\ cpc' = "dup.in" /\ cfds' = DestroyAll(cfds, S)
      /\ UNCHANGED <<child, ch, parentVars>>
  BY DEF CloseAll, At
<1>2. cpc \in Starting /\ cpc \in InFork /\ cpc' \in Starting \ InFork
  BY <1>1 DEF Starting, InFork
<1>3. /\ cfds \in Table /\ OnlyEnd(cfds, ch, "report") /\ Numbers(cfds, ch)
      /\ cfds[ch["report.w"]].cloexec /\ ReportEnd(cfds, ch) /\ ForkEnds(cfds, ch)
      /\ OnlyEnd(cfds, ch, "fork")
  BY <1>1, <1>2, WritersStarting, ChildFacts DEF Writers, ChildsWriters
<1>4. /\ \A f \in Fd \ S : cfds'[f] = cfds[f]
      /\ \A f \in Fd \cap S : cfds'[f] = Closed
  BY <1>1 DEF DestroyAll
<1>5. \A o \in {"cin", "cout", "cerr", "cexit", "report.w"} :
         ch[o] \in S => ch[o] \in {ch["fork.r"], ch["fork.w"]}
  BY DEF Except
<1>6. ch["fork.w"] \in S
  OBVIOUS
<1> HIDE DEF S
<1>7. /\ ReadEnd["fork"] \notin ChildFile \cup {WriteEnd["report"]}
      /\ WriteEnd["fork"] \notin ChildFile \cup {WriteEnd["report"]}
  BY DEF ChildFile, ReadEnd, WriteEnd
<1>8. ch["report.w"] \notin S
  BY <1>3, <1>5, <1>7 DEF ReportEnd, ForkEnds
<1>9. Numbers(cfds', ch)
  <2>1. ASSUME NEW o \in {"cin", "cout", "cerr", "cexit"}, ch[o] \in Fd, ch[o] \notin {0, 1, 2}
        PROVE  cfds'[ch[o]].file \in ChildFile
    <3>1. cfds[ch[o]].file \in ChildFile
      BY <1>3, <2>1 DEF Numbers
    <3>2. ch[o] \notin S
      BY <1>3, <1>5, <1>7, <3>1 DEF ForkEnds
    <3> QED
      BY <1>4, <2>1, <3>1, <3>2
  <2> QED
    BY <2>1 DEF Numbers
<1>10. Closed.file # WriteEnd["fork"] /\ Closed.file # WriteEnd["report"]
  BY WriterFacts DEF Closed
<1>11. OnlyEnd(cfds', ch, "report") /\ cfds'[ch["report.w"]].cloexec
  BY <1>3, <1>4, <1>8, <1>10 DEF OnlyEnd, ReportEnd
<1>12. ~Holds(cfds', WriteEnd["fork"])
  BY <1>3, <1>4, <1>6, <1>10, WriterFacts DEF OnlyEnd, Holds
<1>13. ChildsWriters'
  BY <1>1, <1>2, <1>9, <1>11, <1>12 DEF ChildsWriters, OnlyEnd, Numbers, Holds
<1> QED
  BY <1>1, <1>13, WritersChild

LEMMA WritersDup == ASSUME IndInv, Writers, NEW s \in Stream, RedirectChild(s) PROVE Writers'
<1> DEFINE from == ch[Childs[s]]
           to   == StdFd[s]
<1>1. /\ child = "alive" /\ cpc = [in |-> "dup.in", out |-> "dup.out", err |-> "dup.err"][s]
      /\ UNCHANGED parentVars /\ cpc \in Starting \ InFork
  BY DEF RedirectChild, At, Stream, Starting, InFork
<1>2. CASE Tell("report", "EBADF")
  BY <1>1, <1>2, WritersTell DEF Errors
<1>3. CASE /\ cfds' = Redirected(s)
           /\ cpc' = [in |-> "dup.out", out |-> "dup.err", err |-> "chdir"][s]
           /\ UNCHANGED <<child, ch, cmask, told>>
  <2>1. cpc' \in Starting \ InFork /\ cpc' # "program"
    BY <1>3 DEF Stream, Starting, InFork
  <2>2. /\ cfds \in Table /\ ch \in [Owner -> Handle] /\ ReportEnd(cfds, ch)
        /\ OnlyEnd(cfds, ch, "report") /\ Numbers(cfds, ch) /\ cfds[ch["report.w"]].cloexec
        /\ from \in Fd /\ from # ch["report.w"] /\ to \in Fd /\ to \in {0, 1, 2}
    BY <1>1, WritersStarting, FdFacts DEF Childs, Stream
  <2>3. ~Holds(cfds, WriteEnd["fork"])
    BY <1>1 DEF Writers, ChildsWriters, Starting, InFork
  <2> DEFINE t == Dup2(cfds, from, to)
  <2>4. cfds' = t \/ cfds' = Cloexec(t, from, TRUE)
    BY <1>3 DEF Redirected
  <2> HIDE DEF from, to
  <2>5. /\ t \in Table /\ \A f \in Fd \ {to} : t[f] = cfds[f]
        /\ t[to].file \in {cfds[from].file, cfds[to].file}
        /\ from # to => t[to].file = cfds[from].file
    BY <2>2 DEF Dup2, Table, Entry
  <2> HIDE DEF t
  <2>6. /\ \A f \in Fd : cfds'[f].file = t[f].file
        /\ \A f \in Fd \ {from} : cfds'[f] = t[f]
    BY <2>2, <2>4, <2>5 DEF Cloexec, Table, Entry
  <2>7. ch["report.w"] \in Fd /\ ch["report.w"] # to
    BY <2>2 DEF ReportEnd
  <2>8. OnlyEnd(cfds', ch, "report")
    BY <2>2, <2>5, <2>6, <2>7, WriterFacts DEF OnlyEnd
  <2>9. Numbers(cfds', ch)
    <3>1. \A f \in Fd \ {to} : cfds'[f].file = cfds[f].file
      BY <2>5, <2>6
    <3> QED
      BY <2>2, <3>1 DEF Numbers
  <2>10. cfds'[ch["report.w"]].cloexec
    BY <2>2, <2>5, <2>6, <2>7
  <2>11. ~Holds(cfds', WriteEnd["fork"])
    <3>1. \A f \in Fd : \E g \in Fd : cfds'[f].file = cfds[g].file
      BY <2>2, <2>5, <2>6
    <3> QED
      BY <2>3, <3>1 DEF Holds
  <2>12. ChildsWriters'
    BY <1>1, <1>3, <2>1, <2>8, <2>9, <2>10, <2>11 DEF ChildsWriters, OnlyEnd, Numbers, Holds
  <2> QED
    BY <1>1, <2>12, WritersChild
<1> QED
  BY <1>2, <1>3 DEF RedirectChild

LEMMA WritersProgram ==
  ASSUME IndInv, Writers, ChangeDir \/ ExecProgram \/ ReturnInChild
  PROVE  Writers'
<1>1. /\ child = "alive" /\ cpc \in {"chdir", "exec", "return"} /\ UNCHANGED parentVars
      /\ cpc \in Starting \ InFork
  BY DEF ChangeDir, ExecProgram, ReturnInChild, At, Starting, InFork
<1>2. /\ cfds \in Table /\ ch \in [Owner -> Handle] /\ ReportEnd(cfds, ch)
      /\ OnlyEnd(cfds, ch, "report") /\ Numbers(cfds, ch) /\ cfds[ch["report.w"]].cloexec
      /\ ch["cexit"] \in Fd /\ ch["cexit"] # ch["report.w"]
  BY <1>1, WritersStarting
<1>3. ~Holds(cfds, WriteEnd["fork"])
  BY <1>1 DEF Writers, ChildsWriters
<1>4. "program" \notin Starting \cup InFork
  BY DEF Starting, InFork
<1>5. Closed.file # WriteEnd["fork"] /\ Closed.file # WriteEnd["report"]
  BY WriterFacts DEF Closed
<1>6. CASE Tell("report", "ENOENT")
  BY <1>1, <1>6, WritersTell DEF Errors
<1>7. CASE /\ cfds' = Cloexec(cfds, ch["cexit"], FALSE) /\ cpc' \in {"exec", "return"}
           /\ UNCHANGED <<child, ch>>
  <2>1. /\ \A f \in Fd : cfds'[f].file = cfds[f].file
        /\ \A f \in Fd \ {ch["cexit"]} : cfds'[f] = cfds[f]
    BY <1>2, <1>7 DEF Cloexec, Table, Entry
  <2>2. cpc' \in Starting \ InFork /\ cpc' # "program"
    BY <1>7 DEF Starting, InFork
  <2>3. OnlyEnd(cfds', ch, "report") /\ Numbers(cfds', ch) /\ ~Holds(cfds', WriteEnd["fork"])
    BY <1>2, <1>3, <2>1 DEF OnlyEnd, Numbers, Holds
  <2>4. cfds'[ch["report.w"]].cloexec
    BY <1>2, <2>1 DEF ReportEnd
  <2>5. ChildsWriters'
    BY <1>1, <1>7, <2>2, <2>3, <2>4 DEF ChildsWriters, OnlyEnd, Numbers, Holds
  <2> QED
    BY <1>1, <2>5, WritersChild
<1>8. CASE cfds' = Exec(cfds) /\ cpc' = "program" /\ UNCHANGED child
  <2>1. \A f \in Fd : cfds'[f] = IF cfds[f].cloexec THEN Closed ELSE cfds[f]
    BY <1>8 DEF Exec
  <2>2. ~Holds(cfds', WriteEnd["fork"]) /\ ~Holds(cfds', WriteEnd["report"])
    BY <1>2, <1>3, <1>5, <2>1, WriterFacts DEF OnlyEnd, Holds
  <2>3. ChildsWriters'
    BY <1>1, <1>4, <1>8, <2>2 DEF ChildsWriters, Holds
  <2> QED
    BY <1>1, <2>3, WritersChild
<1>9. CASE ReturnInChild
  <2> DEFINE S == ChildEnds(Types(options), ch) \cup {ch["report.r"], ch["report.w"]}
  <2>1. cfds' = DestroyAll(cfds, S) /\ cpc' = "program" /\ UNCHANGED child /\ ch["report.w"] \in S
    BY <1>9 DEF ReturnInChild
  <2> HIDE DEF S
  <2>2. \A f \in Fd : cfds'[f] = IF f \in S THEN Closed ELSE cfds[f]
    BY <2>1 DEF DestroyAll
  <2>3. ~Holds(cfds', WriteEnd["fork"]) /\ ~Holds(cfds', WriteEnd["report"])
    BY <1>2, <1>3, <1>5, <2>1, <2>2, WriterFacts DEF OnlyEnd, Holds
  <2>4. ChildsWriters'
    BY <1>1, <1>4, <2>1, <2>3 DEF ChildsWriters, Holds
  <2> QED
    BY <1>1, <2>4, WritersChild
<1> QED
  BY <1>6, <1>7, <1>8, <1>9 DEF ChangeDir, ExecProgram

LEMMA WritersChildNext == ASSUME IndInv, Writers, ChildNext PROVE Writers'
<1>1. CASE ResetSignals \/ CheckLimit
  <2>1. child = "alive" /\ cpc \in {"reset", "limit"} /\ UNCHANGED parentVars
    BY <1>1 DEF ResetSignals, CheckLimit, At
  <2>2. CASE Tell("fork", EINVAL)
    BY <2>1, <2>2, WritersTell DEF Errors
  <2>3. CASE cpc' \in {"limit", "closeall"} /\ UNCHANGED <<child, cfds, ch>>
    <3>1. ChildsWriters'
      BY <2>1, <2>3 DEF Writers, ChildsWriters, OnlyEnd, Numbers, Holds, Starting, InFork
    <3> QED
      BY <2>1, <3>1, WritersChild
  <2> QED
    BY <1>1, <2>2, <2>3 DEF ResetSignals, CheckLimit
<1>2. CASE Exits
  BY <1>2, WritersDies DEF Exits
<1> QED
  BY <1>1, <1>2, WritersCloseAll, WritersDup, WritersProgram DEF ChildNext

LEMMA WritersStep == IndInv /\ Writers /\ [Next]_vars => Writers'
<1> SUFFICES ASSUME IndInv, Writers, [Next]_vars PROVE Writers'
  OBVIOUS
<1>1. CASE ChildKilled
  BY <1>1, WritersDies DEF ChildKilled
<1>2. CASE HostReaps \/ UNCHANGED vars
  <2>1. /\ UNCHANGED <<parentVars, cpc, cfds, ch>>
        /\ child' = child \/ (child = "zombie" /\ child' = "reaped")
    BY <1>2 DEF HostReaps, vars, childVars
  <2> QED
    BY <2>1, ChildsWritersStay, WritersChild DEF Writers
<1>3. CASE Interrupted
  <2>1. ppc \in Forking
    BY <1>3 DEF Interrupted, ForkReadInterrupted, ReportReadInterrupted, ReadAsserts,
       WaitInterrupted, SleepsInRead, Forking
  <2> QED
    BY <1>3, <2>1, WritersGoOn
<1> QED
  BY <1>1, <1>2, <1>3, WritersParent, WritersChildNext DEF Next

(* While reproc_start sleeps in read() or waitpid(), a child is on its way *)
(* to its program: no write end kept by either process, or copied by dup2  *)
(* to a number that exec leaves open, makes the two wait for each other,   *)
(* whatever the options and whatever the parent has open or closed.        *)
THEOREM NeitherWaits == Spec => []NoCrossWait
<1>1. IndInv /\ Writers => NoCrossWait
  <2> SUFFICES ASSUME IndInv, Writers, Sleeps PROVE child = "alive" /\ cpc # "program"
    BY DEF NoCrossWait
  <2>1. CASE ppc \in {"fork.wait", "report.wait"} /\ child = "alive"
    BY <2>1 DEF IndInv, Parent, Child, Untold
  <2>2. CASE ppc = "fork.read" /\ ~NoWriter("fork")
    <3>1. ~Holds(fds, WriteEnd["fork"])
      BY <2>2, FdFacts, WriterFacts
         DEF Writers, ParentsWriters, OnlyEnd, Holds, Forking, Ending
    <3>2. Holds(cfds, WriteEnd["fork"])
      BY <2>2, <3>1 DEF NoWriter
    <3> QED
      BY <3>2 DEF Writers, ChildsWriters, InFork
  <2>3. CASE ppc = "report.read" /\ ~NoWriter("report")
    <3>1. ~Holds(fds, WriteEnd["report"])
      BY <2>3, FdFacts, WriterFacts
         DEF Writers, ParentsWriters, OnlyEnd, Holds, Forking, Ending
    <3>2. Holds(cfds, WriteEnd["report"])
      BY <2>3, <3>1 DEF NoWriter
    <3> QED
      BY <3>2 DEF Writers, ChildsWriters
  <2> QED
    BY <2>1, <2>2, <2>3 DEF Sleeps, SleepsInRead
<1> QED
  BY <1>1, Inductive, WritersInit, WritersStep, PTL DEF Spec
-----------------------------------------------------------------------------
(* The parent's descriptors.  What reproc_start has opened and not yet     *)
(* closed is at the numbers of the variables it owns; everything else in   *)
(* the table is what it was.                                               *)
OwnedOwner ==
    Parental \cup {"cexit", "report.r", "report.w", "fork.r", "fork.w"}
             \cup {Childs[s] : s \in {x \in Stream : Opened(x, Types(options))}}

(* The files a variable can stand for.  They tell any two variables apart  *)
(* but the child's ends, which are closed together only.                   *)
ChildEnd == {"cin", "cout", "cerr"}

FilesOf(o) ==
    CASE o = "in"       -> {"in.w"}
      [] o = "out"      -> {"out.r"}
      [] o = "err"      -> {"err.r"}
      [] o = "exit"     -> {"exit.r"}
      [] o = "cexit"    -> {"exit.w"}
      [] o = "report.r" -> {"report.r"}
      [] o = "report.w" -> {"report.w"}
      [] o = "fork.r"   -> {"fork.r"}
      [] o = "fork.w"   -> {"fork.w"}
      [] o = "cin"      -> {"in.r", "null", "path"}
      [] o = "cout"     -> {"out.w", "null", "path"}
      [] o = "cerr"     -> {"err.w", "null", "path"}

Holding(O, t0, t, hs) ==
    /\ \A f \in Fd : IF \E o \in O : hs[o] = f THEN t0[f] = Closed ELSE t[f] = t0[f]
    /\ \A o \in O : hs[o] \in Fd => t[hs[o]].file \in FilesOf(o)

(* The variables that hold nothing at each place.                          *)
Unmade(place) ==
    CASE place \in {"parse", "redirect.in"} -> Owner
      [] place = "redirect.out" -> Owner \ {"in", "cin"}
      [] place = "redirect.err" -> Owner \ {"in", "cin", "out", "cout"}
      [] place = "exit" -> {"exit", "cexit", "report.r", "report.w", "fork.r", "fork.w"}
      [] place \in {"input", "start", "finish"} -> {"report.r", "report.w", "fork.r", "fork.w"}
      [] place \in {"fork.read", "fork.wait", "fork.close"} -> {"fork.w"}
      [] place \in {"fork", "forked", "aborted", "returned"} -> {}
      [] OTHER -> {"fork.r", "fork.w"}

Descriptors ==
    DiscardedForParent = {} /\ ppc # "returned" =>
    /\ \A o \in Unmade(ppc) : h[o] = HANDLE_INVALID
    /\ Holding(OwnedOwner, fds0, fds, h)

LEMMA FilesFacts ==
  /\ \A o \in Owner : FilesOf(o) \subseteq File
  /\ \A o, q \in Owner : o # q /\ ~(o \in ChildEnd /\ q \in ChildEnd) =>
        FilesOf(o) \cap FilesOf(q) = {}
  /\ NoFile \notin File
<1>1. \A o \in Owner : o \in {"in", "out", "err", "exit", "cin", "cout", "cerr", "cexit",
                              "report.r", "report.w", "fork.r", "fork.w"}
  BY DEF Owner, Parental
<1>2. NoFile \notin File
  BY DEF File, NoFile, PipeEnd, PipeName, ReadEnd, WriteEnd
<1>3. {"in.r", "in.w", "out.r", "out.w", "err.r", "err.w", "exit.r", "exit.w", "report.r",
       "report.w", "fork.r", "fork.w", "null", "path"} \subseteq File
  BY DEF File, PipeEnd, PipeName, ReadEnd, WriteEnd
<1>4. \A o \in Owner : FilesOf(o) \subseteq File
  BY <1>1, <1>3 DEF FilesOf
<1>5. ASSUME NEW o \in Owner, NEW q \in Owner, o # q, ~(o \in ChildEnd /\ q \in ChildEnd)
      PROVE  FilesOf(o) \cap FilesOf(q) = {}
  BY <1>1, <1>5 DEF FilesOf, ChildEnd
<1> QED
  BY <1>2, <1>4, <1>5

LEMMA OwnedFacts ==
  /\ OwnedOwner \subseteq Owner
  /\ Parental \cup {"cexit", "report.r", "report.w", "fork.r", "fork.w"} \subseteq OwnedOwner
  /\ \A s \in Stream : Childs[s] \in OwnedOwner <=> Opened(s, Types(options))
<1>1. \A s \in Stream : Childs[s] \in {"cin", "cout", "cerr"}
  BY DEF Stream, Childs
<1>2. \A s, x \in Stream : Childs[s] = Childs[x] => s = x
  BY DEF Stream, Childs
<1> QED
  BY <1>1, <1>2 DEF OwnedOwner, Owner, Parental

(* An owner gets a file at a free number.                                  *)
LEMMA OpenHolds ==
  ASSUME NEW O \in SUBSET Owner, NEW t0, NEW t \in Table, NEW hs \in [Owner -> Handle],
         Holding(O, t0, t, hs), NEW o \in O, hs[o] = HANDLE_INVALID,
         NEW f \in FreeFds(t), NEW file \in FilesOf(o)
  PROVE  Holding(O, t0, Put(t, f, file), [hs EXCEPT ![o] = f])
<1> DEFINE u == Put(t, f, file)
           hs2 == [hs EXCEPT ![o] = f]
<1>1. f \in Fd /\ t[f] = Closed /\ file \in File
  BY FilesFacts DEF FreeFds
<1>2. u[f].file = file /\ \A g \in Fd \ {f} : u[g] = t[g]
  BY <1>1, PutFacts
<1>3. hs2[o] = f /\ \A q \in O \ {o} : hs2[q] = hs[q]
  OBVIOUS
<1>4. \A q \in O : hs[q] # f
  BY <1>1, FilesFacts DEF Holding, Closed
<1> HIDE DEF u, hs2
<1>5. ASSUME NEW g \in Fd
      PROVE  IF \E q \in O : hs2[q] = g THEN t0[g] = Closed ELSE u[g] = t0[g]
  <2>1. CASE g = f
    BY <1>1, <1>3, <1>4, <2>1 DEF Holding
  <2>2. CASE g # f
    <3>1. (\E q \in O : hs2[q] = g) <=> (\E q \in O : hs[q] = g)
      BY <1>3, <2>2, FdFacts
    <3> QED
      BY <1>2, <2>2, <3>1 DEF Holding
  <2> QED
    BY <2>1, <2>2
<1>6. ASSUME NEW q \in O, hs2[q] \in Fd
      PROVE  u[hs2[q]].file \in FilesOf(q)
  BY <1>2, <1>3, <1>4, <1>6 DEF Holding
<1> QED
  BY <1>5, <1>6 DEF Holding, u, hs2

LEMMA PipeHolds ==
  ASSUME NEW O \in SUBSET Owner, NEW t0, NEW t \in Table, NEW hs \in [Owner -> Handle],
         Holding(O, t0, t, hs), CanPipe(t), NEW a \in O, NEW b \in O, a # b,
         hs[a] = HANDLE_INVALID, hs[b] = HANDLE_INVALID,
         NEW r0 \in FilesOf(a), NEW w \in FilesOf(b)
  PROVE  Holding(O, t0, PipeTable(t, r0, w), [hs EXCEPT ![a] = ReadFd(t), ![b] = WriteFd(t, r0)])
<1> DEFINE rf == ReadFd(t)
           wf == WriteFd(t, r0)
           u == Put(t, rf, r0)
           hs1 == [hs EXCEPT ![a] = rf]
<1>1. r0 \in File /\ w \in File
  BY FilesFacts
<1>2. /\ rf \in FreeFds(t) /\ wf \in FreeFds(t) /\ rf # wf
  BY <1>1, PipeFacts
<1>3. u \in Table /\ FreeFds(u) = FreeFds(t) \ {rf}
  BY <1>1, <1>2, PutFacts DEF FreeFds
<1>4. PipeTable(t, r0, w) = Put(u, wf, w)
  BY DEF PipeTable
<1>5. rf \in Handle
  BY <1>2, FdFacts DEF FreeFds
<1> HIDE DEF rf, wf
<1>6. Holding(O, t0, u, hs1)
  BY <1>2, OpenHolds
<1>7. hs1 \in [Owner -> Handle] /\ hs1[b] = HANDLE_INVALID
  BY <1>5
<1>8. [hs EXCEPT ![a] = rf, ![b] = wf] = [hs1 EXCEPT ![b] = wf]
  OBVIOUS
<1> HIDE DEF u, hs1
<1>9. Holding(O, t0, Put(u, wf, w), [hs1 EXCEPT ![b] = wf])
  BY <1>2, <1>3, <1>6, <1>7, OpenHolds
<1> QED
  BY <1>4, <1>8, <1>9 DEF rf, wf

(* Some owners close what they have.                                       *)
LEMMA CloseHolds ==
  ASSUME NEW O \in SUBSET Owner, NEW t0, NEW t \in Table, NEW hs \in [Owner -> Handle], NEW hs2,
         Holding(O, t0, t, hs), NEW S \in SUBSET O,
         \A o \in S, q \in O \ S : FilesOf(o) \cap FilesOf(q) = {},
         \A o \in O : hs2[o] = IF o \in S THEN HANDLE_INVALID ELSE hs[o]
  PROVE  Holding(O, t0, DestroyAll(t, {hs[o] : o \in S}), hs2)
<1> DEFINE C == {hs[o] : o \in S}
           u == DestroyAll(t, C)
<1>1. \A f \in Fd : u[f] = IF f \in C THEN Closed ELSE t[f]
  BY DEF DestroyAll
<1>2. \A o \in S, q \in O \ S : hs[o] \in Fd => hs[o] # hs[q]
  BY DEF Holding
<1>3. \A f \in Fd : f \in C => t0[f] = Closed
  BY DEF Holding
<1>4. \A f \in Fd : (\E q \in O : hs2[q] = f) <=> (\E q \in O \ S : hs[q] = f)
  BY FdFacts
<1>5. \A f \in Fd : (\E q \in O \ S : hs[q] = f) => f \notin C
  BY <1>2
<1>6. \A f \in Fd : (\E q \in O : hs[q] = f) <=> (f \in C \/ \E q \in O \ S : hs[q] = f)
  OBVIOUS
<1> HIDE DEF u, C
<1>7. ASSUME NEW f \in Fd
      PROVE  IF \E q \in O : hs2[q] = f THEN t0[f] = Closed ELSE u[f] = t0[f]
  BY <1>1, <1>3, <1>4, <1>6 DEF Holding
<1>8. ASSUME NEW q \in O, hs2[q] \in Fd
      PROVE  u[hs2[q]].file \in FilesOf(q)
  <2>1. q \notin S /\ hs2[q] = hs[q]
    BY <1>8, FdFacts
  <2>2. hs[q] \notin C
    BY <1>5, <1>8, <2>1
  <2> QED
    BY <1>1, <1>8, <2>1, <2>2 DEF Holding
<1> QED
  BY <1>7, <1>8 DEF Holding, u, C

LEMMA CloseOne ==
  ASSUME NEW O \in SUBSET Owner, NEW t0, NEW t \in Table, NEW hs \in [Owner -> Handle],
         Holding(O, t0, t, hs), NEW o \in O \ ChildEnd
  PROVE  Holding(O, t0, Destroy(t, hs[o]), [hs EXCEPT ![o] = HANDLE_INVALID])
<1>1. Destroy(t, hs[o]) = DestroyAll(t, {hs[q] : q \in {o}})
  <2>1. {hs[q] : q \in {o}} = {hs[o]}
    OBVIOUS
  <2>2. \A f \in Fd : Destroy(t, hs[o])[f] = (IF f = hs[o] THEN Closed ELSE t[f])
    BY FdFacts DEF Destroy, Table
  <2>3. Destroy(t, hs[o]) \in Table
    BY FdFacts DEF Destroy, Table
  <2> QED
    BY <2>1, <2>2, <2>3 DEF DestroyAll, Table
<1> DEFINE S == {o}
           hs2 == [hs EXCEPT ![o] = HANDLE_INVALID]
<1>2. S \in SUBSET O /\ \A p \in S, q \in O \ S : FilesOf(p) \cap FilesOf(q) = {}
  BY FilesFacts
<1>3. \A q \in O : hs2[q] = IF q \in S THEN HANDLE_INVALID ELSE hs[q]
  OBVIOUS
<1> HIDE DEF S, hs2
<1>4. Holding(O, t0, DestroyAll(t, {hs[q] : q \in S}), hs2)
  BY <1>2, <1>3, CloseHolds
<1> QED
  BY <1>1, <1>4 DEF S, hs2

LEMMA CloseTwo ==
  ASSUME NEW O \in SUBSET Owner, NEW t0, NEW t \in Table, NEW hs \in [Owner -> Handle],
         Holding(O, t0, t, hs), NEW a \in O \ ChildEnd, NEW b \in O \ ChildEnd
  PROVE  Holding(O, t0, DestroyAll(t, {hs[a], hs[b]}),
                 [hs EXCEPT ![a] = HANDLE_INVALID, ![b] = HANDLE_INVALID])
<1>1. {hs[a], hs[b]} = {hs[q] : q \in {a, b}}
  OBVIOUS
<1> DEFINE S == {a, b}
           hs2 == [hs EXCEPT ![a] = HANDLE_INVALID, ![b] = HANDLE_INVALID]
<1>2. S \in SUBSET O /\ \A p \in S, q \in O \ S : FilesOf(p) \cap FilesOf(q) = {}
  BY FilesFacts
<1>3. \A q \in O : hs2[q] = IF q \in S THEN HANDLE_INVALID ELSE hs[q]
  OBVIOUS
<1> HIDE DEF S, hs2
<1>4. Holding(O, t0, DestroyAll(t, {hs[q] : q \in S}), hs2)
  BY <1>2, <1>3, CloseHolds
<1> QED
  BY <1>1, <1>4 DEF S, hs2
-----------------------------------------------------------------------------
LEMMA DescInit == Init => Descriptors
<1> SUFFICES ASSUME Init PROVE Descriptors
  OBVIOUS
<1>1. h = [o \in Owner |-> HANDLE_INVALID] /\ fds = fds0 /\ ppc = "parse"
  BY DEF Init
<1>2. Holding(OwnedOwner, fds0, fds, h)
  BY <1>1, OwnedFacts, FdFacts DEF Holding
<1>3. Unmade(ppc) = Owner
  BY <1>1 DEF Unmade
<1> QED
  BY <1>1, <1>2, <1>3 DEF Descriptors

(* What a step of the parent has to keep, and what it starts from.         *)
LEMMA DescStep ==
  ASSUME UNCHANGED <<options, fclosed, fds0>>, ppc # "returned",
         DiscardedForParent = {} =>
            /\ \A o \in Unmade(ppc') : h'[o] = HANDLE_INVALID
            /\ Holding(OwnedOwner, fds0, fds', h')
  PROVE  Descriptors'
<1>1. DiscardedForParent' = DiscardedForParent
  BY DEF DiscardedForParent, Type, Types
<1>2. OwnedOwner' = OwnedOwner
  BY DEF OwnedOwner, Types, Opened
<1>3. Unmade(ppc)' = Unmade(ppc')
  BY DEF Unmade
<1> QED
  BY <1>1, <1>2, <1>3 DEF Descriptors, Holding

LEMMA DescSame ==
  ASSUME Descriptors, ppc # "returned", Unmade(ppc') \subseteq Unmade(ppc),
         UNCHANGED <<options, fclosed, fds0, fds, h>>
  PROVE  Descriptors'
<1>1. DiscardedForParent = {} =>
         /\ \A o \in Unmade(ppc') : h'[o] = HANDLE_INVALID
         /\ Holding(OwnedOwner, fds0, fds', h')
  BY DEF Descriptors
<1> QED
  BY <1>1, DescStep

LEMMA DescParse == ASSUME Descriptors, Parse PROVE Descriptors'
<1>1. /\ ppc = "parse" /\ ppc' \in {"redirect.in", "finish"}
      /\ UNCHANGED <<options, fclosed, fds0, fds, h>>
  BY DEF Parse, Keep, GoTo
<1>2. Unmade(ppc') \subseteq Unmade(ppc)
  BY <1>1 DEF Unmade, Owner
<1> QED
  BY <1>1, <1>2, DescSame

(* redirect_init: a stream that is not opened here borrows a number.       *)
LEMMA RedirectHolds ==
  ASSUME IndInv, Descriptors, DiscardedForParent = {}, NEW s \in Stream, ppc # "returned",
         RedirectStream(s), h[s] = HANDLE_INVALID, h[Childs[s]] = HANDLE_INVALID
  PROVE  /\ Holding(OwnedOwner, fds0, fds', h')
         /\ \A o \in Owner \ {s, Childs[s]} : h'[o] = h[o]
<1>0. /\ Holding(OwnedOwner, fds0, fds, h)
      /\ fds \in Table /\ h \in [Owner -> Handle] /\ Given
  BY DEF Descriptors, IndInv, TypeOK
<1>1. /\ s \in OwnedOwner /\ Childs[s] \in Owner /\ s # Childs[s] /\ Childs[s] \in ChildEnd
      /\ Childs[s] \in OwnedOwner <=> Opened(s, Types(options))
      /\ OwnedOwner \subseteq Owner
  BY OwnedFacts DEF Stream, Childs, Parental, Owner, ChildEnd
<1>2. Opened(s, Types(options)) <=> Type(s) \in {"pipe", "discard", "path"}
  BY DEF Opened, Type
<1>3. /\ ReadEnd["in"] \in FilesOf("cin") /\ WriteEnd["in"] \in FilesOf("in")
      /\ s # "in" => ReadEnd[s] \in FilesOf(s) /\ WriteEnd[s] \in FilesOf(Childs[s])
      /\ {"null", "path"} \subseteq FilesOf(Childs[s])
  <2>1. CASE s = "in"
    BY <2>1 DEF ReadEnd, WriteEnd, FilesOf, Childs
  <2>2. CASE s = "out"
    BY <2>2 DEF ReadEnd, WriteEnd, FilesOf, Childs
  <2>3. CASE s = "err"
    BY <2>3 DEF ReadEnd, WriteEnd, FilesOf, Childs
  <2> QED
    BY <2>1, <2>2, <2>3 DEF Stream
<1>4. CASE Type(s) = "pipe" /\ s = "in"
  <2>1. /\ CanPipe(fds) /\ fds' = PipeTable(fds, ReadEnd["in"], WriteEnd["in"])
        /\ h' = [h EXCEPT !["cin"] = ReadFd(fds), !["in"] = WriteFd(fds, ReadEnd["in"])]
        /\ Childs[s] = "cin"
    BY <1>4 DEF RedirectStream, MakePipe, Childs
  <2>2. Holding(OwnedOwner, fds0, fds', h')
    BY <1>0, <1>1, <1>2, <1>3, <1>4, <2>1, PipeHolds
  <2> QED
    BY <1>0, <1>4, <2>1, <2>2
<1>5. CASE Type(s) = "pipe" /\ s # "in"
  <2>1. /\ CanPipe(fds) /\ fds' = PipeTable(fds, ReadEnd[s], WriteEnd[s])
        /\ h' = [h EXCEPT ![s] = ReadFd(fds), ![Childs[s]] = WriteFd(fds, ReadEnd[s])]
    BY <1>5 DEF RedirectStream, MakePipe
  <2>2. Holding(OwnedOwner, fds0, fds', h')
    BY <1>0, <1>1, <1>2, <1>3, <1>5, <2>1, PipeHolds
  <2> QED
    BY <1>0, <2>1, <2>2
<1>6. ASSUME NEW file \in {"null", "path"}, OpenFor(s, file), Type(s) \in {"discard", "path"}
      PROVE  /\ Holding(OwnedOwner, fds0, fds', h')
             /\ \A o \in Owner \ {s, Childs[s]} : h'[o] = h[o]
  <2>1. /\ CanOpen(fds) /\ fds' = Put(fds, LowestFd(fds), file)
        /\ h' = [h EXCEPT ![Childs[s]] = LowestFd(fds)]
    BY <1>6 DEF OpenFor
  <2>2. LowestFd(fds) \in FreeFds(fds)
    BY <2>1, Lowest
  <2>3. Holding(OwnedOwner, fds0, fds', h')
    BY <1>0, <1>1, <1>2, <1>3, <1>6, <2>1, <2>2, OpenHolds
  <2> QED
    BY <1>0, <2>1, <2>3
<1>7. ASSUME NEW f, Borrow(s, f), Type(s) \notin {"pipe", "discard", "path"}
      PROVE  /\ Holding(OwnedOwner, fds0, fds', h')
             /\ \A o \in Owner \ {s, Childs[s]} : h'[o] = h[o]
  <2>1. fds' = fds /\ h' = [h EXCEPT ![Childs[s]] = f] /\ Childs[s] \notin OwnedOwner
    BY <1>1, <1>2, <1>7 DEF Borrow
  <2>2. \A o \in Owner \ {Childs[s]} : h'[o] = h[o]
    BY <1>0, <2>1
  <2>3. \A o \in OwnedOwner : h'[o] = h[o]
    BY <1>1, <2>1, <2>2
  <2>4. Holding(OwnedOwner, fds0, fds', h')
    BY <1>0, <2>1, <2>3 DEF Holding
  <2> QED
    BY <2>2, <2>4
<1>8. CASE Type(s) = "parent"
  <2>1. s \notin fclosed
    BY <1>8 DEF DiscardedForParent
  <2> QED
    BY <1>7, <1>8, <2>1 DEF RedirectStream
<1>9. CASE Type(s) \in {"discard", "path"}
  BY <1>6, <1>9 DEF RedirectStream
<1>10. CASE Type(s) \in {"handle", "file", "stdout"}
  BY <1>7, <1>10 DEF RedirectStream
<1> QED
  BY <1>0, <1>4, <1>5, <1>8, <1>9, <1>10, TypeRange DEF Redirect

LEMMA DescRedirect ==
  ASSUME IndInv, Descriptors, NEW s \in Stream, RedirectInit(s)
  PROVE  Descriptors'
<1>1. /\ ppc = [in |-> "redirect.in", out |-> "redirect.out", err |-> "redirect.err"][s]
      /\ UNCHANGED <<options, fclosed, fds0>>
  BY DEF RedirectInit, Keep
<1>2. ppc \in {"redirect.in", "redirect.out", "redirect.err"}
  BY <1>1 DEF Stream
<1>3. CASE /\ RedirectStream(s)
           /\ GoTo([in |-> "redirect.out", out |-> "redirect.err", err |-> "exit"][s], "ok")
  <2>1. ppc' = [in |-> "redirect.out", out |-> "redirect.err", err |-> "exit"][s]
    BY <1>3 DEF GoTo
  <2>2. /\ s \in Unmade(ppc) /\ Childs[s] \in Unmade(ppc)
        /\ Unmade(ppc') \subseteq Unmade(ppc) \ {s, Childs[s]}
        /\ Unmade(ppc') \subseteq Owner
    BY <1>1, <2>1 DEF Stream, Unmade, Childs, Owner, Parental
  <2>3. SUFFICES ASSUME DiscardedForParent = {}
                 PROVE  /\ \A o \in Unmade(ppc') : h'[o] = HANDLE_INVALID
                        /\ Holding(OwnedOwner, fds0, fds', h')
    BY <1>1, <1>2, DescStep
  <2>4. \A o \in Unmade(ppc) : h[o] = HANDLE_INVALID
    BY <1>2, <2>3 DEF Descriptors
  <2>5. /\ Holding(OwnedOwner, fds0, fds', h')
        /\ \A o \in Owner \ {s, Childs[s]} : h'[o] = h[o]
    BY <1>2, <1>3, <2>2, <2>3, <2>4, RedirectHolds
  <2> QED
    BY <2>2, <2>4, <2>5
<1>4. CASE GoTo("finish", "EMFILE") /\ UNCHANGED <<fds, h>>
  <2>1. Unmade(ppc') \subseteq Unmade(ppc)
    BY <1>2, <1>4 DEF GoTo, Unmade, Owner
  <2> QED
    BY <1>1, <1>2, <1>4, <2>1, DescSame
<1> QED
  BY <1>3, <1>4 DEF RedirectInit

(* The other three pipes.                                                  *)
LEMMA DescPipe ==
  ASSUME IndInv, Descriptors, UNCHANGED <<options, fclosed, fds0>>, ppc # "returned",
         NEW p \in {"exit", "report", "fork"},
         NEW a \in Owner, NEW b \in Owner, MakePipe(p, a, b),
         <<p, a, b>> \in {<<"exit", "exit", "cexit">>, <<"report", "report.r", "report.w">>,
                         <<"fork", "fork.r", "fork.w">>},
         a \in Unmade(ppc), b \in Unmade(ppc),
         Unmade(ppc') \subseteq Unmade(ppc) \ {a, b}, Unmade(ppc) \subseteq Owner
  PROVE  Descriptors'
<1>1. /\ a # b /\ a \in OwnedOwner /\ b \in OwnedOwner /\ OwnedOwner \subseteq Owner
      /\ ReadEnd[p] \in FilesOf(a) /\ WriteEnd[p] \in FilesOf(b)
  <2>1. CASE p = "exit"
    BY <2>1, OwnedFacts DEF ReadEnd, WriteEnd, FilesOf, Parental
  <2>2. CASE p = "report"
    BY <2>2, OwnedFacts DEF ReadEnd, WriteEnd, FilesOf
  <2>3. CASE p = "fork"
    BY <2>3, OwnedFacts DEF ReadEnd, WriteEnd, FilesOf
  <2> QED
    BY <2>1, <2>2, <2>3
<1>2. SUFFICES ASSUME DiscardedForParent = {}
               PROVE  /\ \A o \in Unmade(ppc') : h'[o] = HANDLE_INVALID
                      /\ Holding(OwnedOwner, fds0, fds', h')
  BY DescStep
<1>3. /\ \A o \in Unmade(ppc) : h[o] = HANDLE_INVALID
      /\ Holding(OwnedOwner, fds0, fds, h)
      /\ fds \in Table /\ h \in [Owner -> Handle]
  BY <1>2 DEF Descriptors, IndInv, TypeOK
<1>4. /\ CanPipe(fds) /\ fds' = PipeTable(fds, ReadEnd[p], WriteEnd[p])
      /\ h' = [h EXCEPT ![a] = ReadFd(fds), ![b] = WriteFd(fds, ReadEnd[p])]
  BY DEF MakePipe
<1>5. Holding(OwnedOwner, fds0, fds', h')
  BY <1>1, <1>3, <1>4, PipeHolds
<1>6. \A o \in Unmade(ppc') : h'[o] = h[o]
  BY <1>3, <1>4
<1> QED
  BY <1>3, <1>5, <1>6

LEMMA DescExitPipe == ASSUME IndInv, Descriptors, ExitPipe PROVE Descriptors'
<1>1. ppc = "exit" /\ UNCHANGED <<options, fclosed, fds0>>
  BY DEF ExitPipe, Keep
<1>2. CASE MakePipe("exit", "exit", "cexit") /\ GoTo("input", "ok")
  <2>1. /\ {"exit", "cexit"} \subseteq Unmade(ppc) /\ Unmade(ppc) \subseteq Owner
        /\ Unmade(ppc') \subseteq Unmade(ppc) \ {"exit", "cexit"}
        /\ "exit" \in Owner /\ "cexit" \in Owner
    BY <1>1, <1>2 DEF GoTo, Unmade, Owner, Parental
  <2> QED
    BY <1>1, <1>2, <2>1, DescPipe
<1>3. CASE GoTo("finish", "EMFILE") /\ UNCHANGED <<fds, h>>
  BY <1>1, <1>3, DescSame DEF GoTo, Unmade
<1> QED
  BY <1>2, <1>3 DEF ExitPipe

LEMMA DescReportPipe == ASSUME IndInv, Descriptors, ReportPipe PROVE Descriptors'
<1>1. ppc = "start" /\ UNCHANGED <<options, fclosed, fds0>>
  BY DEF ReportPipe, Keep
<1>2. CASE MakePipe("report", "report.r", "report.w") /\ GoTo("program", "ok")
  <2>1. /\ {"report.r", "report.w"} \subseteq Unmade(ppc) /\ Unmade(ppc) \subseteq Owner
        /\ Unmade(ppc') \subseteq Unmade(ppc) \ {"report.r", "report.w"}
        /\ "report.r" \in Owner /\ "report.w" \in Owner
    BY <1>1, <1>2 DEF GoTo, Unmade, Owner, Parental
  <2> QED
    BY <1>1, <1>2, <2>1, DescPipe
<1>3. CASE GoTo("finish", "EMFILE") /\ UNCHANGED <<fds, h>>
  BY <1>1, <1>3, DescSame DEF GoTo, Unmade
<1> QED
  BY <1>2, <1>3 DEF ReportPipe

LEMMA DescForkPipe == ASSUME IndInv, Descriptors, ForkPipe PROVE Descriptors'
<1>1. ppc = "forkpipe" /\ UNCHANGED <<options, fclosed, fds0>>
  BY DEF ForkPipe, Keep
<1>2. CASE MakePipe("fork", "fork.r", "fork.w") /\ GoTo("fork", "ok")
  <2>1. /\ {"fork.r", "fork.w"} \subseteq Unmade(ppc) /\ Unmade(ppc) \subseteq Owner
        /\ Unmade(ppc') \subseteq Unmade(ppc) \ {"fork.r", "fork.w"}
        /\ "fork.r" \in Owner /\ "fork.w" \in Owner
    BY <1>1, <1>2 DEF GoTo, Unmade, Owner, Parental
  <2> QED
    BY <1>1, <1>2, <2>1, DescPipe
<1>3. CASE GoTo("close", "EMFILE") /\ UNCHANGED <<fds, h>>
  BY <1>1, <1>3, DescSame DEF GoTo, Unmade
<1> QED
  BY <1>2, <1>3 DEF ForkPipe

(* One of the parent's variables is closed.                                *)
LEMMA DescClose ==
  ASSUME IndInv, Descriptors, UNCHANGED <<options, fclosed, fds0>>, ppc # "returned",
         NEW o \in {"in", "report.w", "fork.r", "fork.w"},
         fds' = Destroy(fds, h[o]), h' = [h EXCEPT ![o] = HANDLE_INVALID],
         Unmade(ppc') \subseteq Unmade(ppc) \cup {o}, Unmade(ppc') \subseteq Owner
  PROVE  Descriptors'
<1>1. o \in OwnedOwner \ ChildEnd /\ OwnedOwner \subseteq Owner
  BY OwnedFacts DEF ChildEnd, Parental
<1>2. SUFFICES ASSUME DiscardedForParent = {}
               PROVE  /\ \A q \in Unmade(ppc') : h'[q] = HANDLE_INVALID
                      /\ Holding(OwnedOwner, fds0, fds', h')
  BY DescStep
<1>3. /\ \A q \in Unmade(ppc) : h[q] = HANDLE_INVALID
      /\ Holding(OwnedOwner, fds0, fds, h)
      /\ fds \in Table /\ h \in [Owner -> Handle]
  BY <1>2 DEF Descriptors, IndInv, TypeOK
<1>4. Holding(OwnedOwner, fds0, fds', h')
  BY <1>1, <1>3, CloseOne
<1>5. \A q \in Unmade(ppc') : h'[q] = HANDLE_INVALID
  BY <1>1, <1>3
<1> QED
  BY <1>4, <1>5

LEMMA DescCloseTwo ==
  ASSUME IndInv, Descriptors, UNCHANGED <<options, fclosed, fds0>>, ppc # "returned",
         NEW a \in {"report.r", "fork.r"}, NEW b \in {"report.w", "fork.w"},
         fds' = DestroyAll(fds, {h[a], h[b]}),
         h' = [h EXCEPT ![a] = HANDLE_INVALID, ![b] = HANDLE_INVALID],
         Unmade(ppc') \subseteq Unmade(ppc) \cup {a, b}, Unmade(ppc') \subseteq Owner
  PROVE  Descriptors'
<1>1. {a, b} \subseteq OwnedOwner \ ChildEnd /\ OwnedOwner \subseteq Owner
  BY OwnedFacts DEF ChildEnd, Parental
<1>2. SUFFICES ASSUME DiscardedForParent = {}
               PROVE  /\ \A q \in Unmade(ppc') : h'[q] = HANDLE_INVALID
                      /\ Holding(OwnedOwner, fds0, fds', h')
  BY DescStep
<1>3. /\ \A q \in Unmade(ppc) : h[q] = HANDLE_INVALID
      /\ Holding(OwnedOwner, fds0, fds, h)
      /\ fds \in Table /\ h \in [Owner -> Handle]
  BY <1>2 DEF Descriptors, IndInv, TypeOK
<1>4. Holding(OwnedOwner, fds0, fds', h')
  BY <1>1, <1>3, CloseTwo
<1>5. \A q \in Unmade(ppc') : h'[q] = HANDLE_INVALID
  BY <1>1, <1>3
<1> QED
  BY <1>4, <1>5

LEMMA DescSetupInput == ASSUME IndInv, Descriptors, SetupInput PROVE Descriptors'
<1>1. ppc = "input" /\ ppc' \in {"start", "finish"} /\ UNCHANGED <<options, fclosed, fds0>>
  BY DEF SetupInput, Keep, GoTo
<1>2. Unmade(ppc') = Unmade(ppc) /\ Unmade(ppc) \subseteq Owner
  BY <1>1 DEF Unmade, Owner
<1>3. CASE fds' = Destroy(fds, h["in"]) /\ h' = [h EXCEPT !["in"] = HANDLE_INVALID]
  BY <1>1, <1>2, <1>3, DescClose
<1>4. CASE UNCHANGED <<fds, h>>
  BY <1>1, <1>2, <1>4, DescSame
<1> QED
  BY <1>3, <1>4 DEF SetupInput

(* Steps that neither open nor close.                                      *)
LEMMA DescStays ==
  ASSUME IndInv, Descriptors,
         \/ Program \/ BlockSignals \/ Fork \/ ForkWait \/ ReportRead \/ ReportWait
         \/ ReportReadInterrupted \/ ReadAsserts \/ WaitInterrupted
  PROVE  Descriptors'
<1>1. CASE Program
  <2>1. ppc = "program" /\ ppc' \in {"block", "close"} /\ UNCHANGED <<options, fclosed, fds0, fds, h>>
    BY <1>1 DEF Program, GoTo
  <2> QED
    BY <2>1, DescSame DEF Unmade
<1>2. CASE BlockSignals
  BY <1>2, DescSame DEF BlockSignals, GoTo, Unmade
<1>3. CASE Fork
  BY <1>3, DescSame DEF Fork, GoTo, Unmade, Keep
<1>4. CASE ForkWait
  BY <1>4, DescSame DEF ForkWait, WaitTold, GoTo, Unmade, Keep
<1>5. CASE ReportRead
  <2>1. /\ ppc = "report.read" /\ ppc' \in {"report.wait", "close"}
        /\ UNCHANGED <<options, fclosed, fds0, fds, h>>
    BY <1>5 DEF ReportRead, NothingFromReport, GoTo
  <2> QED
    BY <2>1, DescSame DEF Unmade
<1>6. CASE ReportWait
  BY <1>6, DescSame DEF ReportWait, WaitTold, GoTo, Unmade, Keep
<1>7. CASE ReportReadInterrupted
  BY <1>7, DescSame DEF ReportReadInterrupted, SleepsInRead, NothingFromReport, GoTo, Unmade
<1>8. CASE ReadAsserts
  BY <1>8, DescSame DEF ReadAsserts, SleepsInRead, GoTo, Unmade, Keep
<1>9. CASE WaitInterrupted
  BY <1>9, DescSame DEF WaitInterrupted, GoTo, Unmade, Keep
<1> QED
  BY <1>1, <1>2, <1>3, <1>4, <1>5, <1>6, <1>7, <1>8, <1>9

LEMMA DescForks ==
  ASSUME IndInv, Descriptors,
         \/ ForkFails \/ Forked \/ ForkRead \/ ForkReadInterrupted \/ ForkClose
         \/ ReportClose \/ CloseReport
  PROVE  Descriptors'
<1>0. {"report.r", "report.w", "fork.r", "fork.w"} \subseteq Owner
  BY DEF Owner
<1>1. CASE ForkFails
  <2>1. /\ ppc = "fork" /\ ppc' = "close" /\ UNCHANGED <<options, fclosed, fds0>>
        /\ fds' = DestroyAll(fds, {h["fork.r"], h["fork.w"]})
        /\ h' = [h EXCEPT !["fork.r"] = HANDLE_INVALID, !["fork.w"] = HANDLE_INVALID]
    BY <1>1 DEF ForkFails, GoTo
  <2>2. Unmade(ppc') = {"fork.r", "fork.w"}
    BY <2>1 DEF Unmade
  <2> QED
    BY <1>0, <2>1, <2>2, DescCloseTwo
<1>2. CASE Forked
  <2>1. /\ ppc = "forked" /\ ppc' = "fork.read" /\ UNCHANGED <<options, fclosed, fds0>>
        /\ fds' = Destroy(fds, h["fork.w"]) /\ h' = [h EXCEPT !["fork.w"] = HANDLE_INVALID]
    BY <1>2 DEF Forked, GoTo
  <2>2. Unmade(ppc') = {"fork.w"}
    BY <2>1 DEF Unmade
  <2> QED
    BY <1>0, <2>1, <2>2, DescClose
<1>3. CASE ForkRead
  <2>1. ppc = "fork.read" /\ UNCHANGED <<options, fclosed, fds0>> /\ Unmade(ppc) = {"fork.w"}
    BY <1>3 DEF ForkRead, Keep, Unmade
  <2>2. CASE ppc' = "fork.wait" /\ UNCHANGED <<fds, h>>
    BY <2>1, <2>2, DescSame DEF Unmade
  <2>3. CASE /\ ppc' = "report.close"
             /\ fds' = Destroy(fds, h["fork.r"]) /\ h' = [h EXCEPT !["fork.r"] = HANDLE_INVALID]
    <3>1. Unmade(ppc') = {"fork.r", "fork.w"}
      BY <2>3 DEF Unmade
    <3> QED
      BY <1>0, <2>1, <2>3, <3>1, DescClose
  <2> QED
    BY <1>3, <2>2, <2>3 DEF ForkRead, NothingFromFork, GoTo
<1>4. CASE ForkClose
  <2>1. /\ ppc = "fork.close" /\ ppc' = "close" /\ UNCHANGED <<options, fclosed, fds0>>
        /\ fds' = Destroy(fds, h["fork.r"]) /\ h' = [h EXCEPT !["fork.r"] = HANDLE_INVALID]
    BY <1>4 DEF ForkClose, GoTo, Keep
  <2>2. Unmade(ppc') = {"fork.r", "fork.w"} /\ Unmade(ppc) = {"fork.w"}
    BY <2>1 DEF Unmade
  <2> QED
    BY <1>0, <2>1, <2>2, DescClose
<1>5. CASE ReportClose
  <2>1. /\ ppc = "report.close" /\ ppc' = "report.read" /\ UNCHANGED <<options, fclosed, fds0>>
        /\ fds' = Destroy(fds, h["report.w"]) /\ h' = [h EXCEPT !["report.w"] = HANDLE_INVALID]
    BY <1>5 DEF ReportClose, GoTo, Keep
  <2>2. Unmade(ppc') = {"fork.r", "fork.w"} /\ Unmade(ppc) = {"fork.r", "fork.w"}
    BY <2>1 DEF Unmade
  <2> QED
    BY <1>0, <2>1, <2>2, DescClose
<1>6. CASE CloseReport
  <2>1. /\ ppc = "close" /\ ppc' = "finish" /\ UNCHANGED <<options, fclosed, fds0>>
        /\ fds' = DestroyAll(fds, {h["report.r"], h["report.w"]})
        /\ h' = [h EXCEPT !["report.r"] = HANDLE_INVALID, !["report.w"] = HANDLE_INVALID]
    BY <1>6 DEF CloseReport, GoTo, Keep
  <2>2. /\ Unmade(ppc') = {"report.r", "report.w", "fork.r", "fork.w"}
        /\ Unmade(ppc) = {"fork.r", "fork.w"}
    BY <2>1 DEF Unmade
  <2> QED
    BY <1>0, <2>1, <2>2, DescCloseTwo
<1>7. CASE ForkReadInterrupted
  <2>1. /\ ppc = "fork.read" /\ ppc' = "report.close" /\ UNCHANGED <<options, fclosed, fds0>>
        /\ fds' = Destroy(fds, h["fork.r"]) /\ h' = [h EXCEPT !["fork.r"] = HANDLE_INVALID]
    BY <1>7 DEF ForkReadInterrupted, SleepsInRead, NothingFromFork, GoTo
  <2>2. Unmade(ppc') = {"fork.r", "fork.w"} /\ Unmade(ppc) = {"fork.w"}
    BY <2>1 DEF Unmade
  <2> QED
    BY <1>0, <2>1, <2>2, DescClose
<1> QED
  BY <1>1, <1>2, <1>3, <1>4, <1>5, <1>6, <1>7

(* The end of reproc_start closes all that is left to it, but after a      *)
(* success not the parent's own ends.                                      *)
LEMMA FinishLeaksNothing == ASSUME IndInv, Descriptors, Finish PROVE NothingLeaks'
<1> DEFINE Reports == {"report.r", "report.w", "fork.r", "fork.w"}
           S == IF r \in Errors THEN OwnedOwner \ Reports ELSE OwnedOwner \ (Reports \cup Parental)
<1>1. /\ ppc = "finish" /\ result' = r /\ UNCHANGED <<options, fclosed, fds0>>
      /\ h' = [o \in Owner |-> IF o \in Parental /\ r \notin Errors THEN h[o] ELSE HANDLE_INVALID]
  BY DEF Finish, GoTo
<1>2. DiscardedForParent' = DiscardedForParent
  BY <1>1 DEF DiscardedForParent, Type, Types
<1>3. SUFFICES ASSUME DiscardedForParent = {}
               PROVE  /\ r \in Errors => fds' = fds0
                      /\ r = "started" => \A f \in Fd :
                            IF \E o \in Parental : h'[o] = f
                            THEN /\ fds0[f] = Closed
                                 /\ \E o \in Parental : h'[o] = f /\ fds'[f].file = OwnEnd[o]
                            ELSE fds'[f] = fds0[f]
  BY <1>1, <1>2 DEF NothingLeaks
<1>4. /\ \A o \in Reports : h[o] = HANDLE_INVALID
      /\ Holding(OwnedOwner, fds0, fds, h)
      /\ fds \in Table /\ h \in [Owner -> Handle]
  BY <1>1, <1>3 DEF Descriptors, Unmade, IndInv, TypeOK
<1>5. /\ OwnedOwner \subseteq Owner /\ Parental \subseteq OwnedOwner /\ "cexit" \in OwnedOwner
      /\ Parental \cap ({"cexit"} \cup Reports \cup ChildEnd) = {}
  BY OwnedFacts DEF Parental, ChildEnd
<1>6. {h[o] : o \in OwnedOwner \ (Reports \cup Parental)} = ChildEnds(Types(options), h)
  BY DEF OwnedOwner, ChildEnds, Parental, Stream, Childs
<1>7. ParentEnds(h) = {h[o] : o \in Parental}
  BY DEF ParentEnds
<1>8. fds' = DestroyAll(fds, {h[o] : o \in S})
  <2>1. CASE r \in Errors
    <3>1. OwnedOwner \ Reports = (OwnedOwner \ (Reports \cup Parental)) \cup Parental
      BY <1>5
    <3>2. {h[o] : o \in S} = ChildEnds(Types(options), h) \cup ParentEnds(h)
      BY <1>6, <1>7, <2>1, <3>1
    <3> QED
      BY <2>1, <3>2 DEF Finish
  <2>2. CASE r \notin Errors
    BY <1>6, <2>2 DEF Finish
  <2> QED
    BY <2>1, <2>2
<1>9. \A o \in OwnedOwner : h'[o] = IF o \in S THEN HANDLE_INVALID ELSE h[o]
  BY <1>1, <1>4, <1>5
<1>10. \A o \in S, q \in OwnedOwner \ S : FilesOf(o) \cap FilesOf(q) = {}
  <2>1. \A q \in OwnedOwner \ S : q \notin ChildEnd
    BY <1>5 DEF ChildEnd
  <2> QED
    BY <1>5, <2>1, FilesFacts
<1>11. S \in SUBSET OwnedOwner
  OBVIOUS
<1> HIDE DEF S
<1>12. Holding(OwnedOwner, fds0, fds', h')
  BY <1>4, <1>5, <1>8, <1>9, <1>10, <1>11, CloseHolds
<1>13. CASE r \in Errors
  <2>1. \A o \in OwnedOwner : h'[o] = HANDLE_INVALID
    BY <1>1, <1>5, <1>13
  <2>2. \A f \in Fd : fds'[f] = fds0[f]
    BY <1>12, <2>1, FdFacts DEF Holding
  <2>3. fds0 \in Table /\ fds' \in Table
    BY <1>4, <1>8, ClosingFacts, StartAssumption DEF IndInv, Given
  <2> QED
    BY <1>13, <2>2, <2>3 DEF Table, Errors, EINVAL
<1>14. CASE r \notin Errors
  <2>1. \A o \in OwnedOwner : h'[o] \in Fd => o \in Parental
    BY <1>1, <1>5, <1>14, FdFacts
  <2>2. \A o \in Parental : FilesOf(o) = {OwnEnd[o]}
    BY DEF Parental, FilesOf, OwnEnd, ReadEnd, WriteEnd
  <2>3. ASSUME NEW f \in Fd
        PROVE  IF \E o \in Parental : h'[o] = f
               THEN fds0[f] = Closed /\ \E o \in Parental : h'[o] = f /\ fds'[f].file = OwnEnd[o]
               ELSE fds'[f] = fds0[f]
    <3>1. (\E o \in OwnedOwner : h'[o] = f) <=> (\E o \in Parental : h'[o] = f)
      BY <1>5, <2>1
    <3>2. \A o \in Parental : h'[o] = f => fds'[f].file = OwnEnd[o]
      BY <1>5, <1>12, <2>2 DEF Holding
    <3> QED
      BY <1>12, <3>1, <3>2 DEF Holding
  <2> QED
    BY <1>14, <2>3
<1> QED
  BY <1>13, <1>14

LEMMA DescInductive ==
  IndInv /\ Descriptors /\ NothingLeaks /\ [Next]_vars => Descriptors' /\ NothingLeaks'
<1> SUFFICES ASSUME IndInv, Descriptors, NothingLeaks, [Next]_vars
             PROVE  Descriptors' /\ NothingLeaks'
  OBVIOUS
<1>1. CASE Finish
  <2>1. ppc' = "returned"
    BY <1>1 DEF Finish, GoTo
  <2> QED
    BY <1>1, <2>1, FinishLeaksNothing DEF Descriptors
<1>2. CASE (ParentNext \/ Interrupted) /\ ~Finish
  <2>1. Descriptors'
    BY <1>2, DescParse, DescRedirect, DescExitPipe, DescSetupInput, DescReportPipe, DescForkPipe,
       DescStays, DescForks DEF ParentNext, Interrupted
  <2>2. result' = "none"
    <3>1. ppc # "returned" /\ result' = result
      BY <1>2 DEF ParentNext, Parse, RedirectInit, Stream, ExitPipe, SetupInput, ReportPipe,
         Program, BlockSignals, ForkPipe, ForkFails, Fork, Forked, ForkRead, ForkWait,
         WaitTold, ForkClose, ReportClose, ReportRead, ReportWait, CloseReport, Keep,
         Interrupted, SleepsInRead, ForkReadInterrupted, ReportReadInterrupted, ReadAsserts,
         WaitInterrupted
    <3> QED
      BY <3>1 DEF IndInv, Parent
  <2> QED
    BY <2>1, <2>2 DEF NothingLeaks, Errors, EINVAL
<1>3. CASE UNCHANGED parentVars
  <2>1. UNCHANGED <<options, fclosed, fds0, ppc, result, fds, h>>
    BY <1>3 DEF parentVars
  <2>2. DiscardedForParent' = DiscardedForParent /\ OwnedOwner' = OwnedOwner
    BY <2>1 DEF DiscardedForParent, OwnedOwner, Type, Types, Opened
  <2>3. Unmade(ppc)' = Unmade(ppc)
    BY <2>1 DEF Unmade
  <2> QED
    BY <2>1, <2>2, <2>3 DEF Descriptors, NothingLeaks, Holding
<1>4. ChildNext \/ ChildKilled \/ HostReaps \/ UNCHANGED vars => UNCHANGED parentVars
  BY DEF ChildNext, ResetSignals, CheckLimit, CloseAll, RedirectChild, ChangeDir, ExecProgram,
     ReturnInChild, Exits, ChildKilled, HostReaps, vars
<1> QED
  BY <1>1, <1>2, <1>3, <1>4 DEF Next

(* reproc_start leaves the parent the descriptors it had and, after a      *)
(* start, just the parent's ends of the pipes: for any table, any options, *)
(* and a failure at any step (/dev/null in place of a stream that the      *)
(* parent has fclosed aside, as the property says).                        *)
THEOREM LeaksNothing == Spec => []NothingLeaks
<1>1. Init => Descriptors /\ NothingLeaks
  <2>1. Init => result = "none"
    BY DEF Init
  <2>2. "none" \notin Errors
    BY DEF Errors, EINVAL
  <2> QED
    BY <2>1, <2>2, DescInit DEF NothingLeaks
<1>2. (Descriptors /\ NothingLeaks) /\ IndInv /\ [Next]_vars => (Descriptors /\ NothingLeaks)'
  BY DescInductive
<1> QED
  BY <1>1, <1>2, Inductive, PTL DEF Spec
-----------------------------------------------------------------------------
(* The child's streams.  Made(place) are the streams redirect_init is done *)
(* with, Done(place) those that dup2 has brought to their own numbers.     *)
Made(place) ==
    CASE place \in {"parse", "redirect.in"} -> {}
      [] place = "redirect.out" -> {"in"}
      [] place = "redirect.err" -> {"in", "out"}
      [] OTHER -> Stream

Done(place) ==
    CASE place \in InFork \cup {"dup.in"} -> {}
      [] place = "dup.out" -> {"in"}
      [] place = "dup.err" -> {"in", "out"}
      [] OTHER -> Stream

Low == {0, 1, 2}

(* A stream's number in the parent: the parent's own stream, or one that   *)
(* no dup2 overwrites.  It stands for the file the options ask for.        *)
Source(s, f)     == IF Type(s) = "parent" THEN f = StdFd[s] ELSE f \in Fd \ Low
Placed(M, hs)    == \A s \in M : Source(s, hs[Childs[s]])
Filled(M, t, hs) == \A s \in M : t[hs[Childs[s]]].file = WantedFile(s)

(* Nothing that reproc_start has opened survives exec as it is; later, in  *)
(* the child, nothing but F does.                                          *)
NewGone(t) == \A f \in Fd : fds0[f] = Closed => t[f] = Closed \/ t[f].cloexec
Kept(t, F) ==
    \A f \in Fd \ Low : \/ t[f] = Closed \/ t[f].cloexec \/ f \in F
                        \/ f = MaxFd /\ fds0[MaxFd] # Closed

ParentAt(place, t, hs) ==
    Placed(Made(place), hs) /\ Filled(Made(place), t, hs) /\ NewGone(t)

ExitEnd(t, hs) ==
    /\ hs["cexit"] \in Fd /\ t[hs["cexit"]].file = WriteEnd["exit"]
    /\ \A o \in {"cexit", "report.r", "report.w"} : hs[o] \in Fd => fds0[hs[o]] = Closed

ChildAt(place, t, hs) ==
    /\ Placed(Stream, hs)
    /\ Filled(Stream \ Done(place), t, hs)
    /\ \A s \in Done(place) : t[StdFd[s]] = [file |-> WantedFile(s), cloexec |-> FALSE]
    /\ \A s \in Stream : Type(s) = "parent" => t[StdFd[s]] = fds0[StdFd[s]]
    /\ ExitEnd(t, hs)
    /\ place \in InFork => NewGone(t)
    /\ place \in {"dup.in", "dup.out", "dup.err", "chdir"} =>
          Kept(t, {hs[Childs[s]] : s \in Stream \ Done(place)})
    /\ place \in {"exec", "return"} => Kept(t, {hs["cexit"]}) /\ ~t[hs["cexit"]].cloexec
    /\ place = "exec" => options.argv
    /\ place = "return" => ~options.argv

Streams ==
    /\ fclosed \subseteq Stream /\ \A s \in fclosed : fds0[StdFd[s]] = Closed
    /\ UsualParent /\ ppc \in Preparing => ParentAt(ppc, fds, h)
    /\ UsualParent /\ child = "alive" /\ cpc \in Starting => ChildAt(cpc, cfds, ch)
    /\ ChildHasItsStreams

LEMMA StreamFacts ==
  /\ Stream = {"in", "out", "err"} /\ Low \subseteq Fd
  /\ \A s \in Stream : StdFd[s] \in Low /\ Childs[s] \in ChildEnd
  /\ \A s, x \in Stream : s # x => StdFd[s] # StdFd[x] /\ Childs[s] # Childs[x]
  /\ \A f \in Low : \E s \in Stream : f = StdFd[s]
  /\ ChildEnd \subseteq Owner
BY FdFacts DEF Stream, StdFd, Low, Childs, ChildEnd, Owner

LEMMA SameOptions ==
  ASSUME UNCHANGED <<options, fds0>>
  PROVE  /\ UsualParent' = UsualParent
         /\ \A s \in Stream : Type(s)' = Type(s) /\ WantedFile(s)' = WantedFile(s)
<1>1. Types(options)' = Types(options)
  BY DEF Types
<1>2. \A s \in Stream : Type(s)' = Type(s)
  BY <1>1 DEF Type
<1>3. Type("out")' = Type("out") /\ Type("err")' = Type("err")
  BY <1>2, StreamFacts
<1>4. \A s \in Stream : Wanted(s)' = Wanted(s)
  BY <1>2 DEF Wanted
<1>5. \A s \in Stream : WantedFile(s)' = WantedFile(s)
  BY <1>2, <1>4, StreamFacts DEF WantedFile
<1>6. UsualParent' = UsualParent
  BY <1>3 DEF UsualParent
<1> QED
  BY <1>2, <1>5, <1>6

(* The files a child's stream can be wanted to be.                         *)
LEMMA WantedRange ==
  ASSUME Given, NEW s \in Stream
  PROVE  WantedFile(s) \in {"in.r", "out.w", "err.w", "stdin", "stdout", "stderr",
                            "null", "path", "user"}
<1>1. \A x \in Stream : Type(x) \in Redirect \ {"default"} /\ (Type(x) = "stdout" => x = "err")
  BY TypeRange
<1>2. \A x \in Stream : Type(x) # "stdout" =>
         Wanted(x) \in {"in.r", "out.w", "err.w", "stdin", "stdout", "stderr",
                        "null", "path", "user"}
  BY <1>1 DEF Wanted, Redirect, Stream, ParentFile, ReadEnd, WriteEnd
<1>3. Type("out") # "stdout" /\ "out" \in Stream
  BY <1>1 DEF Stream
<1> QED
  BY <1>2, <1>3 DEF WantedFile

(* A usual parent's streams and the file of its own stay where they are.   *)
LEMMA UsualFacts ==
  ASSUME IndInv, Descriptors, Streams, UsualParent, ppc # "returned"
  PROVE  /\ fclosed = {}
         /\ Holding(OwnedOwner, fds0, fds, h)
         /\ \A f \in Fd : fds0[f] # Closed => fds[f] = fds0[f]
         /\ \A f \in Low : fds0[f] # Closed /\ f \notin FreeFds(fds)
         /\ UserFd \in Fd \ Low /\ fds0[UserFd].file = "user" /\ fds0[UserFd] # Closed
<1>1. \A s \in Stream : fds0[StdFd[s]] = [file |-> ParentFile[s], cloexec |-> FALSE]
  BY DEF UsualParent
<1>2. \A s \in Stream : ParentFile[s] \notin {NoFile, "user"}
  BY DEF Stream, ParentFile, NoFile
<1>3. \A f \in Low : fds0[f].file \notin {NoFile, "user"}
  BY <1>1, <1>2, StreamFacts
<1>4. \A f \in Low : fds0[f] # Closed
  BY <1>3 DEF Closed
<1>5. fclosed = {}
  BY <1>4, StreamFacts DEF Streams
<1>6. Holding(OwnedOwner, fds0, fds, h)
  BY <1>5 DEF Descriptors, DiscardedForParent
<1>7. \A f \in Fd : fds0[f] # Closed => fds[f] = fds0[f]
  BY <1>6 DEF Holding
<1>8. \A f \in Low : f \notin FreeFds(fds)
  BY <1>4, <1>7, StreamFacts DEF FreeFds
<1>9. UserFd \in Fd /\ fds0[UserFd].file = "user"
  BY StartAssumption DEF UserFd, Holds, IndInv, Given
<1>10. fds0[UserFd] # Closed
  BY <1>9 DEF Closed, NoFile
<1> QED
  BY <1>3, <1>4, <1>5, <1>6, <1>7, <1>8, <1>9, <1>10

(* Where nothing happens to either process's streams.                      *)
LEMMA StreamsFrame ==
  ASSUME Streams, UNCHANGED <<options, fds0, fclosed>>,
         UsualParent /\ ppc' \in Preparing => ParentAt(ppc', fds', h'),
         UsualParent /\ child' = "alive" /\ cpc' \in Starting => ChildAt(cpc', cfds', ch'),
         ChildHasItsStreams'
  PROVE  Streams'
<1>1. /\ UsualParent' = UsualParent
      /\ \A s \in Stream : Type(s)' = Type(s) /\ WantedFile(s)' = WantedFile(s)
  BY SameOptions
<1>3. Made(ppc)' = Made(ppc') /\ Done(cpc)' = Done(cpc') /\ Made(ppc') \subseteq Stream
      /\ Done(cpc') \subseteq Stream
  BY DEF Made, Done, Stream
<1>4. ASSUME UsualParent, ppc' \in Preparing
      PROVE  ParentAt(ppc, fds, h)'
  BY <1>1, <1>3, <1>4 DEF ParentAt, Placed, Filled, NewGone, Source
<1>5. ASSUME UsualParent, child' = "alive", cpc' \in Starting
      PROVE  ChildAt(cpc, cfds, ch)'
  <2>1. ChildAt(cpc', cfds', ch')
    BY <1>5
  <2>2. Placed(Stream, ch)' /\ Filled(Stream \ Done(cpc), cfds, ch)'
    BY <1>1, <1>3, <2>1 DEF ChildAt, Placed, Filled, Source
  <2>3. /\ (\A s \in Done(cpc) : cfds[StdFd[s]] = [file |-> WantedFile(s), cloexec |-> FALSE])'
        /\ (\A s \in Stream : Type(s) = "parent" => cfds[StdFd[s]] = fds0[StdFd[s]])'
    BY <1>1, <1>3, <2>1 DEF ChildAt
  <2>4. ExitEnd(cfds, ch)'
    BY <2>1 DEF ChildAt, ExitEnd
  <2> QED
    BY <1>3, <2>1, <2>2, <2>3, <2>4 DEF ChildAt, NewGone, Kept
<1> QED
  BY <1>1, <1>4, <1>5 DEF Streams

(* A table that only grows by close-on-exec numbers.                       *)
LEMMA PutGrows ==
  ASSUME NEW t \in Table, NEW f \in FreeFds(t), NEW file \in File
  PROVE  /\ \A g \in Fd : t[g] # Closed => Put(t, f, file)[g] = t[g]
         /\ NewGone(t) => NewGone(Put(t, f, file))
<1> DEFINE u == Put(t, f, file)
<1>1. f \in Fd /\ t[f] = Closed
  BY DEF FreeFds
<1>2. u[f].cloexec /\ \A g \in Fd \ {f} : u[g] = t[g]
  BY <1>1 DEF Put, Table
<1> HIDE DEF u
<1>3. \A g \in Fd : t[g] # Closed => u[g] = t[g]
  BY <1>1, <1>2
<1>4. NewGone(t) => NewGone(u)
  BY <1>2 DEF NewGone
<1> QED
  BY <1>3, <1>4 DEF u

LEMMA PipeGrows ==
  ASSUME NEW t \in Table, CanPipe(t), NEW r0 \in File, NEW w \in File
  PROVE  /\ \A g \in Fd : t[g] # Closed => PipeTable(t, r0, w)[g] = t[g]
         /\ NewGone(t) => NewGone(PipeTable(t, r0, w))
<1> DEFINE rf == ReadFd(t)
           wf == WriteFd(t, r0)
           u == Put(t, rf, r0)
<1>1. rf \in FreeFds(t) /\ wf \in FreeFds(t) /\ rf # wf
  BY PipeFacts
<1>2. PipeTable(t, r0, w) = Put(u, wf, w)
  BY DEF PipeTable
<1> HIDE DEF rf, wf
<1>3. u \in Table /\ FreeFds(u) = FreeFds(t) \ {rf}
  BY <1>1, PutFacts DEF FreeFds
<1>4. NewGone(t) => NewGone(u)
  BY <1>1, PutGrows
<1> HIDE DEF u
<1>5. NewGone(u) => NewGone(Put(u, wf, w))
  BY <1>1, <1>3, PutGrows
<1>6. \A g \in Fd : t[g] # Closed => PipeTable(t, r0, w)[g] = t[g]
  BY PipeFacts
<1> QED
  BY <1>2, <1>4, <1>5, <1>6

(* What has been made stays when the table grows.                          *)
LEMMA FilledGrows ==
  ASSUME Given, NEW M \in SUBSET Stream, NEW t, NEW t2, NEW hs, NEW hs2,
         Placed(M, hs), Filled(M, t, hs), \A s \in M : hs2[Childs[s]] = hs[Childs[s]],
         \A g \in Fd : t[g] # Closed => t2[g] = t[g]
  PROVE  Placed(M, hs2) /\ Filled(M, t2, hs2)
<1>1. Placed(M, hs2)
  BY DEF Placed, Source
<1>2. ASSUME NEW s \in M
      PROVE  t2[hs2[Childs[s]]].file = WantedFile(s)
  <2>1. hs[Childs[s]] \in Fd
    BY StreamFacts DEF Placed, Source
  <2>2. t[hs[Childs[s]]].file = WantedFile(s) /\ WantedFile(s) # NoFile
    BY WantedRange DEF Filled, NoFile
  <2>3. t[hs[Childs[s]]] # Closed
    BY <2>2 DEF Closed
  <2> QED
    BY <2>1, <2>2, <2>3
<1> QED
  BY <1>1, <1>2 DEF Filled

(* redirect_init: the number is the parent's own or above all three, and   *)
(* the file the one that is wanted.                                        *)
LEMMA RedirectMakes ==
  ASSUME IndInv, Descriptors, Streams, UsualParent, NEW s \in Stream, RedirectInit(s),
         RedirectStream(s)
  PROVE  /\ Source(s, h'[Childs[s]]) /\ fds'[h'[Childs[s]]].file = WantedFile(s)
         /\ \A x \in Stream \ {s} : h'[Childs[x]] = h[Childs[x]]
         /\ \A g \in Fd : fds[g] # Closed => fds'[g] = fds[g]
         /\ NewGone(fds')
<1> DEFINE Goal == /\ Source(s, h'[Childs[s]]) /\ fds'[h'[Childs[s]]].file = WantedFile(s)
                   /\ \A x \in Stream \ {s} : h'[Childs[x]] = h[Childs[x]]
                   /\ \A g \in Fd : fds[g] # Closed => fds'[g] = fds[g]
                   /\ NewGone(fds')
<1>1. /\ ppc \in Preparing /\ ppc # "returned"
      /\ s = "err" => ppc = "redirect.err"
  BY DEF RedirectInit, Stream, Preparing
<1>2. /\ fclosed = {}
      /\ \A f \in Fd : fds0[f] # Closed => fds[f] = fds0[f]
      /\ \A f \in Low : fds0[f] # Closed /\ f \notin FreeFds(fds)
      /\ UserFd \in Fd \ Low /\ fds0[UserFd].file = "user" /\ fds0[UserFd] # Closed
  BY <1>1, UsualFacts
<1>3. ParentAt(ppc, fds, h) /\ NewGone(fds)
  BY <1>1 DEF Streams, ParentAt
<1>4. fds \in Table /\ h \in [Owner -> Handle] /\ Given
  BY DEF IndInv, TypeOK
<1>5. /\ Childs[s] \in Owner /\ \A x \in Stream \ {s} : Childs[x] # Childs[s] /\ Childs[x] \in Owner
      /\ s \in Owner /\ \A x \in Stream : Childs[x] # s
      /\ StdFd[s] \in Low /\ Low \subseteq Fd
  BY StreamFacts DEF Owner, Parental, ChildEnd, Stream
<1>6. FreeFds(fds) \subseteq Fd \ Low
  BY <1>2 DEF FreeFds
<1>7. CASE Type(s) = "pipe"
  <2> DEFINE rf == ReadFd(fds)
             wf == WriteFd(fds, ReadEnd[s])
  <2>1. ReadEnd[s] \in File /\ WriteEnd[s] \in File
    BY DEF Stream, File, PipeEnd, PipeName, ReadEnd, WriteEnd
  <2>2. /\ CanPipe(fds) /\ fds' = PipeTable(fds, ReadEnd[s], WriteEnd[s])
        /\ IF s = "in" THEN h' = [h EXCEPT ![Childs[s]] = rf, ![s] = wf]
                       ELSE h' = [h EXCEPT ![s] = rf, ![Childs[s]] = wf]
    BY <1>7 DEF RedirectStream, MakePipe
  <2>3. /\ rf \in FreeFds(fds) /\ wf \in FreeFds(fds)
        /\ fds'[rf].file = ReadEnd[s] /\ fds'[wf].file = WriteEnd[s]
    BY <1>4, <2>1, <2>2, PipeFacts
  <2>4. NewGone(fds') /\ \A g \in Fd : fds[g] # Closed => fds'[g] = fds[g]
    BY <1>3, <1>4, <2>1, <2>2, PipeGrows
  <2> HIDE DEF rf, wf
  <2>5. h'[Childs[s]] = IF s = "in" THEN rf ELSE wf
    BY <1>4, <1>5, <2>2
  <2>6. \A x \in Stream \ {s} : h'[Childs[x]] = h[Childs[x]]
    BY <1>4, <1>5, <2>2
  <2>7. WantedFile(s) = IF s = "in" THEN ReadEnd[s] ELSE WriteEnd[s]
    BY <1>7 DEF WantedFile, Wanted
  <2>8. Source(s, h'[Childs[s]])
    BY <1>6, <1>7, <2>3, <2>5 DEF Source
  <2> QED
    BY <2>3, <2>4, <2>5, <2>6, <2>7, <2>8
<1>8. ASSUME NEW f \in Fd, Borrow(s, f), Source(s, f), fds[f].file = WantedFile(s)
      PROVE  Goal
  <2>1. h' = [h EXCEPT ![Childs[s]] = f] /\ fds' = fds
    BY <1>8 DEF Borrow
  <2>2. h'[Childs[s]] = f /\ \A x \in Stream \ {s} : h'[Childs[x]] = h[Childs[x]]
    BY <1>4, <1>5, <2>1
  <2> QED
    BY <1>3, <1>8, <2>1, <2>2 DEF NewGone
<1>9. ASSUME NEW file \in File, OpenFor(s, file), Type(s) # "parent", file = WantedFile(s)
      PROVE  Goal
  <2> DEFINE f == LowestFd(fds)
  <2>1. CanOpen(fds) /\ fds' = Put(fds, f, file) /\ h' = [h EXCEPT ![Childs[s]] = f]
    BY <1>9 DEF OpenFor
  <2>2. f \in FreeFds(fds)
    BY <2>1, Lowest
  <2> HIDE DEF f
  <2>3. f \in Fd \ Low /\ fds'[f].file = file
    BY <1>4, <1>6, <2>1, <2>2, PutFacts
  <2>4. NewGone(fds') /\ \A g \in Fd : fds[g] # Closed => fds'[g] = fds[g]
    BY <1>3, <1>4, <2>1, <2>2, PutGrows
  <2>5. h'[Childs[s]] = f /\ \A x \in Stream \ {s} : h'[Childs[x]] = h[Childs[x]]
    BY <1>4, <1>5, <2>1
  <2> QED
    BY <1>9, <2>3, <2>4, <2>5 DEF Source
<1>10. CASE Type(s) = "parent"
  <2>1. Borrow(s, StdFd[s])
    BY <1>2, <1>10 DEF RedirectStream
  <2>2. fds[StdFd[s]] = [file |-> ParentFile[s], cloexec |-> FALSE]
    BY <1>2, <1>5 DEF UsualParent
  <2>3. WantedFile(s) = ParentFile[s]
    BY <1>10 DEF WantedFile, Wanted
  <2> QED
    BY <1>5, <1>8, <1>10, <2>1, <2>2, <2>3 DEF Source
<1>11. CASE Type(s) \in {"discard", "path"}
  <2>1. \E file \in File : OpenFor(s, file) /\ file = WantedFile(s)
    BY <1>11 DEF RedirectStream, WantedFile, Wanted, File
  <2> QED
    BY <1>9, <1>11, <2>1
<1>12. CASE Type(s) \in {"handle", "file"}
  <2>1. Borrow(s, UserFd) /\ WantedFile(s) = "user"
    BY <1>12 DEF RedirectStream, WantedFile, Wanted
  <2> QED
    BY <1>2, <1>8, <1>12, <2>1 DEF Source
<1>13. CASE Type(s) = "stdout"
  <2>1. s = "err" /\ "out" \in Made(ppc) /\ "out" \in Stream /\ Childs["out"] = "cout"
    BY <1>1, <1>4, <1>13, TypeRange DEF Made, Stream, Childs
  <2>2. Type("out") # "stdout" /\ Type("out") # "parent"
    BY <1>4, <1>13, <2>1, TypeRange DEF UsualParent
  <2>3. h["cout"] \in Fd \ Low /\ fds[h["cout"]].file = WantedFile("out")
    BY <1>3, <2>1, <2>2 DEF ParentAt, Placed, Filled, Source
  <2>4. WantedFile("out") = Wanted("out") /\ WantedFile(s) = Wanted("out")
    BY <1>13, <2>2 DEF WantedFile
  <2>5. Borrow(s, h["cout"])
    BY <1>13 DEF RedirectStream
  <2> QED
    BY <1>8, <1>13, <2>3, <2>4, <2>5 DEF Source
<1> QED
  BY <1>4, <1>7, <1>10, <1>11, <1>12, <1>13, TypeRange DEF Redirect

(* The parent's steps *)

LEMMA StreamsPrepare ==
  ASSUME IndInv, Streams, ppc \in Preparing, UNCHANGED <<options, fds0, fclosed, childVars>>,
         UsualParent /\ ppc' \in Preparing => ParentAt(ppc', fds', h')
  PROVE  Streams'
<1>1. child' = "none"
  BY DEF childVars, IndInv, Parent
<1> QED
  BY <1>1, StreamsFrame DEF ChildHasItsStreams, InProgram

LEMMA StreamsGoOn ==
  ASSUME Streams, ppc' \notin Preparing, UNCHANGED <<options, fds0, fclosed, cpc, cfds, ch>>,
         child' = "alive" => child = "alive"
  PROVE  Streams'
<1>1. /\ UsualParent' = UsualParent
      /\ \A s \in Stream : WantedFile(s)' = WantedFile(s)
  BY SameOptions
<1>2. ChildHasItsStreams'
  BY <1>1 DEF Streams, ChildHasItsStreams, InProgram, StreamsAsAsked
<1>3. UsualParent /\ child' = "alive" /\ cpc' \in Starting => ChildAt(cpc', cfds', ch')
  BY DEF Streams
<1> QED
  BY <1>2, <1>3, StreamsFrame

LEMMA StreamsParse == ASSUME IndInv, Streams, Parse PROVE Streams'
<1>1. /\ ppc = "parse" /\ ppc' \in {"redirect.in", "finish"}
      /\ UNCHANGED <<options, fds0, fclosed, childVars, fds, h>>
  BY DEF Parse, Keep, GoTo
<1>2. UsualParent => ParentAt("parse", fds, h)
  BY <1>1 DEF Streams, Preparing
<1>3. Made("parse") = Made("redirect.in")
  BY DEF Made
<1>4. UsualParent => ParentAt("redirect.in", fds', h')
  BY <1>1, <1>2, <1>3 DEF ParentAt
<1>5. "finish" \notin Preparing
  BY DEF Preparing
<1> QED
  BY <1>1, <1>4, <1>5, StreamsPrepare DEF Preparing

LEMMA StreamsRedirect ==
  ASSUME IndInv, Descriptors, Streams, NEW s \in Stream, RedirectInit(s)
  PROVE  Streams'
<1>1. /\ ppc = [in |-> "redirect.in", out |-> "redirect.out", err |-> "redirect.err"][s]
      /\ ppc \in Preparing /\ UNCHANGED <<options, fds0, fclosed, childVars>>
  BY DEF RedirectInit, Keep, Stream, Preparing
<1>2. CASE GoTo("finish", "EMFILE")
  BY <1>1, <1>2, StreamsPrepare DEF GoTo, Preparing
<1>3. CASE /\ RedirectStream(s)
           /\ GoTo([in |-> "redirect.out", out |-> "redirect.err", err |-> "exit"][s], "ok")
  <2>1. Made(ppc') = Made(ppc) \cup {s} /\ s \notin Made(ppc) /\ Made(ppc) \subseteq Stream
    BY <1>1, <1>3 DEF GoTo, Stream, Made
  <2>2. SUFFICES ASSUME UsualParent PROVE ParentAt(ppc', fds', h')
    BY <1>1, StreamsPrepare
  <2>3. /\ Source(s, h'[Childs[s]]) /\ fds'[h'[Childs[s]]].file = WantedFile(s)
        /\ \A x \in Stream \ {s} : h'[Childs[x]] = h[Childs[x]]
        /\ \A g \in Fd : fds[g] # Closed => fds'[g] = fds[g]
        /\ NewGone(fds')
    BY <1>3, <2>2, RedirectMakes
  <2>4. Placed(Made(ppc), h) /\ Filled(Made(ppc), fds, h)
    BY <1>1, <2>2 DEF Streams, ParentAt
  <2>5. Placed(Made(ppc), h') /\ Filled(Made(ppc), fds', h')
    <3>1. Given /\ \A x \in Made(ppc) : h'[Childs[x]] = h[Childs[x]]
      BY <2>1, <2>3 DEF IndInv
    <3> QED
      BY <2>1, <2>3, <2>4, <3>1, FilledGrows
  <2> QED
    BY <2>1, <2>3, <2>5 DEF ParentAt, Placed, Filled
<1> QED
  BY <1>2, <1>3 DEF RedirectInit

(* The other pipes change nothing for the streams.                         *)
LEMMA StreamsPipe ==
  ASSUME IndInv, Streams, ppc \in Preparing, UNCHANGED <<options, fds0, fclosed, childVars>>,
         Made(ppc) = Stream, Made(ppc') = Stream, NEW p \in PipeName,
         NEW a \in Owner \ ChildEnd, NEW b \in Owner \ ChildEnd, MakePipe(p, a, b)
  PROVE  Streams'
<1>1. SUFFICES ASSUME UsualParent PROVE ParentAt(ppc', fds', h')
  BY StreamsPrepare
<1>2. Placed(Stream, h) /\ Filled(Stream, fds, h) /\ NewGone(fds)
  BY <1>1 DEF Streams, ParentAt
<1>3. fds \in Table /\ h \in [Owner -> Handle] /\ Given
  BY DEF IndInv, TypeOK
<1>4. /\ CanPipe(fds) /\ fds' = PipeTable(fds, ReadEnd[p], WriteEnd[p])
      /\ h' = [h EXCEPT ![a] = ReadFd(fds), ![b] = WriteFd(fds, ReadEnd[p])]
  BY DEF MakePipe
<1>5. ReadEnd[p] \in File /\ WriteEnd[p] \in File
  BY DEF File, PipeEnd
<1>6. NewGone(fds') /\ \A g \in Fd : fds[g] # Closed => fds'[g] = fds[g]
  BY <1>2, <1>3, <1>4, <1>5, PipeGrows
<1>7. \A s \in Stream : h'[Childs[s]] = h[Childs[s]]
  BY <1>3, <1>4, StreamFacts
<1>8. Placed(Stream, h') /\ Filled(Stream, fds', h')
  BY <1>2, <1>3, <1>6, <1>7, FilledGrows
<1> QED
  BY <1>6, <1>8 DEF ParentAt

LEMMA StreamsPipes ==
  ASSUME IndInv, Streams, ExitPipe \/ ReportPipe \/ ForkPipe
  PROVE  Streams'
<1>1. {"exit", "cexit", "report.r", "report.w", "fork.r", "fork.w"} \subseteq Owner \ ChildEnd
  BY DEF Owner, Parental, ChildEnd
<1>2. {"exit", "report", "fork"} \subseteq PipeName
  BY DEF PipeName
<1>3. /\ ppc \in {"exit", "start", "forkpipe"} /\ ppc \in Preparing
      /\ UNCHANGED <<options, fds0, fclosed, childVars>>
  BY DEF ExitPipe, ReportPipe, ForkPipe, Keep, Preparing
<1>4. \A place \in {"exit", "input", "start", "program", "forkpipe", "fork"} : Made(place) = Stream
  BY DEF Made
<1>5. CASE /\ ppc' \in {"input", "program", "fork"}
           /\ \/ MakePipe("exit", "exit", "cexit")
              \/ MakePipe("report", "report.r", "report.w")
              \/ MakePipe("fork", "fork.r", "fork.w")
  <2>1. Made(ppc) = Stream /\ Made(ppc') = Stream
    BY <1>3, <1>4, <1>5
  <2> QED
    BY <1>1, <1>2, <1>3, <1>5, <2>1, StreamsPipe
<1>6. CASE ppc' \in {"finish", "close"}
  BY <1>3, <1>6, StreamsPrepare DEF Preparing
<1> QED
  BY <1>5, <1>6 DEF ExitPipe, ReportPipe, ForkPipe, GoTo

(* setup_input closes the parent's end, which is no end of the child's.    *)
LEMMA StreamsInput == ASSUME IndInv, Descriptors, Streams, SetupInput PROVE Streams'
<1>1. /\ ppc = "input" /\ ppc \in Preparing /\ ppc # "returned"
      /\ UNCHANGED <<options, fds0, fclosed, childVars>>
      /\ ppc' = "finish" \/ (ppc' = "start" /\ (UNCHANGED <<fds, h>> \/
                /\ fds' = Destroy(fds, h["in"]) /\ h' = [h EXCEPT !["in"] = HANDLE_INVALID]))
  BY DEF SetupInput, Keep, Preparing, GoTo
<1>2. CASE ppc' = "finish"
  BY <1>1, <1>2, StreamsPrepare DEF Preparing
<1>3. CASE ppc' = "start"
  <2>1. SUFFICES ASSUME UsualParent PROVE ParentAt(ppc', fds', h')
    BY <1>1, StreamsPrepare
  <2>2. Made(ppc) = Stream /\ Made(ppc') = Stream
    BY <1>1, <1>3 DEF Made
  <2>3. Placed(Stream, h) /\ Filled(Stream, fds, h) /\ NewGone(fds)
    BY <1>1, <2>1, <2>2 DEF Streams, ParentAt
  <2>4. CASE UNCHANGED <<fds, h>>
    BY <2>2, <2>3, <2>4 DEF ParentAt
  <2>5. CASE fds' = Destroy(fds, h["in"]) /\ h' = [h EXCEPT !["in"] = HANDLE_INVALID]
    <3>1. /\ fds \in Table /\ h \in [Owner -> Handle] /\ Given
          /\ Holding(OwnedOwner, fds0, fds, h) /\ "in" \in OwnedOwner /\ FilesOf("in") = {"in.w"}
      BY <1>1, <2>1, UsualFacts, OwnedFacts DEF IndInv, TypeOK, Parental, FilesOf
    <3>2. h["in"] \in Fd => fds[h["in"]].file = "in.w"
      BY <3>1 DEF Holding
    <3>3. \A f \in Fd : f # h["in"] => fds'[f] = fds[f]
      BY <2>5, <3>1 DEF Destroy, Table
    <3>4. \A s \in Stream : h[Childs[s]] \in Fd /\ h[Childs[s]] # h["in"]
      BY <2>3, <3>1, <3>2, StreamFacts, WantedRange DEF Placed, Source, Filled
    <3>5. \A s \in Stream : h'[Childs[s]] = h[Childs[s]]
      BY <2>5, <3>1, StreamFacts DEF ChildEnd
    <3>6. Placed(Stream, h') /\ Filled(Stream, fds', h')
      BY <2>3, <3>3, <3>4, <3>5 DEF Placed, Filled
    <3>7. NewGone(fds')
      BY <2>3, <2>5, <3>1 DEF NewGone, Destroy, Table
    <3> QED
      BY <2>2, <3>6, <3>7 DEF ParentAt
  <2> QED
    BY <1>1, <1>3, <2>4, <2>5
<1> QED
  BY <1>1, <1>2, <1>3

LEMMA StreamsOnward ==
  ASSUME IndInv, Streams, Program \/ BlockSignals \/ ForkFails
  PROVE  Streams'
<1>1. /\ ppc \in {"program", "block", "fork"} /\ ppc \in Preparing
      /\ UNCHANGED <<options, fds0, fclosed, childVars>>
      /\ ppc' = "close" \/ (ppc' \in {"block", "forkpipe"} /\ UNCHANGED <<fds, h>>)
  BY DEF Program, BlockSignals, ForkFails, GoTo, Preparing
<1>2. CASE ppc' = "close"
  BY <1>1, <1>2, StreamsPrepare DEF Preparing
<1>3. CASE ppc' \in {"block", "forkpipe"} /\ UNCHANGED <<fds, h>>
  <2>1. Made(ppc) = Stream /\ Made(ppc') = Stream
    BY <1>1, <1>3 DEF Made
  <2>2. UsualParent => ParentAt(ppc', fds', h')
    BY <1>1, <1>3, <2>1 DEF Streams, ParentAt
  <2> QED
    BY <1>1, <2>2, StreamsPrepare
<1> QED
  BY <1>1, <1>2, <1>3

(* The child begins with a copy of the parent's table and variables.       *)
LEMMA StreamsFork == ASSUME IndInv, Descriptors, Streams, Fork PROVE Streams'
<1>1. /\ ppc = "fork" /\ ppc' = "forked" /\ cpc' = "reset" /\ cfds' = fds /\ ch' = h
      /\ UNCHANGED <<options, fds0, fclosed>>
  BY DEF Fork, Keep, GoTo
<1>2. ASSUME UsualParent PROVE ChildAt("reset", fds, h)
  <2>1. Placed(Stream, h) /\ Filled(Stream, fds, h) /\ NewGone(fds)
    BY <1>1, <1>2 DEF Streams, ParentAt, Preparing, Made
  <2>2. /\ Holding(OwnedOwner, fds0, fds, h)
        /\ \A f \in Fd : fds0[f] # Closed => fds[f] = fds0[f]
        /\ \A f \in Low : fds0[f] # Closed
    BY <1>1, <1>2, UsualFacts
  <2>3. Done("reset") = {}
    BY DEF Done, InFork
  <2>4. \A s \in Stream : fds[StdFd[s]] = fds0[StdFd[s]]
    BY <2>2, StreamFacts
  <2>5. h["cexit"] \in Fd
    BY <1>1 DEF IndInv, Handed
  <2>6. /\ {"cexit", "report.r", "report.w"} \subseteq OwnedOwner
        /\ FilesOf("cexit") = {WriteEnd["exit"]}
    BY OwnedFacts DEF FilesOf, WriteEnd
  <2>7. ExitEnd(fds, h)
    BY <2>2, <2>5, <2>6 DEF Holding, ExitEnd
  <2> QED
    BY <2>1, <2>3, <2>4, <2>7 DEF ChildAt
<1>3. ppc' \notin Preparing /\ ~InProgram'
  BY <1>1 DEF Preparing, InProgram
<1> QED
  BY <1>1, <1>2, <1>3, StreamsFrame DEF ChildHasItsStreams

LEMMA StreamsParent == ASSUME IndInv, Descriptors, Streams, ParentNext PROVE Streams'
<1>1. CASE Forked \/ ForkRead \/ ForkWait \/ ForkClose \/ ReportClose \/ ReportRead \/ ReportWait
           \/ CloseReport \/ Finish
  <2>1. ppc' \in Forking \cup Ending /\ UNCHANGED <<options, fds0, fclosed, cpc, cfds, ch>>
    BY <1>1 DEF Forked, ForkRead, NothingFromFork, ForkWait, WaitTold, ForkClose, ReportClose,
       ReportRead, NothingFromReport, ReportWait, CloseReport, Finish, GoTo, Keep, childVars,
       Forking, Ending
  <2>2. child' = "alive" => child = "alive"
    BY <1>1 DEF Forked, ForkRead, ForkWait, WaitTold, ForkClose, ReportClose, ReportRead,
       ReportWait, CloseReport, Finish, childVars
  <2> QED
    BY <2>1, <2>2, StreamsGoOn DEF Forking, Ending, Preparing
<1> QED
  BY <1>1, StreamsParse, StreamsRedirect, StreamsPipes, StreamsInput, StreamsOnward, StreamsFork
     DEF ParentNext

(* A signal comes while the parent sleeps.                                 *)
LEMMA StreamsInterrupted == ASSUME Streams, Interrupted PROVE Streams'
<1>1. /\ ppc' \in {"report.close", "close", "fork.close", "aborted"}
      /\ UNCHANGED <<options, fds0, fclosed, childVars>>
  BY DEF Interrupted, ForkReadInterrupted, NothingFromFork, ReportReadInterrupted,
     NothingFromReport, ReadAsserts, WaitInterrupted, GoTo, Keep
<1> QED
  BY <1>1, StreamsGoOn DEF childVars, Preparing

(* The child's steps *)

LEMMA StreamsChildStep ==
  ASSUME IndInv, Streams, UNCHANGED parentVars, child # "none",
         UsualParent /\ child' = "alive" /\ cpc' \in Starting => ChildAt(cpc', cfds', ch'),
         ChildHasItsStreams'
  PROVE  Streams'
<1>1. ppc' \notin Preparing /\ UNCHANGED <<options, fds0, fclosed>>
  BY DEF IndInv, Parent, parentVars
<1> QED
  BY <1>1, StreamsFrame

(* At the end of a child there is nothing to say of it.                    *)
LEMMA StreamsDies == ASSUME IndInv, Streams, child = "alive", Dies, UNCHANGED parentVars PROVE Streams'
<1>1. child' = "zombie"
  BY DEF Dies
<1> QED
  BY <1>1, StreamsChildStep DEF ChildHasItsStreams, InProgram

(* Nor of one that has told its error and is about to end.                 *)
LEMMA StreamsTell ==
  ASSUME IndInv, Streams, child = "alive", UNCHANGED parentVars,
         NEW p \in {"fork", "report"}, NEW e \in Errors, Tell(p, e)
  PROVE  Streams'
<1>1. cpc' = "exit" /\ cpc' \notin Starting
  BY DEF Tell, Starting, InFork
<1> QED
  BY <1>1, StreamsChildStep DEF ChildHasItsStreams, InProgram

LEMMA StreamsEarly ==
  ASSUME IndInv, Streams, ResetSignals \/ CheckLimit
  PROVE  Streams'
<1>1. CASE CheckLimit /\ Tell("fork", EINVAL)
  BY <1>1, StreamsTell DEF CheckLimit, At, Errors
<1>2. CASE /\ cpc \in InFork /\ cpc' \in {"limit", "closeall"}
           /\ UNCHANGED <<child, cfds, ch, parentVars>> /\ child = "alive"
  <2>1. Done(cpc) = {} /\ Done(cpc') = {} /\ cpc \in Starting /\ cpc' \in InFork
    BY <1>2 DEF Done, InFork, Starting
  <2>2. UsualParent => ChildAt(cpc', cfds', ch')
    <3>1. SUFFICES ASSUME UsualParent PROVE ChildAt(cpc', cfds', ch')
      OBVIOUS
    <3>2. ChildAt(cpc, cfds, ch)
      BY <1>2, <2>1, <3>1 DEF Streams
    <3> QED
      BY <1>2, <2>1, <3>2 DEF ChildAt, InFork
  <2>3. ~InProgram'
    BY <1>2 DEF InProgram
  <2> QED
    BY <1>2, <2>2, <2>3, StreamsChildStep DEF ChildHasItsStreams
<1> QED
  BY <1>1, <1>2 DEF ResetSignals, CheckLimit, At, InFork

(* Of what the closing loop leaves, only the child's ends can survive exec.*)
LEMMA StreamsCloseAll == ASSUME IndInv, Streams, CloseAll PROVE Streams'
<1> DEFINE forkPipe == {ch["fork.r"], ch["fork.w"]}
           closed   == ({f \in Fd : f < MaxFd} \ (Except \cup forkPipe)) \cup forkPipe
<1>1. /\ child = "alive" /\ cpc = "closeall" /\ cpc' = "dup.in"
      /\ cfds' = DestroyAll(cfds, closed) /\ UNCHANGED <<child, ch, parentVars>>
  BY DEF CloseAll, At
<1>2. SUFFICES ASSUME UsualParent PROVE ChildAt("dup.in", cfds', ch)
  BY <1>1, StreamsChildStep DEF ChildHasItsStreams, InProgram
<1>3. ChildAt("closeall", cfds, ch) /\ NewGone(cfds)
  BY <1>1, <1>2 DEF Streams, ChildAt, Starting, InFork
<1>4. Done("closeall") = {} /\ Done("dup.in") = {}
  BY DEF Done, InFork
<1>5. cfds \in Table /\ ch \in [Owner -> Handle] /\ Given /\ ForkEnds(cfds, ch)
  BY <1>1 DEF IndInv, TypeOK, Pipes, Starting, InFork
<1>6. \A f \in Fd : cfds'[f] = IF f \in closed THEN Closed ELSE cfds[f]
  BY <1>1 DEF DestroyAll
<1>7. Except = {ch[Childs[s]] : s \in Stream} \cup {ch["cexit"], ch["report.r"], ch["report.w"]}
  BY DEF Except, Stream, Childs
<1>8. ASSUME NEW s \in Stream
      PROVE  ch[Childs[s]] \in Fd /\ ch[Childs[s]] \notin closed
  <2>1. ch[Childs[s]] \in Fd /\ cfds[ch[Childs[s]]].file = WantedFile(s)
    BY <1>3, <1>4, StreamFacts DEF ChildAt, Placed, Filled, Source
  <2>2. ch[Childs[s]] \notin forkPipe
    BY <1>5, <2>1, WantedRange DEF ForkEnds, ReadEnd, WriteEnd
  <2> QED
    BY <1>7, <2>1, <2>2
<1>9. ch["cexit"] \in Fd /\ ch["cexit"] \notin closed
  <2>1. ch["cexit"] \in Fd /\ cfds[ch["cexit"]].file = WriteEnd["exit"]
    BY <1>3 DEF ChildAt, ExitEnd
  <2>2. ch["cexit"] \notin forkPipe
    BY <1>5, <2>1 DEF ForkEnds, ReadEnd, WriteEnd
  <2> QED
    BY <1>7, <2>1, <2>2
<1>10. \A f \in Fd \ closed : f \in Except \/ f = MaxFd
  BY FdLimitAssumption DEF Fd, MaxFd
<1> HIDE DEF closed, forkPipe
<1>11. Placed(Stream, ch) /\ Filled(Stream, cfds', ch)
  BY <1>3, <1>4, <1>6, <1>8 DEF ChildAt, Filled
<1>12. \A s \in Stream : Type(s) = "parent" => cfds'[StdFd[s]] = fds0[StdFd[s]]
  BY <1>3, <1>6, <1>8 DEF ChildAt, Placed, Source
<1>13. ExitEnd(cfds', ch)
  BY <1>3, <1>6, <1>9 DEF ChildAt, ExitEnd
<1>14. Kept(cfds', {ch[Childs[s]] : s \in Stream})
  <2>1. \A o \in {"cexit", "report.r", "report.w"} : ch[o] \in Fd => fds0[ch[o]] = Closed
    BY <1>3 DEF ChildAt, ExitEnd
  <2> SUFFICES ASSUME NEW f \in Fd \ Low, f \notin {ch[Childs[s]] : s \in Stream},
                      ~(f = MaxFd /\ fds0[MaxFd] # Closed)
               PROVE  cfds'[f] = Closed \/ cfds'[f].cloexec
    BY DEF Kept
  <2>2. CASE f \in closed
    BY <1>6, <2>2
  <2>3. CASE f \notin closed
    <3>1. fds0[f] = Closed
      BY <1>7, <1>10, <2>1, <2>3
    <3> QED
      BY <1>3, <1>6, <2>3, <3>1 DEF NewGone
  <2> QED
    BY <2>2, <2>3
<1>15. "dup.in" \notin InFork
  BY DEF InFork
<1> QED
  BY <1>4, <1>11, <1>12, <1>13, <1>14, <1>15 DEF ChildAt

(* dup2 gives a stream its file; its number is then closed at exec.        *)
LEMMA StreamsDup == ASSUME IndInv, Streams, NEW s \in Stream, RedirectChild(s) PROVE Streams'
<1> DEFINE from == ch[Childs[s]]
           to   == StdFd[s]
<1>1. /\ child = "alive" /\ cpc = [in |-> "dup.in", out |-> "dup.out", err |-> "dup.err"][s]
      /\ UNCHANGED parentVars /\ cpc \in Starting \ InFork
      /\ cpc \in {"dup.in", "dup.out", "dup.err"}
  BY DEF RedirectChild, At, Stream, Starting, InFork
<1>2. CASE Tell("report", "EBADF")
  BY <1>1, <1>2, StreamsTell DEF Errors
<1>3. CASE /\ cfds' = Redirected(s)
           /\ cpc' = [in |-> "dup.out", out |-> "dup.err", err |-> "chdir"][s]
           /\ UNCHANGED <<child, ch, cmask, told>>
  <2>1. /\ Done(cpc') = Done(cpc) \cup {s} /\ s \notin Done(cpc) /\ Done(cpc') \subseteq Stream
        /\ cpc' \in {"dup.out", "dup.err", "chdir"}
    BY <1>1, <1>3 DEF Done, Stream, InFork
  <2>2. SUFFICES ASSUME UsualParent PROVE ChildAt(cpc', cfds', ch)
    BY <1>1, <1>3, <2>1, StreamsChildStep DEF ChildHasItsStreams, InProgram
  <2>3. /\ ChildAt(cpc, cfds, ch) /\ Kept(cfds, {ch[Childs[x]] : x \in Stream \ Done(cpc)})
        /\ cfds \in Table
    BY <1>1, <2>2 DEF Streams, ChildAt, IndInv, TypeOK
  <2>4. /\ Placed(Stream, ch) /\ Filled(Stream \ Done(cpc), cfds, ch) /\ ExitEnd(cfds, ch)
        /\ \A x \in Done(cpc) : cfds[StdFd[x]] = [file |-> WantedFile(x), cloexec |-> FALSE]
        /\ \A x \in Stream : Type(x) = "parent" => cfds[StdFd[x]] = fds0[StdFd[x]]
    BY <2>3 DEF ChildAt
  <2>5. from \in Fd /\ to \in Low /\ to \in Fd /\ Low \subseteq Fd /\ cfds[from].file = WantedFile(s)
    BY <2>1, <2>4, StreamFacts DEF Placed, Source, Filled
  <2>6. /\ cfds'[to] = [file |-> WantedFile(s), cloexec |-> FALSE]
        /\ \A f \in Fd \ {to} : cfds'[f].file = cfds[f].file
        /\ \A f \in Fd \ {to, from} : cfds'[f] = cfds[f]
        /\ from # to => from \notin Low /\ cfds'[from].cloexec
    <3>1. CASE Type(s) = "parent"
      <4>1. from = to /\ cfds' = cfds
        BY <1>3, <2>4, <3>1 DEF Placed, Source, Redirected, Dup2
      <4>2. cfds[to] = [file |-> ParentFile[s], cloexec |-> FALSE]
        BY <2>2, <2>4, <3>1 DEF UsualParent
      <4>3. WantedFile(s) = ParentFile[s]
        BY <3>1 DEF WantedFile, Wanted
      <4> QED
        BY <4>1, <4>2, <4>3
    <3>2. CASE Type(s) # "parent"
      <4>1. from \notin Low /\ from # to
        BY <2>4, <2>5, <3>2 DEF Placed, Source
      <4> DEFINE t == Dup2(cfds, from, to)
      <4>2. /\ t = [cfds EXCEPT ![to] = [file |-> cfds[from].file, cloexec |-> FALSE]]
            /\ cfds' = Cloexec(t, from, TRUE)
        BY <1>3, <4>1 DEF Redirected, Dup2
      <4> HIDE DEF from, to, t
      <4>3. /\ t \in Table /\ t[to] = [file |-> WantedFile(s), cloexec |-> FALSE]
            /\ \A f \in Fd \ {to} : t[f] = cfds[f]
        BY <2>3, <2>5, <4>2 DEF Table, Entry
      <4>4. /\ cfds'[from] = [t[from] EXCEPT !.cloexec = TRUE] /\ t[from] \in Entry
            /\ \A f \in Fd \ {from} : cfds'[f] = t[f]
        BY <2>5, <4>2, <4>3 DEF Cloexec, Table
      <4>5. cfds'[from].cloexec /\ cfds'[from].file = t[from].file
        BY <4>4 DEF Entry
      <4> QED
        BY <2>5, <4>1, <4>3, <4>4, <4>5
    <3> QED
      BY <3>1, <3>2
  <2>7. \A x \in Stream \ {s} : StdFd[x] # to /\ StdFd[x] \in Low
    BY StreamFacts
  <2> HIDE DEF from, to
  <2>8. Filled(Stream \ Done(cpc'), cfds', ch)
    <3>1. ASSUME NEW x \in Stream \ Done(cpc')
          PROVE  cfds'[ch[Childs[x]]].file = WantedFile(x)
      <4>1. x # s /\ cfds[ch[Childs[x]]].file = WantedFile(x) /\ Source(x, ch[Childs[x]])
        BY <2>1, <2>4 DEF Filled, Placed
      <4>2. ch[Childs[x]] \in Fd \ {to}
        BY <2>5, <2>7, <4>1 DEF Source
      <4> QED
        BY <2>6, <4>1, <4>2
    <3> QED
      BY <3>1 DEF Filled
  <2>9. \A x \in Stream \ {s} : cfds'[StdFd[x]] = cfds[StdFd[x]]
    BY <2>5, <2>6, <2>7
  <2>10. \A x \in Done(cpc') : cfds'[StdFd[x]] = [file |-> WantedFile(x), cloexec |-> FALSE]
    BY <2>1, <2>4, <2>6, <2>9 DEF to
  <2>11. \A x \in Stream : Type(x) = "parent" => cfds'[StdFd[x]] = fds0[StdFd[x]]
    <3>1. CASE Type(s) = "parent"
      <4>1. WantedFile(s) = ParentFile[s] /\ fds0[to] = [file |-> ParentFile[s], cloexec |-> FALSE]
        BY <2>2, <3>1 DEF WantedFile, Wanted, UsualParent, to
      <4> QED
        BY <2>4, <2>6, <2>9, <4>1 DEF to
    <3>2. CASE Type(s) # "parent"
      BY <2>4, <2>9, <3>2
    <3> QED
      BY <3>1, <3>2
  <2>12. ExitEnd(cfds', ch)
    <3>1. ch["cexit"] \in Fd /\ fds0[ch["cexit"]] = Closed
      BY <2>4 DEF ExitEnd
    <3>2. fds0[to] # Closed
      BY <2>2 DEF UsualParent, to, Closed, ParentFile, NoFile, Stream
    <3> QED
      BY <2>4, <2>6, <3>1, <3>2 DEF ExitEnd
  <2>13. Kept(cfds', {ch[Childs[x]] : x \in Stream \ Done(cpc')})
    <3> SUFFICES ASSUME NEW f \in Fd \ Low, f \notin {ch[Childs[x]] : x \in Stream \ Done(cpc')},
                        ~(f = MaxFd /\ fds0[MaxFd] # Closed)
                 PROVE  cfds'[f] = Closed \/ cfds'[f].cloexec
      BY DEF Kept
    <3>1. CASE f = from
      BY <2>5, <2>6, <3>1
    <3>2. CASE f # from
      <4>1. f \notin {ch[Childs[x]] : x \in Stream \ Done(cpc)}
        BY <2>1, <3>2 DEF from
      <4> QED
        BY <2>3, <2>5, <2>6, <3>2, <4>1 DEF Kept
    <3> QED
      BY <3>1, <3>2
  <2>14. cpc' \notin InFork \cup {"exec", "return"}
    BY <2>1 DEF InFork
  <2> QED
    BY <2>4, <2>8, <2>10, <2>11, <2>12, <2>13, <2>14 DEF ChildAt
<1> QED
  BY <1>2, <1>3 DEF RedirectChild

LEMMA StreamsChangeDir == ASSUME IndInv, Streams, ChangeDir PROVE Streams'
<1>1. child = "alive" /\ cpc = "chdir" /\ UNCHANGED parentVars
  BY DEF ChangeDir, At
<1>2. CASE Tell("report", "ENOENT")
  BY <1>1, <1>2, StreamsTell DEF Errors
<1>3. CASE /\ cfds' = Cloexec(cfds, ch["cexit"], FALSE)
           /\ cpc' = IF options.argv THEN "exec" ELSE "return"
           /\ UNCHANGED <<child, ch, cmask, told>>
  <2>1. cpc' \in {"exec", "return"} /\ (cpc' = "exec" => options.argv) /\ (cpc' = "return" => ~options.argv)
    BY <1>3
  <2>2. SUFFICES ASSUME UsualParent PROVE ChildAt(cpc', cfds', ch)
    BY <1>1, <1>3, <2>1, StreamsChildStep DEF ChildHasItsStreams, InProgram
  <2>3. Done("chdir") = Stream /\ Done(cpc') = Stream
    BY <2>1 DEF Done, InFork
  <2>4. ChildAt("chdir", cfds, ch) /\ Kept(cfds, {}) /\ cfds \in Table
    <3>1. ChildAt("chdir", cfds, ch)
      BY <1>1, <2>2 DEF Streams, Starting
    <3>2. {ch[Childs[x]] : x \in Stream \ Done("chdir")} = {}
      BY <2>3
    <3> QED
      BY <3>1, <3>2 DEF ChildAt, IndInv, TypeOK
  <2> DEFINE e == ch["cexit"]
  <2>5. /\ Placed(Stream, ch) /\ ExitEnd(cfds, ch)
        /\ \A x \in Stream : cfds[StdFd[x]] = [file |-> WantedFile(x), cloexec |-> FALSE]
        /\ \A x \in Stream : Type(x) = "parent" => cfds[StdFd[x]] = fds0[StdFd[x]]
    BY <2>3, <2>4 DEF ChildAt
  <2>6. e \in Fd \ Low
    <3>1. e \in Fd /\ fds0[e] = Closed
      BY <2>5 DEF ExitEnd
    <3>2. \A x \in Stream : fds0[StdFd[x]] # Closed
      BY <2>2 DEF UsualParent, Closed, ParentFile, NoFile, Stream
    <3> QED
      BY <3>1, <3>2, StreamFacts
  <2>7. /\ \A f \in Fd \ {e} : cfds'[f] = cfds[f]
        /\ cfds'[e].file = cfds[e].file /\ ~cfds'[e].cloexec
    BY <1>3, <2>4, <2>6 DEF Cloexec, Table, Entry
  <2> HIDE DEF e
  <2>8. ExitEnd(cfds', ch)
    BY <2>5, <2>7 DEF ExitEnd, e
  <2>9. Kept(cfds', {e})
    BY <2>4, <2>7 DEF Kept
  <2>10. \A x \in Stream : cfds'[StdFd[x]] = cfds[StdFd[x]]
    BY <2>6, <2>7, StreamFacts
  <2>11. Filled(Stream \ Done(cpc'), cfds', ch)
    BY <2>3 DEF Filled
  <2>12. cpc' \notin InFork \cup {"dup.in", "dup.out", "dup.err", "chdir"}
    BY <2>1 DEF InFork
  <2> QED
    BY <2>1, <2>3, <2>5, <2>7, <2>8, <2>9, <2>10, <2>11, <2>12 DEF ChildAt, e
<1> QED
  BY <1>2, <1>3 DEF ChangeDir

(* What the program finds open: its streams and the exit pipe.             *)
LEMMA StreamsExec == ASSUME IndInv, Streams, ExecProgram PROVE Streams'
<1>1. child = "alive" /\ cpc = "exec" /\ UNCHANGED parentVars
  BY DEF ExecProgram, At
<1>2. CASE Tell("report", "ENOENT")
  BY <1>1, <1>2, StreamsTell DEF Errors
<1>3. CASE cfds' = Exec(cfds) /\ cpc' = "program" /\ UNCHANGED <<child, ch, cmask, told>>
  <2>1. UNCHANGED <<options, fds0>> /\ cpc' \notin Starting
    BY <1>1, <1>3 DEF parentVars, Starting, InFork
  <2>2. UsualParent' = UsualParent /\ \A s \in Stream : WantedFile(s)' = WantedFile(s)
    BY <2>1, SameOptions
  <2>3. SUFFICES ASSUME UsualParent
                 PROVE  /\ \A s \in Stream : cfds'[StdFd[s]].file = WantedFile(s)
                        /\ fds0[MaxFd] = Closed =>
                              {cfds'[f].file : f \in OpenFds(cfds') \ {0, 1, 2}} = {WriteEnd["exit"]}
    <3>1. /\ options' = options /\ fds0' = fds0
          /\ OpenFds(cfds)' = OpenFds(cfds')
      BY <2>1 DEF OpenFds
    <3>2. ChildHasItsStreams'
      BY <2>2, <2>3, <3>1 DEF ChildHasItsStreams, StreamsAsAsked
    <3> QED
      BY <1>1, <2>1, <3>2, StreamsChildStep
  <2>4. Done("exec") = Stream
    BY DEF Done, InFork
  <2>5. /\ \A s \in Stream : cfds[StdFd[s]] = [file |-> WantedFile(s), cloexec |-> FALSE]
        /\ ExitEnd(cfds, ch) /\ Kept(cfds, {ch["cexit"]}) /\ ~cfds[ch["cexit"]].cloexec
    BY <1>1, <2>3, <2>4 DEF Streams, ChildAt, Starting
  <2>6. \A f \in Fd : cfds'[f] = IF cfds[f].cloexec THEN Closed ELSE cfds[f]
    BY <1>3 DEF Exec
  <2>7. \A s \in Stream : cfds'[StdFd[s]].file = WantedFile(s)
    BY <2>5, <2>6, StreamFacts
  <2>8. ASSUME fds0[MaxFd] = Closed
        PROVE  {cfds'[f].file : f \in OpenFds(cfds') \ {0, 1, 2}} = {WriteEnd["exit"]}
    <3> DEFINE e == ch["cexit"]
    <3>1. e \in Fd /\ cfds'[e].file = WriteEnd["exit"] /\ fds0[e] = Closed
      BY <2>5, <2>6 DEF ExitEnd
    <3>2. e \notin Low
      <4>1. \A s \in Stream : fds0[StdFd[s]] # Closed
        BY <2>3 DEF UsualParent, Closed, ParentFile, NoFile, Stream
      <4> QED
        BY <3>1, <4>1, StreamFacts
    <3>3. cfds'[e] # Closed
      BY <3>1 DEF Closed, NoFile, WriteEnd
    <3> HIDE DEF e
    <3>4. \A f \in Fd \ Low : f # e => cfds'[f] = Closed
      BY <2>5, <2>6, <2>8 DEF Kept, e
    <3>5. OpenFds(cfds') \ {0, 1, 2} = {e}
      BY <3>1, <3>2, <3>3, <3>4 DEF OpenFds, Low
    <3> QED
      BY <3>1, <3>5
  <2> QED
    BY <2>7, <2>8
<1> QED
  BY <1>2, <1>3 DEF ExecProgram

(* reproc_start in the child closes what it has opened, no stream.         *)
LEMMA StreamsReturn == ASSUME IndInv, Streams, ReturnInChild PROVE Streams'
<1> DEFINE S == ChildEnds(Types(options), ch) \cup {ch["report.r"], ch["report.w"]}
<1>1. /\ child = "alive" /\ cpc = "return" /\ cpc' = "program" /\ UNCHANGED <<child, parentVars>>
      /\ cfds' = DestroyAll(cfds, S)
  BY DEF ReturnInChild, At
<1>2. UNCHANGED <<options, fds0>> /\ cpc' \notin Starting
  BY <1>1 DEF parentVars, Starting, InFork
<1>3. UsualParent' = UsualParent /\ \A s \in Stream : WantedFile(s)' = WantedFile(s)
  BY <1>2, SameOptions
<1>4. ASSUME UsualParent
      PROVE  ~options.argv /\ \A s \in Stream : cfds'[StdFd[s]].file = WantedFile(s)
  <2>1. Done("return") = Stream
    BY DEF Done, InFork
  <2>2. /\ \A s \in Stream : cfds[StdFd[s]] = [file |-> WantedFile(s), cloexec |-> FALSE]
        /\ ExitEnd(cfds, ch) /\ Placed(Stream, ch) /\ ~options.argv
    BY <1>1, <1>4, <2>1 DEF Streams, ChildAt, Starting
  <2>3. \A s \in Stream : fds0[StdFd[s]] # Closed
    BY <1>4 DEF UsualParent, Closed, ParentFile, NoFile, Stream
  <2>4. \A o \in {"cexit", "report.r", "report.w"} : ch[o] \notin Low
    BY <2>2, <2>3, StreamFacts DEF ExitEnd
  <2>5. \A s \in Stream : Opened(s, Types(options)) => ch[Childs[s]] \notin Low
    BY <2>2 DEF Placed, Source, Opened, Type
  <2>6. S \cap Low = {}
    BY <2>4, <2>5 DEF ChildEnds
  <2>7. \A s \in Stream : cfds'[StdFd[s]] = cfds[StdFd[s]]
    BY <1>1, <2>6, StreamFacts DEF DestroyAll
  <2>8. \A s \in Stream : cfds'[StdFd[s]] = [file |-> WantedFile(s), cloexec |-> FALSE]
    BY <2>2, <2>7
  <2>9. ASSUME NEW s \in Stream
        PROVE  cfds'[StdFd[s]].file = WantedFile(s)
    <3>1. cfds'[StdFd[s]] = [file |-> WantedFile(s), cloexec |-> FALSE]
      BY <2>8
    <3> QED
      BY <3>1
  <2> QED
    BY <2>2, <2>9, Zenon
<1>5. ChildHasItsStreams'
  BY <1>2, <1>3, <1>4 DEF ChildHasItsStreams, StreamsAsAsked
<1> QED
  BY <1>1, <1>2, <1>5, StreamsChildStep

LEMMA StreamsStep == IndInv /\ Descriptors /\ Streams /\ [Next]_vars => Streams'
<1> SUFFICES ASSUME IndInv, Descriptors, Streams, [Next]_vars PROVE Streams'
  OBVIOUS
<1>1. CASE ChildNext /\ ~Exits
  BY <1>1, StreamsEarly, StreamsCloseAll, StreamsDup, StreamsChangeDir, StreamsExec, StreamsReturn
     DEF ChildNext
<1>2. CASE ChildKilled
  BY <1>2, StreamsDies DEF ChildKilled
<1>3. CASE HostReaps
  BY <1>3, StreamsChildStep DEF HostReaps, ChildHasItsStreams, InProgram
<1>4. CASE Interrupted
  BY <1>4, StreamsInterrupted
<1>5. CASE Exits
  BY <1>5, StreamsDies DEF Exits, At
<1>6. CASE UNCHANGED vars
  <2>1. UNCHANGED <<options, fds0, fclosed, ppc, fds, h, child, cpc, cfds, ch>>
    BY <1>6 DEF vars, parentVars, childVars
  <2>2. UsualParent' = UsualParent /\ \A s \in Stream : WantedFile(s)' = WantedFile(s)
    BY <2>1, SameOptions
  <2>3. ChildHasItsStreams'
    BY <2>1, <2>2 DEF Streams, ChildHasItsStreams, InProgram, StreamsAsAsked
  <2> QED
    BY <2>1, <2>3, StreamsFrame DEF Streams
<1> QED
  BY <1>1, <1>2, <1>3, <1>6, <1>4, <1>5, StreamsParent DEF Next

LEMMA StreamsInit == Init => Streams
<1> SUFFICES ASSUME Init PROVE Streams
  OBVIOUS
<1>1. /\ ppc = "parse" /\ child = "none" /\ fds = fds0 /\ fclosed \in SUBSET Stream
      /\ \A s \in fclosed : fds[StdFd[s]] = Closed
  BY DEF Init
<1>2. ParentAt("parse", fds, h)
  BY <1>1 DEF ParentAt, Made, Placed, Filled, NewGone
<1> QED
  BY <1>1, <1>2 DEF Streams, ChildHasItsStreams, InProgram

(* The child of a usual parent starts its program with each stream at the  *)
(* file the options ask for, and after exec with no descriptor beyond them *)
(* but the exit pipe: for any options, any other descriptors of the parent *)
(* (unless one has the last number of all) and any number of them.  What   *)
(* redirect_init opens is at numbers no dup2 overwrites and is closed at   *)
(* exec, and the closing loop of process_start leaves none of the rest.    *)
THEOREM ProgramHasItsStreams == Spec => []ChildHasItsStreams
<1>1. Init => Descriptors /\ NothingLeaks /\ Streams
  <2>1. Init => result = "none"
    BY DEF Init
  <2>2. "none" \notin Errors
    BY DEF Errors, EINVAL
  <2> QED
    BY <2>1, <2>2, DescInit, StreamsInit DEF NothingLeaks
<1>2. (Descriptors /\ NothingLeaks /\ Streams) /\ IndInv /\ [Next]_vars
         => (Descriptors /\ NothingLeaks /\ Streams)'
  BY DescInductive, StreamsStep
<1>3. Streams => ChildHasItsStreams
  BY DEF Streams
<1> QED
  BY <1>1, <1>2, <1>3, Inductive, PTL DEF Spec
=============================================================================
