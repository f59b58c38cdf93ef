------------------------- MODULE ReprocDrain_proofs -------------------------
(***************************************************************************)
(* Proofs about ReprocDrain, for pipes of any capacity, any deadlines, any *)
(* results of the sinks and children that write any number of chunks.      *)
(***************************************************************************)
EXTENDS ReprocDrain, TLAPS

Places ==
    {"start", "sinks", "drain", "poll", "read.out", "read.err", "drained",
     "stop", "stop.term", "stop.waitpid", "destroy", "destroy.term", "destroy.waitpid",
     "loop", "wait", "wait.waitpid", "report", "crashed", "done"}

Types ==
    /\ pc \in Places /\ r \in Int /\ drained \in Int /\ deadline \in Int
    /\ piped \in SUBSET Stream /\ pipe \in SUBSET Stream
    /\ child \in {"none", "absent", "alive", "zombie", "collected"}
    /\ holders \in [Pipe -> SUBSET {"child", "heir"}]
    /\ inPipe \in [Stream -> Nat]
    /\ pc = "start" => pipe = {}

(* The child writes to a pipe that it has, and gives its heirs what it     *)
(* has: an end of file that the caller sees is final.                      *)
ChildHolds == wants \in Stream => "child" \in holders[wants]

Empty(s) == inPipe[s] = 0 /\ holders[s] = {}

(* A pipe is given up at its end only, until reproc_destroy.               *)
GivenUpAtEnd == pc # "done" => \A s \in Stream \ pipe : Empty(s)

(* What a drain that returned 0 has left, at each place after it.          *)
AfterDrain ==
    program = "run_ex" =>
        /\ pc \notin {"loop", "wait", "wait.waitpid", "report"}
        /\ drained = 0 /\ pc \in {"drained", "stop", "stop.term", "stop.waitpid"} =>
              pipe = {} /\ r = 0
        /\ drained = 0 /\ pc \in {"destroy", "destroy.term", "destroy.waitpid", "done"}
              /\ r >= 0 =>
              child = "collected" /\ \A s \in Stream : Empty(s)

IndInv == Types /\ ChildHolds /\ GivenUpAtEnd /\ AfterDrain

LEMMA Codes ==
    /\ REPROC_ETIMEDOUT \in Int /\ REPROC_ETIMEDOUT < 0
    /\ REPROC_EPIPE \in Int /\ EINTR \in Int /\ EINTR < 0
    /\ ENOENT \in Int /\ ENOENT < 0 /\ ENOMEM \in Int
    /\ REPROC_INFINITE \in Int
BY DEF REPROC_ETIMEDOUT, REPROC_EPIPE, EINTR, ENOENT, ENOMEM, REPROC_INFINITE

LEMMA InitIndInv == Init => IndInv
<1> SUFFICES ASSUME Init PROVE IndInv
  OBVIOUS
<1>1. /\ piped \in SUBSET Stream /\ deadline \in Int
      /\ pc = "start" /\ r = 0 /\ pipe = {} /\ drained = 0
      /\ child = "none" /\ wants = "none"
      /\ holders = [p \in Pipe |-> {}] /\ inPipe = [s \in Stream |-> 0]
  BY DrainAssumption, Codes DEF Init, Stream
<1> QED
  BY <1>1 DEF IndInv, Types, ChildHolds, GivenUpAtEnd, AfterDrain, Empty, Places, Stream, Pipe

(* The caller goes on within a call, and the child is not involved.        *)
LEMMA CallerStep ==
  ASSUME IndInv, UNCHANGED <<program, piped, pipe, childVars, deadline>>,
         drained' \in Int, r' \in Int,
         pc' \in Places \ {"start", "done"}, pc # "done", AfterDrain'
  PROVE  IndInv'
BY DEF IndInv, Types, ChildHolds, GivenUpAtEnd, Empty, childVars

(* The child and its heir write, let go of the pipes, or end.              *)
LEMMA SystemStep ==
  ASSUME IndInv, UNCHANGED <<callerVars, deadline>>,
         holders' \in [Pipe -> SUBSET {"child", "heir"}],
         inPipe' \in [Stream -> Nat],
         child' = child \/ (child = "alive" /\ child' = "zombie"),
         wants' \in Stream => "child" \in holders'[wants'],
         \A s \in Stream : Empty(s) => inPipe'[s] = 0 /\ holders'[s] = {}
  PROVE  IndInv'
<1>1. Types' /\ ChildHolds'
  BY DEF IndInv, Types, ChildHolds, callerVars
<1>2. GivenUpAtEnd'
  BY DEF IndInv, GivenUpAtEnd, Empty, callerVars
<1>3. AfterDrain'
  BY DEF IndInv, AfterDrain, Empty, callerVars
<1> QED
  BY <1>1, <1>2, <1>3 DEF IndInv

LEMMA SystemNextStep ==
  ASSUME IndInv, SystemNext
  PROVE  IndInv'
<1> USE DEF IndInv, Types
<1>0. UNCHANGED <<callerVars, deadline>>
  BY DEF SystemNext
<1>1. CASE ChildWants
  <2>1. child' = child /\ holders' = holders /\ inPipe' = inPipe /\ wants' \in ChildHas
    BY <1>1 DEF ChildWants
  <2> QED
    BY <1>0, <2>1, SystemStep DEF ChildHas, Empty
<1>2. CASE ChildWrites
  <2>1. /\ wants \in Stream /\ wants \in pipe /\ child = "alive"
        /\ inPipe' = [inPipe EXCEPT ![wants] = @ + 1]
        /\ child' = child /\ holders' = holders /\ wants' = "none"
    BY <1>2 DEF ChildWrites
  <2>2. "none" \notin Stream
    BY DEF Stream
  <2> QED
    BY <1>0, <2>1, <2>2, SystemStep DEF ChildHolds, Pipe, Empty
<1>3. CASE child = "alive" /\ Ends
  <2>1. "none" \notin Stream /\ Stream \subseteq Pipe
    BY DEF Stream, Pipe
  <2> QED
    BY <1>0, <1>3, <2>1, SystemStep DEF Ends, Empty
<1>4. CASE ChildForks
  <2>1. PICK p \in ChildHas : holders' = [holders EXCEPT ![p] = @ \cup {"heir"}]
    BY <1>4 DEF ChildForks
  <2>2. child' = child /\ inPipe' = inPipe /\ wants' = wants
    BY <1>4 DEF ChildForks
  <2>3. p \in Pipe /\ holders[p] # {} /\ Stream \subseteq Pipe
    BY DEF ChildHas, Pipe
  <2> QED
    BY <1>0, <2>1, <2>2, <2>3, SystemStep DEF ChildHolds, Empty
<1>5. CASE ChildLetsGo
  <2>1. PICK p \in ChildHas : holders' = [holders EXCEPT ![p] = @ \ {"child"}]
    BY <1>5 DEF ChildLetsGo
  <2>2. child' = child /\ inPipe' = inPipe /\ wants' = "none"
    BY <1>5 DEF ChildLetsGo
  <2>3. p \in Pipe /\ "none" \notin Stream /\ Stream \subseteq Pipe
    BY DEF ChildHas, Pipe, Stream
  <2> QED
    BY <1>0, <2>1, <2>2, <2>3, SystemStep DEF Empty
<1>6. CASE HeirEnds
  <2>1. Stream \subseteq Pipe
    BY DEF Pipe
  <2> QED
    BY <1>0, <1>6, <2>1, SystemStep DEF HeirEnds, ChildHolds, Empty
<1> QED
  BY <1>1, <1>2, <1>3, <1>4, <1>5, <1>6
     DEF SystemNext, ChildNext, ChildBreaks, ChildExits, ChildTermed

(* What a caller's own step may do to the pipes: it reads from one, or     *)
(* gives it up empty.                                                      *)
LEMMA ReadStep ==
  ASSUME IndInv, NEW s \in Stream, (\E n \in 1 .. Capacity : ReadData(s, n)) \/ ReadEnd(s),
         UNCHANGED <<program, piped, child, holders, wants, left, stubborn, deadline>>,
         drained' \in Int, r' \in Int, pc' \in Places \ {"start", "done"}, pc # "done", AfterDrain'
  PROVE  IndInv'
<1> USE DEF IndInv, Types
<1>1. CASE \E n \in 1 .. Capacity : ReadData(s, n)
  <2>1. PICK n \in 1 .. inPipe[s] : inPipe' = [inPipe EXCEPT ![s] = @ - n] /\ pipe' = pipe
    BY <1>1 DEF ReadData
  <2>2. inPipe' \in [Stream -> Nat]
    BY <2>1
  <2> QED
    BY <2>1, <2>2 DEF ChildHolds, GivenUpAtEnd, Empty
<1>2. CASE ReadEnd(s)
  <2>1. Empty(s) /\ pipe' = pipe \ {s} /\ inPipe' = inPipe
    BY <1>2 DEF ReadEnd, Empty
  <2> QED
    BY <2>1 DEF ChildHolds, GivenUpAtEnd, Empty
<1> QED
  BY <1>1, <1>2

LEMMA DrainStep ==
  ASSUME IndInv, InitialSinks \/ DrainPoll \/ PollReadable \/ PollExpires \/ Drained
  PROVE  IndInv'
<1> USE DEF IndInv, Types, KeepCaller, AfterDrain, GoTo, DrainReturns, Places
<1>1. CASE InitialSinks
  <2>1. PICK v \in SinkResults : SinkReturns(v)
    BY <1>1 DEF InitialSinks
  <2>2. v \in Int
    BY DrainAssumption
  <2> QED
    BY <1>1, <2>1, <2>2, CallerStep DEF InitialSinks, SinkReturns
<1>2. CASE DrainPoll
  BY <1>2, Codes, CallerStep DEF DrainPoll
<1>3. CASE PollReadable
  BY <1>3, CallerStep DEF PollReadable
<1>4. CASE PollExpires
  BY <1>4, Codes, CallerStep DEF PollExpires
<1>5. CASE Drained
  BY <1>5, CallerStep DEF Drained
<1> QED
  BY <1>1, <1>2, <1>3, <1>4, <1>5

LEMMA ReadAndSinkStep ==
  ASSUME IndInv, ReadAndSink
  PROVE  IndInv'
<1>1. PICK v \in SinkResults : SinkReturns(v)
  BY DEF ReadAndSink
<1>2. v \in Int
  BY DrainAssumption
<1>3. /\ drained' \in Int /\ r' \in Int /\ pc' \in {"drain", "drained"}
      /\ pc' = "drained" => drained' # 0
  BY <1>1, <1>2 DEF SinkReturns, GoTo, DrainReturns, IndInv, Types
<1>4. AfterDrain'
  BY <1>3 DEF AfterDrain
<1>5. PICK s \in Stream :
        /\ pc \in {"read.out", "read.err"}
        /\ (\E n \in 1 .. Capacity : ReadData(s, n)) \/ ReadEnd(s)
  BY DEF ReadAndSink
<1> QED
  BY <1>3, <1>4, <1>5, ReadStep DEF ReadAndSink, KeepCaller, Places, IndInv, Types

(* reproc_stop and reproc_wait: a child is collected, or the call gives    *)
(* up; reproc_destroy closes what is left.                                 *)
LEMMA StopStep ==
  ASSUME IndInv, child' = child \/ (child = "zombie" /\ child' = "collected"),
         UNCHANGED <<program, piped, wants, holders, inPipe, deadline, drained>>,
         pipe' \in SUBSET Stream, pipe' = pipe \/ pc' = "done", r' \in Int,
         pc' \in Places \ {"start"}, pc # "done", AfterDrain'
  PROVE  IndInv'
BY DEF IndInv, Types, ChildHolds, GivenUpAtEnd, Empty

LEMMA CollectStep ==
  ASSUME IndInv, StopCollects
  PROVE  IndInv'
<1> USE DEF IndInv, Types, KeepCaller, GoTo, Places, InStop, InDestroy, StopReturns
<1>1. /\ child = "zombie" /\ child' = "collected"
      /\ UNCHANGED <<program, piped, wants, holders, inPipe, deadline, drained>>
  BY DEF StopCollects, Collect
<1>2. CASE InStop /\ pc' = "destroy" /\ r' = 0 /\ pipe' = pipe
  <2>1. AfterDrain'
    BY <1>1, <1>2 DEF AfterDrain, GivenUpAtEnd, Empty
  <2> QED
    BY <1>1, <1>2, <2>1, StopStep
<1>3. CASE InDestroy /\ pc' = "done" /\ r' = r /\ pipe' = {}
  <2>1. AfterDrain'
    BY <1>1, <1>3 DEF AfterDrain, Empty
  <2> QED
    BY <1>1, <1>3, <2>1, StopStep
<1> QED
  BY <1>2, <1>3 DEF StopCollects

LEMMA CallerNextStep ==
  ASSUME IndInv, CallerNext
  PROVE  IndInv'
<1> USE DEF KeepCaller, GoTo, Places
<1>1. CASE Start
  <2>1. /\ child' \in {"alive", "absent"} /\ pipe' = piped /\ inPipe' = inPipe
        /\ \/ holders' = [p \in Pipe |-> IF p \in piped \cup {"exit"} THEN {"child"} ELSE {}]
           \/ holders' = holders
        /\ wants' = wants
        /\ pc' = (IF program = "run_ex" THEN "sinks" ELSE "loop") /\ r' = 1
        /\ UNCHANGED <<program, piped, drained, deadline>>
    BY <1>1 DEF Start
  <2>3. \A s \in Stream : Empty(s)
    BY <1>1 DEF Start, IndInv, Types, GivenUpAtEnd
  <2>2. Types' /\ ChildHolds' /\ AfterDrain'
    BY <2>1, <2>3 DEF IndInv, Types, ChildHolds, AfterDrain, Empty
  <2>5. Stream \subseteq Pipe /\ "exit" \notin Stream
    BY DEF Stream, Pipe
  <2>4. GivenUpAtEnd'
    BY <2>1, <2>3, <2>5 DEF GivenUpAtEnd, Empty
  <2> QED
    BY <2>2, <2>4 DEF IndInv
<1>2. CASE StartFails
  BY <1>2, Codes, CallerStep DEF StartFails, IndInv, Types, AfterDrain
<1>3. CASE InitialSinks \/ DrainPoll \/ PollReadable \/ PollExpires \/ Drained
  BY <1>3, DrainStep
<1>4. CASE ReadAndSink
  BY <1>4, ReadAndSinkStep
<1>5. CASE StopCollects
  BY <1>5, CollectStep
<1>6. CASE ExitHangsUp
  <2>1. AfterDrain'
    BY <1>6 DEF ExitHangsUp, InPoll, InStop, InDestroy, InWaitpid, IndInv, AfterDrain, Empty,
       childVars
  <2> QED
    BY <1>6, <2>1, CallerStep
       DEF ExitHangsUp, InPoll, InStop, InDestroy, InWaitpid, IndInv, Types
<1>7. CASE WaitAsserts
  <2>1. AfterDrain'
    BY <1>7 DEF WaitAsserts, IndInv, AfterDrain
  <2> QED
    BY <1>7, <2>1, CallerStep DEF WaitAsserts, InWaitpid, IndInv, Types
<1>8. CASE StopTerminates
  <2>1. AfterDrain'
    BY <1>8 DEF StopTerminates, IndInv, AfterDrain, Empty, childVars
  <2> QED
    BY <1>8, <2>1, CallerStep DEF StopTerminates, IndInv, Types
<1>9. CASE NothingToStop
  <2>1. AfterDrain'
    BY <1>9 DEF NothingToStop, IndInv, AfterDrain, Empty, childVars
  <2> QED
    BY <1>9, <2>1, StopStep DEF NothingToStop, IndInv, Types, childVars
<1>10. CASE LoopReads
  <2>1. "out" \in Stream
    BY DEF Stream
  <2>2. /\ (\E n \in 1 .. Capacity : ReadData("out", n)) \/ ReadEnd("out")
        /\ pc' \in {"loop", "report", "wait"} /\ r' \in Int
    BY <1>10, DrainAssumption, Codes DEF LoopReads
  <2>3. AfterDrain'
    BY <1>10, <2>2 DEF LoopReads, IndInv, AfterDrain
  <2> QED
    BY <1>10, <2>1, <2>2, <2>3, ReadStep DEF LoopReads, IndInv, Types
<1>11. CASE WaitReturns
  <2>1. AfterDrain'
    BY <1>11 DEF WaitReturns, IndInv, AfterDrain
  <2>2. /\ child' = child \/ (child = "zombie" /\ child' = "collected")
        /\ pc' = "report" /\ r' \in Int /\ pc \in {"wait", "wait.waitpid"}
    BY <1>11, Codes DEF WaitReturns, Collect
  <2>3. /\ UNCHANGED <<program, piped, wants, holders, inPipe, deadline, drained>>
        /\ pipe' = pipe
    BY <1>11 DEF WaitReturns
  <2> QED
    BY <2>1, <2>2, <2>3, StopStep DEF IndInv, Types
<1>12. CASE Report
  <2>1. AfterDrain'
    BY <1>12 DEF Report, IndInv, AfterDrain
  <2> QED
    BY <1>12, <2>1, CallerStep DEF Report, IndInv, Types
<1> QED
  BY <1>1, <1>2, <1>3, <1>4, <1>5, <1>8, <1>9, <1>10, <1>11, <1>12, <1>6, <1>7
     DEF CallerNext

LEMMA InterruptedStep ==
  ASSUME IndInv, Interrupted
  PROVE  IndInv'
<1> USE DEF IndInv, Types, KeepCaller, GoTo, DrainReturns, Places, StopReturns, InStop, InDestroy
<1>1. UNCHANGED <<program, piped, childVars, deadline>>
  BY DEF Interrupted
<1>2. CASE pc = "poll" /\ DrainReturns(EINTR) /\ UNCHANGED pipe
  BY <1>1, <1>2, Codes, CallerStep DEF AfterDrain
<1>3. CASE pc \in {"loop", "wait", "wait.waitpid"} /\ GoTo("report", EINTR) /\ UNCHANGED <<pipe, drained>>
  BY <1>1, <1>3, Codes, CallerStep DEF AfterDrain
<1>4. CASE InStop /\ pc' = "destroy" /\ r' = EINTR /\ UNCHANGED <<pipe, drained>>
  BY <1>1, <1>4, Codes, StopStep DEF AfterDrain, childVars
<1>5. CASE InDestroy /\ pc' = "done" /\ r' = r /\ pipe' = {} /\ UNCHANGED drained
  <2>1. AfterDrain'
    BY <1>1, <1>5 DEF AfterDrain, Empty, childVars
  <2> QED
    BY <1>1, <1>5, <2>1, StopStep DEF childVars
<1> QED
  BY <1>2, <1>3, <1>4, <1>5 DEF Interrupted

LEMMA StepIndInv == IndInv /\ [Next]_vars => IndInv'
<1> SUFFICES ASSUME IndInv, [Next]_vars PROVE IndInv'
  OBVIOUS
<1>1. CASE CallerNext
  BY <1>1, CallerNextStep
<1>2. CASE Interrupted
  BY <1>2, InterruptedStep
<1>3. CASE SystemNext
  BY <1>3, SystemNextStep
<1>4. CASE Tick \/ UNCHANGED vars
  BY <1>4 DEF Tick, vars, callerVars, childVars, IndInv, Types, ChildHolds, GivenUpAtEnd,
     AfterDrain, Empty
<1> QED
  BY <1>1, <1>2, <1>3, <1>4 DEF Next

(* The types, the holders of the pipes and the reader's books, at every     *)
(* step of the child, its heirs and the reader.                            *)
THEOREM Inductive == Spec => []IndInv
BY InitIndInv, StepIndInv, PTL DEF Spec

(* A run that drained its child's pipes to their ends, and then returns a  *)
(* status, has waited for the child and left nothing unread (reproc_run_ex *)
(* and reproc_drain), however the sinks, signals and heirs interfere.      *)
THEOREM RunIsDelivered == Spec => []RunDelivers
<1>1. IndInv => RunDelivers
  BY DEF IndInv, AfterDrain, RunDelivers, Empty
<1> QED
  BY <1>1, Inductive, PTL
=============================================================================
